---------------------------- MODULE MCTaskManager ----------------------------
(* Values of the constants of TaskManager for TLC.                          *)
EXTENDS TaskManager, TLC

CONSTANTS t1, t2, p1, p2, c1, c2, h1, h2, r1, r2

(* Every task its own command line, or all tasks the same.                  *)
OwnProgram  == [t \in Tasks |-> t]
SameProgram == [t \in Tasks |-> "prog"]

Restarting1  == [restart |-> TRUE,  max |-> 1, health |-> TRUE]
RestartingNo == [restart |-> FALSE, max |-> 0, health |-> TRUE]
Unlimited    == [restart |-> TRUE,  max |-> 0, health |-> FALSE]

CfgsCore  == {Restarting1, Unlimited}
CfgsOne   == {Restarting1}
CfgsLive  == {Restarting1, RestartingNo}
CfgsPlain == {[restart |-> TRUE, max |-> 1, health |-> FALSE]}

CoreSymmetry == Permutations(Pids) \cup Permutations(Chans)
                  \cup Permutations(Timers) \cup Permutations(Callers)

AdoptSymmetry == Permutations(Tasks)
==============================================================================
