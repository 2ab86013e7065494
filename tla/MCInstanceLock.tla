---------------------------- MODULE MCInstanceLock ---------------------------
(* InstanceLock for TLC: processes, commands and tokens are alike.         *)
EXTENDS InstanceLock, TLC

Alike == Permutations(Pids) \cup Permutations(Commands) \cup Permutations(Tokens)
==============================================================================
