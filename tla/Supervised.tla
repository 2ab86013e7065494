------------------------------ MODULE Supervised ------------------------------
(***************************************************************************)
(* What the task manager (internal/process/manager.go) promises about the  *)
(* tasks it supervises, without the goroutines, locks, channels and pids   *)
(* it keeps the promise with.  TaskManager implements it: see              *)
(* TasksSupervised there.                                                  *)
(*                                                                         *)
(* A task is absent, down, up or being stopped.  It comes up only because  *)
(* somebody starts it, or by an automatic restart that is waiting, that    *)
(* the policy allows, that is within the budget and that no user's stop    *)
(* has called off; one process at most is launched for it at a time.       *)
(*                                                                         *)
(* A step of a task is a relation between its record r and the next, s.    *)
(***************************************************************************)
EXTENDS Naturals

CONSTANT Tasks    \* task IDs

(* A task may be restarted, and at most max times unless max is 0.          *)
Policies == [restart : BOOLEAN, max : Nat]

VARIABLE task   \* task ID -> its record

Absent ==
  [phase |-> "absent", policy |-> [restart |-> FALSE, max |-> 0],
   waiting |-> FALSE, halted |-> FALSE, restarts |-> 0, alive |-> FALSE]

RecordType ==
  [phase    : {"absent", "down", "up", "stopping"},
   policy   : Policies,
   waiting  : BOOLEAN,     \* an automatic restart is waiting
   halted   : BOOLEAN,     \* a user's stop stands
   restarts : Nat,         \* automatic restarts since the last deliberate start
   alive    : BOOLEAN]     \* a process launched for the task is not yet reaped

(* A task new to the manager, which may find its process running already.   *)
Installed(s) ==
  \/ s = Absent
  \/ /\ s.phase \in {"down", "up"} /\ s.policy \in Policies
     /\ s = [Absent EXCEPT !.phase = s.phase, !.policy = s.policy]

AtRest(r) == r.phase \in {"absent", "down"} /\ ~r.alive

Edit(r, s) ==
  /\ AtRest(r)
  /\ s.policy \in Policies
  /\ s = [r EXCEPT !.phase = "down", !.policy = s.policy,
                   !.waiting = FALSE, !.restarts = 0]

(* The policy alone may change at any time; without it nothing waits.       *)
SwitchPolicy(r, s) ==
  /\ r.phase # "absent"
  /\ s.policy.restart \in BOOLEAN
  /\ s = [r EXCEPT !.policy.restart = s.policy.restart,
                   !.waiting = @ /\ s.policy.restart]

Remove(r, s) == r.phase = "down" /\ AtRest(r) /\ s = Absent

(* A start launches a process, finds one that runs already, or fails.       *)
Launched(r, s) ==
  \/ s = r
  \/ s.alive \in BOOLEAN /\ s = [r EXCEPT !.phase = "up", !.alive = s.alive]

Fresh(r) == [r EXCEPT !.waiting = FALSE, !.restarts = 0]

(* A deliberate start.  When the task is not down it is refused, but it has *)
(* set the count back by then.                                              *)
Start(r, s) ==
  \/ r.phase = "down" /\ ~r.alive /\ Launched([Fresh(r) EXCEPT !.halted = FALSE], s)
  \/ r.phase \in {"up", "stopping"} /\ s = Fresh(r)

Stop(r, s) ==
  /\ r.phase # "absent"
  /\ s = [r EXCEPT !.halted = TRUE, !.waiting = FALSE,
                   !.phase = IF @ = "down" THEN @ ELSE "stopping"]

(* A stop that could not be carried out is reported and stands no longer.   *)
StopFails(r, s) == r.halted /\ s = [r EXCEPT !.halted = FALSE]

HealthStop(r, s) == r.phase = "up" /\ s = [r EXCEPT !.phase = "stopping"]

MayRestart(r) ==
  /\ r.policy.restart /\ ~r.halted
  /\ r.policy.max = 0 \/ r.restarts < r.policy.max

(* The task is down: its process has ended by itself, or its stop is done.  *)
Ends(r, s) ==
  /\ r.phase = "stopping" \/ (r.phase = "up" /\ r.alive)
  /\ s.waiting \in BOOLEAN
  /\ s.waiting => MayRestart(r)
  /\ s = [r EXCEPT !.phase = "down", !.alive = FALSE, !.waiting = s.waiting]

(* The one way for a task to come back by itself.                           *)
Restart(r, s) ==
  /\ r.phase = "down" /\ ~r.alive /\ r.waiting /\ MayRestart(r)
  /\ Launched([r EXCEPT !.waiting = FALSE, !.restarts = @ + 1], s)

Step(r, s) ==
  \/ Edit(r, s) \/ SwitchPolicy(r, s) \/ Remove(r, s)
  \/ Start(r, s) \/ Stop(r, s) \/ StopFails(r, s) \/ HealthStop(r, s)
  \/ Ends(r, s) \/ Restart(r, s)

Init == /\ task = [t \in Tasks |-> task[t]]
        /\ \A t \in Tasks : Installed(task[t])

(* An import puts a new list of tasks in place of one that is all at rest.  *)
Import ==
  /\ \A t \in Tasks : AtRest(task[t]) /\ Installed(task'[t])
  /\ task' = [t \in Tasks |-> task'[t]]

Next ==
  \/ Import
  \/ \E t \in Tasks : \E r \in {task[t]}, s \in {task'[t]} :
       Step(r, s) /\ task' = [task EXCEPT ![t] = s]

Spec == Init /\ [][Next]_task
==============================================================================
