\* README.md:123: a stop of the instance stops the tasks it manages.
SPECIFICATION Spec
CONSTANTS
  Tasks = {t1}
  Ids = {s1}
  Threads = {x1, x2}
  Actions = {"start", "stop", "restart"}
  MayEdit = FALSE
  StopMayFail = FALSE
  NoTask = NoTask  NoSchedule = NoSchedule  NoId = NoId
\* zlt exits: nothing happens once it is closed.
CHECK_DEADLOCK FALSE
INVARIANTS TasksStopped
