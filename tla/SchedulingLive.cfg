\* One task, one schedule, two goroutines that restart the task; stops succeed.
SPECIFICATION FairSpec
CONSTANTS
  Tasks = {t1}
  Ids = {s1}
  Threads = {x1, x2}
  Actions = {"restart"}
  MayEdit = FALSE
  StopMayFail = FALSE
  NoTask = NoTask  NoSchedule = NoSchedule  NoId = NoId
\* zlt exits: nothing happens once it is closed.
CHECK_DEADLOCK FALSE
INVARIANTS HaltedStaysDown
PROPERTIES RunsEnd ShutdownEnds
