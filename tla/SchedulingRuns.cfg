\* One task, one schedule and two goroutines.
SPECIFICATION Spec
CONSTANTS
  Tasks = {t1}
  Ids = {s1}
  Threads = {x1, x2}
  Actions = {"start", "stop", "restart"}
  MayEdit = TRUE
  StopMayFail = TRUE
  NoTask = NoTask  NoSchedule = NoSchedule  NoId = NoId
SYMMETRY ThreadSymmetry
\* zlt exits: nothing happens once it is closed.
CHECK_DEADLOCK FALSE
INVARIANTS OneRun EntriesCurrent TaskInUse
PROPERTIES DeletedStaysDeleted
