\* One task, one process that zlt did not start.
SPECIFICATION Spec
CONSTANTS
  t1 = t1  t2 = t2  p1 = p1  p2 = p2  c1 = c1  c2 = c2  h1 = h1  h2 = h2  r1 = r1  r2 = r2
  Tasks = {t1}
  Pids = {p1, p2}
  ExternalPids = {p2}
  Callers = {c1, c2}
  Chans = {h1, h2}
  Timers = {r1, r2}
  Program <- OwnProgram
  Configs <- CfgsOne
  HealthThreshold = 2
  CrashBound = 2
  KillMayFail = TRUE
  NoTask = NoTask  NoPid = NoPid  NoChan = NoChan  NoTimer = NoTimer

INVARIANTS StopIsDone
