\* Two tasks with one command line and a process zlt did not start: a start may
\* adopt any of them.
SPECIFICATION Spec
CONSTANTS
  t1 = t1  t2 = t2  p1 = p1  p2 = p2  c1 = c1  c2 = c2  h1 = h1  h2 = h2  r1 = r1  r2 = r2
  Tasks = {t1, t2}
  Pids = {p1, p2}
  ExternalPids = {p2}
  Callers = {c1}
  Chans = {h1}
  Timers = {r1}
  Program <- SameProgram
  Configs <- CfgsPlain
  HealthThreshold = 1
  CrashBound = 1
  KillMayFail = TRUE
  NoTask = NoTask  NoPid = NoPid  NoChan = NoChan  NoTimer = NoTimer
SYMMETRY AdoptSymmetry
INVARIANTS NoDuplicate ChildOwned
PROPERTIES TasksSupervised
