\* Two processes and two commands; four tokens are one for each file they can know of.
CONSTANTS
  Pids = {p1, p2}
  Commands = {c1, c2}
  Tokens = {k1, k2, k3, k4}
  None = None
SPECIFICATION Spec
SYMMETRY Alike
INVARIANTS OneInstance FileIsOwners
PROPERTIES NotTakenAway StopDone
