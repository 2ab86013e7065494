CONSTANTS
  Pids = {p1, p2}
  Commands = {c1}
  Tokens = {k1, k2, k3}
  None = None
SPECIFICATION Spec
SYMMETRY Alike
PROPERTY RefusedByInstance
