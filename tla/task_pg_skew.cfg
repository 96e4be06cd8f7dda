CONSTANTS
  Task = {t1}
  Step = {s1, s2}
  Token = {k1, k2, k3, k4}
  Client = {c1, c2}
  None = None
  MaxLease = 1
  MaxLag = 1
  Engine = "postgresql"
SPECIFICATION Spec
SYMMETRY Symmetry
PROPERTIES
  LastFinishCloses
