CONSTANTS
  Task = {t1, t2}
  Step = {s1, s2}
  Token = {k1, k2, k3}
  Client = {c1, c2}
  None = None
  MaxLease = 1
  MaxLag = 1
  Engine = "sqlite"
SPECIFICATION Spec
SYMMETRY Symmetry
INVARIANTS
  TypeOK
  TerminalIsSettled
  VerdictIsTruthful
  SqliteInvariant
PROPERTIES
  LastFinishCloses
  OutcomeIsFenced
  ClosedIsFinal
  ImplementsLedger
