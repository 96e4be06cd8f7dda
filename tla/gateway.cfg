CONSTANTS
  Task = {"t"}
  Tool = {"gpu", "buy", "push"}
  Action <- MCAction
  ToolInfo <- MCToolInfo
  Id = {g1}
  Approval = {}
  None = None
  ApprovalTtl = 1
  MaxDay = 0
  Client = {c1, c2}
  Engines = {"sqlite", "postgresql"}
  GrantTtl = 1
SPECIFICATION Spec
SYMMETRY Symmetry
INVARIANTS
  TypeOK
  EffectsAreGranted
  LogIsTruthful
  SettledIsActual
  GatewayInvariant
PROPERTIES
  RedeemedWhileShared
