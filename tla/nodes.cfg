CONSTANTS
  Node = {"desk", "cloud"}
  Manager = {"m"}
  Org = {"a", "b"}
  NodeInfo <- MCNodeInfo
  Allowlisted = {}
  Prober = {"monitor", "operator"}
  Monitor = "monitor"
  Call = {"c"}
  Request <- MCRequest
  MaxAge = 1
  MaxLag = 1
  MaxChanges = 1
  Conditions = {"good", "bad"}
  MaxFaults = 1
  None = None
SPECIFICATION FairSpec
INVARIANTS
  TypeOK
  NodesInvariant
PROPERTIES
  PlacementIsRecent
  PlacedIsPermitted
  GoodIsServed
