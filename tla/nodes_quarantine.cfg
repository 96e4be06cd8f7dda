CONSTANTS
  Node = {"desk", "cloud"}
  Manager = {"m"}
  Org = {"a", "b"}
  NodeInfo <- MCNodeInfo
  Allowlisted = {}
  Prober = {"monitor"}
  Monitor = "monitor"
  Call = {"c"}
  Request <- MCRequest
  MaxAge = 1
  MaxLag = 1
  MaxChanges = 1
  Conditions = {"good", "bad"}
  MaxFaults = 0
  None = None
SPECIFICATION Spec
INVARIANT QuarantineHolds
