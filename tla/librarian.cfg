CONSTANTS
  Org = {"a"}
  Task = {"t", "u"}
  TaskInfo <- MCTaskInfo
  Text = {"fact", "rule"}
  TextInfo <- MCTextInfo
  Librarian = {l1, l2}
  RemoteEndpoint = TRUE
  AllowRemote = TRUE
  MaxFaults = 2
  Reviewable = {"task", "candidate", "copy", "global"}
  None = None
SPECIFICATION Spec
INVARIANTS
  TypeOK
  CrossTaskIsReviewed
PROPERTIES
  PolicyWasInForce
  DecisionsAreFinal
SYMMETRY Symmetry
