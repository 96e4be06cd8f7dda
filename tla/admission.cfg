CONSTANTS
  Task = {"t"}
  Tool = {"pay"}
  Action <- MCAction
  ToolInfo <- MCToolInfo
  Profiles <- MCProfiles
  Id = {i1, i2}
  Approval = {p1}
  None = None
  ApprovalTtl = 1
  MaxDay = 1
  Client = {c1, c2}
  Engines = {"sqlite", "postgresql"}
  Amount = {3}
  Budgeted = {"daily", "monthly"}
  Unit = 2
  Quotes <- MCQuotes
  Prompts = {0, 1}
SPECIFICATION Spec
SYMMETRY Symmetry
INVARIANTS
  TypeOK
  GrantsAreApproved
  ChargesFit
PROPERTIES
  BudgetHolds
  GrantsForOpenTasks
  SettledOnce
  ImplementsSpendLedger
