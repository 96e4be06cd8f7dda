CONSTANTS
  t1 = t1
  t2 = t2
  s1 = s1
  o1 = o1
  workbench = workbench
  deploy = deploy
  retired = retired
  Task = {t1, t2}
  Step = {s1}
  Token = {w1, w2}
  None = None
  MaxLease = 3
  MaxLag = 0
  Org = {o1}
  User = {u1}
  Role = {"operator", "admin"}
  HomeOrg <- MCHomeOrg
  MaxSession = 7
  Dispatcher = {d1, d2}
  Tool = {workbench, deploy, retired}
  Workbench = workbench
  Tier <- MCTier
  Usable = {workbench, deploy}
  Trees <- MCTrees
  Choices <- MCChoices
  Settings <- MCSettings
  Timeouts = {1}
  StepTask <- MCStepTask
  ReplyLag = 1
  LeaseSlack = 2
  SessionSlack = 4
  MaxTurns = 2
SPECIFICATION Spec
SYMMETRY Symmetry
INVARIANTS
  TypeOK
  OneWorkerPerStep
  StragglersAreBrief
  RoutedToLeaf
PROPERTIES
  DoneMeansReported
