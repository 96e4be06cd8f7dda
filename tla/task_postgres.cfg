CONSTANTS
  Task = {t1}
  Step = {s1}
  Token = {k1, k2, k3}
  Client = {c1, c2}
  None = None
  MaxLease = 1
  MaxLag = 1
  Engine = "postgresql"
SPECIFICATION QueuedSpec
PROPERTIES
  LeaseNotStolen
  OutcomeIsFenced
  
  ClaimedComesBack
