CONSTANTS
  Org = {"a", "b"}
  Task = {"t", "u"}
  TaskInfo <- MCTaskInfo
  Text = {"fact", "guess"}
  TextInfo <- MCTextInfo
  Librarian = {l1}
  RemoteEndpoint = TRUE
  AllowRemote = TRUE
  MaxFaults = 1
  Reviewable = {}
  None = None
SPECIFICATION FairSpec
PROPERTIES
  ConsentedIsTaken
