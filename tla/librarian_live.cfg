CONSTANTS
  Org = {"a"}
  Task = {"t", "u"}
  TaskInfo <- MCTaskInfo
  Text = {"fact", "guess"}
  TextInfo <- MCTextInfo
  Librarian = {l1}
  RemoteEndpoint = FALSE
  AllowRemote = FALSE
  MaxFaults = 1
  Reviewable = {"candidate"}
  None = None
SPECIFICATION FairSpec
PROPERTIES
  JobsAreDecided
