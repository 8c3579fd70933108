SPECIFICATION Spec
CONSTANTS
  b1 = b1
  b2 = b2
  Absent = Absent
  Brokers = {b1, b2}
  Workspaces = {"first", "second"}
  Tasks <- MCTasks
  ProviderEnds <- MCEnds
  Existing <- MCExisting
  Symlinks = {}
  HeadSymlinks <- HeadLinks
  Folded <- Casefolded
  Installed = {"codex", "claude"}
CHECK_DEADLOCK FALSE
INVARIANTS
  OneProviderPerWorkspace
  DeliveredIsWhatGitShows
PROPERTY
  EveryDispatchEnds
