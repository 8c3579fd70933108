SPECIFICATION MCSpec
CONSTANTS
  p1 = p1
  critic = critic
  NoPackage = NoPackage
  NoReviewer = NoReviewer
  Packages = {p1}
  Parent <- OneParent
  Contents <- AllStems
  Blocking <- Findings
  Judgements <- Verdicts
  Principals = {critic}
  Owners = {}
  MaxTransitions = 3
  MaxRemediationLaps = 1
  MaxNoProgress = 1
  Supervisors = {s1}
  Callers = {}
  AskedStages = {"review_research", "research_gate", "remediation", "complete"}
  WrittenStages = {"review_research", "research_gate", "remediation", "complete"}
  AskedStatuses = {"in_progress", "waiting", "blocked", "killed", "complete"}
  WrittenStatuses = {"in_progress", "waiting", "blocked", "killed", "complete"}
  WrittenBlockers = {"none", "reported"}
  Nobody = Nobody
  NoState = NoState
CHECK_DEADLOCK FALSE
PROPERTY FailedCyclesChangeNothing
