SPECIFICATION MCSpec
CONSTANTS
  p1 = p1
  p2 = p2
  owner = owner
  critic = critic
  NoPackage = NoPackage
  NoReviewer = NoReviewer
  Packages <- Pair
  Parent <- PairParent
  Contents <- PairContents
  Blocking <- PairBlocking
  Judgements <- PairJudgements
  Principals = {owner, critic}
  Owners = {owner}
  MaxTransitions = 4
  MaxRemediationLaps = 2
  MaxNoProgress = 2
CHECK_DEADLOCK FALSE
INVARIANTS
  TypeOK
  CompletionIsEarned
  StageIsEarned
  PassesAreEarned
  StalledRunsAreBlocked
PROPERTIES
  ExhaustionIsFinal
  ProgressIsRecorded
  EveryWriteIsPaid
  TargetIsDecidedBeforeRemediation
  PassedTargetOnlyCompletes
