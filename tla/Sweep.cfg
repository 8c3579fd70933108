SPECIFICATION ScopedSpec
CONSTANTS
  first = first
  retry = retry
  other = other
  out1 = out1
  out2 = out2
  v1 = v1
  v2 = v2
  a1 = a1
  a2 = a2
  target = target
  Nothing = Nothing
  Unwritten = Unwritten
  Variants = {0, 1, 2}
  MinObservations = 8
  PassesThresholds <- Deflated
  Sweeps = {first, retry, other}
  Outputs = {out1, out2}
  OutputOf <- Outs
  KeyOf <- OneKey
  Plans <- AllPlans
  FoldOutcomes <- Folds
  Sources = {v1, v2}
  Assemblers = {a1}
  Targets = {target}
  TargetOf <- OneTarget
CHECK_DEADLOCK FALSE
INVARIANTS
  TrialsAreCounted
  ReportsAreOfTheirRegistration
  PromotionIsOutOfSample
  HonestReportsValidate
PROPERTIES
  CandidatesCountAllTrials
