SPECIFICATION Spec
CONSTANTS
  p1 = p1
  p2 = p2
  c1 = c1
  c2 = c2
  NoPackage = NoPackage
  Packages <- Pair
  Parent <- PairParent
  Judgements <- PairJudgements
  Clients = {c1, c2}
  Keys = {"holdout"}
  DecidableGates = {"research_gate", "paper_gate"}
  MaxEntries = 4
SYMMETRY Symmetry
CHECK_DEADLOCK FALSE
INVARIANTS
  LedgerReplays
  OneDecisionAsFiled
PROPERTY
  ImplementsRegistry
