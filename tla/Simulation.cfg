SPECIFICATION Spec
CONSTANTS
  X = X
  Y = Y
  Instruments = {X, Y}
  Precision = 100000
  One = 1000
  InitialCash = 90000
  Events <- StreamEvents
  Proposals <- StreamProposals
  Models = {"bar", "market", "limit", "midpoint"}
  MinimumLatency = 0
  FeeRate = 10
  ImpactRate = 5
  MaxPosition = 3
  MaxNotional = 2500
  MaxDailyLoss = 60
  DayLength = 2
  SamplingInterval = 2
  MaxEvents = 4
  Tolerance = 2
CHECK_DEADLOCK FALSE
INVARIANT IntentsAreAccounted
INVARIANT BarVolumeIsShared
INVARIANT ConservedUpToRounding
PROPERTY LossLimitSpansTheDay
