SPECIFICATION ScopedSpec
CONSTANTS
  Runners = {r1, r2, r3}
  r3 = r3
  r1 = r1
  r2 = r2
  Absent = Absent
  MaxAttempts = 2
  Specs <- Jobs
  Worlds <- SoundOrNot
CHECK_DEADLOCK FALSE
INVARIANTS
  CompleteIsBacked
PROPERTIES
  ReceiptsAreFinal
  ImplementsOnceOnly
  
