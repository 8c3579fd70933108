CONSTANTS
  Clients = {c1}
  BatchIds = {b1, b2}
  Contents = {{1}, {2, 3}}
  Configs = {incremental}
  Checkpointed = {incremental}
  Forgetful = {}
  Decided <- Deciding
  Astray <- Straying
  Interval = 2
  NoConfig = NoConfig
SPECIFICATION FairSpec
PROPERTY InterruptedBatchIsResumed
