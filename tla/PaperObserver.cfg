CONSTANTS
  Clients = {c1, c2}
  BatchIds = {b1, b2, b3}
  Contents = {{1}, {2, 3}}
  Configs = {cumulative, incremental, forgetful}
  Checkpointed = {incremental, forgetful}
  Forgetful = {forgetful}
  Decided <- Deciding
  Astray <- Straying
  Interval = 2
  NoConfig = NoConfig
SYMMETRY Renamings
SPECIFICATION Spec
INVARIANTS ResultsReplay LogFollowsState
PROPERTY ImplementsJournal
