SPECIFICATION FairSpec
CONSTANTS
  Clients = {c1}
  Sampler = sampler
  Accounts = {alice}
  None = None
  MaxSessions = 2
  Limit = 1
  MaxWindow = 0
  MaxTime = 2
  StartHorizon = 1
  Period = 1
  MaxAge = 1
  Faults = {"gh", "db", "exit"}
  MaxFaults = 1
INVARIANTS
  NothingCountedTwice
PROPERTIES
  WatchedSessionsEnd
  SamplerComesToRest
CHECK_DEADLOCK FALSE
