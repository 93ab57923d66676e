SPECIFICATION FairSpec
CONSTANTS
  Clients = {c1}
  Poller = Poller
  None = None
  Broken = Broken
  MaxTime = 12
  MaxBoots = 2
  Cooldown = 2
  Interval = 4
  Initial = 1
  Stale = 11
  FetchTime = 3
  Stall = 1
  Lag = 0
  FetchResults = {"success", "failure", "exception"}
  WriteResults = {"stored", "invalid", "unwritable"}
INVARIANTS
  AutoSuccessIsStored
  AttemptsKeepComing
  CacheStaysFresh
PROPERTIES
  AttemptsPassTheGate
  CacheGoesBackOnlyWhenOvertaken
  AttemptsEnd
CHECK_DEADLOCK FALSE
