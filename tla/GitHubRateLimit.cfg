SPECIFICATION FairSpec
CONSTANTS
  Clients = {c1}
  AutoTasks = {a1}
  Copies = 1
  None = None
  MaxTime = 4
  Window = 2
  Cooldown = 2
  Grace = 1
  Early = 0
  Malformed = TRUE
  Unparsable = TRUE
INVARIANTS
  OneFetchAtATime
  AutoRunsAfterReset
  PendingIsNew
  PendingIsCurrent
PROPERTIES
  ManualRefreshesAreApart
  PendingIsConsumed
CHECK_DEADLOCK FALSE
