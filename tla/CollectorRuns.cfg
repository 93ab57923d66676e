SPECIFICATION Spec
CONSTANTS
  Requests = {t1, t2}
  Keys <- MCKeys
  Values = {1, 2}
  None = None
  Batches <- MCBatches
  MaxCalls = 1
  MaxRuns = 3
  MaxDay = 1
  UsageKeys = {tokens}
  CostKeys = {cost}
  Cursors = {p}
  MaxPages = 1
  PageRows = 1
SYMMETRY Symmetry
INVARIANTS
  OneRecordPerIdentity
  BatchesAreAtomic
  LimitIsNearlyKept
  LockIsReleased
PROPERTIES
  FailuresHaveAReason
CHECK_DEADLOCK FALSE
