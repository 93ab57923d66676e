SPECIFICATION Spec
CONSTANTS
  Requests = {t1}
  Keys <- MCKeys
  Values = {1, 2}
  None = None
  Batches <- MCBatches
  MaxCalls = 1
  MaxRuns = 1
  MaxDay = 0
  UsageKeys = {tokens}
  CostKeys = {}
  Cursors = {p}
  MaxPages = 2
  PageRows = 1
PROPERTIES
  RepeatsAreSavedOnce
CHECK_DEADLOCK FALSE
