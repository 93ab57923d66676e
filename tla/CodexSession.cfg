SPECIFICATION Spec
CONSTANTS
  Ids = {"codex", "other"}
  Answers <- MCAnswers
  InitializeTimeout = 1
  RateLimitsTimeout = 1
  ShutdownTimeout = 1
  MaxLines = 3
INVARIANTS
  TakesTheAwaitedAnswer
  FetchTimeIsBounded
  NoProcessIsForgotten
  SuccessIsCacheable
CHECK_DEADLOCK FALSE
