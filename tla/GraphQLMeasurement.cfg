SPECIFICATION Spec
CONSTANTS
  Clients = {c1}
  Sampler = sampler
  Accounts = {alice}
  None = None
  MaxSessions = 2
  Limit = 2
  MaxWindow = 1
  MaxTime = 2
  StartHorizon = 1
  Period = 1
  MaxAge = 1
  Faults = {"gh", "exit"}
  MaxFaults = 1
INVARIANTS
  MeasurementAddsUp
CHECK_DEADLOCK FALSE
