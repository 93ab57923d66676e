SPECIFICATION Spec
CONSTANTS
  Clients = {c1, c2}
  Sampler = sampler
  Accounts = {alice, bob}
  None = None
  MaxSessions = 2
  Limit = 1
  MaxWindow = 0
  MaxTime = 3
  StartHorizon = 1
  Period = 1
  MaxAge = 2
  Faults = {"switch"}
  MaxFaults = 1
SYMMETRY Symmetry
INVARIANTS
  OneCallInFlight
  SamplerTracksActive
  OnePollPerPeriod
  RowsMatchTimeline
PROPERTIES
  ImplementsLedger
CHECK_DEADLOCK FALSE
