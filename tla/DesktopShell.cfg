SPECIFICATION Spec
CONSTANTS
  Shells = {s1, s2}
  Console = Console
  Foreign = Foreign
  None = None
  MaxPolls = 1
PROPERTIES
  ReconcileSparesTheSeen
  WindowsFollowTheirBackend
  LaunchesEnd
  AbandonedBackendsStop
