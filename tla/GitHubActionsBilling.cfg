SPECIFICATION Spec
CONSTANTS
  Clients = {c1, c2}
  None = None
  Plans = {"pro", "team"}
  ItemLists <- MCItemLists
  MaxTime = 4
  Cooldown = 2
  Month = 2
SYMMETRY Symmetry
INVARIANTS
  SnapshotTellsTheLastAttempt
PROPERTIES
  AttemptsPassTheGate
CHECK_DEADLOCK FALSE
