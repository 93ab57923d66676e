SPECIFICATION Spec
CONSTANTS
  Writers = {w1, w2}
  Extracted <- MCExtracted
  Loads = {l1, l2}
  None = None
  Bad = Bad
  Skew = 0
  MaxTime = 1
  MaxWrites = 2
  MaxFailures = 1
  MaxSteps = 1
INVARIANT OneObservationIsShown
PROPERTY NewestIsShown
