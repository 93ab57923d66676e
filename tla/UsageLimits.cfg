SPECIFICATION Spec
CONSTANTS
  Clients = {c1, c2}
  Payloads <- MCPayloads
  Ids = {u1}
  None = None
  SampleName = "sample"
  SampleMax = 5
  VendorName = "vendor"
  ManualName = "manual"
  Offset = 1
  Long = 3
  Short = 2
  MaxTime = 4
  MaxEdits = 2
  Skew = 1
SYMMETRY Symmetry
INVARIANTS
  EditsSurvive
  RecordsAreCountedOnce
