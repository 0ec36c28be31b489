CONSTANTS
  a = a
  b = b
  i1 = i1
  i2 = i2
  r1 = r1
  r2 = r2
  None = None
  Torn = Torn
  Payload <- MCPayload
  Id <- MCId
  Run <- MCRun
  Attempts = 2
  MaxActive = 2
  MaxEntries = 2
  MaxFaults = 1
SPECIFICATION Spec
SYMMETRY MCSymmetry
INVARIANTS LockHasOneOwner WithinCapacity
PROPERTY ImplementsCustody
CHECK_DEADLOCK FALSE
