SPECIFICATION Spec
CONSTANTS
  c1 = c1
  c2 = c2
  c3 = c3
  c4 = c4
  None = None
  Command <- MCCommand
  Scope <- MCScope
  Guarded = TRUE
  Interval = 2
  MaxTime = 4
SYMMETRY MCSymmetry
INVARIANTS SuccessIsStored PredecessorIsKept
PROPERTIES PublisherIsSpared NeverGoesBack
CHECK_DEADLOCK FALSE
