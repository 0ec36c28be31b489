SPECIFICATION BallotSpec
CONSTANTS
  r1 = r1
  r2 = r2
  w1 = w1
  None = None
  Server = api
  Request <- MCRequest
  Worker <- MCWorker
  Formats <- MCFormats
  Ttl = 2
  Retry = 1
  ElectionDay = 3
  ElectionEnd = 4
  MaxTime = 4
SYMMETRY MCSymmetry
INVARIANTS BallotTypeOK EmptyNeverReplaces
PROPERTIES FetchesAreSpared OlderOnlyFromElsewhere ImportClockIsBacked
CHECK_DEADLOCK FALSE
