CONSTANTS
  v1 = v1
  v2 = v2
  v3 = v3
  p1 = p1
  p2 = p2
  p3 = p3
  None = None
  Version <- MCVersion
  Candidate <- MCCandidate
  Process <- MCTwo
  Command = {"promote", "serve"}
  MaxRunning = 1
  SyncFails = TRUE
SPECIFICATION Spec
PROPERTY RecoveryIsNeverRefused
CHECK_DEADLOCK FALSE
