SPECIFICATION Spec
CONSTANTS
  a1 = a1
  a2 = a2
  i1 = i1
  q1 = q1
  q2 = q2
  None = None
  Account <- MCAccount
  Ip <- MCIp
  Request <- MCRequest
  AccountMax = 2
  IpMax = 3
  Window = 1
  Lockout = 2
  MaxBuckets = 2
  MaxTime = 5
  MaxAttempts = 9
SYMMETRY MCSymmetry
INVARIANTS WithinBuckets OvershootBounded GuessRate
PROPERTY LocksHold
CHECK_DEADLOCK FALSE
