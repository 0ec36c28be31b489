CONSTANTS
  t1 = t1
  t2 = t2
  t3 = t3
  NoHash = NoHash
  Transaction <- MCTransaction
  MaxEvents = 3
SPECIFICATION Spec
INVARIANTS IntegrityVerified AppendsNeverCollide
PROPERTY ImplementsLedger
