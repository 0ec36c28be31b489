CONSTANTS
  ann = ann
  bob = bob
  eve = eve
  new = new
  p1 = p1
  p2 = p2
  r1 = r1
  r2 = r2
  NoPassword = NoPassword
  NoUser = NoUser
  User <- MCUser
  InitialUsers <- MCInitialUsers
  Operations <- MCAll
  Request <- MCRequest2
  Password <- MCPassword
  Patches <- MCChanges
SPECIFICATION FairSpec
INVARIANTS SessionsSawEveryChange AuditExplainsAccounts LastActiveAdmin NoLostUpdate SessionsAreProved
CHECK_DEADLOCK FALSE
PROPERTY EveryRequestReturns
