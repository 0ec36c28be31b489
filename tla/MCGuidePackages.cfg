CONSTANTS
  ed = ed
  bob = bob
  r1 = r1
  r2 = r2
  r3 = r3
  r4 = r4
  Importer = Importer
  Nobody = Nobody
  NoPackage = NoPackage
  Same = Same
  Actor <- MCActor
  Privileged <- MCPrivileged
  Request <- MCRequests
  Reviews <- MCReviews
  InitialPackages <- MCPackages
SPECIFICATION Spec
INVARIANT LiveIsSignedOff
PROPERTIES AuditRecordsPublication LeavesLiveByUnpublish
SYMMETRY MCSymmetry
