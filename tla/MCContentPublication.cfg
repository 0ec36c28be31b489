CONSTANTS
  ed = ed
  ann = ann
  bob = bob
  s1 = s1
  s2 = s2
  r1 = r1
  r2 = r2
  r3 = r3
  r4 = r4
  Seeder = Seeder
  Nobody = Nobody
  Same = Same
  Actor <- MCActor
  Admins <- MCAdmins
  Verified <- MCVerified
  Text <- MCText
  Request <- MCFour
  Patches <- MCPatches
  InitialContent <- MCDraft
SPECIFICATION Spec
INVARIANTS HistoryIsConnected PublicContentIsApproved AuditExplainsPublication
SYMMETRY MCSymmetry
CHECK_DEADLOCK FALSE
