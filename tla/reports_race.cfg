SPECIFICATION Spec
CONSTANTS
  ann = ann  bob = bob  cyd = cyd  alpine = alpine  ruapehu = ruapehu  r1 = r1  r2 = r2
  Posts = {p1}
  Members <- ThreeMembers
  ClubOf <- MCClubOf
  None = None
  ReportDesk = {r1, r2}
  AdminDesk = {a1}
  ClubDesk = {a1}
  PostKinds <- PlainPosts
  Jobs = {}
  AutoHideThreshold = 2
  AutoHideMinClubs = 2
  RetentionEnabled = TRUE
  PassesOverrun = TRUE
  MaxFaults = 0
SYMMETRY ReportSymmetry
CHECK_DEADLOCK FALSE
INVARIANTS TypeOK SystemHideHasEvidence CountWithinFiled
PROPERTIES ExemptionHolds
