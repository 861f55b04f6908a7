SPECIFICATION Spec
CONSTANTS
  ann = ann  bob = bob  cyd = cyd  alpine = alpine  ruapehu = ruapehu  r1 = r1  r2 = r2
  Posts = {p1}
  Members <- OneMember
  ClubOf <- MCClubOf
  None = None
  ReportDesk = {r1}
  AdminDesk = {}
  ClubDesk = {c1}
  PostKinds <- PlainPosts
  Jobs = {j1}
  AutoHideThreshold = 1
  AutoHideMinClubs = 1
  RetentionEnabled = TRUE
  PassesOverrun = TRUE
  MaxFaults = 0
CHECK_DEADLOCK FALSE
PROPERTIES RetentionSparesEvidence
