SPECIFICATION Spec
CONSTANTS
  ann = ann  bob = bob  cyd = cyd  alpine = alpine  ruapehu = ruapehu  r1 = r1  r2 = r2
  Posts = {p1}
  Members <- OneMember
  ClubOf <- MCClubOf
  None = None
  ReportDesk = {}
  AdminDesk = {a1}
  ClubDesk = {a1}
  PostKinds <- RichPosts
  Jobs = {}
  AutoHideThreshold = 1
  AutoHideMinClubs = 1
  RetentionEnabled = TRUE
  PassesOverrun = TRUE
  MaxFaults = 0
CHECK_DEADLOCK FALSE
INVARIANTS StubHasNoHtml
