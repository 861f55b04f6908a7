SPECIFICATION FairSpec
CONSTANTS
  ann = ann  bob = bob  cyd = cyd  alpine = alpine  ruapehu = ruapehu  r1 = r1  r2 = r2
  Posts = {p1}
  Members <- OneMember
  ClubOf <- MCClubOf
  None = None
  ReportDesk = {}
  AdminDesk = {a1}
  ClubDesk = {a1}
  PostKinds <- PicturePosts
  Jobs = {j1, j2}
  AutoHideThreshold = 1
  AutoHideMinClubs = 1
  RetentionEnabled = TRUE
  PassesOverrun = FALSE
  MaxFaults = 1
CHECK_DEADLOCK FALSE
INVARIANTS SingleFlight
PROPERTIES StubsArePruned OrphansAreCollected
