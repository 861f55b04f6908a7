SPECIFICATION Spec
CONSTANTS
  c1 = c1  c2 = c2  k1 = k1  k2 = k2  l1 = l1  l2 = l2  d1 = d1  d2 = d2
  u1 = u1  u2 = u2  e1 = e1  e2 = e2  p1 = p1  p2 = p2
  Lodges = {l1, l2}
  Clubs = {c1, c2}
  NoClub = NoClub
  Names = {"n1"}
  LodgeDesks = {d1, d2}
  Keys = {k1, k2}
  Urls = {u1, u2}
  NoUrl = NoUrl
  ClubDesks = {d1, d2}
  MaxSecret = 3
  Entries = {e1, e2}
  Pens = {p1, p2}
  PullOverlap = 2
  WriteLag = 1
  PullLag = 0
  PullTime = 3
  MaxChanges = 2
SYMMETRY RegistrySymmetry
CHECK_DEADLOCK FALSE
INVARIANTS TypesOK OneWelcome SecretIsOneDestinations OutsidersOwnNothing PullMissesNothing
PROPERTIES NoDirectHandover TitlesAreKept ClashTakesTwo
