SPECIFICATION Spec
CONSTANTS
  w1 = w1  w2 = w2  c1 = c1
  Posts = {1, 2}
  Clubs = {c1}
  Writers = {w1, w2}
  None = 0
  Pictured = {1}
  Requests = {"share", "hide"}
  Limit = 1
  Horizon = 3
  Horizons = {3}
  Overlap = 3
  CommitLag = 1
  PassLength = 1
  EveryPage = FALSE
  Margin = 0
  MaxTime = 4
  MaxVersion = 2
  MaxFailures = 1
VIEW WithoutStamps
SYMMETRY WriterSymmetry
CHECK_DEADLOCK FALSE
INVARIANTS TypeOK MirrorsMissNothing
