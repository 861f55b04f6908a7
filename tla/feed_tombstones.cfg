SPECIFICATION Spec
CONSTANTS
  w1 = w1  c1 = c1
  Posts = {1, 2}
  Clubs = {c1}
  Writers = {w1}
  None = 0
  Pictured = {}
  Requests = {"share", "touch", "remove"}
  Limit = 1
  Horizon = 2
  Horizons = {1, 2}
  Overlap = 1
  CommitLag = 0
  PassLength = 0
  EveryPage = FALSE
  Margin = 1
  MaxTime = 4
  MaxVersion = 1
  MaxFailures = 1
CHECK_DEADLOCK FALSE
INVARIANTS HorizonCatchesUp

VIEW WithoutStamps
