SPECIFICATION FairSpec
CONSTANTS
  w1 = w1  c1 = c1
  Posts = {1, 2}
  Clubs = {c1}
  Writers = {w1}
  None = 0
  Pictured = {}
  Requests = {"share", "hide", "show", "remove", "touch"}
  Limit = 1
  Horizon = 1
  Horizons = {1}
  Overlap = 1
  CommitLag = 0
  PassLength = 0
  EveryPage = FALSE
  Margin = 0
  MaxTime = 3
  MaxVersion = 1
  MaxFailures = 1
CHECK_DEADLOCK FALSE
PROPERTIES MirrorsConverge
