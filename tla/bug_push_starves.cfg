SPECIFICATION FairSpec
CONSTANTS
  c1 = c1  c2 = c2  p1 = p1  s1 = s1
  Posts = {p1}
  Clubs = {c1, c2}
  Sweeps = {s1}
  BatchSize = 1
  MaxAttempts = 1
  MaxFaults = 0
CHECK_DEADLOCK FALSE
PROPERTIES QueueDrains
