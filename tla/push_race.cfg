SPECIFICATION FairSpec
CONSTANTS
  c1 = c1  p1 = p1  s1 = s1  s2 = s2
  Posts = {p1}
  Clubs = {c1}
  Sweeps = {s1, s2}
  BatchSize = 1
  MaxAttempts = 2
  MaxFaults = 1
CHECK_DEADLOCK FALSE
INVARIANTS TypeOK RemovalIsLastWord PushesAreCounted HeldHearsOneMore
PROPERTIES QueueDrains KeepsItsPromise
