SPECIFICATION FairSpec
CONSTANTS
  LimitKeys = {"gate", "version"}
  LimitMax = 2
  LimitWindow = 2
  LimitTime = 5
  MaxRestarts = 1
  Calls = {"r1", "r2"}
  Issues = {"i1", "i2", "i3"}
  MaxSeen = 2
  Events = {"e1", "e2"}
  Runs = {"r1", "r2"}
  FirstWindow = 1
  MaxFaults = 1
  Browsers = {"b1"}
  Trips = {"t1", "t2"}
  SessionMaxAge = 2
  AbsoluteMaxAge = 1
  RefreshAfter = 1
  MaxSeconds = 3
  MaxPasswords = 3
  Pictures = {"p1", "p2"}
  Huts = {"h1"}
  ImageDesks = {"d1", "d2"}
  YearDays = 6
  LeapDay = 2
  LongestStay = 3
  MinNights = 3
  MaxNights = 8
  NightsBefore = 1
  StepNights = 3
  DaysAhead = 12
  HolidayStarts = {1, 9}
  HolidayDays = 4
  HolidayNights = 7
  LastDay = 9
  Halls = {"h1", "h2"}
  Askers = {"w1", "w2"}
CHECK_DEADLOCK FALSE
INVARIANTS TypesOK SpanIsBounded RepeatsAreCounted NothingPassedUnsaid ChangeVoidsSessions ShownPicturesServe PricedAsWritten PlannerHolds OffersAreTrue
PROPERTIES MismatchIsSeen NoneTakenUnseen EventsAreTold
