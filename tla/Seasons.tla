------------------------------ MODULE Seasons ------------------------------
(***************************************************************************)
(* A lodge's winter and summer and the price of a stay.  Seasons recur, so *)
(* a date is its day of the year, out of a short leap year of `YearDays`   *)
(* days.  A save changes some of the four dates and is refused when the    *)
(* four that would be stored cannot be used together.                      *)
(***************************************************************************)
EXTENDS Integers, FiniteSets

CONSTANTS
    YearDays,    \* days of a leap year
    LeapDay,     \* 29 February
    LongestStay  \* bound on the nights of a stay

ASSUME SeasonsAssumption ==
    /\ YearDays \in Nat /\ LeapDay \in 2..YearDays
    /\ LongestStay \in Nat \ {0}

VARIABLE dates   \* the four season columns of one lodge

-----------------------------------------------------------------------------
Days == 1..YearDays
Unset == 0
SeasonNames == {"winter", "summer"}
Other(s) == IF s = "winter" THEN "summer" ELSE "winter"

SeasonDates == [start : [SeasonNames -> Days \cup {Unset}],
                end : [SeasonNames -> Days \cup {Unset}]]

\* `n` days after a day, going round the year.
Later(day, n) == ((day - 1 + n) % YearDays) + 1

\* rangeOf: a season without an end runs up to the other's start.  None, or one.
RangeOf(d, s) ==
    LET start == d.start[s]
        end == d.end[s]
        otherStart == d.start[Other(s)] IN
      IF start = Unset \/ (end = Unset /\ otherStart = Unset) THEN {}
      ELSE {[start |-> start, inclusive |-> end # Unset,
             end |-> IF end # Unset THEN end ELSE otherStart]}

\* A season ending on the 28th takes the 29th, unless the other starts there.
LeapDayCovered(range, other) ==
    {IF /\ r.inclusive /\ r.end = LeapDay - 1
        /\ ~ \E o \in other : o.start = LeapDay
     THEN [r EXCEPT !.end = LeapDay] ELSE r : r \in range}

Ranges(d, s) == LeapDayCovered(RangeOf(d, s), RangeOf(d, Other(s)))

BeforeEndOnly(day, r) == day < r.end                          \* mutant

BeforeEnd(day, r) == IF r.inclusive THEN day <= r.end ELSE day < r.end

InRange(day, r) ==
    IF r.start = r.end THEN r.inclusive /\ day = r.start
    ELSE IF r.start < r.end THEN day >= r.start /\ BeforeEnd(day, r)
    ELSE day >= r.start \/ BeforeEnd(day, r)

InSeason(d, s, day) == \E r \in Ranges(d, s) : InRange(day, r)

SeasonForNight(d, day) ==
    IF InSeason(d, "winter", day) THEN "winter"
    ELSE IF InSeason(d, "summer", day) THEN "summer"
    ELSE "none"

SharedStart(d) == d.start["winter"] = d.start["summer"]       \* mutant

\* seasonDatesProblem: the two share a day.
Shared(d) == \E day \in Days : \A s \in SeasonNames : InSeason(d, s, day)

SeasonDatesProblem(d) ==
    \/ \E s \in SeasonNames :
         \/ d.end[s] # Unset /\ d.start[s] = Unset
         \/ d.start[s] # Unset /\ d.start[s] = d.end[s]
         \/ \E r \in Ranges(d, s) : ~r.inclusive /\ r.start = r.end
    \/ Shared(d)

\* A save carries some columns; the check is of what it would leave.
SeasonDatesAfter(s, start, end) ==
    [dates EXCEPT !.start[s] = start, !.end[s] = end]

SaveSeason ==
    \E s \in SeasonNames :
      \E start \in Days \cup {Unset}, end \in Days \cup {Unset} :
        LET after == SeasonDatesAfter(s, start, end) IN
          ~SeasonDatesProblem(after) /\ dates' = after

SeasonsInit ==
    dates = [start |-> [s \in SeasonNames |-> Unset],
             end |-> [s \in SeasonNames |-> Unset]]

SeasonsSpec == SeasonsInit /\ [][SaveSeason]_dates

-----------------------------------------------------------------------------
(***************************************************************************)
(* priceNights and estimateStay, for one guest at a rate a season.         *)
(***************************************************************************)
Unknown == 0 - 1

NightPrice(rate, day) ==
    LET season == SeasonForNight(dates, day) IN
      IF season = "none" THEN Unknown ELSE rate[season]

\* The nights of a stay, from its first.
EachNight(first, nights) == {Later(first, i) : i \in 0..(nights - 1)}

Estimate(first, nights, rate) ==
    LET stay == EachNight(first, nights)
        from[n \in 0..nights] ==
          IF n = 0 THEN 0
          ELSE from[n - 1] + NightPrice(rate, Later(first, n - 1)) IN
      IF \E day \in stay : NightPrice(rate, day) = Unknown THEN Unknown
      ELSE from[nights]

-----------------------------------------------------------------------------
(***************************************************************************)
(* Property                                                                *)
(***************************************************************************)

\* The days from one to another, going round the year: what a season's dates
\* say to whoever reads them.
From(first, last) == {Later(first, i) : i \in 0..((last - first) % YearDays)}

Written(s) ==
    LET start == dates.start[s]
        end == dates.end[s]
        otherStart == dates.start[Other(s)] IN
      IF start = Unset THEN {}
      ELSE IF end # Unset
      THEN From(start, end)
           \cup IF end = LeapDay - 1 /\ otherStart # LeapDay THEN {LeapDay} ELSE {}
      ELSE IF otherStart # Unset THEN From(start, otherStart) \ {otherStart}
      ELSE {}

\* From the leap day to the day before it: the rule that adds the leap day to a
\* season ending on the 28th leaves such a season nothing else.
AllYear(s) == dates.start[s] = LeapDay /\ dates.end[s] = LeapDay - 1

\* Whatever dates a lodge was brought to by saves of some of its columns, each
\* season's rate is charged on the days its dates say and on no other, and a
\* stay across seasons and New Year costs the sum of its nights, or is unknown
\* when a night has no season or no rate (seasonDatesProblem, estimateStay).
PricedAsWritten ==
    (\A s \in SeasonNames : ~AllYear(s)) =>
      /\ Written("winter") \cap Written("summer") = {}
      /\ \A first \in Days, nights \in 1..LongestStay,
            rate \in [SeasonNames -> {Unknown, 1, 10}] :
           LET stay == EachNight(first, nights)
               of(s) == stay \cap Written(s) IN
             Estimate(first, nights, rate) =
               IF \/ ~(stay \subseteq Written("winter") \cup Written("summer"))
                  \/ \E s \in SeasonNames : of(s) # {} /\ rate[s] = Unknown
               THEN Unknown
               ELSE Cardinality(of("winter")) * rate["winter"]
                    + Cardinality(of("summer")) * rate["summer"]
=============================================================================
