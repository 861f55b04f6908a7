----------------------------- MODULE BedPlanner -----------------------------
(***************************************************************************)
(* The public bed planner: a stay in the address, the grid of nights       *)
(* around it, and the arrows that move the grid.  A page may be opened     *)
(* again days later, or with a first night nobody's arrow ever named.      *)
(* A date is its number of days since some Sunday.                         *)
(***************************************************************************)
EXTENDS Integers

CONSTANTS
    MinNights,     \* PLANNER_MIN_NIGHTS
    MaxNights,     \* PLANNER_MAX_NIGHTS, and STAY_NIGHTS_MAX
    NightsBefore,  \* PLANNER_NIGHTS_BEFORE
    StepNights,    \* PLANNER_STEP_NIGHTS
    DaysAhead,     \* CHECK_IN_DAYS_AHEAD_MAX
    HolidayStarts, \* first days of the school holidays
    HolidayDays,   \* their length
    HolidayNights, \* SCHOOL_HOLIDAY_NIGHTS
    LastDay        \* bound on today, and on the days anyone types

ASSUME PlannerAssumption ==
    /\ {MinNights, MaxNights, StepNights, HolidayDays, HolidayNights}
         \subseteq Nat \ {0}
    /\ {NightsBefore, DaysAhead, LastDay} \subseteq Nat
    /\ HolidayStarts \subseteq Nat
    /\ MinNights <= MaxNights /\ 2 <= MaxNights /\ HolidayNights <= MaxNights

VARIABLES
    today,
    checkIn, checkOut,  \* the stay in the address
    view                \* the first night in the address, or none

plannerVars == <<today, checkIn, checkOut, view>>

NoView == 0 - 1

-----------------------------------------------------------------------------
Earlier(a, b) == IF a < b THEN a ELSE b
Latest(a, b) == IF a > b THEN a ELSE b

\* parseSearchParams, of the dates.
Accepted(arrive, leave) ==
    /\ arrive >= today
    /\ leave - arrive \in 1..MaxNights
    /\ arrive - today <= DaysAhead

\* plannerWindow: around the stay, from no earlier than today.
HomeStart ==
    LET before == checkIn - NightsBefore IN
      IF before >= today THEN before ELSE Earlier(today, checkIn)

HomeEnd == Latest(HomeStart + MinNights, checkOut)

HomeFrom ==
    IF HomeEnd - HomeStart > MaxNights
    THEN Earlier(HomeEnd - MaxNights, checkIn) ELSE HomeStart

\* plannerView: the grid keeps its length.
Length == HomeEnd - HomeFrom

AskFrom(from) == Earlier(from, checkIn)
AskTo(from) == Latest(from + Length, checkOut)

FitsAlone(from) == from >= today /\ Length <= MaxNights       \* mutant

Fits(from) == from >= today /\ AskTo(from) - AskFrom(from) <= MaxNights

Shows == IF view # NoView /\ Fits(view) THEN view ELSE HomeFrom

\* A set of one day, or none where the arrow cannot go.
Previous(from) ==
    {day \in {Latest(from - StepNights, today)} : day < from /\ Fits(day)}

Forward(from) == {day \in {from + StepNights} : Fits(day)}

-----------------------------------------------------------------------------
\* weekendStays.
Weekday(day) == day % 7

FridayPast(day) == day + 5 - Weekday(day)                     \* mutant

Friday(day) == IF Weekday(day) = 6 THEN day - 1 ELSE day + ((5 - Weekday(day)) % 7)

\* schoolHolidayStay: a week from the first day, or what is left of it.
Last(first) == first + HolidayDays - 1
Ahead == {f \in HolidayStarts : Last(f) >= today}
NextHoliday == {f \in Ahead : \A g \in Ahead : f <= g}

HolidayStay(first) ==
    LET arrive == Latest(first, today)
        leave == Earlier(arrive + HolidayNights, Last(first) + 1) IN
      <<arrive, Latest(leave, arrive + 1)>>

QuickPicks ==
    {<<IF Weekday(today) = 6 THEN today ELSE Friday(today), Friday(today) + 2>>,
     <<Friday(today) + 7, Friday(today) + 9>>}
    \cup {HolidayStay(f) : f \in NextHoliday}

-----------------------------------------------------------------------------
Typeable == 0..LastDay

\* A page is opened on any day, with any address: a form's days, in order or
\* not, or a link that names any first night.
PlannerInit ==
    /\ today \in Typeable
    /\ checkIn \in Typeable /\ checkOut \in Typeable
    /\ view \in Typeable \cup {NoView}

\* applyQuickPick replaces the days of the form.
QuickPick ==
    /\ \E stay \in QuickPicks : checkIn' = stay[1] /\ checkOut' = stay[2]
    /\ view' = NoView
    /\ UNCHANGED today

PressArrow ==
    /\ Accepted(checkIn, checkOut)
    /\ view' \in Previous(Shows) \cup Forward(Shows)
    /\ UNCHANGED <<today, checkIn, checkOut>>

DayPasses ==
    /\ today < LastDay
    /\ today' = today + 1
    /\ UNCHANGED <<checkIn, checkOut, view>>

PlannerNext == QuickPick \/ PressArrow \/ DayPasses

PlannerSpec == PlannerInit /\ [][PlannerNext]_plannerVars

-----------------------------------------------------------------------------
(***************************************************************************)
(* Properties                                                              *)
(***************************************************************************)

\* The clubs are asked once, about no more nights than an answer may cover and
\* none before today, and the question holds every night of the stay and every
\* night shown, however the address came about (plannerWindow, plannerView).
OneQuestionHoldsAll ==
    Accepted(checkIn, checkOut) =>
      /\ AskFrom(Shows) <= checkIn /\ checkOut <= AskTo(Shows)
      /\ AskFrom(Shows) <= Shows /\ Shows + Length <= AskTo(Shows)
      /\ AskTo(Shows) - AskFrom(Shows) <= MaxNights
      /\ Shows >= today
      /\ Length >= MinNights
      /\ HomeFrom <= checkIn /\ checkOut <= HomeFrom + Length

\* An arrow leads to a grid that can be shown, and back from where it led.
ArrowsReturn ==
    Accepted(checkIn, checkOut) =>
      /\ \A day \in Previous(Shows) : day < Shows /\ Fits(day)
      /\ \A day \in Forward(Shows) : Shows \in Previous(day)
      /\ \A day \in Previous(Shows) :
           day = Shows - StepNights => Shows \in Forward(day)

\* What a quick pick searches is a stay the search accepts, whatever the day:
\* a Saturday, a Sunday, the last day of the holidays (weekendStays,
\* schoolHolidayStay).
PicksAreStays ==
    \A stay \in QuickPicks :
      stay[1] - today <= DaysAhead => Accepted(stay[1], stay[2])

PlannerHolds == OneQuestionHoldsAll /\ ArrowsReturn /\ PicksAreStays
=============================================================================
