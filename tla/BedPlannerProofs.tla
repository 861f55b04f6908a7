-------------------------- MODULE BedPlannerProofs --------------------------
(***************************************************************************)
(* The planner's arithmetic for every length of the grid, of a stay and of *)
(* a step, every calendar of holidays, and every day it may be opened on;  *)
(* what a search may say of a lodge; and what a stay costs.                *)
(***************************************************************************)
EXTENDS BedPlanner, BedSearch, Seasons, FiniteSetTheorems,
        WellFoundedInduction, TLAPS

WholeDays == today \in Int /\ checkIn \in Int /\ checkOut \in Int /\ view \in Int

-----------------------------------------------------------------------------
LEMMA LengthsTyped ==
  /\ MinNights \in Nat /\ MinNights >= 1
  /\ MaxNights \in Nat /\ MaxNights >= MinNights /\ MaxNights >= 2
  /\ StepNights \in Nat /\ StepNights >= 1
  /\ HolidayNights \in Nat /\ HolidayNights >= 1 /\ HolidayNights <= MaxNights
  /\ HolidayDays \in Nat /\ HolidayDays >= 1
  /\ NightsBefore \in Nat /\ DaysAhead \in Nat /\ LastDay \in Nat
  /\ HolidayStarts \subseteq Nat
  BY PlannerAssumption

LEMMA MinMax ==
  ASSUME NEW a \in Int, NEW b \in Int
  PROVE  /\ Earlier(a, b) \in Int /\ Earlier(a, b) <= a /\ Earlier(a, b) <= b
         /\ Earlier(a, b) \in {a, b}
         /\ Latest(a, b) \in Int /\ Latest(a, b) >= a /\ Latest(a, b) >= b
         /\ Latest(a, b) \in {a, b}
  BY DEF Earlier, Latest

\* The grid that opens around a stay: it holds the stay, begins no earlier than
\* today, and is as long as a grid may be.
LEMMA HomeHoldsStay ==
  ASSUME WholeDays, Accepted(checkIn, checkOut)
  PROVE  /\ HomeFrom \in Int /\ Length \in Int
         /\ today <= HomeFrom /\ HomeFrom <= checkIn
         /\ checkOut <= HomeFrom + Length
         /\ MinNights <= Length /\ Length <= MaxNights
<1>1. /\ HomeStart \in Int /\ today <= HomeStart /\ HomeStart <= checkIn
  BY LengthsTyped DEF HomeStart, Earlier, WholeDays, Accepted
<1>2. /\ HomeEnd \in Int /\ HomeEnd >= HomeStart + MinNights /\ HomeEnd >= checkOut
      /\ HomeEnd = HomeStart + MinNights \/ HomeEnd = checkOut
  BY <1>1, LengthsTyped DEF HomeEnd, Latest, WholeDays
<1>3. checkOut - checkIn >= 1 /\ checkOut - checkIn <= MaxNights
  BY LengthsTyped DEF Accepted, WholeDays
<1>4. HomeEnd - MaxNights <= checkIn
  BY <1>1, <1>2, <1>3, LengthsTyped DEF WholeDays
<1>5. /\ HomeFrom \in Int
      /\ HomeFrom = IF HomeEnd - HomeStart > MaxNights THEN HomeEnd - MaxNights
                    ELSE HomeStart
  BY <1>1, <1>2, <1>4, LengthsTyped DEF HomeFrom, Earlier, WholeDays
<1>6. Length = HomeEnd - HomeFrom
  BY DEF Length
<1> QED
  BY <1>1, <1>2, <1>3, <1>4, <1>5, <1>6, LengthsTyped DEF WholeDays

\* What is shown fits a question, whether it is the address's or the home grid.
LEMMA ShownFits ==
  ASSUME WholeDays, Accepted(checkIn, checkOut)
  PROVE  Shows \in Int /\ Fits(Shows) /\ Shows >= today
<1>1. Fits(HomeFrom)
  BY HomeHoldsStay DEF Fits, AskTo, AskFrom, Earlier, Latest, WholeDays
<1>2. CASE view # NoView /\ Fits(view)
  BY <1>2 DEF Shows, Fits, WholeDays
<1>3. CASE ~(view # NoView /\ Fits(view))
  BY <1>1, <1>3, HomeHoldsStay DEF Shows, Fits
<1> QED
  BY <1>2, <1>3

LEMMA OneQuestion ==
  ASSUME WholeDays PROVE OneQuestionHoldsAll
<1> SUFFICES ASSUME Accepted(checkIn, checkOut)
             PROVE  /\ AskFrom(Shows) <= checkIn /\ checkOut <= AskTo(Shows)
                    /\ AskFrom(Shows) <= Shows /\ Shows + Length <= AskTo(Shows)
                    /\ AskTo(Shows) - AskFrom(Shows) <= MaxNights
                    /\ Shows >= today
                    /\ Length >= MinNights
                    /\ HomeFrom <= checkIn /\ checkOut <= HomeFrom + Length
  BY DEF OneQuestionHoldsAll
<1>1. Length \in Int /\ MinNights <= Length /\ HomeFrom \in Int
      /\ HomeFrom <= checkIn /\ checkOut <= HomeFrom + Length
  BY HomeHoldsStay
<1>2. Shows \in Int /\ Fits(Shows) /\ Shows >= today
  BY ShownFits
<1>3. AskFrom(Shows) <= Shows /\ AskFrom(Shows) <= checkIn
  BY <1>2, MinMax DEF AskFrom, WholeDays
<1>4. Shows + Length <= AskTo(Shows) /\ checkOut <= AskTo(Shows)
  BY <1>1, <1>2, LengthsTyped DEF AskTo, Latest, WholeDays
<1> QED
  BY <1>1, <1>2, <1>3, <1>4, LengthsTyped DEF Fits

LEMMA ArrowsComeBack ==
  ASSUME WholeDays PROVE ArrowsReturn
<1> SUFFICES ASSUME Accepted(checkIn, checkOut)
             PROVE  /\ \A day \in Previous(Shows) : day < Shows /\ Fits(day)
                    /\ \A day \in Forward(Shows) : Shows \in Previous(day)
                    /\ \A day \in Previous(Shows) :
                         day = Shows - StepNights => Shows \in Forward(day)
  BY DEF ArrowsReturn
<1>1. Shows \in Int /\ Fits(Shows) /\ Shows >= today
  BY ShownFits
<1>2. \A day \in Previous(Shows) : day < Shows /\ Fits(day)
  BY DEF Previous
<1>3. ASSUME NEW day \in Forward(Shows) PROVE Shows \in Previous(day)
  <2>1. day = Shows + StepNights
    BY <1>3 DEF Forward
  <2>2. Latest(day - StepNights, today) = Shows
    BY <1>1, <2>1, LengthsTyped DEF Latest, WholeDays
  <2>3. Shows < day
    BY <1>1, <2>1, LengthsTyped
  <2> QED
    BY <1>1, <2>2, <2>3 DEF Previous
<1>4. ASSUME NEW day \in Previous(Shows), day = Shows - StepNights
      PROVE  Shows \in Forward(day)
  <2>1. day + StepNights = Shows
    BY <1>1, <1>4, LengthsTyped
  <2> QED
    BY <1>1, <2>1 DEF Forward
<1> QED
  BY <1>2, <1>3, <1>4

\* The Friday of a weekend: of this week, or yesterday on a Saturday.
LEMMA FridayComes ==
  ASSUME today \in Int
  PROVE  /\ Friday(today) \in Int
         /\ Weekday(today) = 6 => Friday(today) = today - 1
         /\ Weekday(today) # 6 => Friday(today) >= today
<1>1. Weekday(today) \in 0..6
  BY DEF Weekday
<1>2. Weekday(today) # 6 => (5 - Weekday(today)) % 7 = 5 - Weekday(today)
  BY <1>1
<1> QED
  BY <1>1, <1>2 DEF Friday

LEMMA PicksSearch ==
  ASSUME WholeDays PROVE PicksAreStays
<1> SUFFICES ASSUME NEW stay \in QuickPicks, stay[1] - today <= DaysAhead
             PROVE  Accepted(stay[1], stay[2])
  BY DEF PicksAreStays
<1>1. CASE stay \in
        {<<IF Weekday(today) = 6 THEN today ELSE Friday(today), Friday(today) + 2>>,
         <<Friday(today) + 7, Friday(today) + 9>>}
  <2>1. /\ stay[1] \in Int /\ stay[2] \in Int /\ stay[1] >= today
        /\ stay[2] - stay[1] >= 1 /\ stay[2] - stay[1] <= 2
    BY <1>1, FridayComes DEF WholeDays
  <2> QED
    BY <2>1, LengthsTyped DEF Accepted, WholeDays
<1>2. CASE \E f \in NextHoliday : stay = HolidayStay(f)
  <2>1. PICK f \in NextHoliday : stay = HolidayStay(f)
    BY <1>2
  <2>2. f \in Nat /\ Last(f) \in Int /\ Last(f) >= today
    BY LengthsTyped DEF NextHoliday, Ahead, Last
  <2> DEFINE arrive == Latest(f, today)
             leave == Earlier(arrive + HolidayNights, Last(f) + 1)
  <2>3. arrive \in Int /\ arrive >= today
    BY <2>2, MinMax DEF WholeDays
  <2>4. leave \in Int /\ leave <= arrive + HolidayNights
    BY <2>2, <2>3, LengthsTyped DEF Earlier
  <2>5. stay[1] = arrive /\ stay[2] = Latest(leave, arrive + 1)
    BY <2>1 DEF HolidayStay
  <2> HIDE DEF arrive, leave
  <2>6. /\ stay[2] \in Int /\ stay[2] - stay[1] >= 1
        /\ stay[2] - stay[1] <= HolidayNights
    BY <2>3, <2>4, <2>5, LengthsTyped DEF Latest
  <2> QED
    BY <2>3, <2>5, <2>6, LengthsTyped DEF Accepted, WholeDays
<1> QED
  BY <1>1, <1>2 DEF QuickPicks

-----------------------------------------------------------------------------
LEMMA DaysKept ==
  ASSUME WholeDays, [PlannerNext]_plannerVars PROVE WholeDays'
<1>1. CASE QuickPick
  <2>1. PICK stay \in QuickPicks : checkIn' = stay[1] /\ checkOut' = stay[2]
    BY <1>1 DEF QuickPick
  <2>2. stay[1] \in Int /\ stay[2] \in Int
    <3>1. CASE stay \in
        {<<IF Weekday(today) = 6 THEN today ELSE Friday(today), Friday(today) + 2>>,
         <<Friday(today) + 7, Friday(today) + 9>>}
      BY <3>1, FridayComes DEF WholeDays
    <3>2. CASE \E f \in NextHoliday : stay = HolidayStay(f)
      BY <3>2, LengthsTyped DEF NextHoliday, Ahead, HolidayStay, Last, Latest,
         Earlier, WholeDays
    <3> QED
      BY <3>1, <3>2 DEF QuickPicks
  <2> QED
    BY <1>1, <2>1, <2>2 DEF QuickPick, NoView, WholeDays
<1>2. CASE PressArrow
  <2>1. Shows \in Int
    BY <1>2, ShownFits DEF PressArrow
  <2> QED
    BY <1>2, <2>1, LengthsTyped DEF PressArrow, Previous, Forward, Latest, WholeDays
<1>3. CASE DayPasses
  BY <1>3 DEF DayPasses, WholeDays
<1>4. CASE UNCHANGED plannerVars
  BY <1>4 DEF plannerVars, WholeDays
<1> QED
  BY <1>1, <1>2, <1>3, <1>4 DEF PlannerNext

\* However the address came about and whatever day it is opened on, one
\* question of a legal length holds the stay and all that is shown, an arrow
\* leads back, and a quick pick is a stay the search accepts (plannerWindow,
\* plannerView, weekendStays, schoolHolidayStay).
THEOREM PlannerIsSound == PlannerSpec => []PlannerHolds
<1>1. PlannerInit => WholeDays
  BY LengthsTyped DEF PlannerInit, Typeable, NoView, WholeDays
<1>2. WholeDays /\ [PlannerNext]_plannerVars => WholeDays'
  BY DaysKept
<1>3. WholeDays => PlannerHolds
  BY OneQuestion, ArrowsComeBack, PicksSearch DEF PlannerHolds
<1> QED
  BY <1>1, <1>2, <1>3, PTL DEF PlannerSpec
-----------------------------------------------------------------------------
(***************************************************************************)
(* The search: what the page says of a lodge, for any lodges, workers and  *)
(* answers that came or did not, in any order.                             *)
(***************************************************************************)

\* An answer taken for the stay is about the stay's nights alone.
LEMMA StayIsAskedAlone ==
  ASSUME NEW h \in Halls, NEW q \in Rounds,
         q = IF whole THEN "window" ELSE "alone"
  PROVE  FewestShort(h, q) <=> "stay" \in short[h]
<1>1. Asked(q) = {"stay"}
  BY DEF Asked
<1> QED
  BY <1>1 DEF FewestShort

LEMMA SearchBegins == SearchInit => SearchTypeOK
  BY DEF SearchInit, SearchTypeOK, Rounds

LEMMA SearchKept ==
  ASSUME SearchTypeOK, [SearchNext]_searchVars PROVE SearchTypeOK'
<1>1. ASSUME NEW w \in Askers, WorkerAsks(w)
      PROVE  SearchTypeOK'
  BY <1>1 DEF WorkerAsks, Taken, SearchTypeOK
<1>2. ASSUME NEW w \in Askers, WorkerHears(w)
      PROVE  SearchTypeOK'
  <2>1. asking[w] \subseteq Halls
    BY DEF SearchTypeOK
  <2>2. answered' \in [Rounds -> SUBSET Halls]
    <3>1. CASE UNCHANGED answered
      BY <3>1 DEF SearchTypeOK
    <3>2. CASE answered' = [answered EXCEPT ![round] = @ \cup asking[w]]
      BY <2>1, <3>2 DEF SearchTypeOK
    <3> QED
      BY <1>2, <3>1, <3>2 DEF WorkerHears
  <2>3. asking' \in [Askers -> SUBSET Halls]
    BY <1>2 DEF WorkerHears, SearchTypeOK
  <2> QED
    BY <1>2, <2>2, <2>3 DEF WorkerHears, SearchTypeOK
<1>3. CASE AsksAgain
  BY <1>3 DEF AsksAgain, NeedStay, SearchTypeOK, Rounds
<1>4. CASE SearchEnds
  BY <1>4 DEF SearchEnds, SearchTypeOK, Rounds
<1>5. CASE UNCHANGED searchVars
  BY <1>5 DEF searchVars, SearchTypeOK
<1> QED
  BY <1>1, <1>2, <1>3, <1>4, <1>5 DEF SearchNext

LEMMA SearchTyped == SearchSpec => []SearchTypeOK
<1>1. SearchTypeOK /\ [SearchNext]_searchVars => SearchTypeOK'
  BY SearchKept
<1> QED
  BY <1>1, SearchBegins, PTL DEF SearchSpec

\* A lodge is left out only if its club is short on a night of the stay, never
\* offered as having beds when it is, and never unknown when its club answered
\* for the stay (lodgeNights, searchLodges).
THEOREM OffersHold == SearchSpec => []OffersAreTrue
<1>1. ASSUME NEW h \in Halls
      PROVE  /\ StayBeds(h) = "short" => "stay" \in short[h]
             /\ StayBeds(h) = "enough" => "stay" \notin short[h]
             /\ h \in answered["window"] /\ (h \in listing \/ whole)
                  => StayBeds(h) # "unknown"
  <2> DEFINE q == IF whole THEN "window" ELSE "alone"
  <2>1. q \in Rounds
    BY DEF Rounds
  <2>2. FewestShort(h, q) <=> "stay" \in short[h]
    BY <2>1, StayIsAskedAlone
  <2>3. StayBeds(h) =
          IF h \in answered["window"] /\ h \in listing
          THEN IF "stay" \in short[h] THEN "short" ELSE "enough"
          ELSE IF h \notin answered[q] THEN "unknown"
               ELSE IF FewestShort(h, q) THEN "short" ELSE "enough"
    BY DEF StayBeds
  <2> QED
    BY <2>2, <2>3
<1>2. fits \subseteq Halls /\ answered["window"] \subseteq Halls => OffersAreTrue
  BY <1>1 DEF OffersAreTrue, Offered
<1>3. SearchTypeOK => fits \subseteq Halls /\ answered["window"] \subseteq Halls
  BY DEF SearchTypeOK, Rounds
<1> QED
  BY <1>2, <1>3, SearchTyped, PTL DEF SearchSpec
-----------------------------------------------------------------------------
(***************************************************************************)
(* Seasons and the price of a stay.  The dates a lodge is left with by any *)
(* number of saves are usable together; such dates give ranges that cover  *)
(* the days they name, and the sum over a stay counts each season's nights.*)
(***************************************************************************)
LEMMA YearTyped ==
  YearDays \in Nat /\ LeapDay \in Nat /\ 2 <= LeapDay /\ LeapDay <= YearDays
  BY SeasonsAssumption

\* Remainders, one turn below and one above.
LEMMA Round ==
  ASSUME NEW x \in Int, 0 - YearDays < x, x < 2 * YearDays
  PROVE  x % YearDays = IF x < 0 THEN x + YearDays
                        ELSE IF x < YearDays THEN x ELSE x - YearDays
  BY YearTyped

\* A day and a number of days after it, round the year.
LEMMA LaterIs ==
  ASSUME NEW day \in Days, NEW n \in 0..YearDays
  PROVE  /\ Later(day, n) \in Days
         /\ Later(day, n) = IF day + n <= YearDays THEN day + n
                            ELSE day + n - YearDays
<1>1. day - 1 + n \in Int /\ 0 - YearDays < day - 1 + n /\ day - 1 + n < 2 * YearDays
  BY YearTyped DEF Days
<1>2. (day - 1 + n) % YearDays = IF day - 1 + n < YearDays THEN day - 1 + n
                                 ELSE day - 1 + n - YearDays
  BY <1>1, Round, YearTyped DEF Days
<1> QED
  BY <1>2, YearTyped DEF Later, Days

\* The days from one to another are those between, round the year.
LEMMA FromIs ==
  ASSUME NEW first \in Days, NEW last \in Days, NEW day \in Days
  PROVE  day \in From(first, last) <=>
           IF first <= last THEN first <= day /\ day <= last
           ELSE first <= day \/ day <= last
<1> DEFINE span == (last - first) % YearDays
<1>1. last - first \in Int /\ 0 - YearDays < last - first /\ last - first < 2 * YearDays
  BY YearTyped DEF Days
<1>2. span = IF last < first THEN last - first + YearDays ELSE last - first
  BY <1>1, Round, YearTyped DEF Days
<1>3. span \in 0..YearDays
  BY <1>2, YearTyped DEF Days
<1>4. \A i \in 0..span : Later(first, i) = IF first + i <= YearDays THEN first + i
                                           ELSE first + i - YearDays
  BY <1>3, LaterIs, YearTyped
<1>5. day \in From(first, last) <=> \E i \in 0..span : Later(first, i) = day
  BY DEF From
<1> HIDE DEF span
<1>6. (\E i \in 0..span : Later(first, i) = day) <=>
         IF first <= last THEN first <= day /\ day <= last
         ELSE first <= day \/ day <= last
  <2>1. ASSUME NEW i \in 0..span, Later(first, i) = day
        PROVE  IF first <= last THEN first <= day /\ day <= last
               ELSE first <= day \/ day <= last
    BY <2>1, <1>2, <1>3, <1>4, YearTyped DEF Days
  <2>2. ASSUME IF first <= last THEN first <= day /\ day <= last
               ELSE first <= day \/ day <= last
        PROVE  \E i \in 0..span : Later(first, i) = day
    <3>1. CASE first <= day
      <4>1. day - first \in 0..span
        BY <2>2, <3>1, <1>2, <1>3, YearTyped DEF Days
      <4> QED
        BY <3>1, <4>1, <1>4, YearTyped DEF Days
    <3>2. CASE day < first
      <4>1. day - first + YearDays \in 0..span
        BY <2>2, <3>2, <1>2, <1>3, YearTyped DEF Days
      <4> QED
        BY <3>2, <4>1, <1>4, YearTyped DEF Days
    <3> QED
      BY <3>1, <3>2 DEF Days
  <2> QED
    BY <2>1, <2>2
<1> QED
  BY <1>5, <1>6

\* A save leaves dates that can be used together.
SeasonsInv == dates \in SeasonDates /\ ~SeasonDatesProblem(dates)

LEMMA SeasonsStart == SeasonsInit => SeasonsInv
<1> SUFFICES ASSUME SeasonsInit PROVE SeasonsInv
  OBVIOUS
<1>1. /\ dates \in SeasonDates
      /\ \A s \in SeasonNames : dates.start[s] = Unset /\ dates.end[s] = Unset
  BY DEF SeasonsInit, SeasonDates
<1>2. \A s \in SeasonNames : Ranges(dates, s) = {}
  BY <1>1 DEF Ranges, LeapDayCovered, RangeOf
<1>3. ~SeasonDatesProblem(dates)
  <2>1. ~Shared(dates)
    BY <1>2 DEF Shared, InSeason, SeasonNames
  <2> QED
    BY <1>1, <1>2, <2>1 DEF SeasonDatesProblem
<1> QED
  BY <1>1, <1>3 DEF SeasonsInv

LEMMA SeasonsKept == SeasonsInv /\ [SaveSeason]_dates => SeasonsInv'
<1>1. ASSUME SeasonsInv, SaveSeason PROVE SeasonsInv'
  <2>1. PICK s \in SeasonNames, start \in Days \cup {Unset}, end \in Days \cup {Unset} :
          /\ ~SeasonDatesProblem(SeasonDatesAfter(s, start, end))
          /\ dates' = SeasonDatesAfter(s, start, end)
    BY <1>1 DEF SaveSeason
  <2>2. dates' \in SeasonDates
    BY <1>1, <2>1 DEF SeasonsInv, SeasonDates, SeasonDatesAfter
  <2> QED
    BY <2>1, <2>2 DEF SeasonsInv
<1> QED
  BY <1>1 DEF SeasonsInv

\* A season's range as its four dates give it.
LEMMA DatesAre ==
  ASSUME SeasonsInv, NEW s \in SeasonNames
  PROVE  /\ Other(s) \in SeasonNames /\ Other(Other(s)) = s
         /\ dates.start[s] \in Days \cup {Unset}
         /\ dates.end[s] \in Days \cup {Unset}
         /\ dates.start[Other(s)] \in Days \cup {Unset}
         /\ dates.end[s] # Unset => dates.start[s] # Unset
         /\ dates.start[s] # Unset => dates.start[s] # dates.end[s]
         /\ dates.start[s] # Unset /\ dates.end[s] = Unset
              => dates.start[s] # dates.start[Other(s)]
         /\ Unset \notin Days
<1>1. Other(s) \in SeasonNames /\ Other(Other(s)) = s
  BY DEF Other, SeasonNames
<1>2. /\ dates.start[s] \in Days \cup {Unset} /\ dates.end[s] \in Days \cup {Unset}
      /\ dates.start[Other(s)] \in Days \cup {Unset}
  BY <1>1 DEF SeasonsInv, SeasonDates
<1>3. Unset \notin Days
  BY DEF Unset, Days
<1>4. /\ dates.end[s] # Unset => dates.start[s] # Unset
      /\ dates.start[s] # Unset => dates.start[s] # dates.end[s]
      /\ \A r \in Ranges(dates, s) : r.inclusive \/ r.start # r.end
  BY DEF SeasonsInv, SeasonDatesProblem
<1>5. ASSUME dates.start[s] # Unset, dates.end[s] = Unset,
             dates.start[s] = dates.start[Other(s)]
      PROVE  FALSE
  <2> DEFINE r == [start |-> dates.start[s], inclusive |-> dates.end[s] # Unset,
                   end |-> dates.start[Other(s)]]
  <2>1. RangeOf(dates, s) = {r}
    BY <1>5 DEF RangeOf
  <2>2. ~r.inclusive /\ r.start = r.end
    BY <1>5
  <2> HIDE DEF r
  <2>3. r \in Ranges(dates, s)
    BY <2>1, <2>2 DEF Ranges, LeapDayCovered
  <2> QED
    BY <1>4, <2>2, <2>3
<1> QED
  BY <1>1, <1>2, <1>3, <1>4, <1>5

\* A season covers the days its dates name, and no other.
LEMMA SeasonIsWritten ==
  ASSUME SeasonsInv, NEW s \in SeasonNames, ~AllYear(s), NEW day \in Days
  PROVE  InSeason(dates, s, day) <=> day \in Written(s)
<1> DEFINE start == dates.start[s]
           end == dates.end[s]
           next == dates.start[Other(s)]
           covered == end = LeapDay - 1 /\ next # LeapDay
<1>1. /\ start \in Days \cup {Unset} /\ end \in Days \cup {Unset}
      /\ next \in Days \cup {Unset}
      /\ end # Unset => start # Unset
      /\ start # Unset => start # end
      /\ start # Unset /\ end = Unset => start # next
      /\ Unset \notin Days
      /\ Other(s) \in SeasonNames /\ Other(Other(s)) = s
  BY DatesAre
<1>2. LeapDay \in Days /\ LeapDay - 1 \in Days
  BY YearTyped DEF Days
<1>3. CASE start = Unset
  BY <1>1, <1>3 DEF InSeason, Ranges, LeapDayCovered, RangeOf, Written
<1>4. CASE start # Unset /\ end # Unset
  <2> DEFINE to == IF covered THEN LeapDay ELSE end
  <2>1. RangeOf(dates, s) = {[start |-> start, inclusive |-> TRUE, end |-> end]}
    BY <1>4 DEF RangeOf
  <2>2. (\E o \in RangeOf(dates, Other(s)) : o.start = LeapDay) <=> next = LeapDay
    <3>1. CASE next = Unset
      BY <1>1, <1>2, <3>1 DEF RangeOf
    <3>2. CASE next # Unset
      <4> DEFINE last == dates.end[Other(s)]
                 o == [start |-> next, inclusive |-> last # Unset,
                       end |-> IF last # Unset THEN last ELSE start]
      <4>1. RangeOf(dates, Other(s)) = {o}
        BY <1>1, <1>4, <3>2 DEF RangeOf
      <4>2. o.start = next
        OBVIOUS
      <4> HIDE DEF o
      <4> QED
        BY <4>1, <4>2
    <3> QED
      BY <3>1, <3>2
  <2>3. Ranges(dates, s) = {[start |-> start, inclusive |-> TRUE, end |-> to]}
    <3> DEFINE r == [start |-> start, inclusive |-> TRUE, end |-> end]
    <3>1. /\ r.inclusive /\ r.end = end
          /\ (IF covered THEN [r EXCEPT !.end = LeapDay] ELSE r)
               = [start |-> start, inclusive |-> TRUE, end |-> to]
      OBVIOUS
    <3> HIDE DEF r
    <3>2. Ranges(dates, s) = {IF /\ q.inclusive /\ q.end = LeapDay - 1
                                 /\ next # LeapDay
                              THEN [q EXCEPT !.end = LeapDay] ELSE q : q \in {r}}
      BY <2>1, <2>2 DEF Ranges, LeapDayCovered, r
    <3>3. Ranges(dates, s) = {IF r.inclusive /\ r.end = LeapDay - 1 /\ next # LeapDay
                              THEN [r EXCEPT !.end = LeapDay] ELSE r}
      BY <3>2
    <3>4. (IF r.inclusive /\ r.end = LeapDay - 1 /\ next # LeapDay
           THEN [r EXCEPT !.end = LeapDay] ELSE r)
            = (IF covered THEN [r EXCEPT !.end = LeapDay] ELSE r)
      BY <3>1
    <3> QED
      BY <3>1, <3>3, <3>4, Zenon
  <2>4. InSeason(dates, s, day) <=>
          InRange(day, [start |-> start, inclusive |-> TRUE, end |-> to])
    BY <2>3 DEF InSeason
  <2>5. start # to /\ start \in Days /\ to \in Days /\ end \in Days
    BY <1>1, <1>2, <1>4 DEF AllYear
  <2>6. InSeason(dates, s, day) <=>
          IF start < to THEN day >= start /\ day <= to
          ELSE day >= start \/ day <= to
    BY <2>4, <2>5 DEF InRange, BeforeEnd
  <2>7. day \in Written(s) <=>
          day \in From(start, end) \/ (covered /\ day = LeapDay)
    BY <1>4 DEF Written
  <2>8. day \in From(start, end) <=>
          IF start <= end THEN start <= day /\ day <= end
          ELSE start <= day \/ day <= end
    BY <2>5, FromIs
  <2>9. start # end /\ (covered => start # LeapDay)
    BY <1>1, <1>4 DEF AllYear
  <2> QED
    BY <2>5, <2>6, <2>7, <2>8, <2>9, <1>2 DEF Days
<1>5. CASE start # Unset /\ end = Unset /\ next # Unset
  <2>1. RangeOf(dates, s) = {[start |-> start, inclusive |-> FALSE, end |-> next]}
    BY <1>5 DEF RangeOf
  <2>2. Ranges(dates, s) = {[start |-> start, inclusive |-> FALSE, end |-> next]}
    BY <2>1 DEF Ranges, LeapDayCovered
  <2>3. InSeason(dates, s, day) <=>
          IF start < next THEN day >= start /\ day < next
          ELSE day >= start \/ day < next
    BY <1>1, <1>5, <2>2 DEF InSeason, InRange, BeforeEnd
  <2>4. day \in Written(s) <=> day \in From(start, next) /\ day # next
    BY <1>5 DEF Written
  <2>5. day \in From(start, next) <=>
          IF start <= next THEN start <= day /\ day <= next
          ELSE start <= day \/ day <= next
    BY <1>1, <1>5, FromIs
  <2> QED
    BY <1>1, <1>5, <2>3, <2>4, <2>5 DEF Days
<1>6. CASE start # Unset /\ end = Unset /\ next = Unset
  BY <1>1, <1>6 DEF InSeason, Ranges, LeapDayCovered, RangeOf, Written
<1> QED
  BY <1>3, <1>4, <1>5, <1>6

\* `f` holds the sums of the first so many of `price`.
SumsUp(f, nights, price) ==
    f = [n \in 0..nights |-> IF n = 0 THEN 0 ELSE f[n - 1] + price[n - 1]]

\* Two sums that begin and grow alike are the same.
LEMMA SameSums ==
  ASSUME NEW nights \in Nat, NEW price, NEW f, NEW g,
         SumsUp(f, nights, price), SumsUp(g, nights, price)
  PROVE  f[nights] = g[nights]
<1>f. f = [n \in 0..nights |-> IF n = 0 THEN 0 ELSE f[n - 1] + price[n - 1]]
  BY DEF SumsUp
<1>g. g = [n \in 0..nights |-> IF n = 0 THEN 0 ELSE g[n - 1] + price[n - 1]]
  BY DEF SumsUp
<1> DEFINE Differ == {n \in 0..nights : f[n] # g[n]}
<1>0. SUFFICES ASSUME f[nights] # g[nights] PROVE FALSE
  OBVIOUS
<1>1. Differ # {}
  <2>1. nights \in 0..nights
    OBVIOUS
  <2> QED
    BY <1>0, <2>1, Zenon
<1>2. PICK n \in Differ : \A m \in Nat : m < n => m \notin Differ
  <2>1. Differ \subseteq Nat
    OBVIOUS
  <2> HIDE DEF Differ
  <2>2. PICK n \in Differ : \A m \in Nat : <<m, n>> \in OpToRel(<, Nat) => m \notin Differ
    BY <1>1, <2>1, WFMin, NatLessThanWellFounded, Zenon
  <2> QED
    BY <2>1, <2>2 DEF OpToRel
<1>3. n \in 0..nights /\ f[n] # g[n]
  OBVIOUS
<1>4. n # 0
  BY <1>f, <1>g, <1>3
<1>5. n - 1 \in 0..nights /\ n - 1 \in Nat /\ n - 1 < n
  BY <1>3, <1>4
<1>6. f[n - 1] = g[n - 1]
  BY <1>2, <1>5
<1> QED
  BY <1>f, <1>g, <1>3, <1>4, <1>6

PricesUp(f, first, nights, rate) ==
    f = [n \in 0..nights |->
          IF n = 0 THEN 0 ELSE f[n - 1] + NightPrice(rate, Later(first, n - 1))]

\* The sum of a stay, when no night of it is without a price.
LEMMA EstimateIs ==
  ASSUME NEW first \in Days, NEW nights \in Nat, NEW rate, NEW g,
         PricesUp(g, first, nights, rate),
         \A day \in EachNight(first, nights) : NightPrice(rate, day) # Unknown
  PROVE  Estimate(first, nights, rate) = g[nights]
<1> DEFINE from == CHOOSE f : f = [n \in 0..nights |->
                      IF n = 0 THEN 0
                      ELSE f[n - 1] + NightPrice(rate, Later(first, n - 1))]
           price == [i \in 0..nights |-> NightPrice(rate, Later(first, i))]
<1>1. Estimate(first, nights, rate) = from[nights]
  BY DEF Estimate
<1>2. PricesUp(from, first, nights, rate)
  BY Zenon DEF PricesUp
<1> HIDE DEF from
<1>3. \A f : PricesUp(f, first, nights, rate)
             => f = [n \in 0..nights |-> IF n = 0 THEN 0 ELSE f[n - 1] + price[n - 1]]
  <2> TAKE f
  <2>1. \A n \in 0..nights : n # 0 =>
          price[n - 1] = NightPrice(rate, Later(first, n - 1))
    <3> SUFFICES ASSUME NEW n \in 0..nights, n # 0
                 PROVE  price[n - 1] = NightPrice(rate, Later(first, n - 1))
      OBVIOUS
    <3>1. n - 1 \in 0..nights
      OBVIOUS
    <3> QED
      BY <3>1
  <2> HIDE DEF price
  <2> QED
    BY <2>1 DEF PricesUp
<1> HIDE DEF price
<1>4. from[nights] = g[nights]
  <2>1. SumsUp(from, nights, price)
    BY <1>2, <1>3, Zenon DEF SumsUp
  <2>2. SumsUp(g, nights, price)
    BY <1>3, Zenon DEF SumsUp
  <2> QED
    BY <2>1, <2>2, SameSums, Zenon
<1> QED
  BY <1>1, <1>4

-----------------------------------------------------------------------------
\* One night more: a day not among those before it, within a year.
LEMMA NightsGrow ==
  ASSUME NEW first \in Days, NEW n \in Nat, n < YearDays
  PROVE  /\ EachNight(first, n) \subseteq Days
         /\ Later(first, n) \in Days
         /\ Later(first, n) \notin EachNight(first, n)
         /\ EachNight(first, n + 1) = EachNight(first, n) \cup {Later(first, n)}
<1>1. \A i \in 0..n : /\ Later(first, i) \in Days
                      /\ Later(first, i) = IF first + i <= YearDays THEN first + i
                                           ELSE first + i - YearDays
  BY LaterIs, YearTyped
<1>2. \A i \in 0..(n - 1) : Later(first, i) # Later(first, n)
  BY <1>1, YearTyped DEF Days
<1>3. 0..((n + 1) - 1) = 0..(n - 1) \cup {n} /\ 0..(n - 1) \subseteq 0..n
  OBVIOUS
<1>4. n \in 0..n
  OBVIOUS
<1> QED
  BY <1>1, <1>2, <1>3, <1>4, Zenon DEF EachNight

\* How many of the first `n` nights are in `season`.
Count(first, n, season) == Cardinality(EachNight(first, n) \cap season)

LEMMA CountGrows ==
  ASSUME NEW first \in Days, NEW n \in Nat, n < YearDays, NEW season
  PROVE  /\ Count(first, n, season) \in Nat
         /\ Count(first, n + 1, season) =
              Count(first, n, season) + IF Later(first, n) \in season THEN 1 ELSE 0
<1> DEFINE old == EachNight(first, n) \cap season
<1>1. IsFiniteSet(old)
  <2>1. IsFiniteSet(Days)
    BY YearTyped, FS_Interval DEF Days
  <2> QED
    BY <2>1, NightsGrow, FS_Subset
<1>2. Later(first, n) \notin old
  BY NightsGrow
<1>3. EachNight(first, n + 1) \cap season =
        IF Later(first, n) \in season THEN old \cup {Later(first, n)} ELSE old
  BY NightsGrow
<1> HIDE DEF old
<1>4. Cardinality(old) \in Nat
  BY <1>1, FS_CardinalityType
<1>5. Cardinality(old \cup {Later(first, n)}) = Cardinality(old) + 1
  BY <1>1, <1>2, FS_AddElement
<1> QED
  BY <1>3, <1>4, <1>5 DEF Count, old

LEMMA CountsNone ==
  ASSUME NEW first, NEW season
  PROVE  Count(first, 0, season) = 0
<1>1. 0..(0 - 1) = {}
  OBVIOUS
<1>2. EachNight(first, 0) \cap season = {}
  BY <1>1 DEF EachNight
<1> QED
  BY <1>2, FS_EmptySet DEF Count

-----------------------------------------------------------------------------
LEMMA WrittenAreDays ==
  ASSUME SeasonsInv, NEW s \in SeasonNames
  PROVE  Written(s) \subseteq Days
<1>1. ASSUME NEW a \in Days, NEW b \in Days PROVE From(a, b) \subseteq Days
  <2>1. (b - a) % YearDays \in 0..YearDays
    BY Round, YearTyped DEF Days
  <2>2. \A i \in 0..((b - a) % YearDays) : i \in 0..YearDays
    BY <2>1, YearTyped
  <2> QED
    BY <2>2, LaterIs DEF From
<1>2. LeapDay \in Days
  BY YearTyped DEF Days
<1>3. CASE dates.start[s] # Unset /\ dates.end[s] # Unset
  <2>1. From(dates.start[s], dates.end[s]) \subseteq Days
    BY <1>1, <1>3, DatesAre
  <2> QED
    BY <1>2, <1>3, <2>1 DEF Written
<1>4. CASE dates.start[s] # Unset /\ dates.end[s] = Unset
           /\ dates.start[Other(s)] # Unset
  <2>1. From(dates.start[s], dates.start[Other(s)]) \subseteq Days
    BY <1>1, <1>4, DatesAre
  <2> QED
    BY <1>4, <2>1 DEF Written
<1>5. CASE \/ dates.start[s] = Unset
           \/ dates.end[s] = Unset /\ dates.start[Other(s)] = Unset
  BY <1>5 DEF Written
<1> QED
  BY <1>3, <1>4, <1>5

LEMMA SeasonsApart ==
  ASSUME SeasonsInv, \A s \in SeasonNames : ~AllYear(s)
  PROVE  Written("winter") \cap Written("summer") = {}
<1> SUFFICES ASSUME NEW day \in Written("winter"), day \in Written("summer")
             PROVE  FALSE
  OBVIOUS
<1>1. day \in Days
  BY WrittenAreDays DEF SeasonNames
<1>2. \A s \in SeasonNames : InSeason(dates, s, day)
  BY <1>1, SeasonIsWritten DEF SeasonNames
<1> QED
  BY <1>1, <1>2 DEF SeasonsInv, SeasonDatesProblem, Shared

\* A night costs the rate of the season its day is written in.
LEMMA NightIsPriced ==
  ASSUME SeasonsInv, \A s \in SeasonNames : ~AllYear(s), NEW day \in Days, NEW rate
  PROVE  NightPrice(rate, day) = IF day \in Written("winter") THEN rate["winter"]
                                 ELSE IF day \in Written("summer") THEN rate["summer"]
                                 ELSE Unknown
<1>1. \A s \in SeasonNames : InSeason(dates, s, day) <=> day \in Written(s)
  BY SeasonIsWritten
<1> QED
  BY <1>1 DEF NightPrice, SeasonForNight, SeasonNames

Rates == {Unknown, 1, 10}

\* What `count` nights cost at `rate`.
Cost(count, rate) == count * rate

LEMMA CostGrows ==
  ASSUME NEW c \in Nat, NEW r \in Rates
  PROVE  /\ Cost(c, r) \in Int
         /\ Cost(c + 1, r) = Cost(c, r) + r
         /\ Cost(0, r) = 0
  BY DEF Cost, Rates, Unknown

\* A stay without an unknown night costs the nights of each season.
LEMMA KnownStay ==
  ASSUME SeasonsInv, \A s \in SeasonNames : ~AllYear(s),
         NEW first \in Days, NEW nights \in Nat, nights <= YearDays,
         NEW rate \in [SeasonNames -> Rates],
         EachNight(first, nights) \subseteq Written("winter") \cup Written("summer"),
         \A day \in EachNight(first, nights) : NightPrice(rate, day) # Unknown
  PROVE  Estimate(first, nights, rate) =
           Cost(Count(first, nights, Written("winter")), rate["winter"])
           + Cost(Count(first, nights, Written("summer")), rate["summer"])
<1> DEFINE w(n) == Count(first, n, Written("winter"))
           s(n) == Count(first, n, Written("summer"))
           sum(n) == Cost(w(n), rate["winter"]) + Cost(s(n), rate["summer"])
           g == [n \in 0..nights |-> sum(n)]
<1>1. rate["winter"] \in Rates /\ rate["summer"] \in Rates
  BY DEF SeasonNames
<1>2. sum(0) = 0
  BY <1>1, CountsNone, CostGrows
<1>3. ASSUME NEW m \in Nat, m < nights
      PROVE  sum(m + 1) = sum(m) + NightPrice(rate, Later(first, m))
  <2> DEFINE day == Later(first, m)
  <2>1. m < YearDays
    BY <1>3, YearTyped
  <2>2. day \in Days
    BY <2>1, NightsGrow
  <2>3. day \in EachNight(first, nights)
    BY <1>3 DEF EachNight
  <2> HIDE DEF day
  <2>4. \/ day \in Written("winter") /\ day \notin Written("summer")
        \/ day \notin Written("winter") /\ day \in Written("summer")
    BY <2>3, SeasonsApart
  <2>5. NightPrice(rate, day) = IF day \in Written("winter") THEN rate["winter"]
                                ELSE rate["summer"]
    BY <2>2, <2>4, NightIsPriced
  <2>6. /\ w(m) \in Nat /\ s(m) \in Nat
        /\ w(m + 1) = w(m) + IF day \in Written("winter") THEN 1 ELSE 0
        /\ s(m + 1) = s(m) + IF day \in Written("summer") THEN 1 ELSE 0
    BY <2>1, CountGrows DEF day
  <2> HIDE DEF w, s
  <2>7. /\ Cost(w(m), rate["winter"]) \in Int /\ Cost(s(m), rate["summer"]) \in Int
        /\ Cost(w(m) + 1, rate["winter"]) = Cost(w(m), rate["winter"]) + rate["winter"]
        /\ Cost(s(m) + 1, rate["summer"]) = Cost(s(m), rate["summer"]) + rate["summer"]
    BY <1>1, <2>6, CostGrows
  <2>8. rate["winter"] \in Int /\ rate["summer"] \in Int
    BY <1>1 DEF Rates, Unknown
  <2> QED
    BY <2>4, <2>5, <2>6, <2>7, <2>8 DEF day
<1> HIDE DEF sum
<1>4. PricesUp(g, first, nights, rate)
  <2>1. ASSUME NEW n \in 0..nights
        PROVE  sum(n) = IF n = 0 THEN 0
                        ELSE g[n - 1] + NightPrice(rate, Later(first, n - 1))
    <3>1. CASE n = 0
      BY <1>2, <3>1
    <3>2. CASE n # 0
      <4>1. n - 1 \in Nat /\ n - 1 < nights /\ (n - 1) + 1 = n /\ n - 1 \in 0..nights
        BY <3>2
      <4>2. sum((n - 1) + 1) = sum(n - 1) + NightPrice(rate, Later(first, n - 1))
        BY <1>3, <4>1
      <4> QED
        BY <3>2, <4>1, <4>2
    <3> QED
      BY <3>1, <3>2
  <2> QED
    BY <2>1, Zenon DEF PricesUp
<1>5. Estimate(first, nights, rate) = g[nights]
  <2> HIDE DEF g
  <2> QED
    BY <1>4, EstimateIs, Zenon
<1>6. g[nights] = sum(nights)
  OBVIOUS
<1> QED
  BY <1>5, <1>6 DEF sum

\* Every lodge, whatever saves brought its dates to, is priced by the days its
\* dates name: the seasons share no day, and a stay costs the sum of its nights,
\* or is unknown when a night has no season or no rate, for every length of the
\* year and every stay no longer than it (seasonDatesProblem, estimateStay).
THEOREM StaysCostTheirNights ==
  ASSUME LongestStay <= YearDays
  PROVE  SeasonsSpec => []PricedAsWritten
<1>1. ASSUME SeasonsInv PROVE PricedAsWritten
  <2> SUFFICES ASSUME \A s \in SeasonNames : ~AllYear(s),
                      NEW first \in Days, NEW nights \in 1..LongestStay,
                      NEW rate \in [SeasonNames -> Rates]
               PROVE  /\ Written("winter") \cap Written("summer") = {}
                      /\ LET stay == EachNight(first, nights)
                             of(s) == stay \cap Written(s) IN
                           Estimate(first, nights, rate) =
                             IF \/ ~(stay \subseteq Written("winter") \cup Written("summer"))
                                \/ \E s \in SeasonNames :
                                     of(s) # {} /\ rate[s] = Unknown
                             THEN Unknown
                             ELSE Cardinality(of("winter")) * rate["winter"]
                                  + Cardinality(of("summer")) * rate["summer"]
    BY <1>1, SeasonsApart DEF PricedAsWritten, Rates
  <2> DEFINE stay == EachNight(first, nights)
             of(s) == stay \cap Written(s)
             unknown == \E day \in stay : NightPrice(rate, day) = Unknown
  <2>1. nights \in Nat /\ nights <= YearDays /\ stay \subseteq Days
    <3>1. nights \in Nat /\ nights <= YearDays
      BY YearTyped, SeasonsAssumption
    <3>2. \A i \in 0..(nights - 1) : i \in 0..YearDays
      BY <3>1, YearTyped
    <3> QED
      BY <3>1, <3>2, LaterIs DEF EachNight
  <2>2. Written("winter") \cap Written("summer") = {}
    BY <1>1, SeasonsApart
  <2>3. \A day \in stay :
          NightPrice(rate, day) = IF day \in Written("winter") THEN rate["winter"]
                                  ELSE IF day \in Written("summer") THEN rate["summer"]
                                  ELSE Unknown
    BY <1>1, <2>1, NightIsPriced
  <2>4. unknown <=> \/ ~(stay \subseteq Written("winter") \cup Written("summer"))
                    \/ \E s \in SeasonNames : of(s) # {} /\ rate[s] = Unknown
    <3> HIDE DEF stay
    <3> QED
      BY <2>2, <2>3, SMTT(60) DEF SeasonNames
  <2>5. CASE unknown
    <3>1. Estimate(first, nights, rate) = Unknown
      BY <2>5 DEF Estimate
    <3> QED
      BY <2>2, <2>4, <2>5, <3>1
  <2>6. CASE ~unknown
    <3>1. stay \subseteq Written("winter") \cup Written("summer")
      BY <2>4, <2>6
    <3>2. \A day \in stay : NightPrice(rate, day) # Unknown
      BY <2>6
    <3>3. Estimate(first, nights, rate) =
            Cost(Count(first, nights, Written("winter")), rate["winter"])
            + Cost(Count(first, nights, Written("summer")), rate["summer"])
      BY <1>1, <2>1, <3>1, <3>2, KnownStay
    <3> QED
      BY <2>2, <2>4, <2>6, <3>3 DEF Cost, Count
  <2> QED
    BY <2>5, <2>6
<1> QED
  BY <1>1, SeasonsStart, SeasonsKept, PTL DEF SeasonsSpec
=============================================================================
