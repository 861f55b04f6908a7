----------------------------- MODULE BedSearch -----------------------------
(***************************************************************************)
(* One search of the public bed planner: the lodges that fit the party,    *)
(* the question to each club for the nights of the grid, a few at a time,  *)
(* the second question for the stay alone to the clubs that answered       *)
(* without a list of nights, and the lodges the page offers.  Nothing is   *)
(* stored.                                                                 *)
(*                                                                         *)
(* Nights are the stay's and those of the grid outside it; a club has beds *)
(* for the party on all of either or is short on some.  A club is external: *)
(* it answers or does not (no registration, a refused address, a timeout,  *)
(* an answer that does not match the question).                            *)
(***************************************************************************)
EXTENDS Naturals, FiniteSets

CONSTANTS
    Halls,       \* lodges of the registry that are live
    Askers       \* CLUB_AVAILABILITY_CONCURRENCY

VARIABLES
    fits,        \* halls with the beds and facilities the party needs
    listing,     \* halls whose club lists its nights
    short,       \* nights a hall has too few beds on
    whole,       \* the grid shows the stay's nights and no others
    round,       \* which question is being asked
    due,         \* halls not asked yet
    asking,      \* what each worker waits for
    answered     \* what each club said, by question

searchVars ==
    <<fits, listing, short, whole, round, due, asking, answered>>

-----------------------------------------------------------------------------
Nights == {"stay", "outside"}
Rounds == {"window", "alone"}

\* What a question for the window covers.
Asked(q) == IF q = "alone" \/ whole THEN {"stay"} ELSE Nights

SearchTypeOK ==
    /\ fits \subseteq Halls /\ listing \subseteq Halls
    /\ short \in [Halls -> SUBSET Nights]
    /\ whole \in BOOLEAN
    /\ round \in Rounds \cup {"done"}
    /\ due \subseteq Halls
    /\ asking \in [Askers -> SUBSET Halls]
    /\ answered \in [Rounds -> SUBSET Halls]

\* loadAvailabilityTargets: which clubs can be asked at all is one more reason
\* for no answer, and left to the asking.
SearchInit ==
    /\ fits \in SUBSET Halls
    /\ listing \in SUBSET Halls
    /\ short \in [Halls -> SUBSET Nights]
    /\ whole \in BOOLEAN
    /\ round = "window"
    /\ due = fits
    /\ asking = [w \in Askers |-> {}]
    /\ answered = [q \in Rounds |-> {}]

\* A worker takes the next of the targets; no two take the same.
Taken(h) == due \ {h}

WorkerAsks(w) ==
    /\ round # "done" /\ asking[w] = {}
    /\ \E h \in due :
         /\ asking' = [asking EXCEPT ![w] = {h}]
         /\ due' = Taken(h)
    /\ UNCHANGED <<fits, listing, short, whole, round, answered>>

WorkerHears(w) ==
    /\ asking[w] # {}
    /\ \/ answered' = [answered EXCEPT ![round] = @ \cup asking[w]]
       \/ UNCHANGED answered
    /\ asking' = [asking EXCEPT ![w] = {}]
    /\ UNCHANGED <<fits, listing, short, whole, round, due>>

\* Only a club that answered without nights is asked again.
NeedStay == IF whole THEN {} ELSE answered["window"] \ listing

AllHeard == due = {} /\ \A w \in Askers : asking[w] = {}

AsksAgain ==
    /\ round = "window" /\ AllHeard
    /\ round' = IF NeedStay = {} THEN "done" ELSE "alone"
    /\ due' = NeedStay
    /\ UNCHANGED <<fits, listing, short, whole, asking, answered>>

SearchEnds ==
    /\ round = "alone" /\ AllHeard
    /\ round' = "done"
    /\ UNCHANGED <<fits, listing, short, whole, due, asking, answered>>

SearchNext ==
    \/ \E w \in Askers : WorkerAsks(w) \/ WorkerHears(w)
    \/ AsksAgain
    \/ SearchEnds

SearchSpec == SearchInit /\ [][SearchNext]_searchVars

-----------------------------------------------------------------------------
\* A club's one number is the fewest beds on any night it was asked about.
FewestShort(h, q) == short[h] \cap Asked(q) # {}

StayBedsOfWindow(h) ==                                        \* mutant
    IF h \notin answered["window"] THEN "unknown"
    ELSE IF FewestShort(h, "window") THEN "short" ELSE "enough"

\* lodgeNights: the list's nights of the stay; else the answer for the stay.
StayBeds(h) ==
    IF h \in answered["window"] /\ h \in listing
    THEN IF "stay" \in short[h] THEN "short" ELSE "enough"
    ELSE LET q == IF whole THEN "window" ELSE "alone" IN
           IF h \notin answered[q] THEN "unknown"
           ELSE IF FewestShort(h, q) THEN "short" ELSE "enough"

\* searchLodges: what is not known hides nothing.
Offered == {h \in fits : StayBeds(h) # "short"}

-----------------------------------------------------------------------------
\* When every question has been answered or given up, the page leaves out a
\* lodge only if it cannot take the party on a night of the stay, and offers
\* none whose club said so: a full night outside the stay, a club that does not
\* answer or lists no nights never hides a lodge (loadPlanner, lodgeNights).
OffersAreTrue ==
    round = "done" =>
      /\ \A h \in fits \ Offered : "stay" \in short[h]
      /\ \A h \in Offered : StayBeds(h) = "enough" => "stay" \notin short[h]
      /\ \A h \in answered["window"] \cap (listing \cup IF whole THEN Halls ELSE {})
           : StayBeds(h) # "unknown"
=============================================================================
