--------------------------- MODULE LodgeTitles ---------------------------
(***************************************************************************)
(* What the hub promises about who holds a lodge, and nothing about how.   *)
(*                                                                         *)
(*   unused -> live       it appears, held by its club or by the centre    *)
(*   live -> deleted      for good, and it keeps what it said              *)
(*                                                                         *)
(* Titles change hands in one way: one club takes lodges from the centre   *)
(* and gives lodges of its own back to it, all at once.  Only clubs that   *)
(* were admitted take, hold or describe lodges.                            *)
(***************************************************************************)
CONSTANTS Lodges, Clubs, NoClub

VARIABLES
    admitted,   \* the clubs an administrator has approved
    standing,   \* unused, live or deleted
    holder,     \* whose each lodge is; NoClub: the centre's
    says,       \* what is written of it
    credit      \* who wrote it last

titleVars == <<admitted, standing, holder, says, credit>>

Parties == admitted \cup {NoClub}

Init ==
    /\ admitted \subseteq Clubs
    /\ standing \in [Lodges -> {"unused", "live"}]
    /\ holder \in [Lodges -> Parties] /\ credit \in [Lodges -> Parties]
    /\ \A l \in Lodges : standing[l] = "unused" => holder[l] = NoClub

\* An approval is for good: a suspended club keeps what it holds.
Admit(S) ==
    /\ admitted' = admitted \cup S
    /\ UNCHANGED <<standing, holder, says, credit>>

\* What is written of l and of no other lodge.
Rewritten(l) == says' = [says EXCEPT ![l] = says'[l]]

Appear(l, by) ==
    /\ standing[l] = "unused"
    /\ standing' = [standing EXCEPT ![l] = "live"]
    /\ holder' = [holder EXCEPT ![l] = by]
    /\ credit' = [credit EXCEPT ![l] = by]
    /\ Rewritten(l) /\ UNCHANGED admitted

Describe(l, by) ==
    /\ standing[l] = "live"
    /\ credit' = [credit EXCEPT ![l] = by]
    /\ Rewritten(l) /\ UNCHANGED <<admitted, standing, holder>>

Delete(l) ==
    /\ standing[l] = "live"
    /\ standing' = [standing EXCEPT ![l] = "deleted"]
    /\ UNCHANGED <<admitted, holder, says, credit>>

\* c takes the lodges of one set from the centre, and leaves it another's.
Reassign(c, taken, left) ==
    /\ \A l \in taken : standing[l] # "unused" /\ holder[l] = NoClub
    /\ \A l \in left : holder[l] = c
    /\ holder' = [l \in Lodges |->
         IF l \in taken THEN c ELSE IF l \in left THEN NoClub ELSE holder[l]]
    /\ UNCHANGED <<admitted, standing, says, credit>>

Next ==
    \/ \E S \in SUBSET Clubs : Admit(S)
    \/ \E l \in Lodges :
         \/ \E by \in Parties : Appear(l, by) \/ Describe(l, by)
         \/ Delete(l)
    \/ \E c \in admitted, taken, left \in SUBSET Lodges : Reassign(c, taken, left)

Spec == Init /\ [][Next]_titleVars
==========================================================================
