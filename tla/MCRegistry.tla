---------------------------- MODULE MCRegistry ----------------------------
(* The registry's parts, each on a small instance: `part` says which one a  *)
(* behaviour is about, and the variables of the others stay as they begin.  *)
EXTENDS ClubLifecycle, LodgePull, TLC

CONSTANTS c1, c2, k1, k2, l1, l2, d1, d2, u1, u2, e1, e2, p1, p2

ASSUME PartsAssumption ==
    {c1, c2} \subseteq Clubs /\ c1 # c2 /\ l1 \in Lodges /\ "n1" \in Names

VARIABLE part

vars == <<part, clubVars, lodgeVars, pullVars>>

\* One club registers and lives; the other was rejected.
BeginClubs ==
    /\ clubs = [c \in Clubs |->
         [status |-> IF c = c1 THEN "none" ELSE "REJECTED", wants |-> {},
          url |-> NoUrl, secret |-> 1]]
    /\ key = [k \in Keys |->
         [at |-> "unused", club |-> c1, source |-> "admin"]]
    /\ lodge = [l \in Lodges |->
         [at |-> "live", name |-> "n1", owner |-> NoClub, winter |-> "short",
          summer |-> "short", by |-> NoClub]]

\* Each of the two clubs was handed its key when it registered.
KeysAreHeld ==
    key = [k \in Keys |->
      [at |-> IF k \in {k1, k2} THEN "live" ELSE "unused",
       club |-> IF k = k1 THEN c1 ELSE c2, source |-> "register"]]

\* Both clubs hold a key; one is approved, the other waits and asks for a lodge.
BeginOwnership ==
    /\ clubs = [c \in Clubs |->
         [status |-> IF c = c1 THEN "APPROVED" ELSE "PENDING",
          wants |-> IF c = c1 THEN {} ELSE {l1}, url |-> NoUrl, secret |-> 1]]
    /\ KeysAreHeld
    /\ lodge = [l \in Lodges |->
         [at |-> IF l = l1 THEN "live" ELSE "unused", name |-> "n1",
          owner |-> NoClub, winter |-> "short", summer |-> "short",
          by |-> NoClub]]

\* One lodge of one club.
BeginEditing ==
    /\ clubs = [c \in Clubs |->
         [status |-> IF c = c1 THEN "APPROVED" ELSE "SUSPENDED",
          wants |-> {}, url |-> NoUrl, secret |-> 1]]
    /\ KeysAreHeld
    /\ lodge = [l \in Lodges |->
         [at |-> IF l = l1 THEN "live" ELSE "unused", name |-> "n1",
          owner |-> IF l = l1 THEN c1 ELSE NoClub, winter |-> "short",
          summer |-> "short", by |-> NoClub]]

Init ==
    /\ clubReq = [d \in ClubDesks |-> ClubIdle]
    /\ lodgeReq = [d \in LodgeDesks |-> LodgeIdle]
    /\ welcomed = [c \in Clubs |-> 0]
    /\ destined = {}
    /\ \/ part = "clubs" /\ BeginClubs
       \/ part = "ownership" /\ BeginOwnership
       \/ part = "editing" /\ BeginEditing
       \/ part = "pull" /\ BeginEditing
    /\ PullInit

\* Where it is about who owns a lodge, nobody sets its seasons.
PlainSaves ==
    \A d \in LodgeDesks : DOMAIN lodgeReq'[d].edit \cap {"winter", "summer"} = {}

\* With one name there is, an edit at the console that carries it does what the
\* edit without it does.
NamelessEdits ==
    \A d \in LodgeDesks :
      lodgeReq'[d].at = "patch" => "name" \notin DOMAIN lodgeReq'[d].edit

Next ==
    /\ UNCHANGED part
    /\ \/ part = "clubs" /\ ClubNext /\ UNCHANGED pullVars
       \/ part = "ownership" /\ OwnershipNext /\ PlainSaves /\ UNCHANGED pullVars
       \/ part = "editing" /\ EditingNext /\ NamelessEdits /\ UNCHANGED pullVars
       \/ part = "pull" /\ PullNext /\ UNCHANGED <<clubVars, lodgeVars>>

Spec == Init /\ [][Next]_vars

\* Desks, destinations, and the pull's lodges and pens are interchangeable.
RegistrySymmetry ==
    Permutations({d1, d2}) \cup Permutations({u1, u2})
    \cup Permutations({e1, e2}) \cup Permutations({p1, p2})

TypesOK == LodgeTypeOK /\ ClubTypeOK /\ PullTypeOK
=============================================================================
