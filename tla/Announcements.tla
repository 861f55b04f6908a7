--------------------------- MODULE Announcements ---------------------------
(***************************************************************************)
(* What the hub promises a member club about the pushes of a post, and     *)
(* nothing about how.                                                      *)
(*                                                                         *)
(* A post lives as PostLifecycle says.  For each post and club there are   *)
(* two notices, that the post was shared and that it was removed.  A       *)
(* notice is queued once, tried at most MaxAttempts times, and ends        *)
(* delivered or abandoned for good; only pruning the post takes it away.   *)
(* It is delivered only if the club took it in, and abandoned only when    *)
(* its attempts are used up.  A club may take a notice in more often than  *)
(* it is tried (an answer is lost, the process stops), and late, of a post *)
(* that is already gone.                                                   *)
(*                                                                         *)
(* Whatever is lost, retried or late: once a club has taken in that a post *)
(* is removed, no later push shows it that post again.                     *)
(***************************************************************************)
EXTENDS Naturals

CONSTANTS Posts, Clubs, MaxAttempts

VARIABLES
    phase,   \* the life of each post
    notice,  \* how each notice stands and how often it was tried
    taken,   \* the notices that their clubs have taken in
    told     \* what each club was last told of each post

Life == INSTANCE PostLifecycle

promiseVars == <<phase, notice, taken, told>>

Kinds == {"CREATED", "REMOVED"}
Notices == Posts \X Clubs \X Kinds
RemovalOf(n) == <<n[1], n[2], "REMOVED">>

NoNotice == [status |-> "none", attempts |-> 0]

Init ==
    /\ Life!Init
    /\ notice = [n \in Notices |-> NoNotice]
    /\ taken = {}
    /\ told = [c \in Clubs |-> [p \in Posts |-> "nothing"]]

PostMoves ==
    /\ \E p \in Posts :
         Life!Share(p) \/ Life!Hide(p) \/ Life!Show(p) \/ Life!Remove(p)
    /\ UNCHANGED <<notice, taken, told>>

\* The notices of a pruned post go with it.
Prune(S) ==
    /\ Life!Prune(S)
    /\ notice' = [n \in Notices |-> IF n[1] \in S THEN NoNotice ELSE notice[n]]
    /\ UNCHANGED <<taken, told>>

\* Notices are queued of what a post has become, and none twice.
Queue(N) ==
    /\ \A n \in N :
         /\ notice[n].status = "none"
         /\ phase[n[1]] \in IF n[3] = "REMOVED" THEN {"removed"}
                            ELSE {"visible", "hidden", "removed"}
    /\ notice' = [n \in Notices |->
         IF n \in N THEN [status |-> "PENDING", attempts |-> 0] ELSE notice[n]]
    /\ UNCHANGED <<phase, taken, told>>

\* A club takes in a notice that is queued, or that was as its post was pruned.
Take(n, word) ==
    /\ notice[n].status = "PENDING" \/ phase[n[1]] = "gone"
    /\ word = "shared" => RemovalOf(n) \notin taken \cup {n}
    /\ taken' = taken \cup {n}
    /\ told' = [told EXCEPT ![n[2]][n[1]] = word]
    /\ UNCHANGED <<phase, notice>>

\* One attempt more, and how the notice stands after it.
Tried(n, status) ==
    /\ notice[n].status = "PENDING"
    /\ notice' = [notice EXCEPT ![n] =
         [status |-> status, attempts |-> @.attempts + 1]]
    /\ UNCHANGED <<phase, taken, told>>

Succeeds(n) == n \in taken /\ Tried(n, "DELIVERED")

Fails(n) ==
    Tried(n, IF notice[n].attempts + 1 = MaxAttempts THEN "ABANDONED" ELSE "PENDING")

Next ==
    \/ PostMoves
    \/ \E S \in SUBSET Posts : Prune(S)
    \/ \E N \in SUBSET Notices : Queue(N)
    \/ \E n \in Notices :
         \/ \E word \in {"shared", "withdrawn"} : Take(n, word)
         \/ Succeeds(n) \/ Fails(n)

Spec == Init /\ [][Next]_promiseVars

\* A club that has taken in that a post is removed was last told that it is
\* withdrawn, and stays so.
RemovalSticks ==
    \A n \in taken : n[3] = "REMOVED" => told[n[2]][n[1]] = "withdrawn"

\* An attempt is left as long as a notice is pending, and it took at least one
\* to end it.
AttemptsBounded ==
    \A n \in Notices :
      /\ notice[n].status = "PENDING" => notice[n].attempts < MaxAttempts
      /\ notice[n].status = "DELIVERED" => notice[n].attempts \in 1..MaxAttempts
      /\ notice[n].status = "ABANDONED" => notice[n].attempts = MaxAttempts
=============================================================================
