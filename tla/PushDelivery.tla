---------------------------- MODULE PushDelivery ----------------------------
(***************************************************************************)
(* The push queue: a row of `post_deliveries` for each post, club and kind *)
(* (shared, removed), and the sweep that drains it every minute, fifty due *)
(* rows at a time, oldest first, one call after the other.                 *)
(*                                                                         *)
(* While a sweep works through its batch everything else moves: the post   *)
(* is hidden, removed or pruned (with its rows), the club is suspended,    *)
(* upgraded or gives up its target, and the process may stop.  What a      *)
(* statement has read is carried in `sweep` and `asked`.                   *)
(*                                                                         *)
(* Time is kept only as the order in which rows fall due.  The call itself *)
(* is an outcome: the club took the push in or did not, and this server    *)
(* got a good answer or did not.  Clubs are those other than the origin.   *)
(* Where a target points and the secret that signs the call are left out.  *)
(***************************************************************************)
EXTENDS Naturals, Sequences, FiniteSets

CONSTANTS
    Posts,        \* post ids
    Clubs,        \* clubs a shared post goes to
    Sweeps,       \* ticks of the cron that may be at work
    BatchSize,    \* BATCH_SIZE
    MaxAttempts,  \* MAX_DELIVERY_ATTEMPTS
    MaxFaults     \* bound on crashes and failed updates

ASSUME PushAssumption ==
    /\ IsFiniteSet(Clubs)
    /\ BatchSize \in Nat \ {0} /\ MaxAttempts \in Nat \ {0}
    /\ MaxFaults \in Nat

VARIABLES
    post,     \* what the queue can tell of a post
    club,     \* Club: status, pushUrl, lastReportedApiVersion
    row,      \* the rows of `post_deliveries`, by their unique key
    line,     \* the pending rows that are due, in nextAttemptAt order
    asked,    \* enqueuePostDeliveries in flight, by post and kind
    sweep,    \* what each tick at work has read
    running,  \* deliverySweepRunning
    heard,    \* what each club was last told of each post
    got,      \* how often each row's push was taken in
    late,     \* pushes a club took in since it ceased to be reachable
    faults    \* crashes and failed updates so far

callVars   == <<heard, got, late>>
queueVars  == <<row, line>>
sweepVars  == <<sweep, running>>
vars == <<post, club, row, line, asked, sweep, running, heard, got, late,
          faults>>

-----------------------------------------------------------------------------
Kinds == {"CREATED", "REMOVED"}
Rows == Posts \X Clubs \X Kinds

PostOf(r) == r[1]
ClubOf(r) == r[2]
KindOf(r) == r[3]

DeliveryRow ==
    [status : {"none", "PENDING", "DELIVERED", "ABANDONED"}, attempts : Nat]

NoDelivery == [status |-> "none", attempts |-> 0]

\* target: pushUrl is set; pushEnabled is written with it.
\* version: the last reported one against ours; a club that reported none agrees.
ClubRow ==
    [status : {"APPROVED", "SUSPENDED"}, target : BOOLEAN,
     version : {"agrees", "differs"}]

Asking == [at : {"idle", "asked", "read"}, to : SUBSET Clubs]

NotAsked == [at |-> "idle", to |-> {}]

\* batch: the rows still to do, the one at work first.  withdrawn, attempts:
\* what the push will say and the attempts its row will have.
SweepState ==
    [at : {"idle", "next", "hold", "call", "record"}, batch : Seq(Rows),
     withdrawn : BOOLEAN, attempts : Nat, ok : BOOLEAN]

SweepIdle ==
    [at |-> "idle", batch |-> <<>>, withdrawn |-> FALSE, attempts |-> 0,
     ok |-> FALSE]

\* A row is in line once, and only while it is pending.
LineIsPending ==
    /\ \A i \in DOMAIN line : row[line[i]].status = "PENDING"
    /\ \A i, j \in DOMAIN line : line[i] = line[j] => i = j

TypeOK ==
    /\ post \in [Posts -> {"absent", "live", "hidden", "removed", "pruned"}]
    /\ club \in [Clubs -> ClubRow]
    /\ row \in [Rows -> DeliveryRow]
    /\ line \in Seq(Rows) /\ LineIsPending
    /\ asked \in [Posts -> [Kinds -> Asking]]
    /\ sweep \in [Sweeps -> SweepState]
    /\ \A s \in Sweeps :
         /\ sweep[s].at \in {"hold", "call", "record"} => sweep[s].batch # <<>>
         /\ Len(sweep[s].batch) <= BatchSize
    /\ running \in BOOLEAN
    /\ heard \in [Clubs -> [Posts -> {"nothing", "shared", "withdrawn"}]]
    /\ got \in [Rows -> Nat]
    /\ late \in [Clubs -> Nat]
    /\ faults \in Nat

Init ==
    /\ post = [p \in Posts |-> "absent"]
    /\ club = [c \in Clubs |->
         [status |-> "APPROVED", target |-> FALSE, version |-> "agrees"]]
    /\ row = [r \in Rows |-> NoDelivery]
    /\ line = <<>>
    /\ asked = [p \in Posts |-> [k \in Kinds |-> NotAsked]]
    /\ sweep = [s \in Sweeps |-> SweepIdle]
    /\ running = FALSE
    /\ heard = [c \in Clubs |-> [p \in Posts |-> "nothing"]]
    /\ got = [r \in Rows |-> 0]
    /\ late = [c \in Clubs |-> 0]
    /\ faults = 0

-----------------------------------------------------------------------------
(***************************************************************************)
(* The post, as PostModeration moves it.  A share and a removal ask for    *)
(* their push after the commit, and nobody waits for it.                   *)
(***************************************************************************)

Asks(p, k) == asked' = [asked EXCEPT ![p][k] = [at |-> "asked", to |-> {}]]

Share(p) ==
    /\ post[p] = "absent"
    /\ post' = [post EXCEPT ![p] = "live"]
    /\ Asks(p, "CREATED")
    /\ UNCHANGED <<club, queueVars, sweepVars, callVars, faults>>

\* Hiding and showing a post queues nothing.
HideOrShow(p) ==
    /\ \/ post[p] = "live" /\ post' = [post EXCEPT ![p] = "hidden"]
       \/ post[p] = "hidden" /\ post' = [post EXCEPT ![p] = "live"]
    /\ UNCHANGED <<club, queueVars, asked, sweepVars, callVars, faults>>

\* Removals that overlap each remove the post, and each asks.
Remove(p) ==
    /\ post[p] \in {"live", "hidden", "removed"}
    /\ asked[p]["REMOVED"] = NotAsked
    /\ post' = [post EXCEPT ![p] = "removed"]
    /\ Asks(p, "REMOVED")
    /\ UNCHANGED <<club, queueVars, sweepVars, callVars, faults>>

\* What is left of seq, in its order: the n-th of the places that are kept.
Without(seq, S) ==
    LET kept == {i \in DOMAIN seq : seq[i] \notin S}
    IN  [n \in 1 .. Cardinality(kept) |->
          seq[CHOOSE i \in kept : Cardinality({j \in kept : j <= i}) = n]]

\* The rows of a pruned post go with it (onDelete: Cascade).
Prune(p) ==
    LET cascaded == {r \in Rows : PostOf(r) = p}
    IN  /\ post[p] = "removed"
        /\ post' = [post EXCEPT ![p] = "pruned"]
        /\ row' = [r \in Rows |-> IF r \in cascaded THEN NoDelivery ELSE row[r]]
        /\ line' = Without(line, cascaded)
        /\ UNCHANGED <<club, asked, sweepVars, callVars, faults>>

-----------------------------------------------------------------------------
(***************************************************************************)
(* enqueuePostDeliveries: the recipients, then their rows.                 *)
(***************************************************************************)

Recipients ==
    {c \in Clubs : club[c].status = "APPROVED" /\ club[c].target}

EnqueueRead(p, k) ==
    /\ asked[p][k].at = "asked"
    /\ asked' = [asked EXCEPT ![p][k] =
         IF post[p] = "pruned" THEN NotAsked
         ELSE [at |-> "read", to |-> Recipients]]
    /\ UNCHANGED <<post, club, queueVars, sweepVars, callVars, faults>>

\* createMany with skipDuplicates, in any order; a fresh row is due at once.
\* With the post gone the foreign key refuses them all.
EnqueueCreate(p, k) ==
    LET fresh == {r \in {p} \X asked[p][k].to \X {k} :
                      post[p] # "pruned" /\ row[r].status = "none"}
    IN  /\ asked[p][k].at = "read"
        /\ row' = [r \in Rows |->
             IF r \in fresh THEN [status |-> "PENDING", attempts |-> 0]
             ELSE row[r]]
        /\ \E order \in [1 .. Cardinality(fresh) -> fresh] :
             /\ \A r \in fresh : \E i \in DOMAIN order : order[i] = r
             /\ line' = line \o order
        /\ asked' = [asked EXCEPT ![p][k] = NotAsked]
        /\ UNCHANGED <<post, club, sweepVars, callVars, faults>>

\* A waiting row falls due, behind those that were due before it.
BecomesDue(r) ==
    /\ row[r].status = "PENDING"
    /\ \A i \in DOMAIN line : line[i] # r
    /\ line' = Append(line, r)
    /\ UNCHANGED <<post, club, row, asked, sweepVars, callVars, faults>>

-----------------------------------------------------------------------------
(***************************************************************************)
(* The sweep.                                                              *)
(***************************************************************************)

MayStartAlways == TRUE                                      \* mutant

MayStart == ~running

WholeLine == line                                           \* mutant

\* The oldest due rows, BATCH_SIZE of them.
OldestDue ==
    SubSeq(line, 1, IF Len(line) < BatchSize THEN Len(line) ELSE BatchSize)

SweepStarts(s) ==
    /\ sweep[s].at = "idle"
    /\ MayStart
    /\ running' = TRUE
    /\ sweep' = [sweep EXCEPT ![s] =
         [SweepIdle EXCEPT !.at = "next", !.batch = OldestDue]]
    /\ UNCHANGED <<post, club, queueVars, asked, callVars, faults>>

SweepEnds(s) ==
    /\ sweep[s].at = "next"
    /\ sweep[s].batch = <<>>
    /\ sweep' = [sweep EXCEPT ![s] = SweepIdle]
    /\ running' = FALSE
    /\ UNCHANGED <<post, club, queueVars, asked, callVars, faults>>

\* On to the next row of the batch.
Turns(s) ==
    sweep' = [sweep EXCEPT ![s] =
        [SweepIdle EXCEPT !.at = "next", !.batch = Tail(sweep[s].batch)]]

HeldUnlessMatching(c) == club[c].version = "differs"        \* mutant

\* A suspended club, or one that reports another API version, is held.
Held(c) == club[c].status # "APPROVED" \/ club[c].version = "differs"

\* A club that a sweep which reads it now will call.
Reachable(c) ==
    /\ club[c].status = "APPROVED" /\ club[c].version = "agrees"
    /\ club[c].target

WithdrawnByKind(r) == KindOf(r) = "REMOVED"                 \* mutant

\* What the push will say: of a hidden post too, that it is withdrawn.
Withdrawn(r) ==
    KindOf(r) = "REMOVED" \/ post[PostOf(r)] \in {"removed", "hidden"}

\* deliverOne begins with one read of the row, its club and its post.  A row
\* that is gone, or whose club has no target, is left as it is.
DeliverRead(s) ==
    LET r == Head(sweep[s].batch)
        c == ClubOf(r)
    IN  /\ sweep[s].at = "next"
        /\ sweep[s].batch # <<>>
        /\ IF row[r].status = "none" \/ ~club[c].target THEN Turns(s)
           ELSE sweep' = [sweep EXCEPT
                  ![s].at        = IF Held(c) THEN "hold" ELSE "call",
                  ![s].attempts  = row[r].attempts + 1,
                  ![s].withdrawn = Withdrawn(r)]
        /\ UNCHANGED <<post, club, queueVars, asked, running, callVars, faults>>

\* nextAttemptAt moves into the future: the row is pending and not due.
DeliverHold(s) ==
    /\ sweep[s].at = "hold"
    /\ line' = Without(line, {Head(sweep[s].batch)})
    /\ Turns(s)
    /\ UNCHANGED <<post, club, row, asked, running, callVars, faults>>

\* The address check and the call.  The club may have taken the push in
\* whatever this server makes of the answer.
DeliverCall(s) ==
    LET r == Head(sweep[s].batch)
        c == ClubOf(r)
    IN  /\ sweep[s].at = "call"
        /\ \/ /\ sweep' = [sweep EXCEPT ![s].at = "record", ![s].ok = FALSE]
              /\ UNCHANGED callVars
           \/ /\ \E ok \in BOOLEAN :
                   sweep' = [sweep EXCEPT ![s].at = "record", ![s].ok = ok]
              /\ heard' = [heard EXCEPT ![c][PostOf(r)] =
                   IF sweep[s].withdrawn THEN "withdrawn" ELSE "shared"]
              /\ got' = [got EXCEPT ![r] = @ + 1]
              /\ late' = [late EXCEPT ![c] =
                   IF Reachable(c) THEN @ ELSE @ + 1]
        /\ UNCHANGED <<post, club, queueVars, asked, running, faults>>

FailedUncounted(n) == [status |-> "PENDING", attempts |-> 0]   \* mutant

FailedEarly(n) ==                                           \* mutant
    [status |-> IF n + 1 >= MaxAttempts THEN "ABANDONED" ELSE "PENDING",
     attempts |-> n]

\* fail(): the attempt is used up, and the last one abandons the row.
Failed(n) ==
    [status |-> IF n >= MaxAttempts THEN "ABANDONED" ELSE "PENDING",
     attempts |-> n]

\* The update by id, whatever the row holds by now; a row that is gone throws,
\* and the sweep goes on with the next.  Either way it is not due any more.
DeliverRecord(s) ==
    LET r == Head(sweep[s].batch)
        n == sweep[s].attempts
    IN  /\ sweep[s].at = "record"
        /\ row' = [row EXCEPT ![r] =
             IF @.status = "none" THEN @
             ELSE IF sweep[s].ok THEN [status |-> "DELIVERED", attempts |-> n]
             ELSE Failed(n)]
        /\ line' = Without(line, {r})
        /\ Turns(s)
        /\ UNCHANGED <<post, club, asked, running, callVars, faults>>

-----------------------------------------------------------------------------
(***************************************************************************)
(* The club: suspended and re-approved by the console, reporting versions, *)
(* registering a target and clearing it.  Only an approved club's requests *)
(* are let in.                                                             *)
(***************************************************************************)

Moves(c, new) ==
    /\ club' = [club EXCEPT ![c] = new]
    /\ late' = [late EXCEPT ![c] = IF Reachable(c)' THEN 0 ELSE @]
    /\ UNCHANGED <<post, queueVars, asked, sweepVars, heard, got, faults>>

Suspend(c) ==
    /\ club[c].status = "APPROVED"
    /\ Moves(c, [club[c] EXCEPT !.status = "SUSPENDED"])

Reapprove(c) ==
    /\ club[c].status = "SUSPENDED"
    /\ Moves(c, [club[c] EXCEPT !.status = "APPROVED"])

ReportVersion(c, v) ==
    /\ club[c].status = "APPROVED"
    /\ Moves(c, [club[c] EXCEPT !.version = v])

PutTarget(c) ==
    /\ club[c].status = "APPROVED"
    /\ Moves(c, [club[c] EXCEPT !.target = TRUE])

DeleteTarget(c) ==
    /\ club[c].status = "APPROVED"
    /\ Moves(c, [club[c] EXCEPT !.target = FALSE])

-----------------------------------------------------------------------------
\* An update of the sweep fails; the row stays as it is and the sweep goes on.
UpdateFails(s) ==
    /\ faults < MaxFaults
    /\ sweep[s].at \in {"hold", "record"}
    /\ Turns(s)
    /\ faults' = faults + 1
    /\ UNCHANGED <<post, club, queueVars, asked, running, callVars>>

\* The process stops: what was being queued is lost, the flag is clear again.
Crash ==
    /\ faults < MaxFaults
    /\ asked' = [p \in Posts |-> [k \in Kinds |-> NotAsked]]
    /\ sweep' = [s \in Sweeps |-> SweepIdle]
    /\ running' = FALSE
    /\ faults' = faults + 1
    /\ UNCHANGED <<post, club, queueVars, callVars>>

SweepStep(s) ==
    \/ SweepEnds(s) \/ DeliverRead(s) \/ DeliverHold(s)
    \/ DeliverCall(s) \/ DeliverRecord(s)

PostNext ==
    \E p \in Posts :
        \/ Share(p) \/ HideOrShow(p) \/ Remove(p) \/ Prune(p)
        \/ \E k \in Kinds : EnqueueRead(p, k) \/ EnqueueCreate(p, k)

ClubNext ==
    \E c \in Clubs :
        \/ Suspend(c) \/ Reapprove(c) \/ PutTarget(c) \/ DeleteTarget(c)
        \/ \E v \in {"agrees", "differs"} : ReportVersion(c, v)

Next ==
    \/ PostNext
    \/ ClubNext
    \/ \E r \in Rows : BecomesDue(r)
    \/ \E s \in Sweeps : SweepStarts(s) \/ SweepStep(s) \/ UpdateFails(s)
    \/ Crash

Spec == Init /\ [][Next]_vars

\* The cron ticks every minute, a sweep goes on, and a backoff comes to its end.
FairSpec ==
    /\ Spec
    /\ WF_vars(\E s \in Sweeps : SweepStarts(s))
    /\ \A s \in Sweeps : WF_vars(SweepStep(s))
    /\ \A r \in Rows : WF_vars(BecomesDue(r))

-----------------------------------------------------------------------------
(***************************************************************************)
(* Safety.                                                                 *)
(***************************************************************************)

\* Once the withdrawal of a post is delivered, it is the last word the club
\* has heard of it, in whatever order the two pushes are retried: a push of a
\* post that is no longer shown says so (deliverOne, `withdrawn`).
RemovalIsLastWord ==
    \A p \in Posts, c \in Clubs :
        row[<<p, c, "REMOVED">>].status = "DELIVERED"
          => heard[c][p] = "withdrawn"

\* The sweeps at work on row r after its push may have gone out.
Calling(r) ==
    {s \in Sweeps : sweep[s].at = "record" /\ Head(sweep[s].batch) = r}

\* A club takes a push in at most once for each attempt the row counts, but for
\* a crash or a failed update: ticks never overlap (deliverySweepRunning).
PushesAreCounted ==
    \A r \in Rows :
        row[r].status # "none"
          => got[r] <= row[r].attempts + Cardinality(Calling(r)) + faults

\* Once it is suspended, clears its target or reports another version, a club
\* takes in at most the one push whose row was read before: from then on its rows
\* are held, or left alone (suspendClubAction, deliverOne).
HeldHearsOneMore ==
    \A c \in Clubs : ~Reachable(c) => late[c] <= 1

(***************************************************************************)
(* The abstract view: PostLifecycle's phases, and the notices a club was   *)
(* sent and took in.                                                       *)
(***************************************************************************)
PhaseOf(state) ==
    CASE state = "live"   -> "visible"
      [] state = "pruned" -> "gone"
      [] OTHER            -> state

phase == [p \in Posts |-> PhaseOf(post[p])]

TakenIn == {r \in Rows : got[r] > 0}

Promise == INSTANCE Announcements
    WITH notice <- row, taken <- TakenIn, told <- heard

\* The queue keeps the promise: a row ends once and only with its attempts or
\* its answer, and no push shows a post again to a club that took its removal
\* in, whether or not this server learned that it had ("abandoning a delivery
\* costs latency, never a post").
KeepsItsPromise == Promise!Spec

(***************************************************************************)
(* Liveness.                                                               *)
(***************************************************************************)

\* The rows of a club that stays reachable are delivered or abandoned in the
\* end, whatever the other clubs do: "so one bad club cannot monopolise a cycle".
QueueDrains ==
    \A r \in Rows :
        <>[]Reachable(ClubOf(r)) => []<>(row[r].status # "PENDING")
=============================================================================
