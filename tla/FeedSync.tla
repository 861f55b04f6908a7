------------------------------ MODULE FeedSync ------------------------------
(***************************************************************************)
(* GET /api/v1/feed/sync, the cursor every club mirrors the shared posts   *)
(* with.  A page is the rows after a position in (updatedAt, id) order,    *)
(* hidden and removed posts included as removals, because a row that stops *)
(* matching is one a mirror would show for ever.                           *)
(*                                                                         *)
(* updatedAt is stamped by the server when a statement is sent and becomes *)
(* visible when its transaction commits, so rows do not appear in the      *)
(* order of their stamps.  The booking site that calls the endpoint is not *)
(* in this repository; what it does with a page is modelled from           *)
(* docs/comms-portal-spec.md and this is the part marked external: it asks *)
(* from Overlap before the cursor it stored, applies a page and stores the *)
(* page's cursor in one transaction, and starts over if its cursor is      *)
(* older than the tombstone horizon of the answer.  The document leaves    *)
(* two things to the site: whether it compares on every page or only on    *)
(* the first of a pass (EveryPage), and whether it adds a Margin.          *)
(***************************************************************************)
EXTENDS Integers, FiniteSets

CONSTANTS
    Posts,          \* post ids; the cursor's second key orders them
    Clubs,          \* clubs that mirror the feed
    Writers,        \* requests in flight that write a post
    None,           \* no post
    Pictured,       \* the posts with pictures
    Requests,       \* the changes that are asked for
    Limit,          \* the page size
    Horizon,        \* the horizon of POST_SETTINGS_DEFAULTS
    Horizons,       \* horizons an administrator saves
    Overlap,        \* what a pass steps back from its stored cursor
    CommitLag,      \* the longest a statement that writes takes
    PassLength,     \* the longest a pass takes, over all its pages
    EveryPage,      \* does the site compare with the horizon on every page?
    Margin,         \* what the site adds to the horizon when it compares
    MaxTime,        \* bound on the clock
    MaxVersion,     \* bound on the versions of a post's content
    MaxFailures     \* bound on the passes, stamps and reads of settings that fail

ASSUME FeedAssumption ==
    /\ Posts \subseteq Nat \ {0} /\ IsFiniteSet(Posts)
    /\ None = 0 /\ Pictured \subseteq Posts
    /\ Requests \subseteq {"share", "hide", "show", "edit", "touch", "remove"}
    /\ Limit \in Nat \ {0}
    /\ Horizons \subseteq Nat /\ IsFiniteSet(Horizons) /\ Horizon \in Horizons
    /\ Overlap \in Nat
    /\ CommitLag \in Nat /\ PassLength \in Nat
    /\ EveryPage \in BOOLEAN /\ Margin \in Nat
    /\ MaxTime \in Nat /\ MaxVersion \in Nat /\ MaxFailures \in Nat

VARIABLES
    clock,     \* now
    setting,   \* posts.tombstone_horizon_days
    post,      \* what the feed can tell of a row of `posts`
    write,     \* each writer's statement, stamped and not yet committed
    cursor,    \* the cursor each club has stored
    copy,      \* the version of each post each club shows, 0 for none
    sync,      \* each club's pass
    syncedAt,  \* Club.lastCommsSyncAt
    failures   \* what failed so far

mirrorVars == <<cursor, copy, sync, syncedAt, failures>>
vars == <<clock, setting, post, write, cursor, copy, sync, syncedAt, failures>>

-----------------------------------------------------------------------------
\* Two fields are history and no columns.  touched: reports on the post were
\* dismissed when it was a stub.  stale: a picture of it was deleted and nothing
\* has moved updatedAt since.
Row ==
    [state     : {"absent", "visible", "hidden", "removed", "pruned"},
     version   : Nat,
     updatedAt : Nat,
     removedAt : Nat,
     touched   : BOOLEAN,
     stale     : BOOLEAN]

NoRow == [state |-> "absent", version |-> 0, updatedAt |-> 0, removedAt |-> 0,
          touched |-> FALSE, stale |-> FALSE]

Pruned(row) == [NoRow EXCEPT !.state = "pruned", !.touched = row.touched]

\* image: the touch that follows the deletion of a picture.
Changes == Requests \cup {"image", "touch"}

\* deleted: a picture's row is gone, since `stamp`, and the post is still to be
\* touched, by a statement that stamps anew.
Write ==
    [at : {"idle", "stamped", "deleted"}, post : Posts \cup {None},
     change : Changes, stamp : Nat]

NoWrite == [at |-> "idle", post |-> None, change |-> "touch", stamp |-> 0]

\* A position in (updatedAt, id) order; since = 0 is no cursor at all.
Cursor == [since : Nat, id : Posts \cup {None}]

NoCursor == [since |-> 0, id |-> None]

\* No page is longer than the limit.
Page == {S \in SUBSET Posts : Cardinality(S) <= Limit}

\* page: what the answer says of each post it holds, 0 for a removal.
\* checks: is this an answer whose horizon the site compares with its cursor?
Pass ==
    [at : {"idle", "read", "answered", "next"}, started : Nat, checks : BOOLEAN,
     rows : Page, page : [Posts -> Nat], last : Cursor, more : BOOLEAN,
     horizon : Int]

NoPass ==
    [at |-> "idle", started |-> 0, checks |-> FALSE, rows |-> {},
     page |-> [p \in Posts |-> 0], last |-> NoCursor, more |-> FALSE,
     horizon |-> 0]

TypeOK ==
    /\ clock \in Nat
    /\ setting \in Horizons
    /\ post \in [Posts -> Row]
    /\ write \in [Writers -> Write]
    /\ \A w \in Writers : write[w].at # "idle" => write[w].post \in Posts
    /\ cursor \in [Clubs -> Cursor]
    /\ copy \in [Clubs -> [Posts -> Nat]]
    /\ sync \in [Clubs -> Pass]
    /\ syncedAt \in [Clubs -> Nat]
    /\ failures \in Nat

Init ==
    /\ clock = 1
    /\ setting = Horizon
    /\ post = [p \in Posts |-> NoRow]
    /\ write = [w \in Writers |-> NoWrite]
    /\ cursor = [c \in Clubs |-> NoCursor]
    /\ copy = [c \in Clubs |-> [p \in Posts |-> 0]]
    /\ sync = [c \in Clubs |-> NoPass]
    /\ syncedAt = [c \in Clubs |-> 0]
    /\ failures = 0

-----------------------------------------------------------------------------
(***************************************************************************)
(* The writes.  PostModeration says which request may make which; here a   *)
(* write is what it leaves for the cursor, in two steps: the stamp, and    *)
(* the commit, by id, on whatever the row has become.                      *)
(***************************************************************************)

Mutable == {"visible", "hidden"}

Allowed(p, change) ==
    CASE change = "share"  -> post[p].state = "absent"
      [] change = "hide"   -> post[p].state = "visible"
      [] change = "show"   -> post[p].state = "hidden"
      [] change = "edit"   -> post[p].state \in Mutable
                                /\ post[p].version < MaxVersion
      [] change = "remove" -> post[p].state \in Mutable
      [] change = "touch"  -> post[p].state \in Mutable \cup {"removed"}

\* Two shares never make the same post.
IdIsFree(p) ==
    \A w \in Writers : write[w].at # "idle" /\ write[w].change = "share"
                          => write[w].post # p

Stamp(w, p, change) ==
    /\ write[w].at = "idle"
    /\ Allowed(p, change)
    /\ change = "share" => IdIsFree(p)
    /\ write' = [write EXCEPT ![w] =
         [at |-> "stamped", post |-> p, change |-> change, stamp |-> clock]]
    /\ UNCHANGED <<clock, setting, post, mirrorVars>>

\* A stub stays a stub whatever is written on it: removedAt decides the state.
\* Dismissing the reports on a post writes a stub as it writes any other post.
Changed(row, change, stamp) ==
    LET kept == row.state = "removed"
    IN  [row EXCEPT
          !.updatedAt = stamp,
          !.removedAt = IF change = "remove" THEN stamp ELSE @,
          !.touched   = @ \/ (kept /\ change = "touch"),
          !.stale     = FALSE,
          !.version   = IF change = "share" THEN 1
                        ELSE IF change = "edit" /\ row.version < MaxVersion
                             THEN @ + 1 ELSE @,
          !.state     = IF change = "remove" \/ kept THEN "removed"
                        ELSE IF change \in {"share", "show"} THEN "visible"
                        ELSE IF change = "hide" THEN "hidden" ELSE @]

Commit(w) ==
    LET p == write[w].post
    IN  /\ write[w].at = "stamped"
        /\ post[p].state # "pruned"
        /\ post' = [post EXCEPT ![p] =
             Changed(@, write[w].change, write[w].stamp)]
        /\ write' = [write EXCEPT ![w] = NoWrite]
        /\ UNCHANGED <<clock, setting, mirrorVars>>

\* Nothing was committed, or the row is gone.
WriteFails(w) ==
    /\ write[w].at = "stamped"
    /\ write' = [write EXCEPT ![w] = NoWrite]
    /\ UNCHANGED <<clock, setting, post, mirrorVars>>

\* The console deletes a picture: its row first, the post's updatedAt after.
DeleteImage(w, p) ==
    /\ write[w].at = "idle"
    /\ p \in Pictured /\ post[p].state \in Mutable
    /\ post[p].version < MaxVersion
    /\ post' = [post EXCEPT ![p].version = @ + 1, ![p].stale = TRUE]
    /\ write' = [write EXCEPT ![w] =
         [at |-> "deleted", post |-> p, change |-> "image", stamp |-> clock]]
    /\ UNCHANGED <<clock, setting, mirrorVars>>

TouchAfterDelete(w) ==
    /\ write[w].at = "deleted"
    /\ write' = [write EXCEPT ![w].at = "stamped", ![w].stamp = clock]
    /\ UNCHANGED <<clock, setting, post, mirrorVars>>

\* The process dies before the touch.
DeleteDies(w) ==
    /\ write[w].at = "deleted"
    /\ write' = [write EXCEPT ![w] = NoWrite]
    /\ UNCHANGED <<clock, setting, post, mirrorVars>>

-----------------------------------------------------------------------------
(***************************************************************************)
(* The horizon.  Whoever needs it reads it anew; a read that fails goes on *)
(* with the default.                                                       *)
(***************************************************************************)
SaveSettings ==
    /\ \E h \in Horizons \ {setting} : setting' = h
    /\ UNCHANGED <<clock, post, write, mirrorVars>>

LoadsSetting(h) ==
    \/ h = setting /\ UNCHANGED failures
    \/ /\ h = Horizon /\ h # setting
       /\ failures < MaxFailures
       /\ failures' = failures + 1

\* What is older than the horizon h at a moment.
HorizonAt(now, h) == now - h

PrunableAtOnce(p, h) ==                                     \* mutant
    /\ post[p].state = "removed"
    /\ post[p].removedAt < clock

Prunable(p, h) ==
    /\ post[p].state = "removed"
    /\ post[p].removedAt < HorizonAt(clock, h)

\* pruneStubs: every stub removed before the horizon, in one statement.
Prune ==
    /\ \E h \in Horizons :
         /\ LoadsSetting(h)
         /\ \E p \in Posts : Prunable(p, h)
         /\ post' = [p \in Posts |->
              IF Prunable(p, h) THEN Pruned(post[p]) ELSE post[p]]
    /\ UNCHANGED <<clock, setting, write, cursor, copy, sync, syncedAt>>

-----------------------------------------------------------------------------
(***************************************************************************)
(* The endpoint.                                                           *)
(***************************************************************************)

\* serializePostForSync: the version of a visible post, or only that it is gone.
Serialized(p) == IF post[p].state = "visible" THEN post[p].version ELSE 0

Exists(p) == post[p].state \notin {"absent", "pruned"}

AfterInclusive(p, since, id) ==                             \* mutant
    post[p].updatedAt >= since

After(p, since, id) ==
    \/ post[p].updatedAt > since
    \/ post[p].updatedAt = since /\ id # None /\ p > id

AskedVisible(full, since, id) ==                            \* mutant
    {p \in Posts : post[p].state = "visible" /\ (full \/ After(p, since, id))}

\* The rows a request asks for: with no cursor, the visible posts only.
Asked(full, since, id) ==
    {p \in Posts : /\ Exists(p)
                   /\ IF full THEN post[p].state = "visible"
                              ELSE After(p, since, id)}

Precedes(q, p) ==
    \/ post[q].updatedAt < post[p].updatedAt
    \/ post[q].updatedAt = post[p].updatedAt /\ q < p

FirstPageUnsliced(S) ==                                     \* mutant
    {p \in S : Cardinality({q \in S : Precedes(q, p)}) <= Limit}

\* The first Limit of them in (updatedAt, id) order.
FirstPage(S) == {p \in S : Cardinality({q \in S : Precedes(q, p)}) < Limit}

LastRow(S) ==
    LET p == CHOOSE q \in S : \A r \in S \ {q} : Precedes(r, q)
    IN  [since |-> post[p].updatedAt, id |-> p]

\* The answer's cursor: the last row, or none if there is no row.
LastOf(S) == IF S = {} THEN NoCursor ELSE LastRow(S)

\* One request of a pass that started at `started`, asking from since and id.
Reads(c, started, checks, full, since, id) ==
    LET found == Asked(full, since, id)
        rows  == FirstPage(found)
    IN  \E h \in Horizons :
          /\ LoadsSetting(h)
          /\ sync' = [sync EXCEPT ![c] =
               [at |-> "read", started |-> started, checks |-> checks, rows |-> rows,
                page |-> [p \in Posts |-> IF p \in rows THEN Serialized(p) ELSE 0],
                last |-> LastOf(rows), more |-> Cardinality(found) > Limit,
                horizon |-> HorizonAt(clock, h)]]

\* lastCommsSyncAt is stamped after the rows are read, and best effort.
StampSync(c) ==
    /\ sync[c].at = "read"
    /\ \/ /\ syncedAt' = [syncedAt EXCEPT ![c] = clock]
          /\ UNCHANGED failures
       \/ /\ failures < MaxFailures
          /\ failures' = failures + 1
          /\ UNCHANGED syncedAt
    /\ sync' = [sync EXCEPT ![c].at = "answered"]
    /\ UNCHANGED <<clock, setting, post, write, cursor, copy>>

-----------------------------------------------------------------------------
(***************************************************************************)
(* The booking site (external).                                            *)
(***************************************************************************)

\* A pass asks from Overlap before the cursor it stored.
StepBack(since) == since - Overlap

PassOpens(c) ==
    /\ sync[c].at = "idle"
    /\ Reads(c, clock, TRUE, cursor[c] = NoCursor,
             StepBack(cursor[c].since), None)
    /\ UNCHANGED <<clock, setting, post, write, cursor, copy, syncedAt>>

\* The next page of the same pass goes on exactly where the last one ended.
PassContinues(c) ==
    /\ sync[c].at = "next"
    /\ Reads(c, sync[c].started, EveryPage, cursor[c] = NoCursor,
             cursor[c].since, cursor[c].id)
    /\ UNCHANGED <<clock, setting, post, write, cursor, copy, syncedAt>>

\* Does the stored cursor predate the horizon of the answer?
Outdated(c) ==
    /\ sync[c].checks
    /\ cursor[c] # NoCursor
    /\ cursor[c].since < sync[c].horizon + Margin

\* A page and its cursor are stored together; no page, no change of cursor.
Apply(c) ==
    /\ sync[c].at = "answered"
    /\ ~Outdated(c)
    /\ copy' = [copy EXCEPT ![c] = [p \in Posts |->
         IF p \in sync[c].rows THEN sync[c].page[p] ELSE copy[c][p]]]
    /\ cursor' = [cursor EXCEPT ![c] =
         IF sync[c].last = NoCursor THEN @ ELSE sync[c].last]
    /\ sync' = [sync EXCEPT ![c] =
         IF sync[c].more THEN [NoPass EXCEPT !.at = "next",
                                             !.started = sync[c].started]
                         ELSE NoPass]
    /\ UNCHANGED <<clock, setting, post, write, syncedAt, failures>>

\* The cursor is older than the horizon: the mirror is emptied and refilled.
Discard(c) ==
    /\ sync[c].at = "answered"
    /\ Outdated(c)
    /\ copy' = [copy EXCEPT ![c] = [p \in Posts |-> 0]]
    /\ cursor' = [cursor EXCEPT ![c] = NoCursor]
    /\ sync' = [sync EXCEPT ![c] =
         [NoPass EXCEPT !.at = "next", !.started = sync[c].started]]
    /\ UNCHANGED <<clock, setting, post, write, syncedAt, failures>>

\* The answer is lost or the site stops: the next pass starts from what is stored.
PassFails(c) ==
    /\ sync[c].at # "idle"
    /\ failures < MaxFailures
    /\ failures' = failures + 1
    /\ sync' = [sync EXCEPT ![c] = NoPass]
    /\ UNCHANGED <<clock, setting, post, write, cursor, copy, syncedAt>>

-----------------------------------------------------------------------------
\* Time passes, within the bounds on how long a write or a pass takes.
Tick ==
    /\ clock < MaxTime
    /\ \A w \in Writers :
         write[w].at # "idle" => clock < write[w].stamp + CommitLag
    /\ \A c \in Clubs :
         sync[c].at # "idle" => clock < sync[c].started + PassLength
    /\ clock' = clock + 1
    /\ UNCHANGED <<setting, post, write, mirrorVars>>

WriterNext(w) ==
    \/ \E p \in Posts :
         \/ \E change \in Requests : Stamp(w, p, change)
         \/ DeleteImage(w, p)
    \/ Commit(w) \/ WriteFails(w)
    \/ TouchAfterDelete(w) \/ DeleteDies(w)

PassStep(c) ==
    StampSync(c) \/ PassContinues(c) \/ Apply(c) \/ Discard(c)

Next ==
    \/ \E w \in Writers : WriterNext(w)
    \/ \E c \in Clubs : PassOpens(c) \/ PassStep(c) \/ PassFails(c)
    \/ SaveSettings
    \/ Prune
    \/ Tick

Spec == Init /\ [][Next]_vars

-----------------------------------------------------------------------------
(***************************************************************************)
(* Fairness.  Every club pulls on its own schedule and a pass goes on to   *)
(* its end; nothing obliges anybody to write.                              *)
(***************************************************************************)

FairSpec ==
    /\ Spec
    /\ \A c \in Clubs : WF_vars(PassOpens(c)) /\ WF_vars(PassStep(c))

-----------------------------------------------------------------------------
(***************************************************************************)
(* What the mirrors may rely on.                                           *)
(***************************************************************************)

Settled(c) == sync[c].at = "idle" /\ cursor[c] # NoCursor

\* Between two passes, a post the club shows wrongly is one its next pass asks
\* for: however late a write commits, within the overlap, no change is passed by,
\* but for a picture deleted without a touch of its post, and that only until
\* anything writes the post.
MirrorsMissNothing ==
    \A c \in Clubs, p \in Posts :
        Settled(c) /\ Exists(p) /\ ~post[p].stale /\ copy[c][p] # Serialized(p)
          => post[p].updatedAt > StepBack(cursor[c].since)

\* A cursor the answer calls serviceable is, though the horizon is raised after
\* stubs were pruned under a shorter one, or its read fails: a club that still
\* shows a post whose stub has been pruned has a cursor older than any horizon it
\* may be told, and so starts over.  It has to add to the horizon (Margin) twice
\* what a pass lasts, three times what a write lasts and what the settings differ
\* by: a pass may have left the post behind, and the next one, which compared its
\* cursor in time, still be on its way to the stub when the stub is pruned.
\* Not so of a post whose reports were dismissed when it was a stub: that moves
\* the stub ahead of the cursors that were about to reach it, pruning goes by
\* removedAt all the same, and a club may show the post for good.
HorizonCatchesUp ==
    \A c \in Clubs, p \in Posts, h \in Horizons :
        Settled(c) /\ post[p].state = "pruned" /\ ~post[p].touched /\ copy[c][p] # 0
          => cursor[c].since < HorizonAt(clock, h) + Margin

\* Once nobody writes any more, every mirror shows what the server shows, again
\* and again (it is empty for a moment when it starts over), but for a stale post
\* and for one that was pruned after reports on its stub were dismissed.
WritesCease == <>[](\A w \in Writers : write[w].at = "idle")

LostTrack(p) == post[p].stale \/ (post[p].state = "pruned" /\ post[p].touched)

InSync ==
    \A c \in Clubs, p \in Posts : LostTrack(p) \/ copy[c][p] = Serialized(p)

MirrorsConverge == WritesCease => []<>InSync

(***************************************************************************)
(* What comments promise and the code does not keep.                       *)
(***************************************************************************)

\* Convergence "is the one number that must not be optimistic here": a club
\* that has synced since a removal no longer shows the post (convergenceSince).
ConvergenceIsTrue ==
    \A c \in Clubs, p \in Posts :
        /\ sync[c].at = "idle"
        /\ post[p].state = "removed"
        /\ syncedAt[c] > post[p].removedAt
        => copy[c][p] = 0
=============================================================================
