----------------------------- MODULE LodgePull -----------------------------
(***************************************************************************)
(* How a club's copy of the lodge registry is kept up to date: GET of the  *)
(* lodges, with the cursor of the club's last pull.  A row is stamped by   *)
(* the server before the statement that writes it commits, the pull reads  *)
(* the changed lodges and the deleted ones by statements of their own, and *)
(* the cursor is the newest instant it reports.                            *)
(*                                                                         *)
(* What a lodge says is the number of its last change.  The booking site   *)
(* is external: it asks with its cursor less an overlap, keeps its cursor  *)
(* when a pull reports nothing, and never shows a lodge again that it was  *)
(* told is deleted.                                                        *)
(***************************************************************************)
EXTENDS Naturals, FiniteSets

CONSTANTS
    Entries,     \* lodge ids
    Pens,        \* writing requests in flight
    PullOverlap, \* the booking site's 60 seconds
    WriteLag,    \* longest time from a stamp to its commit
    PullLag,     \* longest time from a pull's first statement to its last
    PullTime,    \* bound on the clock
    MaxChanges   \* bound on the changes of one lodge

ASSUME PullAssumption ==
    /\ {PullOverlap, WriteLag, PullLag} \subseteq Nat
    /\ {PullTime, MaxChanges} \subseteq Nat \ {0}

VARIABLES
    now,      \* the clock
    entry,    \* the rows: what they say, updatedAt, deletedAt
    pen,      \* a writing request: what it read and its stamp
    pull,     \* the pull under way and what its statements read
    site      \* the club's copy and its cursor

pullVars == <<now, entry, pen, pull, site>>

Never == 0
Times == 0..PullTime

-----------------------------------------------------------------------------
EntryRow == [rev : 0..MaxChanges, updated : Times, deleted : Times]

PenState ==
    [at : {"idle", "edit", "delete"}, entry : SUBSET Entries, stamp : Times,
     read : Times]

PullState ==
    [at : {"idle", "reading"}, since : Times, began : Times,
     lodges : SUBSET (Entries \X (1..MaxChanges) \X Times),
     deleted : SUBSET (Entries \X Times), due : SUBSET {"lodges", "deleted"}]

Exists(e) == entry[e].rev > 0
Alive(e) == Exists(e) /\ entry[e].deleted = Never

PenIdle == [at |-> "idle", entry |-> {}, stamp |-> Never, read |-> Never]

PullIdle ==
    [at |-> "idle", since |-> Never, began |-> Never, lodges |-> {},
     deleted |-> {}, due |-> {}]

\* 0: never heard of; MaxChanges + 1: told that it is deleted.
Hidden == MaxChanges + 1

PullTypeOK ==
    /\ now \in 1..PullTime
    /\ entry \in [Entries -> EntryRow]
    /\ pen \in [Pens -> PenState]
    /\ pull \in PullState
    /\ site \in [cursor : Times, shows : [Entries -> 0..Hidden]]
    /\ \A p \in Pens : pen[p].at = "idle" \/ pen[p].stamp <= now
    /\ \A e \in Entries : site.shows[e] = Hidden => entry[e].deleted # Never
    /\ \A e \in Entries : site.shows[e] # Hidden => site.shows[e] <= entry[e].rev

PullInit ==
    /\ now = 1
    /\ entry = [e \in Entries |->
         [rev |-> 0, updated |-> Never, deleted |-> Never]]
    /\ pen = [p \in Pens |-> PenIdle]
    /\ pull = PullIdle
    /\ site = [cursor |-> Never, shows |-> [e \in Entries |-> 0]]

-----------------------------------------------------------------------------
(***************************************************************************)
(* Writes.  An upload and an edit stamp the row with the instant they      *)
(* began; a delete stamps deletedAt and writes back the updatedAt it read. *)
(***************************************************************************)
Stamps(p, at, e, read) ==
    /\ pen[p] = PenIdle
    /\ pen' = [pen EXCEPT ![p] =
         [at |-> at, entry |-> {e}, stamp |-> now, read |-> read]]
    /\ UNCHANGED <<now, entry, pull, site>>

EditStamps(p, e) ==
    /\ entry[e].deleted = Never /\ entry[e].rev < MaxChanges
    /\ Stamps(p, "edit", e, Never)

DeleteStamps(p, e) == Alive(e) /\ Stamps(p, "delete", e, entry[e].updated)

UpdatedByColumns(p, e, amenitiesOnly) ==                      \* mutant
    IF amenitiesOnly THEN entry[e].updated ELSE pen[p].stamp

\* Only the amenities changed: no column of the row moves updatedAt by itself,
\* so it is set by hand.
UpdatedAfter(p, e, amenitiesOnly) == pen[p].stamp

WriteCommits(p) ==
    /\ pen[p].at # "idle"
    /\ LET e == CHOOSE x \in Entries : pen[p].entry = {x} IN
         IF entry[e].deleted # Never \/ entry[e].rev = MaxChanges
         THEN UNCHANGED entry
         ELSE \/ /\ pen[p].at = "edit"
                 /\ \E amenitiesOnly \in BOOLEAN :
                      /\ amenitiesOnly => Exists(e)
                      /\ entry' = [entry EXCEPT
                           ![e].rev = @ + 1,
                           ![e].updated = UpdatedAfter(p, e, amenitiesOnly)]
              \/ /\ pen[p].at = "delete"
                 /\ entry' = [entry EXCEPT ![e].deleted = pen[p].stamp,
                                           ![e].updated = pen[p].read]
    /\ pen' = [pen EXCEPT ![p] = PenIdle]
    /\ UNCHANGED <<now, pull, site>>

-----------------------------------------------------------------------------
(***************************************************************************)
(* The pull.                                                               *)
(***************************************************************************)
Since(cursor) == IF cursor > PullOverlap THEN cursor - PullOverlap ELSE Never

PullBegins ==
    /\ pull = PullIdle
    /\ pull' = [PullIdle EXCEPT !.at = "reading", !.since = Since(site.cursor),
                                !.began = now, !.due = {"lodges", "deleted"}]
    /\ UNCHANGED <<now, entry, pen, site>>

\* The live lodges that changed after `since`.
ReadLodges ==
    /\ "lodges" \in pull.due
    /\ pull' = [pull EXCEPT
         !.lodges = {<<e, entry[e].rev, entry[e].updated>> :
                       e \in {x \in Entries :
                                Alive(x) /\ entry[x].updated > pull.since}},
         !.due = @ \ {"lodges"}]
    /\ UNCHANGED <<now, entry, pen, site>>

\* The deletions after `since`, all of them without one.
ReadDeleted ==
    /\ "deleted" \in pull.due
    /\ pull' = [pull EXCEPT
         !.deleted = {<<e, entry[e].deleted>> :
                        e \in {x \in Entries : entry[x].deleted > pull.since}},
         !.due = @ \ {"deleted"}]
    /\ UNCHANGED <<now, entry, pen, site>>

\* otherLodgePullCursor: the newest instant reported; none moves nothing.
Reported == {l[3] : l \in pull.lodges} \cup {d[2] : d \in pull.deleted}

PullCursor ==
    IF Reported = {} THEN site.cursor
    ELSE CHOOSE t \in Reported : \A u \in Reported : u <= t

\* The site merges the answer.
PullAnswers ==
    /\ pull.at = "reading" /\ pull.due = {}
    /\ site' = [cursor |-> PullCursor,
         shows |-> [e \in Entries |->
           IF site.shows[e] = Hidden \/ \E d \in pull.deleted : d[1] = e
           THEN Hidden
           ELSE IF \E l \in pull.lodges : l[1] = e
           THEN (CHOOSE l \in pull.lodges : l[1] = e)[2]
           ELSE site.shows[e]]]
    /\ pull' = PullIdle
    /\ UNCHANGED <<now, entry, pen>>

\* The answer never arrives: the site keeps its cursor and asks again.
PullLost ==
    /\ pull.at = "reading"
    /\ pull' = PullIdle
    /\ UNCHANGED <<now, entry, pen, site>>

\* Time passes, but no write is later than its lag and no pull longer than its.
PullTick ==
    /\ now < PullTime
    /\ \A p \in Pens : pen[p].at # "idle" => now < pen[p].stamp + WriteLag
    /\ pull.at # "idle" => now < pull.began + PullLag
    /\ now' = now + 1
    /\ UNCHANGED <<entry, pen, pull, site>>

-----------------------------------------------------------------------------
PullStep == PullBegins \/ ReadLodges \/ ReadDeleted \/ PullAnswers

PullNext ==
    \/ \E p \in Pens : \/ \E e \in Entries : EditStamps(p, e) \/ DeleteStamps(p, e)
                       \/ WriteCommits(p)
    \/ PullStep
    \/ PullLost
    \/ PullTick

PullSpec == PullInit /\ [][PullNext]_pullVars

-----------------------------------------------------------------------------
(***************************************************************************)
(* Properties                                                              *)
(***************************************************************************)

\* Whatever the club has not been told of a lodge, its next pull reports:
\* late commits, two statements that see different moments and lost answers
\* included, because the overlap is longer than the lags together.
StaleAt(e) ==
    IF Alive(e) THEN site.shows[e] # entry[e].rev
    ELSE Exists(e) /\ site.shows[e] # Hidden

PullMissesNothing ==
    pull = PullIdle =>
      \A e \in Entries : StaleAt(e) =>
        IF Alive(e) THEN entry[e].updated > Since(site.cursor)
        ELSE entry[e].deleted > Since(site.cursor)
=============================================================================
