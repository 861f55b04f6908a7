--------------------------- MODULE PostModeration ---------------------------
(***************************************************************************)
(* The Communication Portal's post table and everything that writes it:    *)
(* members' reports and the auto-hide threshold, the admin console (hide,  *)
(* edit, unhide, dismiss, remove, drop a picture), a club sharing and      *)
(* un-sharing, and the nightly retention pass.                             *)
(*                                                                         *)
(* One database statement, or one transaction, is one step; what a handler *)
(* read earlier it carries in `handler[h]`, because in between any other   *)
(* request may commit.  Postgres runs at READ COMMITTED, so a statement    *)
(* sees what is committed when it starts, and a row inserted by an open    *)
(* transaction is visible to that transaction only.                        *)
(***************************************************************************)
EXTENDS Naturals, FiniteSets

CONSTANTS
    Posts,              \* post ids
    Members,            \* (club, member) pairs that can report
    ClubOf,             \* the club of each member
    None,               \* no post, no member
    ReportDesk,         \* requests in flight on POST /posts/:id/report
    AdminDesk,          \* requests in flight on the moderation console
    ClubDesk,           \* requests in flight on share and un-share
    PostKinds,          \* what clubs share: with images or not, with HTML or not
    Jobs,               \* callers of runPostCleanup: the cron, "Run cleanup now"
    AutoHideThreshold,  \* posts.auto_hide_threshold
    AutoHideMinClubs,   \* posts.auto_hide_min_clubs
    RetentionEnabled,   \* posts.retention_days > 0
    PassesOverrun,      \* may a pass outlive STALE_CLAIM_AFTER_MS?
    MaxFaults           \* bound on crashes and failures of a pass

ASSUME ModerationAssumption ==
    /\ IsFiniteSet(Members)
    /\ PostKinds \subseteq [images : BOOLEAN, html : BOOLEAN]
    /\ None \notin Posts /\ None \notin Members
    /\ AutoHideThreshold \in Nat /\ AutoHideMinClubs \in Nat
    /\ RetentionEnabled \in BOOLEAN /\ PassesOverrun \in BOOLEAN
    /\ MaxFaults \in Nat

VARIABLES
    post,      \* the rows of `posts`, with the rows of `post_images` folded in
    report,    \* report[p][m]: the row of `post_reports`, by its unique key
    file,      \* posts whose image files are under UPLOADS_DIR
    young,     \* of those, the files less than ORPHAN_MIN_AGE_MS old
    queue,     \* queue[p]: the kinds of push queued for the post
    handler,   \* what each request in flight has read so far
    job,       \* what each cleanup pass in flight has read so far
    claim,     \* the JobClaim row: free, held, or held and stale
    faults     \* crashes and failures so far

dbVars   == <<post, report>>
fileVars == <<file, young>>
jobVars  == <<job, claim, faults>>
vars     == <<post, report, file, young, queue, handler, job, claim, faults>>

Handlers == ReportDesk \cup AdminDesk \cup ClubDesk

-----------------------------------------------------------------------------
(***************************************************************************)
(* The rows.                                                               *)
(***************************************************************************)

\* hiddenAt and hiddenBy are always written together, and so are removedAt and
\* removedBy: `hiddenBy` and `status` stand for both.  `text`, `html` and
\* `images` say whether there is any; `age` is "old" once the row is past the
\* cutoff that applies to it (retention while live, horizon once removed).
PostRow ==
    [status    : {"absent", "live", "removed", "pruned"},
     hiddenBy  : {"none", "SYSTEM", "ADMIN"},
     exempt    : BOOLEAN,
     text      : BOOLEAN,
     html      : BOOLEAN,
     images    : BOOLEAN,
     count     : Nat,
     removedBy : {"none", "CLUB", "ADMIN", "RETENTION"},
     age       : {"new", "old"}]

\* No row, before the share and after the prune.
BlankRow(status) ==
    [status |-> status, hiddenBy |-> "none", exempt |-> FALSE, text |-> FALSE,
     html |-> FALSE, images |-> FALSE, count |-> 0, removedBy |-> "none",
     age |-> "new"]

\* The members whose report on p is not dismissed, and those who ever filed one.
OpenRows(p) == {m \in Members : report[p][m] = "open"}
FiledRows(p) == {m \in Members : report[p][m] # "none"}
ClubsOf(rows) == {ClubOf[m] : m \in rows}

HandlerAt ==
    {"idle", "reportRead", "reportCounted", "dismissRead", "dismissRows",
     "unhideRead", "unhideRows", "unhideDismissed", "patchRead", "removeRead",
     "removed", "removeQueued", "imageRead", "imageDeleted", "shareStored",
     "shared"}

\* rows: the reports a recount or a dismissal found.  mayHide: the post was
\* neither hidden nor exempt when the report read it.  keys: the request read
\* or wrote the post's image files.
HandlerState ==
    [at : HandlerAt, post : Posts \cup {None}, member : Members \cup {None},
     rows : SUBSET Members, mayHide : BOOLEAN, keys : BOOLEAN]

Idle ==
    [at |-> "idle", post |-> None, member |-> None, rows |-> {},
     mayHide |-> FALSE, keys |-> FALSE]

JobAt == {"idle", "read", "expire", "unlink", "prune", "sweep", "release"}

\* todo: candidates not yet expired.  pictured: the candidates that had images
\* when the pass read them.  keys: the files to unlink for the last one expired.
JobState ==
    [at : JobAt, todo : SUBSET Posts, pictured : SUBSET Posts, keys : SUBSET Posts]

JobIdle == [at |-> "idle", todo |-> {}, pictured |-> {}, keys |-> {}]

\* A request at work names a post, and a report at work its member.
HandlersTyped ==
    /\ handler \in [Handlers -> HandlerState]
    /\ \A h \in Handlers :
         /\ handler[h].at # "idle" => handler[h].post \in Posts
         /\ handler[h].at \in {"reportRead", "reportCounted"}
               => h \in ReportDesk /\ handler[h].member \in Members

TypeOK ==
    /\ post \in [Posts -> PostRow]
    /\ report \in [Posts -> [Members -> {"none", "open", "dismissed"}]]
    /\ file \subseteq Posts
    /\ young \subseteq Posts
    /\ queue \in [Posts -> SUBSET {"CREATED", "REMOVED"}]
    /\ HandlersTyped
    /\ job \in [Jobs -> JobState]
    /\ claim \in {"free", "held", "stale"}
    /\ faults \in Nat

Init ==
    /\ post = [p \in Posts |-> BlankRow("absent")]
    /\ report = [p \in Posts |-> [m \in Members |-> "none"]]
    /\ file = {}
    /\ young = {}
    /\ queue = [p \in Posts |-> {}]
    /\ handler = [h \in Handlers |-> Idle]
    /\ job = [j \in Jobs |-> JobIdle]
    /\ claim = "free"
    /\ faults = 0

-----------------------------------------------------------------------------
(***************************************************************************)
(* How a handler moves.                                                    *)
(***************************************************************************)

\* A request arrives at an idle desk and takes up post p.
Begins(h, at, p, keys) ==
    /\ handler[h].at = "idle"
    /\ handler' = [handler EXCEPT ![h] =
         [Idle EXCEPT !.at = at, !.post = p, !.keys = keys]]

\* Its first step is a read, which found what the request needs.
Opens(h, at, p, keys) ==
    /\ Begins(h, at, p, keys)
    /\ UNCHANGED <<dbVars, fileVars, queue, jobVars>>

Goes(h, at) == handler' = [handler EXCEPT ![h].at = at]

\* It goes on with the report rows a statement has found.
Finds(h, at, rows) ==
    handler' = [handler EXCEPT ![h].at = at, ![h].rows = rows]

Finishes(h) == handler' = [handler EXCEPT ![h] = Idle]

\* An update of one row by its id, whatever the row holds by now.
Updates(p, row) == post' = [post EXCEPT ![p] = row]

\* A write by id finds no row: Prisma throws P2025, the request answers 500.
\* The row can only have been deleted by the retention pass's prune.
RowGone(h) ==
    /\ post[handler[h].post].status = "pruned"
    /\ Finishes(h)
    /\ UNCHANGED dbVars

-----------------------------------------------------------------------------
(***************************************************************************)
(* POST /api/v1/posts/:id/report.  One interactive transaction of three    *)
(* statements: read the post, insert the report and recount, update the    *)
(* post and commit.                                                        *)
(***************************************************************************)

\* What the first statement reads decides whether this report may hide.
MayHide(p) == post[p].hiddenBy = "none" /\ ~post[p].exempt

ReportRead(h, p, m) ==
    /\ h \in ReportDesk
    /\ handler[h].at = "idle"
    /\ post[p].status = "live"
    /\ handler' = [handler EXCEPT ![h] =
         [at |-> "reportRead", post |-> p, member |-> m, rows |-> {},
          mayHide |-> MayHide(p), keys |-> FALSE]]
    /\ UNCHANGED <<dbVars, fileVars, queue, jobVars>>

\* The unique index makes the same member's second insert wait for the first
\* transaction to end.
InsertWaits(h) ==
    \E g \in ReportDesk \ {h} :
        /\ handler[g].at = "reportCounted"
        /\ handler[g].post = handler[h].post
        /\ handler[g].member = handler[h].member

ReportInsert(h) ==
    LET p == handler[h].post
        m == handler[h].member
    IN  /\ handler[h].at = "reportRead"
        /\ ~InsertWaits(h)
        /\ \/ /\ post[p].status # "pruned"
              /\ report[p][m] = "none"
              /\ Finds(h, "reportCounted", OpenRows(p) \cup {m})
           \* P2002, answered "duplicate" without recounting; or the foreign
           \* key has no post left to name.
           \/ /\ post[p].status = "pruned" \/ report[p][m] # "none"
              /\ Finishes(h)
        /\ UNCHANGED <<dbVars, fileVars, queue, jobVars>>

OpenCountTwice(h) == Cardinality(handler[h].rows) + 1       \* mutant

\* open.length: the recount already holds the row just inserted.
OpenCount(h) == Cardinality(handler[h].rows)

ShouldHideOfOneClub(h) ==                                   \* mutant
    handler[h].mayHide /\ OpenCount(h) >= AutoHideThreshold

ShouldHideUnread(h) ==                                      \* mutant
    /\ OpenCount(h) >= AutoHideThreshold
    /\ Cardinality(ClubsOf(handler[h].rows)) >= AutoHideMinClubs

ShouldHide(h) ==
    /\ handler[h].mayHide
    /\ OpenCount(h) >= AutoHideThreshold
    /\ Cardinality(ClubsOf(handler[h].rows)) >= AutoHideMinClubs

\* The update is by id alone: what the first statement read may have changed.
ReportCommit(h) ==
    LET p == handler[h].post
    IN  /\ handler[h].at = "reportCounted"
        /\ report' = [report EXCEPT ![p][handler[h].member] = "open"]
        /\ Updates(p, [post[p] EXCEPT
              !.count = OpenCount(h),
              !.hiddenBy = IF ShouldHide(h) THEN "SYSTEM" ELSE @])
        /\ Finishes(h)
        /\ UNCHANGED <<fileVars, queue, jobVars>>

-----------------------------------------------------------------------------
(***************************************************************************)
(* The console: /dismiss, /unhide, PATCH.                                  *)
(***************************************************************************)


\* /unhide and PATCH refuse a stub; /dismiss asks only that the row exist.
Editable(p) == post[p].status = "live"

DismissRead(h, p) ==
    /\ h \in AdminDesk
    /\ post[p].status \in {"live", "removed"}
    /\ Opens(h, "dismissRead", p, FALSE)

UnhideRead(h, p) ==
    /\ h \in AdminDesk
    /\ Editable(p)
    /\ Opens(h, "unhideRead", p, FALSE)

PatchRead(h, p) ==
    /\ h \in AdminDesk
    /\ Editable(p)
    /\ Opens(h, "patchRead", p, FALSE)

\* dismissReports, first statement: the rows its updateMany finds open.
DismissRows(h) ==
    /\ \/ /\ handler[h].at = "dismissRead"
          /\ Finds(h, "dismissRows", OpenRows(handler[h].post))
       \/ /\ handler[h].at = "unhideRead"
          /\ Finds(h, "unhideRows", OpenRows(handler[h].post))
    /\ UNCHANGED <<dbVars, fileVars, queue, jobVars>>

Dismissed(p, rows) ==
    [report EXCEPT ![p] =
       [m \in Members |-> IF m \in rows THEN "dismissed" ELSE report[p][m]]]

ReportsDismissedByDecrement(p, rows) ==                     \* mutant
    /\ post[p].status # "pruned"
    /\ report' = Dismissed(p, rows)
    /\ Updates(p, [post[p] EXCEPT !.count = @ - Cardinality(rows)])

\* dismissReports, second statement and commit.
ReportsDismissed(p, rows) ==
    /\ post[p].status # "pruned"
    /\ report' = Dismissed(p, rows)
    /\ Updates(p, [post[p] EXCEPT !.count = 0])

DismissCommit(h) ==
    /\ \/ /\ handler[h].at = "dismissRows"
          /\ ReportsDismissed(handler[h].post, handler[h].rows)
          /\ Finishes(h)
       \/ /\ handler[h].at = "unhideRows"
          /\ ReportsDismissed(handler[h].post, handler[h].rows)
          /\ Finds(h, "unhideDismissed", {})
       \/ /\ handler[h].at \in {"dismissRows", "unhideRows"}
          /\ RowGone(h)
    /\ UNCHANGED <<fileVars, queue, jobVars>>

\* The hide is cleared by a statement of its own, after the dismissal committed.
UnhideWrite(h) ==
    LET p == handler[h].post
    IN  /\ handler[h].at = "unhideDismissed"
        /\ \/ /\ post[p].status # "pruned"
              /\ \E exempt \in {post[p].exempt, TRUE} :
                    Updates(p, [post[p] EXCEPT !.hiddenBy = "none",
                                               !.exempt = exempt])
              /\ Finishes(h)
              /\ UNCHANGED report
           \/ RowGone(h)
        /\ UNCHANGED <<fileVars, queue, jobVars>>

\* The update is by id alone: removedAt was checked when the row was read.
PatchWrite(h) ==
    LET p == handler[h].post
    IN  /\ handler[h].at = "patchRead"
        /\ \/ /\ post[p].status # "pruned"
              /\ \E hiddenBy \in {post[p].hiddenBy, "none", "ADMIN"},
                    text \in {post[p].text, TRUE},
                    exempt \in BOOLEAN :
                    Updates(p, [post[p] EXCEPT !.hiddenBy = hiddenBy,
                                               !.text = text,
                                               !.exempt = exempt])
              /\ Finishes(h)
              /\ UNCHANGED report
           \/ RowGone(h)
        /\ UNCHANGED <<fileVars, queue, jobVars>>

-----------------------------------------------------------------------------
(***************************************************************************)
(* removePost: the console's DELETE and a club's un-share.                 *)
(***************************************************************************)


\* A post already removed is answered without touching it again.
Removable(p) == post[p].status = "live"

RemoveRead(h, p) ==
    /\ h \in AdminDesk \cup ClubDesk
    /\ Removable(p)
    /\ Opens(h, "removeRead", p, post[p].images)

StubDeleted(row, by) == BlankRow("pruned")                  \* mutant

\* The row every removal leaves.  bodyHtml is not among the columns written.
Stub(row, by) ==
    [row EXCEPT !.status = "removed", !.text = FALSE, !.images = FALSE,
                !.removedBy = by, !.age = "new"]

Removers(h) ==
    {by \in {"CLUB", "ADMIN"} :
        \/ by = "CLUB" /\ h \in ClubDesk
        \/ by = "ADMIN" /\ h \in AdminDesk}

RemoveCommit(h) ==
    LET p == handler[h].post
    IN  /\ handler[h].at = "removeRead"
        /\ \/ /\ post[p].status # "pruned"
              /\ \E by \in Removers(h) :
                    Updates(p, Stub(post[p], by))
              /\ Goes(h, "removed")
              /\ UNCHANGED report
           \/ RowGone(h)
        /\ UNCHANGED <<fileVars, queue, jobVars>>

\* enqueuePostDeliveries is not awaited and its failure is swallowed.
Enqueued(p, kind) ==
    \/ UNCHANGED queue
    \/ /\ post[p].status # "pruned"
       /\ queue' = [queue EXCEPT ![p] = @ \cup {kind}]

EnqueueBeforeCommit(h) ==                                   \* mutant
    /\ handler[h].at = "removeRead"
    /\ Enqueued(handler[h].post, "REMOVED")
    /\ UNCHANGED <<dbVars, fileVars, jobVars, handler>>

RemoveEnqueue(h) ==
    /\ handler[h].at = "removed"
    /\ Enqueued(handler[h].post, "REMOVED")
    /\ Goes(h, "removeQueued")
    /\ UNCHANGED <<dbVars, fileVars, jobVars>>

FilesUnlinked(S) ==
    /\ file' = file \ S
    /\ young' = young \ S

RemoveUnlink(h) ==
    /\ handler[h].at = "removeQueued"
    /\ FilesUnlinked(IF handler[h].keys THEN {handler[h].post} ELSE {})
    /\ Finishes(h)
    /\ UNCHANGED <<dbVars, queue, jobVars>>

(***************************************************************************)
(* DELETE /api/admin/posts/:id/images/:imageId.  The touch of updatedAt    *)
(* that follows the unlink moves the sync cursor, which FeedSync models.   *)
(***************************************************************************)

ImageRead(h, p) ==
    /\ h \in AdminDesk
    /\ post[p].images
    /\ Opens(h, "imageRead", p, FALSE)

ImageDelete(h) ==
    LET p == handler[h].post
    IN  /\ handler[h].at = "imageRead"
        /\ \/ /\ post[p].images
              /\ Updates(p, [post[p] EXCEPT !.images = FALSE])
              /\ Goes(h, "imageDeleted")
           \/ /\ ~post[p].images
              /\ Finishes(h)
              /\ UNCHANGED post
        /\ UNCHANGED <<report, fileVars, queue, jobVars>>

ImageUnlink(h) ==
    /\ handler[h].at = "imageDeleted"
    /\ FilesUnlinked({handler[h].post})
    /\ Finishes(h)
    /\ UNCHANGED <<dbVars, queue, jobVars>>

-----------------------------------------------------------------------------
(***************************************************************************)
(* POST /api/v1/posts.  Files first, then the row, then the push queue.    *)
(***************************************************************************)

\* Post ids and storage keys are fresh: nobody else is using them.
ShareStore(h, p) ==
    /\ h \in ClubDesk
    /\ post[p].status = "absent" /\ p \notin file
    /\ \A g \in ClubDesk : handler[g].post # p
    /\ \E kind \in PostKinds :
         /\ Begins(h, "shareStored", p, kind.images)
         /\ file' = IF kind.images THEN file \cup {p} ELSE file
         /\ young' = IF kind.images THEN young \cup {p} ELSE young
    /\ UNCHANGED <<dbVars, queue, jobVars>>

ShareCreate(h) ==
    /\ handler[h].at = "shareStored"
    /\ \E kind \in PostKinds :
         /\ kind.images = handler[h].keys
         /\ Updates(handler[h].post,
              [BlankRow("live") EXCEPT !.text = TRUE, !.html = kind.html,
                                       !.images = kind.images])
    /\ Goes(h, "shared")
    /\ UNCHANGED <<report, fileVars, queue, jobVars>>

\* A later image is rejected or the insert fails: the files are unlinked.
ShareRollback(h) ==
    /\ handler[h].at = "shareStored"
    /\ FilesUnlinked({handler[h].post})
    /\ Finishes(h)
    /\ UNCHANGED <<dbVars, queue, jobVars>>

ShareEnqueue(h) ==
    /\ handler[h].at = "shared"
    /\ Enqueued(handler[h].post, "CREATED")
    /\ Finishes(h)
    /\ UNCHANGED <<dbVars, fileVars, jobVars>>

-----------------------------------------------------------------------------
(***************************************************************************)
(* runPostCleanup: the retention pass under its single-flight claim.       *)
(***************************************************************************)

Active(j) == job[j].at # "idle"

JobGoes(j, at) == job' = [job EXCEPT ![j].at = at]

ClaimableAlways == TRUE                                     \* mutant
ClaimableIfFree == claim = "free"                           \* mutant

\* One conditional updateMany whose row count is the claim.
Claimable == claim \in {"free", "stale"}

JobStart(j) ==
    /\ job[j].at = "idle"
    /\ Claimable
    /\ claim' = "held"
    /\ JobGoes(j, IF RetentionEnabled THEN "read" ELSE "prune")
    /\ UNCHANGED <<dbVars, fileVars, queue, handler, faults>>

Expirable(p) ==
    /\ post[p].status = "live"
    /\ post[p].age = "old"
    /\ OpenRows(p) = {}

Pictured == {p \in Posts : Expirable(p) /\ post[p].images}

JobRead(j) ==
    /\ job[j].at = "read"
    /\ job' = [job EXCEPT ![j] =
         [at |-> "expire", todo |-> {p \in Posts : Expirable(p)},
          pictured |-> Pictured, keys |-> {}]]
    /\ UNCHANGED <<dbVars, fileVars, queue, handler, claim, faults>>

\* One candidate's transaction.  It updates by id and checks nothing again; a
\* row pruned meanwhile throws, and the pass goes to its finally clause.
JobExpire(j) ==
    /\ job[j].at = "expire"
    /\ \E p \in job[j].todo :
         \/ /\ post[p].status # "pruned"
            /\ Updates(p, Stub(post[p], "RETENTION"))
            /\ job' = [job EXCEPT ![j] =
                 [at |-> "unlink", todo |-> @.todo \ {p},
                  pictured |-> @.pictured, keys |-> @.pictured \cap {p}]]
         \/ /\ post[p].status = "pruned"
            /\ JobGoes(j, "release")
            /\ UNCHANGED post
    /\ UNCHANGED <<report, fileVars, queue, handler, claim, faults>>

JobUnlink(j) ==
    /\ job[j].at = "unlink"
    /\ FilesUnlinked(job[j].keys)
    /\ job' = [job EXCEPT ![j].at = "expire", ![j].keys = {}]
    /\ UNCHANGED <<dbVars, queue, handler, claim, faults>>

JobExpired(j) ==
    /\ job[j].at = "expire"
    /\ job[j].todo = {}
    /\ JobGoes(j, "prune")
    /\ UNCHANGED <<dbVars, fileVars, queue, handler, claim, faults>>

\* Only a stub, and only past the horizon.
Prunable(p) == post[p].status = "removed" /\ post[p].age = "old"

\* The delete cascades to reports and deliveries.  It waits for a report
\* transaction that has inserted a row: the foreign key locks the post.
JobPrune(j) ==
    LET doomed == {p \in Posts : Prunable(p)}
    IN  /\ job[j].at = "prune"
        /\ \A h \in ReportDesk : handler[h].at = "reportCounted"
                                    => handler[h].post \notin doomed
        /\ post' = [p \in Posts |->
             IF p \in doomed THEN BlankRow("pruned") ELSE post[p]]
        /\ report' = [p \in Posts |->
             IF p \in doomed THEN [m \in Members |-> "none"] ELSE report[p]]
        /\ queue' = [p \in Posts |-> IF p \in doomed THEN {} ELSE queue[p]]
        /\ JobGoes(j, "sweep")
        /\ UNCHANGED <<fileVars, handler, claim, faults>>

OrphansOfAnyAge == {p \in file : ~post[p].images}           \* mutant
OrphansOfStubs ==                                           \* mutant
    {p \in file \ young : post[p].status = "removed" /\ ~post[p].images}

\* collectOrphans: a file no row names and old enough not to be an upload.
Orphans == {p \in file \ young : ~post[p].images}

JobSweep(j) ==
    /\ job[j].at = "sweep"
    /\ FilesUnlinked(Orphans)
    /\ JobGoes(j, "release")
    /\ UNCHANGED <<dbVars, queue, handler, claim, faults>>

\* Any statement of the pass may throw; the finally clause still runs.
JobFails(j) ==
    /\ job[j].at \notin {"idle", "release"}
    /\ faults < MaxFaults
    /\ faults' = faults + 1
    /\ JobGoes(j, "release")
    /\ UNCHANGED <<dbVars, fileVars, queue, handler, claim>>

\* The release is unconditional: whoever holds the claim now loses it.
JobRelease(j) ==
    /\ job[j].at = "release"
    /\ job' = [job EXCEPT ![j] = JobIdle]
    /\ claim' = "free"
    /\ UNCHANGED <<dbVars, fileVars, queue, handler, faults>>

\* The release itself fails and is only logged; the claim is left to go stale.
JobReleaseFails(j) ==
    /\ job[j].at = "release"
    /\ faults < MaxFaults
    /\ faults' = faults + 1
    /\ job' = [job EXCEPT ![j] = JobIdle]
    /\ UNCHANGED <<dbVars, fileVars, queue, handler, claim>>

-----------------------------------------------------------------------------
(***************************************************************************)
(* Time, failure, and the whole.                                           *)
(***************************************************************************)

\* Rows and files grow old in days; no pass takes that long, and both cutoffs
\* are computed from the instant a pass starts.
NoPassActive == \A j \in Jobs : ~Active(j)

PostAges(p) ==
    /\ NoPassActive
    /\ post[p].status \in {"live", "removed"}
    /\ post[p].age = "new"
    /\ Updates(p, [post[p] EXCEPT !.age = "old"])
    /\ UNCHANGED <<report, fileVars, queue, handler, jobVars>>

\* No upload lasts a day.
FileAges(p) ==
    /\ NoPassActive
    /\ p \in young
    /\ \A h \in ClubDesk : handler[h].at = "shareStored" => handler[h].post # p
    /\ young' = young \ {p}
    /\ UNCHANGED <<dbVars, file, queue, handler, jobVars>>

\* STALE_CLAIM_AFTER_MS after the claim was taken, by a pass still running or
\* by one that died with it.
ClaimGoesStale ==
    /\ claim = "held"
    /\ PassesOverrun \/ NoPassActive
    /\ claim' = "stale"
    /\ UNCHANGED <<dbVars, fileVars, queue, handler, job, faults>>

\* A request fails between two steps and loses what it had not committed.
RequestFails(h) ==
    /\ handler[h].at \notin {"idle", "shareStored"}
    /\ Finishes(h)
    /\ UNCHANGED <<dbVars, fileVars, queue, jobVars>>

\* The one server process dies: rows, files and the claim are what survives.
Crash ==
    /\ faults < MaxFaults
    /\ faults' = faults + 1
    /\ handler' = [h \in Handlers |-> Idle]
    /\ job' = [j \in Jobs |-> JobIdle]
    /\ UNCHANGED <<dbVars, fileVars, queue, claim>>

\* The steps that finish what a request has begun.
HandlerContinues(h) ==
    \/ ReportInsert(h) \/ ReportCommit(h)
    \/ DismissRows(h) \/ DismissCommit(h)
    \/ UnhideWrite(h) \/ PatchWrite(h)
    \/ RemoveCommit(h) \/ RemoveEnqueue(h) \/ RemoveUnlink(h)
    \/ ImageDelete(h) \/ ImageUnlink(h)
    \/ ShareCreate(h) \/ ShareRollback(h) \/ ShareEnqueue(h)

HandlerOpens(h) ==
    \/ \E p \in Posts, m \in Members : ReportRead(h, p, m)
    \/ \E p \in Posts :
         \/ DismissRead(h, p) \/ UnhideRead(h, p) \/ PatchRead(h, p)
         \/ RemoveRead(h, p) \/ ImageRead(h, p) \/ ShareStore(h, p)

JobStep(j) ==
    \/ JobRead(j) \/ JobExpire(j) \/ JobUnlink(j) \/ JobExpired(j)
    \/ JobPrune(j) \/ JobSweep(j)
    \/ JobFails(j) \/ JobRelease(j) \/ JobReleaseFails(j)

Next ==
    \/ \E h \in Handlers :
         HandlerOpens(h) \/ HandlerContinues(h) \/ RequestFails(h)
    \/ \E j \in Jobs : JobStart(j) \/ JobStep(j)
    \/ \E p \in Posts : PostAges(p) \/ FileAges(p)
    \/ ClaimGoesStale
    \/ Crash

Spec == Init /\ [][Next]_vars

-----------------------------------------------------------------------------
(***************************************************************************)
(* Fairness.  Node runs every accepted request to its end, node-cron fires *)
(* every day, and days pass; nothing obliges a member, an admin or a club  *)
(* to send a request.  Ageing waits for the passes to be over, which they  *)
(* are again and again and not for good, so it needs strong fairness.      *)
(***************************************************************************)

Fairness ==
    /\ \A h \in Handlers : WF_vars(HandlerContinues(h))
    /\ \A j \in Jobs : WF_vars(JobStep(j))
    /\ WF_vars(\E j \in Jobs : JobStart(j))
    /\ WF_vars(ClaimGoesStale)
    /\ \A p \in Posts : SF_vars(PostAges(p)) /\ SF_vars(FileAges(p))

FairSpec == Spec /\ Fairness

-----------------------------------------------------------------------------
(***************************************************************************)
(* Safety.                                                                 *)
(***************************************************************************)

ReachesThreshold(rows) ==
    /\ Cardinality(rows) >= AutoHideThreshold
    /\ Cardinality(ClubsOf(rows)) >= AutoHideMinClubs

\* A post the SYSTEM hid was reported by enough different members of enough
\* different clubs: retries of one report, and reports dismissed and filed
\* again, never add up to a threshold (report/route.ts, the recount).
SystemHideHasEvidence ==
    \A p \in Posts :
        post[p].hiddenBy = "SYSTEM" => ReachesThreshold(FiledRows(p))

\* The cached reportCount may lag behind the rows when requests overlap, but it
\* never claims more reports than members ever filed.
CountWithinFiled ==
    \A p \in Posts : post[p].count <= Cardinality(FiledRows(p))

\* Once a post is exempt and no report that read it before is still in flight,
\* the threshold cannot hide it (autoHideExempt).
ExemptionHolds ==
    [][ \A p \in Posts :
          /\ post[p].exempt
          /\ post[p].hiddenBy # "SYSTEM"
          /\ \A h \in ReportDesk : handler[h].post = p => ~handler[h].mayHide
          => post'[p].hiddenBy # "SYSTEM" ]_vars

\* An image row never names a file that is not on disk, whatever order shares,
\* removals, picture deletions and orphan sweeps run in and wherever they die
\* (rows first and files second on delete, files first on create).
RowsHaveFiles == \A p \in Posts : post[p].images => p \in file

\* A withdrawal is queued for the mirrors only once the removal is committed.
WithdrawalFollowsRemoval ==
    \A p \in Posts : "REMOVED" \in queue[p] => post[p].status = "removed"

\* As long as no pass outlives STALE_CLAIM_AFTER_MS, at most one runs, across
\* failures, crashes and claims left behind (withCleanupClaim).
SingleFlight ==
    ~PassesOverrun =>
        \A i, j \in Jobs : Active(i) /\ Active(j) => i = j

\* The table implements the abstract life of a post: a visible or hidden post
\* is never deleted, and a removed one never comes back.
PhaseOf(row) ==
    CASE row.status = "live" ->
            IF row.hiddenBy = "none" THEN "visible" ELSE "hidden"
      [] row.status = "pruned" -> "gone"
      [] OTHER -> row.status

phase == [p \in Posts |-> PhaseOf(post[p])]

Lifecycle == INSTANCE PostLifecycle WITH phase <- phase

ImplementsLifecycle == Lifecycle!Spec

(***************************************************************************)
(* Liveness.                                                               *)
(***************************************************************************)

\* Every stub is pruned in the end: a claim left behind by a crash goes stale
\* and is taken over, so a dead pass never wedges retention.
StubsArePruned ==
    \A p \in Posts : post[p].status = "removed" ~> post[p].status = "pruned"

\* Files no row names are collected in the end.
OrphansAreCollected ==
    \A p \in Posts : p \in file /\ ~post[p].images ~> p \notin file \/ post[p].images

(***************************************************************************)
(* Why the safety properties hold: what every request and every pass knows *)
(* about the rows it holds, however long ago it read them.                 *)
(***************************************************************************)

\* A request that names a post holds a row that has existed, except a share,
\* which holds the files of a row that does not exist yet.
RequestKnowsItsRow(h) ==
    LET p == handler[h].post
    IN  /\ handler[h].at \notin {"idle", "shareStored"}
              => post[p].status # "absent"
        /\ handler[h].at = "shareStored"
              => /\ h \in ClubDesk
                 /\ post[p].status = "absent"
                 /\ handler[h].keys => p \in file /\ p \in young
        /\ handler[h].at \in {"removed", "removeQueued"}
              => post[p].status \in {"removed", "pruned"}
        /\ handler[h].at = "imageDeleted" => ~post[p].images

RequestsKnowTheirRow == \A h \in Handlers : RequestKnowsItsRow(h)

\* No two shares write the files of the same post.
SharesAreApart ==
    \A g, h \in Handlers :
        /\ handler[g].at = "shareStored"
        /\ handler[h].at = "shareStored"
        /\ handler[g].post = handler[h].post
        => g = h

\* What a report transaction counted is its own row and rows once filed, and
\* its lock keeps the post from being pruned under it.
CountIsFiled(h) ==
    LET p == handler[h].post
    IN  handler[h].at = "reportCounted"
           => /\ post[p].status # "pruned"
              /\ handler[h].rows \subseteq FiledRows(p) \cup {handler[h].member}

CountsAreFiled == \A h \in Handlers : CountIsFiled(h)

\* A pass holds rows that exist or have existed, and unlinks files of stubs only.
PassKnowsItsRows(j) ==
    /\ \A p \in job[j].todo : post[p].status # "absent"
    /\ \A p \in job[j].keys : post[p].status \in {"removed", "pruned"}

PassesKnowTheirRows == \A j \in Jobs : PassKnowsItsRows(j)

\* Only a live post has images.
OnlyLiveHaveImages == \A p \in Posts : post[p].images => post[p].status = "live"

\* As long as none outlives the claim, whoever runs holds it.
RunnersHoldTheClaim ==
    ~PassesOverrun => \A j \in Jobs : Active(j) => claim = "held"

\* The invariant that is preserved by every step, and so holds in every
\* reachable state (PostModerationProofs).
IInv ==
    /\ TypeOK
    /\ RequestsKnowTheirRow /\ SharesAreApart /\ CountsAreFiled
    /\ PassesKnowTheirRows
    /\ OnlyLiveHaveImages /\ RowsHaveFiles
    /\ WithdrawalFollowsRemoval
    /\ SystemHideHasEvidence /\ CountWithinFiled

\* The invariant of the claim alone.
ClaimInv == TypeOK /\ RunnersHoldTheClaim /\ SingleFlight

(***************************************************************************)
(* What the comments promise and overlapping requests break.               *)
(***************************************************************************)

\* "Recomputed from the report rows on every report and every dismissal ... so
\* it cannot drift away from the rows it summarises."  (schema.prisma)
CountMatchesRows ==
    \A p \in Posts : post[p].count = Cardinality(OpenRows(p))

\* "The report threshold must never auto-hide this post again." (schema.prisma)
ExemptNeverAutoHidden ==
    [][ \A p \in Posts :
          post[p].exempt /\ post[p].hiddenBy # "SYSTEM"
            => post'[p].hiddenBy # "SYSTEM" ]_vars

\* "A stub row carrying only ids and timestamps." (post-removal.ts)
StubHasNoHtml ==
    \A p \in Posts : post[p].status = "removed" => ~post[p].html

\* "The content is blanked": a stub has no text, and the console refuses to
\* write any on it.  (post-removal.ts, admin/posts/[id]/route.ts)
StubHasNoText ==
    \A p \in Posts : post[p].status = "removed" => ~post[p].text

\* "Posts with open reports are evidence ... left for the admin instead."
\* (post-cleanup.ts, expireOldPosts)
RetentionSparesEvidence ==
    [][ \A p \in Posts :
          /\ post'[p].removedBy = "RETENTION"
          /\ post[p].removedBy # "RETENTION"
          => OpenRows(p) = {} ]_vars

\* "False when the post was already removed -- the call is idempotent", and
\* removedBy records who caused the removal.  (post-removal.ts)
RemovalIsIdempotent ==
    [][ \A p \in Posts :
          post[p].status = "removed" /\ post'[p].status = "removed"
            => post'[p].removedBy = post[p].removedBy ]_vars
=============================================================================
