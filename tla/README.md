# AlpineClubServerNZ in TLA+

AlpineClubServerNZ is the hub of a federation of alpine clubs. Each club runs its
own booking site; the hub keeps the registry of clubs and lodges, carries shared
posts between the clubs (the *Communication Portal*), and gives administrators a
console. It is one Next.js process over one PostgreSQL database, with uploaded
pictures in a directory. The clubs' booking sites are separate programs that call
`/api/v1` and are called back by the push worker.

Nothing in the program is sequential by design: requests interleave at every
`await`, PostgreSQL runs at READ COMMITTED, most updates are by id on a row read
earlier, files are written outside any transaction, and three timers (retention,
digest, push) run beside the requests. These specifications model those
interleavings and say which promises survive them.

## The system

| Component | State it keeps | Operations | Talks to |
| --- | --- | --- | --- |
| Post moderation (`api/v1/posts/[id]/report`, `api/admin/posts`, `lib/post-admin`) | `posts`, `post_reports` | report and auto-hide, hide, edit, unhide (exempt), dismiss, remove, delete a picture | removal, push queue, feed |
| Sharing (`api/v1/posts`, `lib/post-removal`, `lib/uploads`) | `posts`, `post_images`, files | share with pictures, un-share | push queue |
| Retention (`lib/post-cleanup`, `instrumentation`) | `job_claims`, `posts`, files | claim, expire, prune stubs, collect orphans, release | settings |
| Feed sync (`api/v1/feed/sync`, `lib/posts`) | `Club.lastCommsSyncAt`; the cursor is the club's | a page after a cursor, removals, horizon, stamp | clubs' mirrors, console convergence, settings |
| Portal settings (`lib/settings`, `api/admin/settings`) | `system_settings` | save, load with defaults | retention, reports, feed sync |
| Push delivery (`lib/push-delivery`, `lib/push-targets`) | `post_deliveries`, an in-process flag | queue, sweep, attempt, back off, abandon | clubs' sites |
| Club lifecycle (`clubs/actions`, `lib/clubs`, `lib/issue-club-token`, `lib/api-auth`) | `clubs`, `api_tokens` | register, approve, reject, suspend, re-approve, issue, revoke, delete | lodges, every authenticated call |
| Push-target registration (`api/v1/push-target`) | `Club.pushUrl`, `Club.pushSecretVersion` | set, clear | push delivery |
| Lodge registry (`lib/other-lodges`, `api/v1/other-lodges`, `api/admin/other-lodges`) | `other_lodges` | upload, pull, create, edit, delete | clubs |
| Lodge ownership (`lib/club-lodges`) | `other_lodges.sourceClubId` | a club's complete list, the first approval's list | club lifecycle |
| Version gate (`lib/api-version-gate`, `lib/sync-issues`) | `sync_issues`, `Club.lastReportedApiVersion` | refuse, open or refresh an issue, clear | every data route, rate limiter |
| Rate limiter (`lib/rate-limit`) | a map in memory | admit, refuse | every route in front of it |
| Digest (`lib/admin-digest`, `lib/mail`) | a claim and a watermark | collect, send, advance | mail server |
| Image library (`api/admin/images`, `lib/image-library`, `lib/lodge-pictures`) | `images`, files | upload, delete unless used, choose, serve | lodges |
| Sessions (`lib/auth`, `login/actions`, `api/auth/change-password`, `proxy`) | a signed cookie, `User.passwordChangedAt` | sign in, refresh, change password, sign out | console |
| Planner (`lib/bed-planner`, `lib/lodge-seasons`, `lib/lodge-search`, `lib/club-availability`) | none; the address is the state | dates, grid, price, one search | clubs' sites |

What makes each correct: a report is one member's and one vote; a hide the system
made rests on real evidence; a stub is final and reaches every mirror before it is
pruned; rows never name files that are gone; one cleanup pass at a time; no change
is passed by a cursor; a withdrawal is the last word a club hears of a post; a club
no one approved owns nothing, and no claim takes a lodge from another club; a push
secret serves one destination; one open issue a club; a digest repeats or omits only
what a crash or a late commit explains; a password change ends other sessions; a
stay costs the sum of its nights; a lodge is hidden from a search only when it cannot
take the party. The complete list of what is hard to test, each at its line, is
under `hazards` in `PROJECT.json`.

## The modules

### PostModeration (with PostLifecycle, MCPostModeration, PostModerationProofs)

Everything that writes a row of `posts`. A step is one statement or one
transaction; `handler[h]` holds what request `h` has read so far and which line it
stands at, so any other request may commit in between.

| Actions | Code |
| --- | --- |
| `ReportRead`, `ReportInsert`, `ReportCommit` | the interactive transaction of `report/route.ts` 97-156: the read, the insert (which waits for an uncommitted row of the same member) with the recount, the update and commit |
| `DismissRead`, `DismissRows`, `DismissCommit` | `dismiss/route.ts` and `dismissReports` in `post-admin.ts` |
| `UnhideRead`, `UnhideWrite` | `unhide/route.ts`: dismissal in one transaction, the clear in a second statement |
| `PatchRead`, `PatchWrite` | hide and edit in `admin/posts/[id]/route.ts` |
| `RemoveRead`, `RemoveCommit`, `RemoveEnqueue`, `RemoveUnlink` | `removePost`, called by the club, the console and tests the row only once |
| `ImageRead`, `ImageDelete`, `ImageUnlink` | picture deletion in the console |
| `ShareStore`, `ShareCreate`, `ShareRollback`, `ShareEnqueue` | `POST /api/v1/posts`: files, rows, undo of files, push rows |
| `JobStart` ... `JobRelease`, `JobFails`, `JobReleaseFails` | `withCleanupClaim` and the four stages of `runPostCleanup` |
| `PostAges`, `FileAges`, `ClaimGoesStale` | time, as far as it matters: a row passes its cutoff, a file its minimum age, a claim its bound |
| `RequestFails`, `Crash` | a statement throws; the process stops, open transactions roll back |

Data is abstracted to what the properties tell apart: whether a stub still has
text, HTML or pictures; whether a row is past its cutoff; whether a claim is free,
held or stale. `status` stands for the `removedAt` columns, `hiddenBy` for
`hiddenAt`/`hiddenBy`.

`PostLifecycle` is the abstract promise: absent, visible, hidden, removed, gone,
and no way from visible or hidden to gone. `ImplementsLifecycle` says the table
implements it under a refinement mapping (`PhaseOf`).

### FeedSync (with MCFeedSync, FeedSyncProofs)

The cursor endpoint against writers. A write is a stamp (`updatedAt` is taken by
the server when the statement is sent) and a commit, so rows become visible out of
order. `Asked`, `FirstPage`, `LastOf` and `HorizonAt` are the query, the page, the
cursor and the horizon of `feed/sync/route.ts`; `StampSync` is the
`lastCommsSyncAt` update that follows; `Prune` is `pruneStubs`; `DeleteImage` and
`TouchAfterDelete` are the two statements of a picture deletion: the row without its
picture shows at once, the touch that tells cursors of it is under way for as long as
any write (`CommitLag`). Two fields of a row are history: `stale` says that a picture
was deleted and nothing has moved `updatedAt` since, `touched` that reports were dismissed
on a stub (`dismissReports` updates removed posts like any other). They name the
posts the endpoint cannot keep its promises for. `setting` is the
saved tombstone horizon: `SaveSettings` changes it while cursors and stubs exist, and
the pruning pass and every answer read it anew (`LoadsSetting`), going on with the
default when the read fails, as `loadPostSettings` does. Writes are what
PostModeration lets happen, reduced to what they leave for the cursor: sharing the
modules' state would multiply both state spaces and tell nothing more.

The mirror is not in this repository. Its pass is modelled from
`docs/comms-portal-spec.md` ("The sync pass") and marked external: step back by
the overlap, apply a page and its cursor in one transaction, loop while there is
more, start over when the cursor predates the horizon. The document leaves open
whether the horizon is compared on every page (`EveryPage`) and whether a margin is
added (`Margin`); both are constants, because the answer decides correctness.

### PushDelivery (with Announcements, MCPushDelivery, PushDeliveryProofs)

The queue of announcements and withdrawals, and the sweep that empties it. `row` is the
table by its unique key, `line` the due rows in `nextAttemptAt` order; a row that waits
is pending and not in line. `sweep[s]` holds the batch a tick has read and, between the
read, the call and the update, what it read of its row.

| Actions | Code |
| --- | --- |
| `Share`, `HideOrShow`, `Remove`, `Prune` | what PostModeration does to a post, reduced to what a push says of it; the prune cascades to the rows |
| `EnqueueRead`, `EnqueueCreate` | the two statements of `enqueuePostDeliveries`, which nobody waits for |
| `SweepStarts`, `SweepEnds` | the minute's tick, `deliverySweepRunning`, the batch of `runPostDeliverySweep` |
| `DeliverRead`, `DeliverHold`, `DeliverCall`, `DeliverRecord` | `deliverOne`: the read and its early returns, the two holds, the call, `fail()` or the delivered update |
| `BecomesDue` | a backoff or a hold comes to its end |
| `Suspend`, `Reapprove`, `ReportVersion`, `PutTarget`, `DeleteTarget` | the moves of a club that decide whether it is called |
| `UpdateFails`, `Crash` | a statement throws and the sweep goes on; the process stops |

`heard`, `got` and `late` are history: what a club was last told, how often it took a
push in, and how often after it ceased to be reachable. The call has two outcomes that
need not agree: the club took the push in, and this server got a good answer.

`Announcements` is the abstract promise: no sweep, no batch, no calls in flight. A notice
is queued once, tried at most `MaxAttempts` times, ends delivered (only if the club took
it in) or abandoned (only with its attempts used up), and no club that took in that a
post is removed is shown it again. A club may take a notice in more than once, and a
last time while its post is being pruned. `KeepsItsPromise` says the queue implements it:
the notices are the rows, a notice is taken in when its club has heard it (`TakenIn`),
and the life of a post is that of `PostLifecycle` again.

### ClubLifecycle, LodgeRegistry and LodgePull (with LodgeTitles, MCRegistry, RegistryProofs)

`LodgeRegistry` is `other_lodges` and the statements run against it: `lodge` holds the
rows, `lodgeReq[d]` what a request in flight has read and decided. `ClubLifecycle`
extends it with `clubs`, `key` and the requests about them (`clubReq`): a request a key
admits may upload lodges, a first approval goes on to assign the lodges the club asked
for. `LodgePull` is the other side of the table, how a club's copy follows it; it keeps
of a lodge only when it changed and shares no state with the other two.

| Actions | Code |
| --- | --- |
| `RegisterFinds`, `RegisterLodges`, `RegisterCreate`, `RegisterWelcome` | `registerClub` and the web form: the code looked up, the lodges filtered, the create that loses or wins on the unique code, the first key and the mail |
| `Approve`, `OtherMove`, `ApprovedReads`, `ApprovedAssigns` | the guarded moves of `clubs/actions.ts` and `assignRequestedLodgesOnApproval` after the first one |
| `IssueRead`, `IssueCreate`, `Revoke`, `DeleteKeyRead`, `DeleteKey`, `Admitted` | keys, and whom `authenticateApiRequest` lets in |
| `PutTargetRead`, `PutTargetWrite`, `DeleteTarget` | the push destination and the generation of its secret, read by one statement and written by the next |
| `UploadById`, `UploadByName`, `UploadNew`, `UploadWrite`, `Create` | `POST /api/v1/other-lodges`: match by id or by own name, the season check on what the save would leave, the update by id |
| `AdminCreate`, `PatchRead`, `PatchWrite`, `DeleteRead`, `DeleteWrite` | the console's create, edit and logical delete |
| `AssignBegin`, `AssignWanted`, `AssignCurrent`, `AssignWrite` | `assignClubLodges`: two reads and two guarded updates in one READ COMMITTED transaction |
| `EditStamps`, `DeleteStamps`, `WriteCommits` | an upload or edit is stamped before it commits; one that changes only amenities stamps the row by hand |
| `PullBegins`, `ReadLodges`, `ReadDeleted`, `PullAnswers`, `PullLost` | `GET /api/v1/other-lodges`: two statements that may see different moments, the cursor, a lost answer |

The booking site of `LodgePull` is external: it asks with its cursor less 60 seconds
(the repository's `README.md` 449), keeps its cursor when nothing is reported and does not show a lodge
again once it was told that it is deleted.

`LodgeTitles` is the abstract promise about who holds a lodge: no requests, no
statements. A lodge appears, is described and is deleted for good; a title passes only
between the centre and a club that was approved, and one step moves the lodges of one
club. `ClubLifecycle` maps to it what a row says, its owner, its credit and its `at`, and the
clubs that are approved or suspended (`Titles`).

### The services (composed by MCServices; ServicesProofs, SessionsProofs, ImageLibraryProofs, BedPlannerProofs)

| Module | State | What a step is |
| --- | --- | --- |
| `RateLimiter` | `bucket`, and `admitted`, when each request was let through, as history | `checkRateLimit` is synchronous: a call is one step; a restart empties the map |
| `SyncIssues` (extends `RateLimiter`) | `reported`, `issue`, `call` | a request passes or meets the gate, stamps the club, upserts the issue (one statement, or a read and an insert that may collide), retries once when the row was cleared under it; an administrator clears |
| `Digest` | `event`, `claim`, `watermark`, `run` | a run claims, reads the watermark, collects, sends, moves the watermark, releases; events are stamped, then commit |
| `Sessions` | `password`, `jar`, `trip` | a request reads the cookie its browser had, decides, and its answer arrives later; a change of password takes its instant (`ChangeStamped`) before its update commits (`ChangeWritten`); the proxy refreshes without the database |
| `ImageLibrary` | `picture`, `onDisk`, `hut`, `handling` | file and row are separate steps in the order of the code; a delete checks usage, then deletes the row, then the file |
| `Seasons` | `dates` | a save of one season's two dates, refused when what would be stored is unusable; range, leap-day rule and price are operators |
| `BedPlanner` | `today`, `checkIn`, `checkOut`, `view` | a quick pick, an arrow, a day that passes over an open address; the window is operators |
| `BedSearch` | `due`, `asking`, `answered` | a worker asks the next club or hears from it; the second question; the end |

`Seasons` and `BedPlanner` are pure functions in the code. They are stated as machines
because what they must be right about is every state a lodge's dates can be brought to
by partial saves, and every address and day a page can be opened with; `PricedAsWritten`
compares `Estimate` with a reference definition (`Written`: the days the dates name).
Each module has its own specification formula (`LimitSpec`, `SyncSpec`, `DigestSpec`,
`SessionSpec`, `ImageSpec`, `SeasonsSpec`, `PlannerSpec`, `SearchSpec`; `PullSpec` and
`RegistrySpec` above): the theorems are about these, whatever runs beside them.

The parts of a run share no variable that both change. `part` picks one at the start and
the others stay as they begin, so one run explores the union of the parts and not
their product, and nothing is lost by it.

## What the runs check

Every run and its one-sentence meaning is in `PROJECT.json`; this is how they
divide the questions.

| Run | Question | Result |
| --- | --- | --- |
| `reports_race` | two reports of three members of two clubs and a console request interleave; the threshold is two reports of two clubs | evidence, count and exemption hold |
| `files_race` | share, remove, picture deletion, a retention pass with its orphan sweep, a crash | rows have files; a withdrawal follows its removal; the lifecycle is implemented |
| `cleanup_liveness` | two callers, one fault, no pass outlives the claim, fairness | one pass at a time; stubs pruned, orphans collected |
| `feed_late_commits` | late commits, pictures deleted before their post is touched, long passes | no change is passed by, but for a picture whose post was never touched, until anything writes it |
| `feed_tombstones` | removals, reports dismissed on stubs, pruning, failed passes, a changed horizon and a failed read of it | a cautious site never keeps a pruned post, unless reports on its stub were dismissed |
| `feed_converges` | fairness of passes | mirrors come to show what the server shows, with the same exception |
| `push_race` | one post, one club, two ticks, a fault | a delivered withdrawal is the last word; every push is an attempt; a held club hears at most one more; the queue drains; it implements `Announcements` |

| `registry` | registration, review, keys and push targets; lodges moved between clubs; lodges edited; lodges pulled | one first key and one welcome a club; a secret serves one destination; outsiders own nothing; no handover from club to club; titles pass as `LodgeTitles` says and a deleted lodge is final; seasons clash only when two saves overlap; the pull misses nothing |
| `services` | each service on its own | windows bound what is let through; mismatches end up on an open issue; digests repeat and omit only what is explained, and tell every event in the end; a password change voids sessions, but for the named ones; shown pictures serve and are not taken unseen; stays are priced as written; grids hold the stay; searches hide only what is known short |
The `bug_*` runs each state a sentence of a comment or document as a property and
TLC finds the behaviour that breaks it:

| Run | The sentence | What happens |
| --- | --- | --- |
| `bug_stub_html` | a stub has "only ids and timestamps" | `bodyHtml` is never blanked |
| `bug_retention_evidence` | reported posts are left for the admin | the report arrives after the candidates were listed |
| `bug_push_starves` | one bad club cannot monopolise a cycle | rows of a club without a target are never written and stay first in line |

`push_race` checks the same property with one club, where it holds. With two clubs the
batch decides: fifty such rows starve everybody, as one does when a batch is one row.

Reading the push queue against its comments shows more that no property states: the
schema says of the unique key that "the worker cannot double-send" (`schema.prisma` 471),
while a crash after the call sends again, which `PushesAreCounted` bounds; it says that
"ordering between the two is preserved per club" (454), while a retry reorders them, which
is why `RemovalIsLastWord` has to speak of what the push says; `backoffFor` indexes by the
attempts already used up, so the first wait is five minutes and not the "roughly a
minute" of `push-delivery.ts` 30; and two overlapping `PUT /push-target` compute the same
next secret version (`push-target/route.ts` 100).

Other divergences come out of the same modules and are not kept as runs of their
own. Where a property is named, the module states it and a changed constant of a run
shows it:

- *Reports and edits.* `reports_race` breaks `CountMatchesRows` (two reports at READ
  COMMITTED each count one; `schema.prisma` 361) and `ExemptNeverAutoHidden` (a report
  that read the post before it was made exempt hides it after; `schema.prisma` 370; what
  does hold of any interleaving is `ExemptionHolds`). With a second console desk it
  breaks `StubHasNoText` (an edit by id lands on a stub; `post-removal.ts` 14) and
  `RemovalIsIdempotent` (two overlapping removals both write; `post-removal.ts` 26).
- *Convergence.* `feed_tombstones` breaks `ConvergenceIsTrue`: `lastCommsSyncAt` is
  stamped before the answer is sent (`feed/sync/route.ts` 134), so a page that is lost
  counts as delivered; with `PassLength = 1`, `Overlap = 2` and `MaxFailures = 0` so does a
  removal between the page and the stamp. The number "must not be optimistic
  here" (`post-admin.ts` 182).
- *The horizon.* `feed_tombstones` with `Margin = 0` breaks `HorizonCatchesUp`: a stub is
  pruned under the horizon of one day and the answer quotes two. With `PassLength = 1`,
  `Overlap = 2`, `MaxTime = 5` and no `"touch"`, one horizon and no margin are too little as
  well (a cursor can be ahead of a removal by the length of a pass, and the stub is pruned
  exactly at the horizon the endpoint calls serviceable, `comms-portal-spec.md` 645), and so
  is `Margin = 1` with both horizons. What is enough is two passes, three lags (removal,
  deletion of a picture, its touch) and the difference of the horizons, and that is
  proved (`HorizonHolds`). The setting's description says only a cursor that "predates the
  horizon" has missed removals (`settings.ts` 33), and a failed read, though "a wrong
  threshold is recoverable" (12), quotes the default of 90 days to clubs whose stubs
  went under a shorter setting.
- *Reports dismissed on a stub.* No margin is enough for these: the dismissal
  (`dismiss/route.ts` 33, `post-admin.ts` 206) moves the stub's `updatedAt` ahead of
  cursors that were about to reach it, while pruning goes by `removedAt`. A club that
  had not reached the stub may never be sent it and shows the post for good.
  `HorizonCatchesUp` and `MirrorsConverge` name this post as their exception
  (`touched`, `LostTrack`); without it both runs refute them.
- `feed_converges` with `EveryPage = TRUE` breaks `MirrorsConverge`: a site that compares
  every page's horizon with the cursor it stored, as documented, starts its refill over
  whenever the first page ends before the horizon, for ever (`feed/sync/route.ts` 163).
- *Pictures.* A process that dies between deleting a picture and touching its post leaves
  the change behind every cursor (`images/[imageId]/route.ts` 44). `MirrorsMissNothing`
  excepts this post (`stale`) until anything writes it, and nothing else.
- *Lodges.* A deleted lodge "cannot be given to a club" and "keeps its owner
  untouched" (`club-lodges.ts` 38, 66), but neither guarded update asks again whether the lodge is
  live, so one deleted after the reads is claimed or freed; `LodgeTitles` therefore
  lets a deleted lodge change hands. An upload "can't clobber another club's entry"
  (`other-lodges/route.ts` 200), but the update is by id (375) and the owner was checked
  on a row read before: a lodge that was handed over meanwhile is written by its
  former club once. The first approval sets the club's *whole* list, so a lodge
  assigned while the approval was under way is taken away again; a crash between the
  approval and the assignment (`clubs/actions.ts` 31) leaves the club without its
  lodges, and a re-approval does not assign. Two saves that each change one season can
  together leave overlapping ones (`ClashTakesTwo` says it takes two). That "a deletion is
  never reported to the same club twice" (`other-lodges.ts` 803) does not survive the 60 seconds of overlap a
  site adds: it is reported again until the cursor has moved on, and merges to the same.
- *Push targets.* Two concurrent PUTs of one club read the same generation and give two
  destinations one secret; `SecretIsOneDestinations` assumes a site that waits for its
  answer (`OnePut`).
- *Digest.* A row that commits after the digest covering its stamp was collected, and
  one older than the first digest's window, is in no mail; a crash after the send mails
  the same events again. `Missed` and `lapses` name exactly these.
- *Sessions.* Three kinds of session outlive a change of password. A sign-in that verified
  the old password before the change gets its cookie after it. A session of the very
  second of the change is not older than it. And `passwordChangedAt` is taken
  (`change-password/route.ts` 70) before the update commits, so a session given for the
  old password between the two is newer than the change; when two changes overlap and
  commit out of the order of their stamps, that is also what the earlier one had
  voided. `ChangeVoidsSessions` names these and no others. A refresh that is
  answered after a sign-out puts the cookie back.
- *Seasons.* A season from 29 February to 28 February is cut to one day by
  `leapDayCovered` (`lodge-seasons.ts` 72): the end moves to the 29th, which is also the
  start. `PricedAsWritten` excludes these two dates (`AllYear`) and nothing else.

### Bounds, and why they are enough

- *Posts*: one for PostModeration (no statement relates two posts, except the
  batch and the sweep, which treat each alone); two for FeedSync, the least at
  which a page boundary (`Limit = 1`) falls between rows.
- *Members and clubs*: three members of two clubs in `reports_race`, with a threshold of
  two reports of two clubs, so that enough reports and enough clubs differ (two reports
  of one club reach the first and not the second). Two members of one club, and two
  report desks, are interchangeable (`ReportSymmetry`).
- *Desks*: two report requests and one console request. The races found are all of
  two requests; a third adds states and no new pair.
- *Passes*: two callers, the least at which a claim can be contended and taken over.
- `MaxFaults`, `MaxFailures`: one or two crashes, failed passes or failed stamps.
  After a crash every handler is idle, so a second one meets the same states.
- *Push*: a row is one club's, and rows meet only in the batch: one post and one club
  give two rows, and with batches of one row (`BatchSize = 1`) they compete. Two ticks
  are the least that can overlap, two attempts the least that can retry.
- *Time* in FeedSync is a small clock. `CommitLag` and `PassLength` are one tick,
  `Overlap` is one more than both, and smaller overlaps are found wanting, so the
  clock is long enough to matter. `Horizon` and `MaxTime` let a stub be pruned
  while a cursor is on either side of it. Two horizons one tick apart are the least that
  can differ; the other two runs keep one, since they say nothing of pruned posts or
  need the default alone. In `feed_tombstones` and `feed_converges` a pass and a write
  take no time, which leaves room for dismissals on stubs, failures and two
  horizons; `Margin = 1` is exactly what the theorem asks for then, and with
  `PassLength = 1`, `Overlap = 2`, `Margin = 3` the theorem stands alone.
  States that differ in `syncedAt` alone are one to the two safety runs (`WithoutStamps`, a
  VIEW): no step and no property of theirs reads the stamp.
- `MaxVersion` bounds edits and picture deletions of one post. `Pictured` is one of the two
  posts in `feed_late_commits`, where they may lose a picture once, and none elsewhere:
  what a lost touch does to a mirror is `MirrorsMissNothing`'s business.
- The safety runs of FeedSync with two writers use symmetry over the writers; no
  property names one. No liveness run uses symmetry.
- *Registry*: two requests of each kind, two clubs, two keys, two lodges. A lodge's
  columns are its name and the two seasons whose pair is checked, and an item may
  carry any of them together. There is one name in the run, so names that repeat occur
  and renames do not: they are in the model and in the theorems. To keep the parts
  small, nobody sets seasons in `ownership` (`PlainSaves`, which is about who owns a
  lodge), and an edit at the console carries no name in `editing` (`NamelessEdits`: with one
  name it would change nothing). `MaxSecret = 3` allows two changes of destination, the
  least at which a secret could come back. In `clubs` the second club is a rejected
  one, in `ownership` one that waits and asks for the lodge the other may be given.
  Desks, destinations, and the pull's entries and pens are symmetric: nothing chooses
  among them by name, and no property of the run is temporal beyond one step.
- *Pull*: two lodges, two writers, one lag against an overlap of two ticks. A pull that
  itself lasts (`PullLag = 1`, `PullOverlap = 3`, `PullTime = 4`) was checked with the
  same result and is not kept for its length; the overlap has to exceed both lags
  together, and with less `PullMissesNothing` fails.
- *Services*: two of whatever can overlap (requests, runs, answers of one browser,
  workers) and one crash. The clocks run long enough for a window, a session and an
  absolute age to end (`LimitTime`, `MaxSeconds`); three issues let one be cleared under
  a recording twice. The year of `Seasons` has six days with the leap day second: every
  order of four dates, both sides of New Year and of the leap day occur. The planner
  keeps the order of the code's numbers (grids of 3 to 8 nights for 7 to 30, steps of 3
  for 7, holidays of 4 days for two weeks), and is proved for all of them.
- Deadlock checking is off: the system stops when clocks and bounds are used up and
  nobody asks for anything.

### Fairness

`PostModeration!FairSpec`: a request that has started goes on (weak fairness of
`HandlerContinues`: Node resumes every await), the nightly timer and the console
keep starting passes, a pass goes on, and time passes (strong fairness of the aging
of rows and files, because a row can be replaced while it ages). Nothing obliges
anyone to report, share or remove. `FeedSync!FairSpec`: every club pulls again and
again (the documented schedule) and a pass continues; writers are under no
obligation, and `MirrorsConverge` is conditional on writing having ceased.
`PushDelivery!FairSpec`: the tick comes, a sweep goes on (the call has a timeout), and a
backoff comes to its end. Clubs owe nothing, not even an answer; `QueueDrains` is
conditional on the club staying reachable.

`Digest!DigestFairness`, the only fairness of `services`: the host's cron fires, a run goes
on, a claim that was left behind gets stale (15 minutes pass), and a mail server that is
asked again and again takes the mail (strong fairness of `SendSucceeds`: `mail` may be
reconfigured in between, and `EventsAreTold` is conditional on it staying set).

## What is proved

`PostModerationProofs` proves, for any sets of posts, members, desks and passes and
any thresholds (the assumption is `ModerationAssumption` in `PostModeration`: finite
members, `None` outside the sets, well-typed parameters; the members of one threshold
need no bound):

- `TypeCorrect`: `Spec => []TypeOK`.
- `Inductive`: `Spec => []IInv`. The safety properties are not inductive: whether a
  delete may unlink depends on what the request read before. `IInv` adds what each
  request and pass still *knows* of the row it holds: that a row once read exists or
  has been pruned (`RequestsKnowTheirRow`), that two shares never make the same post
  (`SharesAreApart`), that what a report counted are rows once filed
  (`CountsAreFiled`), that a pass unlinks only files of stubs
  (`PassesKnowTheirRows`), and that only a live post has pictures
  (`OnlyLiveHaveImages`).
- `ImageRowsHaveFiles`, `AutoHideHasEvidence`, `CountNeverExceedsFiled`,
  `WithdrawalsAreTrue`: the safety properties, from `IInv`.
- `OnePassAtATime`: `SingleFlight`, from `ClaimInv`: if no pass outlives the bound,
  whoever runs holds the claim.
- `TableImplementsLifecycle`: `Spec => Lifecycle!Spec`. Initial states map to initial
  states, and every step of the table is a step of `PostLifecycle` or a stutter,
  using `IInv` for the writes by id (a row that is written by id was never absent).
- `ExemptionIsKept`: `ExemptionHolds`, a property of steps: every one hides no post for
  the system (`NoneHidden`), or is the commit of a report that had read the post before
  the exemption (`HiddenByReport`).

Each preservation lemma has a step per action and, under it, one per conjunct the
action can disturb. The evidence part rests on one lemma about counting: filed rows
only grow, so a threshold once reached stays reached.

`FeedSyncProofs`, for any posts, clubs, writers, page length, horizons and bounds
(`FeedAssumption`):

- `FeedTypeCorrect`: `Spec => []TypeOK`.
- `MissNothing`: `MirrorsMissNothing`, assuming that the overlap exceeds a write's lag and a
  pass's length together, which is needed, as the run with less shows. Being told is not inductive: `FeedInv` says of every post and club that the club
  shows it right, or the post changed so late that the next pass steps back over it
  (`Recent`), or the page to come still asks for it, before a pass, between two
  pages and while an answer is on its way (`FoundNext`, `FoundOnward`, `FoundAfter`).
- `HorizonHolds`: `HorizonCatchesUp`, for a site that adds a margin of two passes, three lags
  and the difference of any two horizons (`MarginSuffices`), with the same overlap. Of the
  console nothing is assumed: the property excepts the stubs whose reports it
  dismissed. `HorizonInv` bounds how far a club that shows a removed
  post can have come (`Shown`): it has not passed the moment the stub came to rest
  (`Settles`) by more than a pass, unless the stub was touched. Once the stub is pruned, that cursor and all that the
  pass under way will store are older than any horizon (`Missed`).

`PushDeliveryProofs`, for any posts, clubs, ticks, batch, attempts and faults
(`PushAssumption`; clubs are finitely many): `PushTypeCorrect`, which includes that a row is in
line once and only while it is pending, and from one invariant, `PushInv`,

- `WithdrawalIsLast`: `RemovalIsLastWord`. One sweep is at work (`OneSweep`), so between
  reading a row and recording its answer no other push goes out; a push that shows a
  post is on its way only while its withdrawal is undelivered (`Says`).
- `PushesCounted`: `PushesAreCounted`. The attempt a sweep is on is the one after those
  its row counts (`Counts`); an update that failed, or a crash, is counted by `faults`.
- `HeldClubHearsOneMore`: `HeldHearsOneMore`, from the one call that was on its way
  (`Latecomers`).
- `QueueKeepsPromise`: `KeepsItsPromise`, from `PromiseInv`, which strengthens the three
  above by what the code relies on and never writes down: rows a sweep has still to
  visit are not the one in flight, and pending unless pruned (`BatchWaits`), what a
  sweep has decided matches its row (`Reaches`), a pending row has an attempt left
  (`AttemptsLeft`), and rows are of posts that live as the row says (`Announced`). From
  the refinement follow, as facts about the queue, `AnnouncedPostsLive`,
  `AttemptsAreBounded` and `RemovalTakenIsFinal`. The last says more than
  `RemovalIsLastWord`: the club that took the removal in is not shown the post again
  even if its answer was lost and the row says nothing of it.

`RegistryProofs` proves of `RegistrySpec`, the clubs and the lodges together (`registry`
checks them in parts, `OneWelcome` and `SecretIsOneDestinations` on the clubs, the
others on lodges with few club moves), for any sets of clubs, keys, lodges, names and
requests. The assumptions are `LodgeAssumption` and `ClubAssumption`: there is a club, `NoClub`
and `NoUrl` are none of the values they stand beside, secrets are counted from 1, and requests
are finitely many but not none.

- `RegistryInductive`: `RegistryInv`, the types and what requests in flight have
  *decided*. A save is about one lodge and was right for the row it read; a claim names
  no lodge that was never created; and every club that owns or described a lodge, or
  whose request is going to, was approved once and is now approved or suspended
  (`Insider`). Without the last part the invariant is not inductive: a request a key
  admitted outlives the admission.
- `RegistryTypeCorrect`: `LodgeTypeOK` and `ClubTypeOK`. That a save adds nothing it drops
  needs the order of its decisions (`Apart`), and that a club's destination was registered
  with its secret is part of `SecretsInv` (`Registered`).
- `RegistryKeepsTitles`: `TitlesAreKept`, the refinement of `LodgeTitles`. A step of clubs
  admits some; an upload or an edit describes one lodge, a create makes one appear, a delete
  deletes one, and the save of a list is one `Reassign`, whose two guards (the owner is
  still nobody, or still this club) are all that makes it so.
- Every step is one of three kinds: it moves clubs only (`ClubStep`), it moves a request
  about a lodge (`RequestStep`), or it is one statement that writes rows (`WriteStep`),
  each row by `RowStep`. `OutsidersStayOut` follows from the invariant;
  `HandoverThroughCentre`, `DeletedStays` and `ClashNeedsTwo` read off `RowStep`.
- `WelcomedAtMostOnce`: `OneWelcome`. `WelcomeInv` adds that of the submissions of one
  code at most one won the create, and that until it has minted there is no first key
  and no mail.
- `SecretsAreOfOne`: `SecretsInv` adds that the generations a club has used are not
  beyond its row's, that the newest belongs to the destination it has, and that the
  PUT in flight (one, by `OnePut`) carries a newer one or the same destination.
- `PartsAreTyped`, `PartsAreSafe` and `PartsKeepTitles` say the same of `MCRegistry!Spec`, which
  the run checks: its parts begin elsewhere (a club with its key and a lodge, one that
  waits), but where they begin satisfies the invariants, and every step of a part is one
  of `RegistrySpec` or of `PullSpec`. `PartsAssumption`: two clubs, a lodge and a name are there.
- `NextPullReports`, of `PullSpec`, for any lodges and pens: `PullMissesNothing`, if the
  overlap exceeds a write's lag and a pull's length together. `PullInv` says that what the
  statements read was so (`ReadRight`), that a lodge the site shows wrongly changed after
  the point the next pull starts from (`StaleIsRecent`), and that one already read in this
  pull is told right or changed during it (`Heard`).

`ServicesProofs`, the digest and the services together.

- `DigestInductive`, for any events, overlapping runs, faults and first window
  (`DigestAssumption`), with what follows from it, `NoRepeats` and `NothingLost`. The
  invariant says that whoever is past the claim holds it, that the window of a run
  starts where the watermark still is, that what it found is the whole window but for
  late commits, and that an event is mailed at most once for the watermark and once for
  each send the watermark missed.
- `DigestTypeCorrect`: `DigestTypeOK`, with `Clocks`: no instant a run keeps and no
  watermark is of the future, and there are no more lapses than faults.
- `EachServiceIsItself`: a behaviour of `MCServices` is one of `LimitSpec`, of `DigestSpec`, of
  `SessionSpec` and of `ImageSpec`, because a step of one part leaves the variables of the
  others alone (`StepOfEach`). So the theorems about them are about the run's behaviours
  too. Not so of the gate (in `limits` requests come without one) nor of the seasons, the
  planner and the search, which begin elsewhere where they are not the part.
- `ServicesTyped`: `TypesOK` of the composition, from the above and the invariants of the gate
  and of the search, which survive the steps of the other parts.

`SessionsProofs`, the door:

- `OldSessionsAreVoid`, for any browsers, requests in flight and ages. Every token
  that is kept or under way is of the current password, or late, or made no later than
  the commit of the last change (`SessionInv`); with its stamp, which `getSession` compares,
  that leaves those given between the two.
- `SessionTypeCorrect`: `SessionTypeOK`, from `SessionBounds`: a session was made and used no
  later than now, under a password that had been set, and a browser has one at most.
- `SpansAreBounded`: `SpanIsBounded`, for any limit, window, keys and restarts. A span as long
  as a window meets two windows at most, and a restart begins another: `LimitInv` counts
  what the open window let through, what a span that reaches into it may hold of
  earlier ones, and what any span may hold.
- `OneOpenIssue`: `SyncTypeOK`, of which the point is that one issue at most is open, the one
  that has the club's key. `MismatchesAreSeen`: `MismatchIsSeen`. A recording misses the
  row it was about to update only because the issue was cleared under it, so its
  attempts count clears (`MissesAreClears`).

`ImageLibraryProofs`, for any pictures, lodges and requests: `LibraryServes`
(`ShownPicturesServe`) and `TakenOnlyUnseen` (`NoneTakenUnseen`). `ImageInv` says that a picture
being uploaded is nobody else's (`UploadsApart`), that what a request decided is still
so when it acts (`Decided`), and that a delete has looked at every live lodge that shows its
picture, unless the lodge chose it since (`Looked`).

`BedPlannerProofs`:

- `PlannerIsSound`, for every calendar and the code's own numbers as for any others with
  `PlannerAssumption`: the invariant is only that days are whole numbers, and the work
  is the arithmetic of windows, arrows and picks.
- `OffersHold`: `OffersAreTrue`, for any halls and workers; the types are invariant enough,
  the rest follows from what an answer covers.
- `StaysCostTheirNights`: `PricedAsWritten`, for a year of any length with its leap day
  anywhere and any stay no longer than the year. Saves leave dates that can be used
  together (`SeasonsInv`); of such dates a season's range is the days its dates name
  (`SeasonIsWritten`); and the recursive sum over the nights is the closed form that counts
  each season's (`KnownStay`), by the least night at which the two would differ.

Only model-checked:

- Liveness (`StubsArePruned`, `OrphansAreCollected`, `MirrorsConverge`, `QueueDrains`,
  `EventsAreTold`), which is out of the prover's reach.
- The sentences the `bug_*` runs refute, and the divergences listed above.

## What is not modelled

- Cryptography (tokens, password hashes, session signatures), image decoding, HTML
  sanitising, mail transport and address checks: pure functions or libraries.
- Wording, formatting, page layout and audit rows, which nothing reads back.
- Authentication and rate limits in front of the modelled handlers only refuse; a
  refused request changes nothing here and is left out.
- Moments taken together. Where the code has an `await` between two reads that decide the
  same thing, the model sometimes has one step: the horizon and the page of a sync
  answer (`FeedSync!Reads`), the check of a row and the stamp of the write it allows
  (`FeedSync!Stamp`; the commit is a step of its own, on whatever the row has become),
  the post and the recipients of a push (`PushDelivery!EnqueueRead`), the read and the stamp of
  a deletion (`LodgePull!DeleteStamps`), the first key and the mail of a new club
  (`ClubLifecycle!RegisterWelcome`), and the listing, the queries and the unlinks of the
  orphan sweep (`PostModeration!JobSweep`), which the young-file guard keeps apart from
  uploads. Rows of library pictures keep their files in the sweep as posts' do and are left out.
- `PushDelivery`: what a club takes in is settled when it is called, so a push that timed out
  here and is processed there much later is not modelled; every removal queues a withdrawal,
  while the retention pass queues none, so the model has more of them than the code.
- `BedPlanner` gives every school holiday one length (the code keeps a first and a last day of
  each), and `Seasons` prices stays in a year that has its 29 February.
- Several server processes: the repository deploys one (`docker-compose.yml`,
  `rate-limit.ts`), and the in-process flags rely on it. The database claim is
  modelled for any number of callers.
- Portal settings other than the horizon: the retention and the report thresholds are
  constants. Each decision reads them once, so a change between two decisions is the
  same as another constant for the rows still to come. A failed read also makes a
  disabled retention (0) the default year for one pass; this is by design and left out.
- Feed listing: a read-only page of visible posts. Post serialization, validation of
  fields, text search and address parsing: functions of strings.
- Audit and logging: append-only, best effort, read by nobody.
- Console and public pages: rendering; every write they start goes through a handler
  that is modelled. Schema, seeds and migrations: run before the program does.

## Plan

1. *Done*: `PostModeration` with its proofs; `FeedSync`; `PushDelivery`; the registry
   (`ClubLifecycle`, `LodgeRegistry`, `LodgePull`); the services; the planner.
2. `PostModeration`: the retention and the report thresholds as settings that are saved
   between requests and read with their defaults, as `FeedSync` has the horizon.
3. `PushDelivery`: the length of the backoff, against a club that comes back.
4. *Done*: theorems for every safety property of the runs.
5. *Done*: refinement for the posts (`PostLifecycle`), the push queue (`Announcements`) and the
   lodges (`LodgeTitles`).
6. Weaker assumptions: `HorizonHolds` with a shorter margin where the horizon never changes.
