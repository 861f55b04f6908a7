------------------------ MODULE PostModerationProofs ------------------------
(***************************************************************************)
(* Theorems about PostModeration, for every number of posts, members,      *)
(* requests and passes, and every threshold.                               *)
(***************************************************************************)
EXTENDS PostModeration, TLAPS, FiniteSetTheorems

-----------------------------------------------------------------------------
(***************************************************************************)
(* How a request's record changes.                                         *)
(***************************************************************************)

\* A set of members has a natural number of elements.
LEMMA RowsAreFinite ==
  ASSUME NEW S \in SUBSET Members
  PROVE  IsFiniteSet(S) /\ Cardinality(S) \in Nat
  BY ModerationAssumption, FS_Subset, FS_CardinalityType

\* A record that names a post, and a member if it is a report's, is a legal
\* new state of a request.
LEMMA HandlerSet ==
  ASSUME HandlersTyped, NEW h \in Handlers, NEW r \in HandlerState,
         r.at # "idle" => r.post \in Posts,
         r.at \in {"reportRead", "reportCounted"}
            => h \in ReportDesk /\ r.member \in Members,
         handler' = [handler EXCEPT ![h] = r]
  PROVE  HandlersTyped'
  BY DEF HandlersTyped

LEMMA HandlerFinishes ==
  ASSUME HandlersTyped, NEW h \in Handlers, Finishes(h)
  PROVE  HandlersTyped'
<1>1. Idle \in HandlerState /\ Idle.at = "idle"
  BY DEF Idle, HandlerState, HandlerAt
<1> QED
  BY <1>1, HandlerSet DEF Finishes

\* A request moves on with the rows it has found, if any.
LEMMA HandlerFinds ==
  ASSUME HandlersTyped, NEW h \in Handlers, handler[h].at # "idle",
         NEW at \in HandlerAt, NEW rows \in SUBSET Members,
         at \in {"reportRead", "reportCounted"}
            => handler[h].at \in {"reportRead", "reportCounted"},
         Finds(h, at, rows)
  PROVE  HandlersTyped'
<1> DEFINE r == [handler[h] EXCEPT !.at = at, !.rows = rows]
<1>1. handler[h] \in HandlerState /\ handler[h].post \in Posts
  BY DEF HandlersTyped
<1>2. r \in HandlerState /\ r.at = at /\ r.post = handler[h].post
      /\ r.member = handler[h].member
  BY <1>1 DEF HandlerState
<1>3. handler' = [handler EXCEPT ![h] = r]
  BY <1>1 DEF HandlersTyped, HandlerState, Finds
<1>4. at \in {"reportRead", "reportCounted"}
         => h \in ReportDesk /\ r.member \in Members
  BY <1>2 DEF HandlersTyped
<1> HIDE DEF r
<1> QED
  BY <1>1, <1>2, <1>3, <1>4, HandlerSet

LEMMA HandlerGoes ==
  ASSUME HandlersTyped, NEW h \in Handlers, handler[h].at # "idle",
         NEW at \in HandlerAt \ {"reportRead", "reportCounted"}, Goes(h, at)
  PROVE  HandlersTyped'
<1>1. handler[h].rows \in SUBSET Members
  BY DEF HandlersTyped, HandlerState
<1>2. Finds(h, at, handler[h].rows)
  BY DEF Finds, Goes, HandlersTyped, HandlerState
<1> QED
  BY <1>1, <1>2, HandlerFinds

LEMMA HandlerBegins ==
  ASSUME HandlersTyped, NEW h \in Handlers, NEW p \in Posts,
         NEW at \in HandlerAt \ {"reportRead", "reportCounted"},
         NEW keys \in BOOLEAN, Begins(h, at, p, keys)
  PROVE  HandlersTyped'
<1> DEFINE r == [Idle EXCEPT !.at = at, !.post = p, !.keys = keys]
<1>1. r \in HandlerState /\ r.at = at /\ r.post = p
  BY DEF Idle, HandlerState
<1>2. handler' = [handler EXCEPT ![h] = r]
  BY DEF Begins
<1> HIDE DEF r
<1> QED
  BY <1>1, <1>2, HandlerSet

-----------------------------------------------------------------------------
(***************************************************************************)
(* Type correctness.                                                       *)
(***************************************************************************)

LEMMA InitTypeOK == Init => TypeOK
  BY ModerationAssumption DEF Init, TypeOK, HandlersTyped, PostRow, BlankRow,
     HandlerState, HandlerAt, Idle, JobState, JobAt, JobIdle

\* An update with a legal row leaves a legal table.
LEMMA UpdateType ==
  ASSUME post \in [Posts -> PostRow], NEW p \in Posts, NEW row \in PostRow,
         Updates(p, row)
  PROVE  post' \in [Posts -> PostRow]
  BY DEF Updates

\* Each update of a row leaves a legal row.
LEMMA CountedIsRow ==
  ASSUME NEW row \in PostRow, NEW n \in Nat,
         NEW hiddenBy \in {"none", "SYSTEM", "ADMIN"}
  PROVE  [row EXCEPT !.count = n, !.hiddenBy = hiddenBy] \in PostRow
  BY DEF PostRow

LEMMA DismissedIsRow ==
  ASSUME NEW row \in PostRow
  PROVE  [row EXCEPT !.count = 0] \in PostRow
  BY DEF PostRow

LEMMA UnhiddenIsRow ==
  ASSUME NEW row \in PostRow, NEW exempt \in BOOLEAN
  PROVE  [row EXCEPT !.hiddenBy = "none", !.exempt = exempt] \in PostRow
  BY DEF PostRow

LEMMA PatchedIsRow ==
  ASSUME NEW row \in PostRow, NEW text \in BOOLEAN, NEW exempt \in BOOLEAN,
         NEW hiddenBy \in {"none", "SYSTEM", "ADMIN"}
  PROVE  [row EXCEPT !.hiddenBy = hiddenBy, !.text = text, !.exempt = exempt]
            \in PostRow
  BY DEF PostRow

LEMMA StubIsRow ==
  ASSUME NEW row \in PostRow, NEW by \in {"CLUB", "ADMIN", "RETENTION"}
  PROVE  Stub(row, by) \in PostRow
  BY DEF Stub, PostRow

LEMMA BareIsRow ==
  ASSUME NEW row \in PostRow
  PROVE  [row EXCEPT !.images = FALSE] \in PostRow
  BY DEF PostRow

LEMMA AgedIsRow ==
  ASSUME NEW row \in PostRow
  PROVE  [row EXCEPT !.age = "old"] \in PostRow
  BY DEF PostRow

\* What a row's fields may be.
LEMMA RowFields ==
  ASSUME NEW row \in PostRow
  PROVE  /\ row.hiddenBy \in {"none", "SYSTEM", "ADMIN"}
         /\ row.exempt \in BOOLEAN /\ row.text \in BOOLEAN
         /\ row.images \in BOOLEAN
         /\ row.count \in Nat
  BY DEF PostRow

LEMMA ReportType ==
  ASSUME TypeOK, NEW h \in Handlers,
         \/ \E p \in Posts, m \in Members : ReportRead(h, p, m)
         \/ ReportInsert(h)
         \/ ReportCommit(h)
  PROVE  TypeOK'
<1>0. USE DEF TypeOK, dbVars, fileVars, jobVars
<1>1. ASSUME NEW p \in Posts, NEW m \in Members, ReportRead(h, p, m)
      PROVE  TypeOK'
  <2> DEFINE r == [at |-> "reportRead", post |-> p, member |-> m, rows |-> {},
                   mayHide |-> MayHide(p), keys |-> FALSE]
  <2>1. MayHide(p) \in BOOLEAN
    BY DEF MayHide, PostRow
  <2>2. r \in HandlerState /\ r.post = p /\ r.member = m
    BY <2>1 DEF HandlerState, HandlerAt
  <2>3. handler' = [handler EXCEPT ![h] = r] /\ h \in ReportDesk
    BY <1>1 DEF ReportRead
  <2> HIDE DEF r
  <2>4. HandlersTyped'
    BY <2>2, <2>3, HandlerSet
  <2> QED
    BY <1>1, <2>4 DEF ReportRead
<1>2. CASE ReportInsert(h)
  <2>1. handler[h].post \in Posts /\ handler[h].member \in Members
    BY <1>2 DEF ReportInsert, HandlersTyped
  <2>2. OpenRows(handler[h].post) \cup {handler[h].member} \in SUBSET Members
    BY <2>1 DEF OpenRows
  <2>3. HandlersTyped'
    BY <1>2, <2>2, HandlerFinds, HandlerFinishes DEF ReportInsert, HandlerAt
  <2> QED
    BY <1>2, <2>3 DEF ReportInsert
<1>3. CASE ReportCommit(h)
  <2>1. handler[h].rows \in SUBSET Members /\ handler[h].post \in Posts
        /\ handler[h].member \in Members
    BY <1>3 DEF ReportCommit, HandlersTyped, HandlerState
  <2>2. OpenCount(h) \in Nat
    BY <2>1, RowsAreFinite DEF OpenCount
  <2>3. post' \in [Posts -> PostRow]
    <3> DEFINE old == post[handler[h].post]
               hiddenBy == IF ShouldHide(h) THEN "SYSTEM" ELSE old.hiddenBy
               row == [old EXCEPT !.count = OpenCount(h), !.hiddenBy = hiddenBy]
    <3>0. old \in PostRow /\ hiddenBy \in {"none", "SYSTEM", "ADMIN"}
      BY <2>1, RowFields
    <3>1. row \in PostRow
      BY <2>2, <3>0, CountedIsRow
    <3>2. Updates(handler[h].post, row)
      BY <1>3 DEF ReportCommit
    <3> QED
      BY <2>1, <3>1, <3>2, UpdateType
  <2>4. report' \in [Posts -> [Members -> {"none", "open", "dismissed"}]]
    BY <1>3, <2>1 DEF ReportCommit
  <2>5. HandlersTyped'
    BY <1>3, HandlerFinishes DEF ReportCommit
  <2> QED
    BY <1>3, <2>3, <2>4, <2>5 DEF ReportCommit
<1> QED
  BY <1>1, <1>2, <1>3

LEMMA ConsoleType ==
  ASSUME TypeOK, NEW h \in Handlers,
         \/ \E p \in Posts : DismissRead(h, p) \/ UnhideRead(h, p) \/ PatchRead(h, p)
         \/ DismissRows(h) \/ DismissCommit(h)
         \/ UnhideWrite(h) \/ PatchWrite(h)
  PROVE  TypeOK'
<1>0. USE DEF TypeOK, dbVars, fileVars, jobVars
<1>1. ASSUME NEW p \in Posts, DismissRead(h, p) \/ UnhideRead(h, p) \/ PatchRead(h, p)
      PROVE  TypeOK'
  <2>1. HandlersTyped'
    BY <1>1, HandlerBegins DEF DismissRead, UnhideRead, PatchRead, Opens, HandlerAt
  <2> QED
    BY <1>1, <2>1 DEF DismissRead, UnhideRead, PatchRead, Opens
<1>2. CASE DismissRows(h)
  <2>1. OpenRows(handler[h].post) \in SUBSET Members
    BY DEF OpenRows
  <2>2. HandlersTyped'
    BY <1>2, <2>1, HandlerFinds DEF DismissRows, HandlerAt
  <2> QED
    BY <1>2, <2>2 DEF DismissRows
<1>3. CASE DismissCommit(h)
  <2>1. handler[h].post \in Posts /\ handler[h].rows \in SUBSET Members
    BY <1>3 DEF DismissCommit, HandlersTyped, HandlerState
  <2>2. HandlersTyped'
    BY <1>3, HandlerFinishes, HandlerFinds DEF DismissCommit, RowGone, HandlerAt
  <2>3. post' \in [Posts -> PostRow]
    <3>1. [post[handler[h].post] EXCEPT !.count = 0] \in PostRow
      BY <2>1, DismissedIsRow
    <3> QED
      BY <1>3, <2>1, <3>1, UpdateType DEF DismissCommit, ReportsDismissed, RowGone
  <2>4. report' \in [Posts -> [Members -> {"none", "open", "dismissed"}]]
    BY <1>3, <2>1 DEF DismissCommit, ReportsDismissed, Dismissed, RowGone
  <2> QED
    BY <1>3, <2>2, <2>3, <2>4 DEF DismissCommit
<1>4. CASE UnhideWrite(h)
  <2>1. handler[h].post \in Posts
    BY <1>4 DEF UnhideWrite, HandlersTyped
  <2>2. HandlersTyped'
    BY <1>4, HandlerFinishes DEF UnhideWrite, RowGone
  <2>3. post' \in [Posts -> PostRow]
    <3>1. ASSUME NEW exempt \in {post[handler[h].post].exempt, TRUE}
          PROVE  [post[handler[h].post] EXCEPT !.hiddenBy = "none",
                                               !.exempt = exempt] \in PostRow
      BY <2>1, UnhiddenIsRow, RowFields
    <3> QED
      BY <1>4, <2>1, <3>1, UpdateType DEF UnhideWrite, RowGone
  <2> QED
    BY <1>4, <2>2, <2>3 DEF UnhideWrite, RowGone
<1>5. CASE PatchWrite(h)
  <2>1. handler[h].post \in Posts
    BY <1>5 DEF PatchWrite, HandlersTyped
  <2>2. HandlersTyped'
    BY <1>5, HandlerFinishes DEF PatchWrite, RowGone
  <2>3. post' \in [Posts -> PostRow]
    <3>1. ASSUME NEW hiddenBy \in {post[handler[h].post].hiddenBy, "none", "ADMIN"},
                 NEW text \in {post[handler[h].post].text, TRUE},
                 NEW exempt \in BOOLEAN
          PROVE  [post[handler[h].post] EXCEPT !.hiddenBy = hiddenBy,
                    !.text = text, !.exempt = exempt] \in PostRow
      BY <2>1, PatchedIsRow, RowFields
    <3> QED
      BY <1>5, <2>1, <3>1, UpdateType DEF PatchWrite, RowGone
  <2> QED
    BY <1>5, <2>2, <2>3 DEF PatchWrite, RowGone
<1> QED
  BY <1>1, <1>2, <1>3, <1>4, <1>5

LEMMA RemovalType ==
  ASSUME TypeOK, NEW h \in Handlers,
         \/ \E p \in Posts : RemoveRead(h, p) \/ ImageRead(h, p)
         \/ RemoveCommit(h) \/ RemoveEnqueue(h) \/ RemoveUnlink(h)
         \/ ImageDelete(h) \/ ImageUnlink(h)
  PROVE  TypeOK'
<1>0. USE DEF TypeOK, dbVars, fileVars, jobVars
<1>1. ASSUME NEW p \in Posts, RemoveRead(h, p)
      PROVE  TypeOK'
  <2>1. post[p].images \in BOOLEAN
    BY DEF PostRow
  <2>2. HandlersTyped'
    BY <1>1, <2>1, HandlerBegins DEF RemoveRead, Opens, HandlerAt
  <2> QED
    BY <1>1, <2>2 DEF RemoveRead, Opens
<1>2. ASSUME NEW p \in Posts, ImageRead(h, p)
      PROVE  TypeOK'
  <2>1. HandlersTyped'
    BY <1>2, HandlerBegins DEF ImageRead, Opens, HandlerAt
  <2> QED
    BY <1>2, <2>1 DEF ImageRead, Opens
<1>3. CASE RemoveCommit(h)
  <2>1. handler[h].post \in Posts
    BY <1>3 DEF RemoveCommit, HandlersTyped
  <2>2. HandlersTyped'
    BY <1>3, HandlerFinishes, HandlerGoes DEF RemoveCommit, RowGone, HandlerAt
  <2>3. post' \in [Posts -> PostRow]
    BY <1>3, <2>1, StubIsRow, UpdateType DEF RemoveCommit, RowGone, Removers
  <2> QED
    BY <1>3, <2>2, <2>3 DEF RemoveCommit, RowGone
<1>4. CASE RemoveEnqueue(h)
  <2>1. HandlersTyped'
    BY <1>4, HandlerGoes DEF RemoveEnqueue, HandlerAt
  <2> QED
    BY <1>4, <2>1 DEF RemoveEnqueue, Enqueued, HandlersTyped
<1>5. CASE RemoveUnlink(h)
  <2>1. HandlersTyped'
    BY <1>5, HandlerFinishes DEF RemoveUnlink
  <2> QED
    BY <1>5, <2>1 DEF RemoveUnlink, FilesUnlinked
<1>6. CASE ImageDelete(h)
  <2>1. handler[h].post \in Posts
    BY <1>6 DEF ImageDelete, HandlersTyped
  <2>2. HandlersTyped'
    BY <1>6, HandlerFinishes, HandlerGoes DEF ImageDelete, HandlerAt
  <2>3. post' \in [Posts -> PostRow]
    <3>1. [post[handler[h].post] EXCEPT !.images = FALSE] \in PostRow
      BY <2>1, BareIsRow
    <3> QED
      BY <1>6, <2>1, <3>1, UpdateType DEF ImageDelete
  <2> QED
    BY <1>6, <2>2, <2>3 DEF ImageDelete
<1>7. CASE ImageUnlink(h)
  <2>1. HandlersTyped'
    BY <1>7, HandlerFinishes DEF ImageUnlink
  <2> QED
    BY <1>7, <2>1 DEF ImageUnlink, FilesUnlinked
<1> QED
  BY <1>1, <1>2, <1>3, <1>4, <1>5, <1>6, <1>7

LEMMA ShareType ==
  ASSUME TypeOK, NEW h \in Handlers,
         \/ \E p \in Posts : ShareStore(h, p)
         \/ ShareCreate(h) \/ ShareRollback(h) \/ ShareEnqueue(h)
         \/ RequestFails(h)
  PROVE  TypeOK'
<1>0. USE DEF TypeOK, dbVars, fileVars, jobVars
<1>1. ASSUME NEW p \in Posts, ShareStore(h, p)
      PROVE  TypeOK'
  <2>1. HandlersTyped'
    BY <1>1, HandlerBegins, ModerationAssumption DEF ShareStore, HandlerAt
  <2> QED
    BY <1>1, <2>1 DEF ShareStore
<1>2. CASE ShareCreate(h)
  <2>1. handler[h].post \in Posts
    BY <1>2 DEF ShareCreate, HandlersTyped
  <2>2. HandlersTyped'
    BY <1>2, HandlerGoes DEF ShareCreate, HandlerAt
  <2>3. post' \in [Posts -> PostRow]
    <3>1. ASSUME NEW kind \in PostKinds
          PROVE  [BlankRow("live") EXCEPT !.text = TRUE, !.html = kind.html,
                                          !.images = kind.images] \in PostRow
      BY ModerationAssumption DEF PostRow, BlankRow
    <3> QED
      BY <1>2, <2>1, <3>1, UpdateType DEF ShareCreate
  <2> QED
    BY <1>2, <2>2, <2>3 DEF ShareCreate
<1>3. CASE ShareRollback(h)
  <2>1. HandlersTyped'
    BY <1>3, HandlerFinishes DEF ShareRollback
  <2> QED
    BY <1>3, <2>1 DEF ShareRollback, FilesUnlinked
<1>4. CASE ShareEnqueue(h)
  <2>1. HandlersTyped'
    BY <1>4, HandlerFinishes DEF ShareEnqueue
  <2> QED
    BY <1>4, <2>1 DEF ShareEnqueue, Enqueued, HandlersTyped
<1>5. CASE RequestFails(h)
  <2>1. HandlersTyped'
    BY <1>5, HandlerFinishes DEF RequestFails
  <2> QED
    BY <1>5, <2>1 DEF RequestFails
<1> QED
  BY <1>1, <1>2, <1>3, <1>4, <1>5

\* A pass moves on.
LEMMA JobSet ==
  ASSUME job \in [Jobs -> JobState], NEW j \in Jobs, NEW r \in JobState,
         job' = [job EXCEPT ![j] = r]
  PROVE  job' \in [Jobs -> JobState]
  OBVIOUS

LEMMA JobMoves ==
  ASSUME job \in [Jobs -> JobState], NEW j \in Jobs, NEW at \in JobAt,
         JobGoes(j, at)
  PROVE  job' \in [Jobs -> JobState]
<1>1. [job[j] EXCEPT !.at = at] \in JobState
  BY DEF JobState
<1>2. job' = [job EXCEPT ![j] = [job[j] EXCEPT !.at = at]]
  BY DEF JobGoes
<1> QED
  BY <1>1, <1>2, JobSet

LEMMA JobType ==
  ASSUME TypeOK, NEW j \in Jobs, JobStart(j) \/ JobStep(j)
  PROVE  TypeOK'
<1>0. USE DEF TypeOK, HandlersTyped, dbVars, fileVars, jobVars
<1>1. CASE JobStart(j)
  <2>1. job' \in [Jobs -> JobState]
    BY <1>1, JobMoves DEF JobStart, JobAt
  <2> QED
    BY <1>1, <2>1 DEF JobStart
<1>2. CASE JobRead(j)
  <2>1. [at |-> "expire", todo |-> {p \in Posts : Expirable(p)},
         pictured |-> Pictured, keys |-> {}] \in JobState
    BY DEF JobState, JobAt, Pictured
  <2>2. job' \in [Jobs -> JobState]
    BY <1>2, <2>1, JobSet DEF JobRead
  <2> QED
    BY <1>2, <2>2 DEF JobRead
<1>3. CASE JobExpire(j)
  <2>1. PICK p \in job[j].todo :
          \/ /\ post[p].status # "pruned"
             /\ Updates(p, Stub(post[p], "RETENTION"))
             /\ job' = [job EXCEPT ![j] =
                  [at |-> "unlink", todo |-> @.todo \ {p},
                   pictured |-> @.pictured, keys |-> @.pictured \cap {p}]]
          \/ /\ post[p].status = "pruned"
             /\ JobGoes(j, "release")
             /\ UNCHANGED post
    BY <1>3 DEF JobExpire
  <2>2. p \in Posts /\ job[j].todo \in SUBSET Posts /\ job[j].pictured \in SUBSET Posts
    BY <2>1 DEF JobState
  <2>3. post' \in [Posts -> PostRow]
    BY <2>1, <2>2, StubIsRow, UpdateType
  <2>4. [at |-> "unlink", todo |-> job[j].todo \ {p}, pictured |-> job[j].pictured,
         keys |-> job[j].pictured \cap {p}] \in JobState
    BY <2>2 DEF JobState, JobAt
  <2>5. job' \in [Jobs -> JobState]
    BY <2>1, <2>4, JobSet, JobMoves DEF JobAt
  <2> QED
    BY <1>3, <2>3, <2>5 DEF JobExpire
<1>4. CASE JobUnlink(j)
  <2>1. [job[j] EXCEPT !.at = "expire", !.keys = {}] \in JobState
    BY DEF JobState, JobAt
  <2>2. job' = [job EXCEPT ![j] = [job[j] EXCEPT !.at = "expire", !.keys = {}]]
    BY <1>4 DEF JobUnlink, JobState
  <2>3. job' \in [Jobs -> JobState]
    BY <2>1, <2>2, JobSet
  <2> QED
    BY <1>4, <2>3 DEF JobUnlink, FilesUnlinked
<1>5. CASE JobExpired(j)
  <2>1. job' \in [Jobs -> JobState]
    BY <1>5, JobMoves DEF JobExpired, JobAt
  <2> QED
    BY <1>5, <2>1 DEF JobExpired
<1>6. CASE JobPrune(j)
  <2>1. job' \in [Jobs -> JobState]
    BY <1>6, JobMoves DEF JobPrune, JobAt
  <2>2. BlankRow("pruned") \in PostRow
    BY DEF BlankRow, PostRow
  <2>3. post' \in [Posts -> PostRow]
    BY <1>6, <2>2 DEF JobPrune
  <2>4. report' \in [Posts -> [Members -> {"none", "open", "dismissed"}]]
    BY <1>6 DEF JobPrune
  <2>5. queue' \in [Posts -> SUBSET {"CREATED", "REMOVED"}]
    BY <1>6 DEF JobPrune
  <2> QED
    BY <1>6, <2>1, <2>3, <2>4, <2>5 DEF JobPrune
<1>7. CASE JobSweep(j)
  <2>1. job' \in [Jobs -> JobState]
    BY <1>7, JobMoves DEF JobSweep, JobAt
  <2> QED
    BY <1>7, <2>1 DEF JobSweep, FilesUnlinked
<1>8. CASE JobFails(j)
  <2>1. job' \in [Jobs -> JobState]
    BY <1>8, JobMoves DEF JobFails, JobAt
  <2> QED
    BY <1>8, <2>1 DEF JobFails
<1>9. CASE JobRelease(j) \/ JobReleaseFails(j)
  <2>1. JobIdle \in JobState
    BY DEF JobIdle, JobState, JobAt
  <2>2. job' \in [Jobs -> JobState]
    BY <1>9, <2>1, JobSet DEF JobRelease, JobReleaseFails
  <2> QED
    BY <1>9, <2>2 DEF JobRelease, JobReleaseFails
<1> QED
  BY <1>1, <1>2, <1>3, <1>4, <1>5, <1>6, <1>7, <1>8, <1>9 DEF JobStep

LEMMA TimeType ==
  ASSUME TypeOK,
         \/ \E p \in Posts : PostAges(p) \/ FileAges(p)
         \/ ClaimGoesStale
         \/ Crash
  PROVE  TypeOK'
<1>0. USE DEF TypeOK, dbVars, fileVars, jobVars
<1>1. ASSUME NEW p \in Posts, PostAges(p)
      PROVE  TypeOK'
  <2>1. post' \in [Posts -> PostRow]
    BY <1>1, AgedIsRow, UpdateType DEF PostAges
  <2> QED
    BY <1>1, <2>1 DEF PostAges, HandlersTyped
<1>2. ASSUME NEW p \in Posts, FileAges(p)
      PROVE  TypeOK'
  BY <1>2 DEF FileAges, HandlersTyped
<1>3. CASE ClaimGoesStale
  BY <1>3 DEF ClaimGoesStale, HandlersTyped
<1>4. CASE Crash
  <2>1. Idle \in HandlerState /\ Idle.at = "idle"
    BY DEF Idle, HandlerState, HandlerAt
  <2>2. HandlersTyped'
    BY <1>4, <2>1 DEF Crash, HandlersTyped
  <2>3. JobIdle \in JobState
    BY DEF JobIdle, JobState, JobAt
  <2> QED
    BY <1>4, <2>2, <2>3 DEF Crash
<1> QED
  BY <1>1, <1>2, <1>3, <1>4

LEMMA NextTypeOK == TypeOK /\ [Next]_vars => TypeOK'
<1> SUFFICES ASSUME TypeOK, [Next]_vars PROVE TypeOK'
  OBVIOUS
<1>1. ASSUME NEW h \in Handlers,
             HandlerOpens(h) \/ HandlerContinues(h) \/ RequestFails(h)
      PROVE  TypeOK'
  BY <1>1, ReportType, ConsoleType, RemovalType, ShareType
  DEF HandlerOpens, HandlerContinues
<1>2. ASSUME NEW j \in Jobs, JobStart(j) \/ JobStep(j)
      PROVE  TypeOK'
  BY <1>2, JobType
<1>3. CASE UNCHANGED vars
  BY <1>3 DEF vars, TypeOK, HandlersTyped
<1> QED
  BY <1>1, <1>2, <1>3, TimeType DEF Next

\* Every value the tables, the files, the requests and the passes take is one
\* the code can produce: a recount stays a count, a row keeps its columns.
THEOREM TypeCorrect == Spec => []TypeOK
  BY InitTypeOK, NextTypeOK, PTL DEF Spec

-----------------------------------------------------------------------------
(***************************************************************************)
(* What each kind of step does to the requests and the rows: the frames    *)
(* the invariance proofs reason with.                                      *)
(***************************************************************************)

\* Requests other than h keep their record.
OthersKeep(h) == \A g \in Handlers \ {h} : handler'[g] = handler[g]

LEMMA FinishesFrame ==
  ASSUME HandlersTyped, NEW h \in Handlers, Finishes(h)
  PROVE  handler'[h] = Idle /\ handler'[h].at = "idle" /\ OthersKeep(h)
  BY DEF HandlersTyped, Finishes, OthersKeep, Idle

LEMMA FindsFrame ==
  ASSUME HandlersTyped, NEW h \in Handlers, NEW at, NEW rows,
         Finds(h, at, rows)
  PROVE  /\ handler'[h].at = at /\ handler'[h].rows = rows
         /\ handler'[h].post = handler[h].post
         /\ handler'[h].member = handler[h].member
         /\ handler'[h].keys = handler[h].keys
         /\ OthersKeep(h)
  BY DEF HandlersTyped, HandlerState, Finds, OthersKeep

LEMMA GoesFrame ==
  ASSUME HandlersTyped, NEW h \in Handlers, NEW at, Goes(h, at)
  PROVE  /\ handler'[h].at = at
         /\ handler'[h].post = handler[h].post
         /\ handler'[h].keys = handler[h].keys
         /\ OthersKeep(h)
  BY DEF HandlersTyped, HandlerState, Goes, OthersKeep

LEMMA BeginsFrame ==
  ASSUME HandlersTyped, NEW h \in Handlers, NEW p, NEW at, NEW keys,
         Begins(h, at, p, keys)
  PROVE  /\ handler'[h].at = at /\ handler'[h].post = p
         /\ handler'[h].keys = keys
         /\ OthersKeep(h)
  BY DEF HandlersTyped, Begins, OthersKeep, Idle

LEMMA UpdatesFrame ==
  ASSUME post \in [Posts -> PostRow], NEW p \in Posts, NEW row, Updates(p, row)
  PROVE  post'[p] = row /\ \A q \in Posts \ {p} : post'[q] = post[q]
  BY DEF Updates

LEMMA StubFields ==
  ASSUME NEW row \in PostRow, NEW by
  PROVE  /\ Stub(row, by).status = "removed" /\ ~Stub(row, by).images
         /\ Stub(row, by).hiddenBy = row.hiddenBy
         /\ Stub(row, by).count = row.count
  BY DEF Stub, PostRow

-----------------------------------------------------------------------------
(***************************************************************************)
(* Rows and files.                                                         *)
(***************************************************************************)

FilesInv ==
    /\ RequestsKnowTheirRow /\ SharesAreApart
    /\ PassesKnowTheirRows
    /\ OnlyLiveHaveImages /\ RowsHaveFiles

\* No row goes back to an earlier part of its life, or finds its images again.
RowsAdvance ==
    \A p \in Posts : post[p].status # "absent" =>
        /\ post'[p].status # "absent"
        /\ post[p].status \in {"removed", "pruned"}
              => post'[p].status \in {"removed", "pruned"}
        /\ ~post[p].images => ~post'[p].images

\* Neither the row nor the files that request g is about to create are touched.
SharesUntouched(g) ==
    handler[g].at = "shareStored" =>
        LET p == handler[g].post
        IN  /\ post'[p].status = "absent"
            /\ handler[g].keys /\ p \in file => p \in file'
            /\ handler[g].keys /\ p \in young => p \in young'

LEMMA OthersStillKnow ==
  ASSUME TypeOK, RowsAdvance, NEW g \in Handlers, RequestKnowsItsRow(g),
         SharesUntouched(g), handler'[g] = handler[g]
  PROVE  RequestKnowsItsRow(g)'
  BY DEF TypeOK, HandlersTyped, RowsAdvance, RequestKnowsItsRow, SharesUntouched

LEMMA PassesStillKnow ==
  ASSUME TypeOK, RowsAdvance, PassesKnowTheirRows, UNCHANGED job
  PROVE  PassesKnowTheirRows'
  BY DEF TypeOK, JobState, RowsAdvance, PassesKnowTheirRows, PassKnowsItsRows

\* A step of request h keeps the invariant if it keeps its own part of it and
\* touches no share of another request.
LEMMA RequestStep ==
  ASSUME TypeOK, FilesInv, NEW h \in Handlers, OthersKeep(h), UNCHANGED job,
         RowsAdvance, RequestKnowsItsRow(h)',
         \A g \in Handlers \ {h} : SharesUntouched(g),
         \A g \in Handlers \ {h} :
            handler'[h].at = "shareStored" /\ handler[g].at = "shareStored"
               => handler[g].post # handler'[h].post,
         OnlyLiveHaveImages', RowsHaveFiles'
  PROVE  FilesInv'
<1>1. RequestsKnowTheirRow'
  BY OthersStillKnow DEF FilesInv, RequestsKnowTheirRow, OthersKeep
<1>2. SharesAreApart'
  BY DEF FilesInv, SharesAreApart, OthersKeep
<1> QED
  BY <1>1, <1>2, PassesStillKnow DEF FilesInv

\* A step that touches neither rows nor files.
LEMMA ReadingStep ==
  ASSUME TypeOK, FilesInv, NEW h \in Handlers, OthersKeep(h), UNCHANGED job,
         UNCHANGED post, UNCHANGED fileVars,
         RequestKnowsItsRow(h)', handler'[h].at # "shareStored"
  PROVE  FilesInv'
<1>1. RowsAdvance
  BY DEF RowsAdvance
<1>2. \A g \in Handlers : SharesUntouched(g)
  BY DEF SharesUntouched, fileVars, FilesInv, RequestsKnowTheirRow, RequestKnowsItsRow
<1>3. OnlyLiveHaveImages' /\ RowsHaveFiles'
  BY DEF FilesInv, OnlyLiveHaveImages, RowsHaveFiles, fileVars
<1> QED
  BY <1>1, <1>2, <1>3, RequestStep

\* An update of a row that stays live, removed or pruned, by a request that
\* knows it, touches no share.
LEMMA UpdatingStep ==
  ASSUME TypeOK, FilesInv, NEW h \in Handlers, OthersKeep(h), UNCHANGED job,
         UNCHANGED fileVars, NEW p \in Posts, NEW row, Updates(p, row),
         post[p].status # "absent",
         row.status = post[p].status \/ row.status = "removed",
         row.images => post[p].images /\ row.status = post[p].status,
         RequestKnowsItsRow(h)', handler'[h].at # "shareStored"
  PROVE  FilesInv'
<1>0. post'[p] = row /\ \A q \in Posts \ {p} : post'[q] = post[q]
  BY UpdatesFrame DEF TypeOK
<1>1. RowsAdvance
  BY <1>0 DEF RowsAdvance
<1>2. \A g \in Handlers : SharesUntouched(g)
  BY <1>0 DEF SharesUntouched, fileVars, FilesInv, RequestsKnowTheirRow,
     RequestKnowsItsRow, TypeOK, HandlersTyped
<1>3. OnlyLiveHaveImages' /\ RowsHaveFiles'
  BY <1>0 DEF FilesInv, OnlyLiveHaveImages, RowsHaveFiles, fileVars
<1> QED
  BY <1>1, <1>2, <1>3, RequestStep

LEMMA IdleKnows ==
  ASSUME NEW h \in Handlers, handler'[h].at = "idle"
  PROVE  RequestKnowsItsRow(h)'
  BY DEF RequestKnowsItsRow

LEMMA ReportFiles ==
  ASSUME TypeOK, FilesInv, NEW h \in Handlers,
         \/ \E p \in Posts, m \in Members : ReportRead(h, p, m)
         \/ ReportInsert(h)
         \/ ReportCommit(h)
  PROVE  FilesInv'
<1>1. ASSUME NEW p \in Posts, NEW m \in Members, ReportRead(h, p, m)
      PROVE  FilesInv'
  <2>1. handler'[h].at = "reportRead" /\ handler'[h].post = p /\ OthersKeep(h)
    BY <1>1 DEF ReportRead, OthersKeep, TypeOK, HandlersTyped
  <2>2. RequestKnowsItsRow(h)'
    BY <1>1, <2>1 DEF ReportRead, RequestKnowsItsRow, dbVars
  <2> QED
    BY <1>1, <2>1, <2>2, ReadingStep DEF ReportRead, dbVars, jobVars
<1>2. CASE ReportInsert(h)
  <2>1. RequestKnowsItsRow(h)' /\ OthersKeep(h) /\ handler'[h].at # "shareStored"
    BY <1>2, FindsFrame, FinishesFrame DEF ReportInsert, TypeOK, FilesInv,
       RequestsKnowTheirRow, RequestKnowsItsRow, dbVars
  <2> QED
    BY <1>2, <2>1, ReadingStep DEF ReportInsert, dbVars, jobVars
<1>3. CASE ReportCommit(h)
  <2> DEFINE p == handler[h].post
             row == [post[p] EXCEPT
                       !.count = OpenCount(h),
                       !.hiddenBy = IF ShouldHide(h) THEN "SYSTEM" ELSE @]
  <2>1. p \in Posts /\ post[p].status # "absent"
    BY <1>3 DEF ReportCommit, TypeOK, HandlersTyped, FilesInv,
       RequestsKnowTheirRow, RequestKnowsItsRow
  <2>2. row.status = post[p].status /\ row.images = post[p].images
    BY <2>1 DEF TypeOK, PostRow
  <2>3. Updates(p, row) /\ Finishes(h) /\ UNCHANGED fileVars /\ UNCHANGED job
    BY <1>3 DEF ReportCommit, jobVars
  <2> HIDE DEF p, row
  <2> QED
    BY <2>1, <2>2, <2>3, FinishesFrame, IdleKnows, UpdatingStep DEF TypeOK
<1> QED
  BY <1>1, <1>2, <1>3

\* A request that writes is at a row it knows.
LEMMA WriterKnows ==
  ASSUME TypeOK, FilesInv, NEW h \in Handlers,
         handler[h].at \notin {"idle", "shareStored"}
  PROVE  handler[h].post \in Posts /\ post[handler[h].post].status # "absent"
         /\ post[handler[h].post] \in PostRow
  BY DEF TypeOK, HandlersTyped, FilesInv, RequestsKnowTheirRow, RequestKnowsItsRow

LEMMA ConsoleFiles ==
  ASSUME TypeOK, FilesInv, NEW h \in Handlers,
         \/ \E p \in Posts : DismissRead(h, p) \/ UnhideRead(h, p) \/ PatchRead(h, p)
         \/ DismissRows(h) \/ DismissCommit(h)
         \/ UnhideWrite(h) \/ PatchWrite(h)
  PROVE  FilesInv'
<1> DEFINE q == handler[h].post
<1>0. USE DEF dbVars, jobVars
<1>1. ASSUME NEW p \in Posts, DismissRead(h, p) \/ UnhideRead(h, p) \/ PatchRead(h, p)
      PROVE  FilesInv'
  <2>1. PICK at \in {"dismissRead", "unhideRead", "patchRead"} :
           Opens(h, at, p, FALSE) /\ post[p].status # "absent"
    BY <1>1 DEF DismissRead, UnhideRead, PatchRead, Editable
  <2>2. handler'[h].at = at /\ handler'[h].post = p /\ OthersKeep(h)
    BY <2>1, BeginsFrame DEF Opens, TypeOK
  <2>3. RequestKnowsItsRow(h)'
    BY <2>1, <2>2 DEF Opens, RequestKnowsItsRow
  <2> QED
    BY <2>1, <2>2, <2>3, ReadingStep DEF Opens
<1>2. CASE DismissRows(h)
  <2>1. RequestKnowsItsRow(h)' /\ OthersKeep(h) /\ handler'[h].at # "shareStored"
    BY <1>2, FindsFrame DEF DismissRows, TypeOK, FilesInv,
       RequestsKnowTheirRow, RequestKnowsItsRow
  <2> QED
    BY <1>2, <2>1, ReadingStep DEF DismissRows
<1>3. CASE DismissCommit(h)
  <2> DEFINE row == [post[q] EXCEPT !.count = 0]
  <2>1. q \in Posts /\ post[q].status # "absent" /\ post[q] \in PostRow
    BY <1>3, WriterKnows DEF DismissCommit
  <2>2. row.status = post[q].status /\ row.images = post[q].images
    BY <2>1 DEF PostRow
  <2>3. (UNCHANGED post \/ Updates(q, row)) /\ UNCHANGED fileVars /\ UNCHANGED job
    BY <1>3 DEF DismissCommit, ReportsDismissed, RowGone
  <2>4. \/ handler'[h].at = "idle" /\ OthersKeep(h)
        \/ handler'[h].at = "unhideDismissed" /\ handler'[h].post = q
              /\ OthersKeep(h)
    BY <1>3, FinishesFrame, FindsFrame DEF DismissCommit, TypeOK, RowGone
  <2>5. post'[q].status # "absent"
    BY <2>1, <2>2, <2>3, UpdatesFrame DEF TypeOK
  <2>6. RequestKnowsItsRow(h)'
    BY <2>4, <2>5 DEF RequestKnowsItsRow
  <2> HIDE DEF q, row
  <2> QED
    BY <2>1, <2>2, <2>3, <2>4, <2>6, UpdatingStep, ReadingStep
<1>4. CASE UnhideWrite(h) \/ PatchWrite(h)
  <2>1. q \in Posts /\ post[q].status # "absent" /\ post[q] \in PostRow
    BY <1>4, WriterKnows DEF UnhideWrite, PatchWrite
  <2>2. Finishes(h) /\ UNCHANGED fileVars /\ UNCHANGED job
    BY <1>4 DEF UnhideWrite, PatchWrite, RowGone
  <2>3. RequestKnowsItsRow(h)' /\ OthersKeep(h) /\ handler'[h].at # "shareStored"
    BY <2>2, FinishesFrame, IdleKnows DEF TypeOK
  <2>4. CASE UNCHANGED post
    BY <2>2, <2>3, <2>4, ReadingStep
  <2>5. ASSUME NEW hiddenBy, NEW text, NEW exempt,
               \/ Updates(q, [post[q] EXCEPT !.hiddenBy = hiddenBy, !.text = text,
                                             !.exempt = exempt])
               \/ Updates(q, [post[q] EXCEPT !.hiddenBy = hiddenBy,
                                             !.exempt = exempt])
        PROVE  FilesInv'
    <3> DEFINE row1 == [post[q] EXCEPT !.hiddenBy = hiddenBy, !.text = text,
                                       !.exempt = exempt]
               row2 == [post[q] EXCEPT !.hiddenBy = hiddenBy, !.exempt = exempt]
    <3>1. /\ row1.status = post[q].status /\ row1.images = post[q].images
          /\ row2.status = post[q].status /\ row2.images = post[q].images
      BY <2>1 DEF PostRow
    <3>2. Updates(q, row1) \/ Updates(q, row2)
      BY <2>5
    <3> HIDE DEF q, row1, row2
    <3> QED
      BY <2>1, <2>2, <2>3, <3>1, <3>2, UpdatingStep
  <2> QED
    BY <1>4, <2>4, <2>5 DEF UnhideWrite, PatchWrite, RowGone
<1> QED
  BY <1>1, <1>2, <1>3, <1>4

LEMMA RemovalFiles ==
  ASSUME TypeOK, FilesInv, NEW h \in Handlers,
         \/ \E p \in Posts : RemoveRead(h, p) \/ ImageRead(h, p)
         \/ RemoveCommit(h) \/ RemoveEnqueue(h) \/ RemoveUnlink(h)
         \/ ImageDelete(h) \/ ImageUnlink(h)
  PROVE  FilesInv'
<1> DEFINE q == handler[h].post
<1>0. USE DEF dbVars, jobVars
<1>1. ASSUME NEW p \in Posts, RemoveRead(h, p) \/ ImageRead(h, p)
      PROVE  FilesInv'
  <2>0. PICK at \in {"removeRead", "imageRead"} :
           (\E keys : Opens(h, at, p, keys)) /\ post[p].status # "absent"
    BY <1>1 DEF RemoveRead, ImageRead, Removable, FilesInv, OnlyLiveHaveImages
  <2>1. PICK keys : Opens(h, at, p, keys) /\ post[p].status # "absent"
    BY <2>0
  <2>2. handler'[h].at = at /\ handler'[h].post = p /\ OthersKeep(h)
    BY <2>1, BeginsFrame DEF Opens, TypeOK
  <2>3. RequestKnowsItsRow(h)'
    BY <2>1, <2>2 DEF Opens, RequestKnowsItsRow
  <2> QED
    BY <2>1, <2>2, <2>3, ReadingStep DEF Opens
<1>2. CASE RemoveCommit(h)
  <2>1. q \in Posts /\ post[q].status # "absent" /\ post[q] \in PostRow
    BY <1>2, WriterKnows DEF RemoveCommit
  <2>2. UNCHANGED fileVars /\ UNCHANGED job
    BY <1>2 DEF RemoveCommit
  <2>3. CASE RowGone(h)
    BY <2>2, <2>3, FinishesFrame, IdleKnows, ReadingStep DEF TypeOK, RowGone
  <2>4. ASSUME NEW by, Updates(q, Stub(post[q], by)), Goes(h, "removed")
        PROVE  FilesInv'
    <3> DEFINE row == Stub(post[q], by)
    <3>1. row.status = "removed" /\ ~row.images
      BY <2>1, StubFields
    <3>2. handler'[h].at = "removed" /\ handler'[h].post = q /\ OthersKeep(h)
      BY <2>4, GoesFrame DEF TypeOK
    <3>3. post'[q].status = "removed"
      BY <2>1, <2>4, <3>1, UpdatesFrame DEF TypeOK
    <3>4. RequestKnowsItsRow(h)'
      BY <3>2, <3>3 DEF RequestKnowsItsRow
    <3>5. Updates(q, row)
      BY <2>4
    <3> HIDE DEF q, row
    <3> QED
      BY <2>1, <2>2, <3>1, <3>2, <3>4, <3>5, UpdatingStep
  <2> QED
    BY <1>2, <2>3, <2>4 DEF RemoveCommit
<1>3. CASE RemoveEnqueue(h)
  <2>1. RequestKnowsItsRow(h)' /\ OthersKeep(h) /\ handler'[h].at # "shareStored"
    BY <1>3, GoesFrame DEF RemoveEnqueue, TypeOK, FilesInv,
       RequestsKnowTheirRow, RequestKnowsItsRow
  <2> QED
    BY <1>3, <2>1, ReadingStep DEF RemoveEnqueue
<1>4. CASE ImageDelete(h)
  <2> DEFINE row == [post[q] EXCEPT !.images = FALSE]
  <2>1. q \in Posts /\ post[q].status # "absent" /\ post[q] \in PostRow
    BY <1>4, WriterKnows DEF ImageDelete
  <2>2. row.status = post[q].status /\ ~row.images
    BY <2>1 DEF PostRow
  <2>3. UNCHANGED fileVars /\ UNCHANGED job
    BY <1>4 DEF ImageDelete
  <2>4. CASE Updates(q, row) /\ Goes(h, "imageDeleted")
    <3>1. handler'[h].at = "imageDeleted" /\ handler'[h].post = q /\ OthersKeep(h)
      BY <2>4, GoesFrame DEF TypeOK
    <3>2. post'[q].status # "absent" /\ ~post'[q].images
      BY <2>1, <2>2, <2>4, UpdatesFrame DEF TypeOK
    <3>3. RequestKnowsItsRow(h)'
      BY <3>1, <3>2 DEF RequestKnowsItsRow
    <3> HIDE DEF q, row
    <3> QED
      BY <2>1, <2>2, <2>3, <2>4, <3>1, <3>3, UpdatingStep
  <2>5. CASE UNCHANGED post /\ Finishes(h)
    BY <2>3, <2>5, FinishesFrame, IdleKnows, ReadingStep DEF TypeOK
  <2> QED
    BY <1>4, <2>4, <2>5 DEF ImageDelete
<1>5. CASE RemoveUnlink(h) \/ ImageUnlink(h)
  <2>1. q \in Posts /\ post[q].status # "absent" /\ ~post[q].images
    BY <1>5 DEF RemoveUnlink, ImageUnlink, TypeOK, HandlersTyped, FilesInv,
       RequestsKnowTheirRow, RequestKnowsItsRow, OnlyLiveHaveImages
  <2>2. /\ Finishes(h) /\ UNCHANGED post /\ UNCHANGED job
        /\ file' \subseteq file
        /\ \A p \in Posts \ {q} : (p \in file => p \in file')
                                    /\ (p \in young => p \in young')
    BY <1>5 DEF RemoveUnlink, ImageUnlink, FilesUnlinked
  <2>3. RequestKnowsItsRow(h)' /\ OthersKeep(h) /\ handler'[h].at # "shareStored"
    BY <2>2, FinishesFrame, IdleKnows DEF TypeOK
  <2>4. RowsAdvance
    BY <2>2 DEF RowsAdvance
  <2>5. \A g \in Handlers : SharesUntouched(g)
    BY <2>1, <2>2 DEF SharesUntouched, TypeOK, HandlersTyped, FilesInv,
       RequestsKnowTheirRow, RequestKnowsItsRow
  <2>6. OnlyLiveHaveImages' /\ RowsHaveFiles'
    BY <2>1, <2>2 DEF FilesInv, OnlyLiveHaveImages, RowsHaveFiles
  <2> QED
    BY <2>2, <2>3, <2>4, <2>5, <2>6, RequestStep
<1> QED
  BY <1>1, <1>2, <1>3, <1>4, <1>5

LEMMA ShareFiles ==
  ASSUME TypeOK, FilesInv, NEW h \in Handlers,
         \/ \E p \in Posts : ShareStore(h, p)
         \/ ShareCreate(h) \/ ShareRollback(h) \/ ShareEnqueue(h)
         \/ RequestFails(h)
  PROVE  FilesInv'
<1> DEFINE q == handler[h].post
<1>0. USE DEF dbVars, fileVars, jobVars
<1>1. ASSUME NEW p \in Posts, ShareStore(h, p)
      PROVE  FilesInv'
  <2>1. PICK kind \in PostKinds :
          /\ Begins(h, "shareStored", p, kind.images)
          /\ file' = IF kind.images THEN file \cup {p} ELSE file
          /\ young' = IF kind.images THEN young \cup {p} ELSE young
    BY <1>1 DEF ShareStore
  <2>2. /\ handler'[h].at = "shareStored" /\ handler'[h].post = p
        /\ handler'[h].keys = kind.images /\ OthersKeep(h)
    BY <2>1, BeginsFrame DEF TypeOK
  <2>3. /\ UNCHANGED post /\ UNCHANGED job /\ h \in ClubDesk
        /\ post[p].status = "absent"
        /\ \A g \in ClubDesk : handler[g].post # p
    BY <1>1 DEF ShareStore
  <2>4. RequestKnowsItsRow(h)'
    BY <2>1, <2>2, <2>3 DEF RequestKnowsItsRow
  <2>5. RowsAdvance
    BY <2>3 DEF RowsAdvance
  <2>6. \A g \in Handlers : SharesUntouched(g)
    BY <2>1, <2>3 DEF SharesUntouched, FilesInv, RequestsKnowTheirRow,
       RequestKnowsItsRow
  <2>7. \A g \in Handlers : handler[g].at = "shareStored" => handler[g].post # p
    BY <2>3 DEF FilesInv, RequestsKnowTheirRow, RequestKnowsItsRow
  <2>8. OnlyLiveHaveImages' /\ RowsHaveFiles'
    BY <2>1, <2>3 DEF FilesInv, OnlyLiveHaveImages, RowsHaveFiles
  <2> QED
    BY <2>2, <2>3, <2>4, <2>5, <2>6, <2>7, <2>8, RequestStep
<1>2. CASE ShareCreate(h)
  <2>1. /\ q \in Posts /\ handler[h].at = "shareStored"
        /\ post[q].status = "absent"
        /\ handler[h].keys => q \in file
    BY <1>2 DEF ShareCreate, TypeOK, HandlersTyped, FilesInv,
       RequestsKnowTheirRow, RequestKnowsItsRow
  <2>2. PICK kind \in PostKinds :
          /\ kind.images = handler[h].keys
          /\ Updates(q, [BlankRow("live") EXCEPT !.text = TRUE, !.html = kind.html,
                                                 !.images = kind.images])
    BY <1>2 DEF ShareCreate
  <2>3. post'[q].status = "live" /\ post'[q].images = kind.images
        /\ \A p \in Posts \ {q} : post'[p] = post[p]
    <3> DEFINE row == [BlankRow("live") EXCEPT !.text = TRUE, !.html = kind.html,
                                               !.images = kind.images]
    <3>1. row.status = "live" /\ row.images = kind.images
      BY DEF BlankRow
    <3>2. Updates(q, row)
      BY <2>2
    <3> HIDE DEF row
    <3> QED
      BY <2>1, <3>1, <3>2, UpdatesFrame DEF TypeOK
  <2>4. handler'[h].at = "shared" /\ handler'[h].post = q /\ OthersKeep(h)
    BY <1>2, GoesFrame DEF ShareCreate, TypeOK
  <2>5. UNCHANGED fileVars /\ UNCHANGED job
    BY <1>2 DEF ShareCreate
  <2>6. RowsAdvance
    BY <2>1, <2>3 DEF RowsAdvance
  <2>7. RequestKnowsItsRow(h)'
    BY <2>3, <2>4 DEF RequestKnowsItsRow
  <2>8. \A g \in Handlers \ {h} : SharesUntouched(g)
    BY <2>1, <2>3, <2>5 DEF SharesUntouched, TypeOK, HandlersTyped, FilesInv,
       RequestsKnowTheirRow, RequestKnowsItsRow, SharesAreApart
  <2>9. OnlyLiveHaveImages' /\ RowsHaveFiles'
    BY <2>1, <2>2, <2>3, <2>5 DEF FilesInv, OnlyLiveHaveImages, RowsHaveFiles
  <2> QED
    BY <2>4, <2>5, <2>6, <2>7, <2>8, <2>9, RequestStep
<1>3. CASE ShareRollback(h)
  <2>1. q \in Posts /\ handler[h].at = "shareStored" /\ post[q].status = "absent"
    BY <1>3 DEF ShareRollback, TypeOK, HandlersTyped, FilesInv,
       RequestsKnowTheirRow, RequestKnowsItsRow
  <2>2. /\ Finishes(h) /\ UNCHANGED post /\ UNCHANGED job
        /\ file' = file \ {q} /\ young' = young \ {q}
    BY <1>3 DEF ShareRollback, FilesUnlinked
  <2>3. RequestKnowsItsRow(h)' /\ OthersKeep(h) /\ handler'[h].at # "shareStored"
    BY <2>2, FinishesFrame, IdleKnows DEF TypeOK
  <2>4. RowsAdvance
    BY <2>2 DEF RowsAdvance
  <2>5. \A g \in Handlers \ {h} : SharesUntouched(g)
    BY <2>1, <2>2 DEF SharesUntouched, FilesInv, RequestsKnowTheirRow,
       RequestKnowsItsRow, SharesAreApart
  <2>6. OnlyLiveHaveImages' /\ RowsHaveFiles'
    BY <2>1, <2>2 DEF FilesInv, OnlyLiveHaveImages, RowsHaveFiles
  <2> QED
    BY <2>2, <2>3, <2>4, <2>5, <2>6, RequestStep
<1>4. CASE ShareEnqueue(h) \/ RequestFails(h)
  <2>1. Finishes(h) /\ UNCHANGED post /\ UNCHANGED job /\ UNCHANGED fileVars
    BY <1>4 DEF ShareEnqueue, RequestFails
  <2> QED
    BY <2>1, FinishesFrame, IdleKnows, ReadingStep DEF TypeOK
<1> QED
  BY <1>1, <1>2, <1>3, <1>4

\* A pass knows the rows it holds, and touches no share and no request.
LEMMA JobStepFiles ==
  ASSUME TypeOK, FilesInv, NEW j \in Jobs, UNCHANGED handler, RowsAdvance,
         PassKnowsItsRows(j)',
         \A i \in Jobs \ {j} : job'[i] = job[i],
         \A g \in Handlers : SharesUntouched(g),
         OnlyLiveHaveImages', RowsHaveFiles'
  PROVE  FilesInv'
<1>1. RequestsKnowTheirRow'
  BY OthersStillKnow DEF FilesInv, RequestsKnowTheirRow
<1>2. PassesKnowTheirRows'
  BY DEF FilesInv, PassesKnowTheirRows, PassKnowsItsRows, RowsAdvance, TypeOK, JobState
<1> QED
  BY <1>1, <1>2 DEF FilesInv, SharesAreApart

\* The case where it touches neither rows nor files.
LEMMA JobMovesFiles ==
  ASSUME TypeOK, FilesInv, NEW j \in Jobs, UNCHANGED handler,
         UNCHANGED post, UNCHANGED fileVars,
         PassKnowsItsRows(j)',
         \A i \in Jobs \ {j} : job'[i] = job[i]
  PROVE  FilesInv'
<1>1. RowsAdvance
  BY DEF RowsAdvance
<1>2. \A g \in Handlers : SharesUntouched(g)
  BY DEF SharesUntouched, fileVars, FilesInv, RequestsKnowTheirRow, RequestKnowsItsRow
<1>3. OnlyLiveHaveImages' /\ RowsHaveFiles'
  BY DEF FilesInv, OnlyLiveHaveImages, RowsHaveFiles, fileVars
<1> QED
  BY <1>1, <1>2, <1>3, JobStepFiles

LEMMA JobGoesFrame ==
  ASSUME job \in [Jobs -> JobState], NEW j \in Jobs, NEW at, JobGoes(j, at)
  PROVE  /\ job'[j].at = at /\ job'[j].todo = job[j].todo
         /\ job'[j].keys = job[j].keys
         /\ \A i \in Jobs \ {j} : job'[i] = job[i]
  BY DEF JobGoes, JobState

LEMMA JobFiles ==
  ASSUME TypeOK, FilesInv, NEW j \in Jobs, JobStart(j) \/ JobStep(j)
  PROVE  FilesInv'
<1>0. USE DEF dbVars, jobVars
<1>t. /\ job \in [Jobs -> JobState] /\ post \in [Posts -> PostRow]
      /\ PassKnowsItsRows(j)
  BY DEF TypeOK, FilesInv, PassesKnowTheirRows
<1>1. CASE JobStart(j) \/ JobExpired(j) \/ JobFails(j)
  <2>1. PICK at : JobGoes(j, at)
    BY <1>1 DEF JobStart, JobExpired, JobFails
  <2>2. UNCHANGED post /\ UNCHANGED fileVars /\ UNCHANGED handler
    BY <1>1 DEF JobStart, JobExpired, JobFails
  <2>3. PassKnowsItsRows(j)'
    BY <1>t, <2>1, <2>2, JobGoesFrame DEF PassKnowsItsRows
  <2> QED
    BY <1>t, <2>1, <2>2, <2>3, JobGoesFrame, JobMovesFiles
<1>2. CASE JobRead(j)
  <2>1. /\ job'[j].todo = {p \in Posts : Expirable(p)} /\ job'[j].keys = {}
        /\ \A i \in Jobs \ {j} : job'[i] = job[i]
    BY <1>t, <1>2 DEF JobRead
  <2>2. UNCHANGED post /\ UNCHANGED fileVars /\ UNCHANGED handler
    BY <1>2 DEF JobRead
  <2>3. PassKnowsItsRows(j)'
    BY <1>t, <2>1, <2>2 DEF PassKnowsItsRows, Expirable
  <2> QED
    BY <2>1, <2>2, <2>3, JobMovesFiles
<1>3. CASE JobExpire(j)
  <2>1. PICK p \in job[j].todo :
          \/ /\ post[p].status # "pruned"
             /\ Updates(p, Stub(post[p], "RETENTION"))
             /\ job' = [job EXCEPT ![j] =
                  [at |-> "unlink", todo |-> @.todo \ {p},
                   pictured |-> @.pictured, keys |-> @.pictured \cap {p}]]
          \/ /\ post[p].status = "pruned"
             /\ JobGoes(j, "release")
             /\ UNCHANGED post
    BY <1>3 DEF JobExpire
  <2>2. p \in Posts /\ post[p].status # "absent" /\ post[p] \in PostRow
    BY <1>t, <2>1 DEF JobState, PassKnowsItsRows
  <2>3. UNCHANGED fileVars /\ UNCHANGED handler
    BY <1>3 DEF JobExpire
  <2>4. CASE UNCHANGED post /\ JobGoes(j, "release")
    <3>1. PassKnowsItsRows(j)'
      BY <1>t, <2>4, JobGoesFrame DEF PassKnowsItsRows
    <3> QED
      BY <1>t, <2>3, <2>4, <3>1, JobGoesFrame, JobMovesFiles
  <2>5. CASE /\ Updates(p, Stub(post[p], "RETENTION"))
             /\ job' = [job EXCEPT ![j] =
                  [at |-> "unlink", todo |-> @.todo \ {p},
                   pictured |-> @.pictured, keys |-> @.pictured \cap {p}]]
    <3> DEFINE row == Stub(post[p], "RETENTION")
    <3>1. row.status = "removed" /\ ~row.images
      BY <2>2, StubFields
    <3>2. post'[p] = row /\ \A q \in Posts \ {p} : post'[q] = post[q]
      BY <1>t, <2>2, <2>5, UpdatesFrame
    <3>3. /\ job'[j].todo = job[j].todo \ {p} /\ job'[j].keys \subseteq {p}
          /\ \A i \in Jobs \ {j} : job'[i] = job[i]
      BY <1>t, <2>5
    <3> HIDE DEF row
    <3>4. RowsAdvance
      BY <3>1, <3>2, <2>2 DEF RowsAdvance
    <3>5. \A g \in Handlers : SharesUntouched(g)
      BY <2>2, <2>3, <3>2 DEF SharesUntouched, fileVars, TypeOK, HandlersTyped,
         FilesInv, RequestsKnowTheirRow, RequestKnowsItsRow
    <3>6. PassKnowsItsRows(j)'
      BY <1>t, <2>2, <3>1, <3>2, <3>3 DEF PassKnowsItsRows, JobState
    <3>7. OnlyLiveHaveImages' /\ RowsHaveFiles'
      BY <2>3, <3>1, <3>2 DEF FilesInv, OnlyLiveHaveImages, RowsHaveFiles, fileVars
    <3> QED
      BY <2>3, <3>3, <3>4, <3>5, <3>6, <3>7, JobStepFiles
  <2> QED
    BY <2>1, <2>4, <2>5
<1>4. CASE JobUnlink(j)
  <2>1. /\ job'[j].todo = job[j].todo /\ job'[j].keys = {}
        /\ \A i \in Jobs \ {j} : job'[i] = job[i]
    BY <1>t, <1>4 DEF JobUnlink, JobState
  <2>2. /\ UNCHANGED post /\ UNCHANGED handler
        /\ file' = file \ job[j].keys /\ young' = young \ job[j].keys
    BY <1>4 DEF JobUnlink, FilesUnlinked
  <2>3. RowsAdvance
    BY <2>2 DEF RowsAdvance
  <2>4. \A g \in Handlers : SharesUntouched(g)
    BY <1>t, <2>2 DEF SharesUntouched, FilesInv, RequestsKnowTheirRow,
       RequestKnowsItsRow, PassKnowsItsRows
  <2>5. PassKnowsItsRows(j)'
    BY <1>t, <2>1, <2>2 DEF PassKnowsItsRows
  <2>6. OnlyLiveHaveImages' /\ RowsHaveFiles'
    BY <1>t, <2>2 DEF FilesInv, OnlyLiveHaveImages, RowsHaveFiles, PassKnowsItsRows
  <2> QED
    BY <2>1, <2>2, <2>3, <2>4, <2>5, <2>6, JobStepFiles
<1>5. CASE JobPrune(j)
  <2>1. /\ UNCHANGED fileVars /\ UNCHANGED handler /\ JobGoes(j, "sweep")
        /\ \A p \in Posts : IF Prunable(p) THEN post'[p] = BlankRow("pruned")
                                           ELSE post'[p] = post[p]
    BY <1>5 DEF JobPrune
  <2>2. \A p \in Posts :
           \/ post'[p] = post[p]
           \/ /\ post[p].status = "removed"
              /\ post'[p].status = "pruned" /\ ~post'[p].images
    BY <2>1 DEF Prunable, BlankRow
  <2>3. RowsAdvance
    BY <2>2 DEF RowsAdvance
  <2>4. \A g \in Handlers : SharesUntouched(g)
    BY <2>1, <2>2 DEF SharesUntouched, fileVars, TypeOK, HandlersTyped,
       FilesInv, RequestsKnowTheirRow, RequestKnowsItsRow
  <2>5. PassKnowsItsRows(j)'
    BY <1>t, <2>1, <2>3, JobGoesFrame DEF PassKnowsItsRows, RowsAdvance, JobState
  <2>6. OnlyLiveHaveImages' /\ RowsHaveFiles'
    BY <2>1, <2>2 DEF FilesInv, OnlyLiveHaveImages, RowsHaveFiles, fileVars
  <2> QED
    BY <1>t, <2>1, <2>3, <2>4, <2>5, <2>6, JobGoesFrame, JobStepFiles
<1>6. CASE JobSweep(j)
  <2>1. /\ UNCHANGED post /\ UNCHANGED handler /\ JobGoes(j, "release")
        /\ file' = file \ Orphans /\ young' = young \ Orphans
    BY <1>6 DEF JobSweep, FilesUnlinked
  <2>2. RowsAdvance
    BY <2>1 DEF RowsAdvance
  <2>3. \A g \in Handlers : SharesUntouched(g)
    <3> SUFFICES ASSUME NEW g \in Handlers PROVE SharesUntouched(g)
      OBVIOUS
    <3>1. handler[g].at = "shareStored" => post[handler[g].post].status = "absent"
      BY DEF FilesInv, RequestsKnowTheirRow, RequestKnowsItsRow
    <3>2. handler[g].post \in young => handler[g].post \notin Orphans
      BY DEF Orphans
    <3> QED
      BY <2>1, <3>1, <3>2 DEF SharesUntouched, FilesInv, RequestsKnowTheirRow,
         RequestKnowsItsRow
  <2>4. PassKnowsItsRows(j)'
    BY <1>t, <2>1, JobGoesFrame DEF PassKnowsItsRows
  <2>5. OnlyLiveHaveImages' /\ RowsHaveFiles'
    BY <2>1 DEF FilesInv, OnlyLiveHaveImages, RowsHaveFiles, Orphans
  <2> QED
    BY <1>t, <2>1, <2>2, <2>3, <2>4, <2>5, JobGoesFrame, JobStepFiles
<1>7. CASE JobRelease(j) \/ JobReleaseFails(j)
  <2>1. /\ job'[j] = JobIdle /\ \A i \in Jobs \ {j} : job'[i] = job[i]
        /\ UNCHANGED post /\ UNCHANGED fileVars /\ UNCHANGED handler
    BY <1>t, <1>7 DEF JobRelease, JobReleaseFails
  <2>2. PassKnowsItsRows(j)'
    BY <2>1 DEF PassKnowsItsRows, JobIdle
  <2> QED
    BY <2>1, <2>2, JobMovesFiles
<1> QED
  BY <1>1, <1>2, <1>3, <1>4, <1>5, <1>6, <1>7 DEF JobStep

LEMMA TimeFiles ==
  ASSUME TypeOK, FilesInv,
         \/ \E p \in Posts : PostAges(p) \/ FileAges(p)
         \/ ClaimGoesStale
         \/ Crash
  PROVE  FilesInv'
<1>0. USE DEF dbVars, jobVars, fileVars
<1>1. ASSUME NEW p \in Posts, PostAges(p)
      PROVE  FilesInv'
  <2>1. post[p] \in PostRow
    BY DEF TypeOK
  <2>2. [post[p] EXCEPT !.age = "old"].status = post[p].status
        /\ [post[p] EXCEPT !.age = "old"].images = post[p].images
    BY <2>1 DEF PostRow
  <2>3. \A q \in Posts : post'[q].status = post[q].status
                          /\ post'[q].images = post[q].images
    BY <1>1, <2>2, UpdatesFrame DEF PostAges, TypeOK
  <2>4. UNCHANGED <<file, young, handler, job>>
    BY <1>1 DEF PostAges
  <2>5. RequestsKnowTheirRow' /\ SharesAreApart'
    BY <2>3, <2>4 DEF FilesInv, RequestsKnowTheirRow, RequestKnowsItsRow,
       SharesAreApart, TypeOK, HandlersTyped
  <2>6. PassesKnowTheirRows'
    BY <2>3, <2>4 DEF FilesInv, PassesKnowTheirRows, PassKnowsItsRows, TypeOK, JobState
  <2>7. OnlyLiveHaveImages' /\ RowsHaveFiles'
    BY <2>3, <2>4 DEF FilesInv, OnlyLiveHaveImages, RowsHaveFiles
  <2> QED
    BY <2>5, <2>6, <2>7 DEF FilesInv
<1>2. ASSUME NEW p \in Posts, FileAges(p)
      PROVE  FilesInv'
  <2>1. /\ UNCHANGED <<post, file, handler, job>> /\ young' = young \ {p}
        /\ \A h \in ClubDesk : handler[h].at = "shareStored" => handler[h].post # p
    BY <1>2 DEF FileAges
  <2>2. RequestsKnowTheirRow'
    BY <2>1 DEF FilesInv, RequestsKnowTheirRow, RequestKnowsItsRow
  <2> QED
    BY <2>1, <2>2 DEF FilesInv, SharesAreApart, PassesKnowTheirRows,
       PassKnowsItsRows, OnlyLiveHaveImages, RowsHaveFiles
<1>3. CASE ClaimGoesStale
  BY <1>3 DEF ClaimGoesStale, FilesInv, RequestsKnowTheirRow, RequestKnowsItsRow,
     SharesAreApart, PassesKnowTheirRows, PassKnowsItsRows, OnlyLiveHaveImages,
     RowsHaveFiles
<1>4. CASE Crash
  BY <1>4 DEF Crash, Idle, JobIdle, FilesInv, RequestsKnowTheirRow,
     RequestKnowsItsRow, SharesAreApart, PassesKnowTheirRows, PassKnowsItsRows,
     OnlyLiveHaveImages, RowsHaveFiles
<1> QED
  BY <1>1, <1>2, <1>3, <1>4

LEMMA InitFiles == Init => FilesInv
  BY DEF Init, FilesInv, RequestsKnowTheirRow, RequestKnowsItsRow, SharesAreApart,
     PassesKnowTheirRows, PassKnowsItsRows, OnlyLiveHaveImages, RowsHaveFiles,
     Idle, JobIdle, BlankRow

LEMMA NextFiles == TypeOK /\ FilesInv /\ [Next]_vars => FilesInv'
<1> SUFFICES ASSUME TypeOK, FilesInv, [Next]_vars PROVE FilesInv'
  OBVIOUS
<1>1. ASSUME NEW h \in Handlers,
             HandlerOpens(h) \/ HandlerContinues(h) \/ RequestFails(h)
      PROVE  FilesInv'
  BY <1>1, ReportFiles, ConsoleFiles, RemovalFiles, ShareFiles
  DEF HandlerOpens, HandlerContinues
<1>2. ASSUME NEW j \in Jobs, JobStart(j) \/ JobStep(j)
      PROVE  FilesInv'
  BY <1>2, JobFiles
<1>3. CASE UNCHANGED vars
  BY <1>3 DEF vars, FilesInv, RequestsKnowTheirRow, RequestKnowsItsRow,
     SharesAreApart, PassesKnowTheirRows, PassKnowsItsRows, OnlyLiveHaveImages,
     RowsHaveFiles
<1> QED
  BY <1>1, <1>2, <1>3, TimeFiles DEF Next

LEMMA FilesInvariant == Spec => []FilesInv
  BY InitFiles, NextFiles, TypeCorrect, PTL DEF Spec

\* No image row ever names a missing file: whatever order shares, removals,
\* picture deletions and orphan sweeps run in, and wherever they die.
THEOREM ImageRowsHaveFiles == Spec => []RowsHaveFiles
  BY FilesInvariant, PTL DEF FilesInv

-----------------------------------------------------------------------------
(***************************************************************************)
(* The claim.                                                              *)
(***************************************************************************)

LEMMA InitClaim == Init => ClaimInv
  BY InitTypeOK DEF Init, ClaimInv, RunnersHoldTheClaim, SingleFlight, Active, JobIdle

LEMMA NextClaim == ClaimInv /\ [Next]_vars => ClaimInv'
<1> SUFFICES ASSUME ClaimInv, [Next]_vars, ~PassesOverrun
             PROVE  RunnersHoldTheClaim' /\ SingleFlight'
  BY NextTypeOK DEF ClaimInv, RunnersHoldTheClaim, SingleFlight
<1>t. job \in [Jobs -> JobState] /\ claim \in {"free", "held", "stale"}
      /\ (\A j \in Jobs : Active(j) => claim = "held")
      /\ (\A i, j \in Jobs : Active(i) /\ Active(j) => i = j)
  BY DEF ClaimInv, TypeOK, RunnersHoldTheClaim, SingleFlight
<1>0. USE DEF jobVars, dbVars, fileVars
<1>1. CASE UNCHANGED jobVars
  BY <1>t, <1>1 DEF RunnersHoldTheClaim, SingleFlight, Active
<1>2. ASSUME NEW j \in Jobs, JobStart(j)
      PROVE  RunnersHoldTheClaim' /\ SingleFlight'
  <2>1. \A i \in Jobs : ~Active(i)
    BY <1>t, <1>2 DEF JobStart, Claimable
  <2>2. claim' = "held" /\ \A i \in Jobs \ {j} : job'[i] = job[i]
    BY <1>t, <1>2, JobGoesFrame DEF JobStart
  <2> QED
    BY <2>1, <2>2 DEF RunnersHoldTheClaim, SingleFlight, Active
<1>3. ASSUME NEW j \in Jobs,
             JobRead(j) \/ JobExpire(j) \/ JobUnlink(j) \/ JobExpired(j)
                \/ JobPrune(j) \/ JobSweep(j) \/ JobFails(j)
      PROVE  RunnersHoldTheClaim' /\ SingleFlight'
  <2>1. Active(j) /\ UNCHANGED claim
    BY <1>3 DEF Active, JobRead, JobExpire, JobUnlink, JobExpired, JobPrune,
       JobSweep, JobFails
  <2>2. \A i \in Jobs \ {j} : job'[i] = job[i]
    BY <1>t, <1>3, JobGoesFrame DEF JobRead, JobExpire, JobUnlink, JobExpired,
       JobPrune, JobSweep, JobFails
  <2> QED
    BY <1>t, <2>1, <2>2 DEF RunnersHoldTheClaim, SingleFlight, Active
<1>4. ASSUME NEW j \in Jobs, JobRelease(j) \/ JobReleaseFails(j)
      PROVE  RunnersHoldTheClaim' /\ SingleFlight'
  <2>1. Active(j)
    BY <1>4 DEF Active, JobRelease, JobReleaseFails
  <2>2. job' = [job EXCEPT ![j] = JobIdle]
    BY <1>4 DEF JobRelease, JobReleaseFails
  <2>3. \A i \in Jobs : job'[i].at = "idle"
    BY <1>t, <2>1, <2>2 DEF Active, JobIdle
  <2> QED
    BY <2>3 DEF RunnersHoldTheClaim, SingleFlight, Active
<1>5. CASE ClaimGoesStale
  BY <1>t, <1>5 DEF ClaimGoesStale, NoPassActive, RunnersHoldTheClaim,
     SingleFlight, Active
<1>6. CASE Crash
  BY <1>6 DEF Crash, JobIdle, RunnersHoldTheClaim, SingleFlight, Active
<1>7. ASSUME NEW h \in Handlers,
             HandlerOpens(h) \/ HandlerContinues(h) \/ RequestFails(h)
      PROVE  UNCHANGED jobVars
  BY <1>7 DEF HandlerOpens, HandlerContinues, RequestFails, ReportRead,
     ReportInsert, ReportCommit, DismissRead, UnhideRead, PatchRead, DismissRows,
     DismissCommit, UnhideWrite, PatchWrite, RemoveRead, RemoveCommit,
     RemoveEnqueue, RemoveUnlink, ImageRead, ImageDelete, ImageUnlink,
     ShareStore, ShareCreate, ShareRollback, ShareEnqueue, Opens
<1>8. ASSUME NEW p \in Posts, PostAges(p) \/ FileAges(p)
      PROVE  UNCHANGED jobVars
  BY <1>8 DEF PostAges, FileAges
<1>9. CASE UNCHANGED vars
  BY <1>1, <1>9 DEF vars
<1> QED
  BY <1>1, <1>2, <1>3, <1>4, <1>5, <1>6, <1>7, <1>8, <1>9 DEF Next, JobStep

\* As long as no pass outlives the claim, at most one pass runs, however many
\* callers there are and wherever they fail, crash or leave the claim behind.
THEOREM OnePassAtATime == Spec => []SingleFlight
  BY InitClaim, NextClaim, PTL DEF Spec, ClaimInv

-----------------------------------------------------------------------------
(***************************************************************************)
(* Reports: what hides a post, and what its count may say.                 *)
(***************************************************************************)

EvidenceInv == CountsAreFiled /\ SystemHideHasEvidence /\ CountWithinFiled

\* More rows are more reports of more clubs.
LEMMA CountsGrow ==
  ASSUME NEW S \in SUBSET Members, NEW T \in SUBSET Members, S \subseteq T
  PROVE  Cardinality(S) <= Cardinality(T)
  BY RowsAreFinite, FS_Subset

LEMMA ThresholdStaysReached ==
  ASSUME NEW S \in SUBSET Members, NEW T \in SUBSET Members, S \subseteq T,
         ReachesThreshold(S)
  PROVE  ReachesThreshold(T)
<1>1. IsFiniteSet(T)
  BY RowsAreFinite
<1>2. IsFiniteSet(ClubsOf(T))
  <2> DEFINE f == [m \in T |-> ClubOf[m]]
  <2>1. f \in Surjection(T, ClubsOf(T))
    BY DEF Surjection, ClubsOf
  <2> QED
    BY <1>1, <2>1, FS_Surjection
<1>3. ClubsOf(S) \subseteq ClubsOf(T)
  BY DEF ClubsOf
<1>4. /\ Cardinality(ClubsOf(S)) \in Nat /\ Cardinality(ClubsOf(T)) \in Nat
      /\ Cardinality(ClubsOf(S)) <= Cardinality(ClubsOf(T))
  BY <1>2, <1>3, FS_Subset, FS_CardinalityType
<1>5. /\ Cardinality(S) \in Nat /\ Cardinality(T) \in Nat
      /\ Cardinality(S) <= Cardinality(T)
  BY CountsGrow, RowsAreFinite
<1> QED
  BY <1>4, <1>5, ModerationAssumption DEF ReachesThreshold

\* A row keeps its evidence when no report row is lost and neither its count
\* nor the SYSTEM's hide is raised.
LEMMA EvidenceKept ==
  ASSUME TypeOK, TypeOK', SystemHideHasEvidence, CountWithinFiled, NEW p \in Posts,
         FiledRows(p) \subseteq FiledRows(p)',
         post'[p].count = post[p].count \/ post'[p].count = 0,
         post'[p].hiddenBy = "SYSTEM" => post[p].hiddenBy = "SYSTEM"
  PROVE  /\ post'[p].hiddenBy = "SYSTEM" => ReachesThreshold(FiledRows(p)')
         /\ post'[p].count <= Cardinality(FiledRows(p)')
<1>1. FiledRows(p) \in SUBSET Members /\ FiledRows(p)' \in SUBSET Members
  BY DEF FiledRows
<1>2. /\ Cardinality(FiledRows(p)) \in Nat /\ Cardinality(FiledRows(p)') \in Nat
      /\ Cardinality(FiledRows(p)) <= Cardinality(FiledRows(p)')
  BY <1>1, CountsGrow, RowsAreFinite
<1>3. post[p].count \in Nat
  BY RowFields DEF TypeOK
<1>4. post[p].count <= Cardinality(FiledRows(p))
  BY DEF CountWithinFiled
<1>5. post'[p].count <= Cardinality(FiledRows(p)')
  BY <1>2, <1>3, <1>4
<1>6. post'[p].hiddenBy = "SYSTEM" => ReachesThreshold(FiledRows(p)')
  BY <1>1, ThresholdStaysReached DEF SystemHideHasEvidence
<1> QED
  BY <1>5, <1>6

\* A step of a request that loses no report row and raises no count.
LEMMA EvidenceStep ==
  ASSUME TypeOK, TypeOK', EvidenceInv, NEW h \in Handlers, OthersKeep(h),
         CountIsFiled(h)',
         \A p \in Posts :
            /\ FiledRows(p) \subseteq FiledRows(p)'
            /\ post'[p].status = "pruned" => post[p].status = "pruned"
            /\ post'[p].count = post[p].count \/ post'[p].count = 0
            /\ post'[p].hiddenBy = "SYSTEM" => post[p].hiddenBy = "SYSTEM"
  PROVE  EvidenceInv'
<1>1. CountsAreFiled'
  <2> SUFFICES ASSUME NEW g \in Handlers \ {h} PROVE CountIsFiled(g)'
    BY DEF CountsAreFiled
  <2>1. handler'[g] = handler[g] /\ CountIsFiled(g)
    BY DEF OthersKeep, EvidenceInv, CountsAreFiled
  <2>2. handler[g].at = "reportCounted" => handler[g].post \in Posts
    BY DEF TypeOK, HandlersTyped
  <2> QED
    BY <2>1, <2>2 DEF CountIsFiled
<1>2. SystemHideHasEvidence' /\ CountWithinFiled'
  BY EvidenceKept DEF EvidenceInv, SystemHideHasEvidence, CountWithinFiled
<1> QED
  BY <1>1, <1>2 DEF EvidenceInv

\* The same for a step that leaves both tables alone.
LEMMA EvidenceReadingStep ==
  ASSUME TypeOK, TypeOK', EvidenceInv, NEW h \in Handlers, OthersKeep(h),
         UNCHANGED dbVars, CountIsFiled(h)'
  PROVE  EvidenceInv'
  BY EvidenceStep DEF dbVars, FiledRows

LEMMA NotCounting ==
  ASSUME NEW h \in Handlers, handler'[h].at # "reportCounted"
  PROVE  CountIsFiled(h)'
  BY DEF CountIsFiled

LEMMA ReportEvidence ==
  ASSUME TypeOK, TypeOK', EvidenceInv, NEW h \in Handlers,
         \/ \E p \in Posts, m \in Members : ReportRead(h, p, m)
         \/ ReportInsert(h)
         \/ ReportCommit(h)
  PROVE  EvidenceInv'
<1>1. ASSUME NEW q \in Posts, NEW n \in Members, ReportRead(h, q, n)
      PROVE  EvidenceInv'
  <2>1. handler'[h].at = "reportRead" /\ OthersKeep(h) /\ UNCHANGED dbVars
    BY <1>1 DEF ReportRead, OthersKeep, TypeOK, HandlersTyped
  <2> QED
    BY <2>1, NotCounting, EvidenceReadingStep
<1>2. CASE ReportInsert(h)
  <2>1. UNCHANGED dbVars
    BY <1>2 DEF ReportInsert
  <2>2. CASE Finishes(h)
    BY <2>1, <2>2, FinishesFrame, NotCounting, EvidenceReadingStep DEF TypeOK
  <2>3. ASSUME NEW p \in Posts, p = handler[h].post, NEW m, m = handler[h].member,
               post[p].status # "pruned",
               Finds(h, "reportCounted", OpenRows(p) \cup {m})
        PROVE  EvidenceInv'
    <3>1. /\ handler'[h].at = "reportCounted" /\ handler'[h].post = p
          /\ handler'[h].member = m /\ handler'[h].rows = OpenRows(p) \cup {m}
          /\ OthersKeep(h)
      BY <2>3, FindsFrame DEF TypeOK
    <3>2. OpenRows(p) \subseteq FiledRows(p)
      BY DEF OpenRows, FiledRows
    <3>3. post'[p] = post[p] /\ FiledRows(p)' = FiledRows(p)
      BY <2>1 DEF dbVars, FiledRows
    <3>4. CountIsFiled(h)'
      BY <2>3, <3>1, <3>2, <3>3 DEF CountIsFiled, FiledRows
    <3> QED
      BY <2>1, <3>1, <3>4, EvidenceReadingStep
  <2> QED
    BY <1>2, <2>2, <2>3 DEF ReportInsert, TypeOK, HandlersTyped
<1>3. CASE ReportCommit(h)
  <2>0. PICK p \in Posts, m \in Members :
           p = handler[h].post /\ m = handler[h].member
    BY <1>3 DEF ReportCommit, TypeOK, HandlersTyped
  <2> DEFINE row == [post[p] EXCEPT
                       !.count = OpenCount(h),
                       !.hiddenBy = IF ShouldHide(h) THEN "SYSTEM" ELSE @]
  <2>1. p \in Posts /\ m \in Members /\ handler[h].rows \in SUBSET Members
        /\ post[p] \in PostRow
    BY <1>3 DEF ReportCommit, TypeOK, HandlersTyped, HandlerState
  <2>2. /\ row.count = OpenCount(h) /\ row.status = post[p].status
        /\ row.hiddenBy = IF ShouldHide(h) THEN "SYSTEM" ELSE post[p].hiddenBy
    BY <2>1 DEF PostRow
  <2>3. Updates(p, row) /\ Finishes(h)
    BY <1>3, <2>0 DEF ReportCommit
  <2>4. /\ report'[p][m] = "open"
        /\ \A n \in Members \ {m} : report'[p][n] = report[p][n]
        /\ \A q \in Posts \ {p} : report'[q] = report[q]
    BY <1>3, <2>0, <2>1 DEF ReportCommit, TypeOK
  <2>5. post'[p] = row /\ \A q \in Posts \ {p} : post'[q] = post[q]
    BY <2>1, <2>3, UpdatesFrame DEF TypeOK
  <2>6. handler'[h].at = "idle" /\ OthersKeep(h)
    BY <2>3, FinishesFrame DEF TypeOK
  <2>7. handler[h].rows \subseteq FiledRows(p)'
    <3>1. handler[h].rows \subseteq FiledRows(p) \cup {m}
      BY <1>3, <2>0 DEF ReportCommit, EvidenceInv, CountsAreFiled, CountIsFiled
    <3> QED
      BY <2>1, <2>4, <3>1 DEF FiledRows
  <2>8. \A q \in Posts : FiledRows(q) \subseteq FiledRows(q)'
    BY <2>1, <2>4 DEF FiledRows
  <2>9. CountsAreFiled'
    <3> SUFFICES ASSUME NEW g \in Handlers \ {h} PROVE CountIsFiled(g)'
      BY <2>6, NotCounting DEF CountsAreFiled
    <3>1. handler'[g] = handler[g] /\ CountIsFiled(g)
      BY <2>6 DEF OthersKeep, EvidenceInv, CountsAreFiled
    <3>2. handler[g].at = "reportCounted" => handler[g].post \in Posts
      BY DEF TypeOK, HandlersTyped
    <3>3. \A q \in Posts : post'[q].status = post[q].status
      BY <2>2, <2>5
    <3> QED
      BY <2>8, <3>1, <3>2, <3>3 DEF CountIsFiled
  <2>10. FiledRows(p)' \in SUBSET Members
    BY DEF FiledRows
  <2>11. \A q \in Posts \ {p} :
            /\ post'[q].hiddenBy = "SYSTEM" => ReachesThreshold(FiledRows(q)')
            /\ post'[q].count <= Cardinality(FiledRows(q)')
    BY <2>5, <2>8, EvidenceKept DEF EvidenceInv
  <2>12. /\ OpenCount(h) <= Cardinality(FiledRows(p)')
         /\ ShouldHide(h) => ReachesThreshold(FiledRows(p)')
    BY <2>1, <2>7, <2>10, CountsGrow, ThresholdStaysReached
    DEF OpenCount, ShouldHide, ReachesThreshold
  <2>13. post[p].hiddenBy = "SYSTEM" => ReachesThreshold(FiledRows(p)')
    <3>1. FiledRows(p) \in SUBSET Members /\ FiledRows(p) \subseteq FiledRows(p)'
      BY <2>1, <2>8 DEF FiledRows
    <3> QED
      BY <2>1, <2>10, <3>1, ThresholdStaysReached DEF EvidenceInv, SystemHideHasEvidence
  <2>14. /\ post'[p].hiddenBy = "SYSTEM" => ReachesThreshold(FiledRows(p)')
         /\ post'[p].count <= Cardinality(FiledRows(p)')
    BY <2>2, <2>5, <2>12, <2>13
  <2> QED
    BY <2>9, <2>11, <2>14 DEF EvidenceInv, SystemHideHasEvidence, CountWithinFiled
<1> QED
  BY <1>1, <1>2, <1>3

\* An update that raises neither the count nor the SYSTEM's hide.
LEMMA EvidenceUpdatingStep ==
  ASSUME TypeOK, TypeOK', EvidenceInv, NEW h \in Handlers, OthersKeep(h),
         handler'[h].at # "reportCounted",
         \A q \in Posts : FiledRows(q) \subseteq FiledRows(q)',
         NEW p \in Posts, NEW row, Updates(p, row),
         row.status = "pruned" => post[p].status = "pruned",
         row.count = post[p].count \/ row.count = 0,
         row.hiddenBy = "SYSTEM" => post[p].hiddenBy = "SYSTEM"
  PROVE  EvidenceInv'
<1>1. post'[p] = row /\ \A q \in Posts \ {p} : post'[q] = post[q]
  BY UpdatesFrame DEF TypeOK
<1> QED
  BY <1>1, NotCounting, EvidenceStep

LEMMA ConsoleEvidence ==
  ASSUME TypeOK, TypeOK', EvidenceInv, NEW h \in Handlers,
         \/ \E p \in Posts : DismissRead(h, p) \/ UnhideRead(h, p) \/ PatchRead(h, p)
         \/ DismissRows(h) \/ DismissCommit(h)
         \/ UnhideWrite(h) \/ PatchWrite(h)
  PROVE  EvidenceInv'
<1>1. ASSUME NEW p \in Posts, DismissRead(h, p) \/ UnhideRead(h, p) \/ PatchRead(h, p)
      PROVE  EvidenceInv'
  <2>1. PICK at \in {"dismissRead", "unhideRead", "patchRead"} :
           Opens(h, at, p, FALSE)
    BY <1>1 DEF DismissRead, UnhideRead, PatchRead
  <2>2. handler'[h].at = at /\ OthersKeep(h) /\ UNCHANGED dbVars
    BY <2>1, BeginsFrame DEF Opens, TypeOK
  <2> QED
    BY <2>2, NotCounting, EvidenceReadingStep
<1>2. CASE DismissRows(h)
  <2>1. handler'[h].at # "reportCounted" /\ OthersKeep(h) /\ UNCHANGED dbVars
    BY <1>2, FindsFrame DEF DismissRows, TypeOK
  <2> QED
    BY <2>1, NotCounting, EvidenceReadingStep
<1>3. CASE DismissCommit(h)
  <2>1. PICK p \in Posts : p = handler[h].post
    BY <1>3 DEF DismissCommit, TypeOK, HandlersTyped
  <2> DEFINE row == [post[p] EXCEPT !.count = 0]
  <2>2. row.status = post[p].status /\ row.count = 0
        /\ row.hiddenBy = post[p].hiddenBy
    BY DEF TypeOK, PostRow
  <2>3. handler'[h].at # "reportCounted" /\ OthersKeep(h)
    BY <1>3, FindsFrame, FinishesFrame DEF DismissCommit, RowGone, TypeOK
  <2>4. CASE UNCHANGED dbVars
    BY <2>3, <2>4, NotCounting, EvidenceReadingStep
  <2>5. CASE ReportsDismissed(p, handler[h].rows)
    <3>1. Updates(p, row)
      BY <2>5 DEF ReportsDismissed
    <3>2. \A q \in Posts, m \in Members :
             report[q][m] # "none" => report'[q][m] # "none"
      BY <2>5 DEF ReportsDismissed, Dismissed, TypeOK
    <3>3. \A q \in Posts : FiledRows(q) \subseteq FiledRows(q)'
      BY <3>2 DEF FiledRows
    <3> HIDE DEF row
    <3> QED
      BY <2>2, <2>3, <3>1, <3>3, EvidenceUpdatingStep
  <2> QED
    BY <1>3, <2>1, <2>4, <2>5 DEF DismissCommit, RowGone
<1>4. CASE UnhideWrite(h) \/ PatchWrite(h)
  <2>1. PICK p \in Posts : p = handler[h].post
    BY <1>4 DEF UnhideWrite, PatchWrite, TypeOK, HandlersTyped
  <2>2. post[p] \in PostRow
    BY DEF TypeOK
  <2>3. Finishes(h) /\ UNCHANGED report
    BY <1>4 DEF UnhideWrite, PatchWrite, RowGone, dbVars
  <2>4. handler'[h].at # "reportCounted" /\ OthersKeep(h)
    BY <2>3, FinishesFrame DEF TypeOK
  <2>5. \A q \in Posts : FiledRows(q) \subseteq FiledRows(q)'
    BY <2>3 DEF FiledRows
  <2>6. CASE UNCHANGED post
    BY <2>3, <2>4, <2>6, NotCounting, EvidenceReadingStep DEF dbVars
  <2>7. ASSUME NEW hiddenBy \in {post[p].hiddenBy, "none", "ADMIN"}, NEW text, NEW exempt,
               \/ Updates(p, [post[p] EXCEPT !.hiddenBy = hiddenBy, !.text = text,
                                             !.exempt = exempt])
               \/ Updates(p, [post[p] EXCEPT !.hiddenBy = hiddenBy,
                                             !.exempt = exempt])
        PROVE  EvidenceInv'
    <3> DEFINE row1 == [post[p] EXCEPT !.hiddenBy = hiddenBy, !.text = text,
                                       !.exempt = exempt]
               row2 == [post[p] EXCEPT !.hiddenBy = hiddenBy, !.exempt = exempt]
    <3>1. /\ row1.status = post[p].status /\ row1.count = post[p].count
          /\ row1.hiddenBy = hiddenBy
          /\ row2.status = post[p].status /\ row2.count = post[p].count
          /\ row2.hiddenBy = hiddenBy
      BY <2>2 DEF PostRow
    <3>2. Updates(p, row1) \/ Updates(p, row2)
      BY <2>7
    <3> HIDE DEF row1, row2
    <3> QED
      BY <2>4, <2>5, <3>1, <3>2, EvidenceUpdatingStep
  <2> QED
    BY <1>4, <2>1, <2>6, <2>7 DEF UnhideWrite, PatchWrite, RowGone, dbVars
<1> QED
  BY <1>1, <1>2, <1>3, <1>4

LEMMA RemovalEvidence ==
  ASSUME TypeOK, TypeOK', EvidenceInv, NEW h \in Handlers,
         \/ \E p \in Posts : RemoveRead(h, p) \/ ImageRead(h, p)
         \/ RemoveCommit(h) \/ RemoveEnqueue(h) \/ RemoveUnlink(h)
         \/ ImageDelete(h) \/ ImageUnlink(h)
  PROVE  EvidenceInv'
<1>1. ASSUME NEW p \in Posts, RemoveRead(h, p) \/ ImageRead(h, p)
      PROVE  EvidenceInv'
  <2>0. PICK at \in {"removeRead", "imageRead"} : \E keys : Opens(h, at, p, keys)
    BY <1>1 DEF RemoveRead, ImageRead
  <2>1. PICK keys : Opens(h, at, p, keys)
    BY <2>0
  <2>2. handler'[h].at = at /\ OthersKeep(h) /\ UNCHANGED dbVars
    BY <2>1, BeginsFrame DEF Opens, TypeOK
  <2> QED
    BY <2>2, NotCounting, EvidenceReadingStep
<1>2. CASE RemoveEnqueue(h) \/ RemoveUnlink(h) \/ ImageUnlink(h)
  <2>1. handler'[h].at # "reportCounted" /\ OthersKeep(h) /\ UNCHANGED dbVars
    BY <1>2, GoesFrame, FinishesFrame
    DEF RemoveEnqueue, RemoveUnlink, ImageUnlink, TypeOK
  <2> QED
    BY <2>1, NotCounting, EvidenceReadingStep
<1>3. CASE RemoveCommit(h) \/ ImageDelete(h)
  <2>1. PICK p \in Posts : p = handler[h].post
    BY <1>3 DEF RemoveCommit, ImageDelete, TypeOK, HandlersTyped
  <2>2. post[p] \in PostRow
    BY DEF TypeOK
  <2>3. /\ UNCHANGED report
        /\ Finishes(h) \/ Goes(h, "removed") \/ Goes(h, "imageDeleted")
    BY <1>3 DEF RemoveCommit, ImageDelete, RowGone, dbVars
  <2>4. handler'[h].at # "reportCounted" /\ OthersKeep(h)
    BY <2>3, GoesFrame, FinishesFrame DEF TypeOK
  <2>5. \A q \in Posts : FiledRows(q) \subseteq FiledRows(q)'
    BY <2>3 DEF FiledRows
  <2>6. CASE UNCHANGED post
    BY <2>3, <2>4, <2>6, NotCounting, EvidenceReadingStep DEF dbVars
  <2>7. ASSUME NEW by, Updates(p, Stub(post[p], by))
        PROVE  EvidenceInv'
    BY <2>2, <2>4, <2>5, <2>7, StubFields, EvidenceUpdatingStep
  <2>8. CASE Updates(p, [post[p] EXCEPT !.images = FALSE])
    <3> DEFINE row == [post[p] EXCEPT !.images = FALSE]
    <3>1. row.status = post[p].status /\ row.count = post[p].count
          /\ row.hiddenBy = post[p].hiddenBy
      BY <2>2 DEF PostRow
    <3>2. Updates(p, row)
      BY <2>8
    <3> HIDE DEF row
    <3> QED
      BY <2>4, <2>5, <3>1, <3>2, EvidenceUpdatingStep
  <2> QED
    BY <1>3, <2>1, <2>6, <2>7, <2>8 DEF RemoveCommit, ImageDelete, RowGone, dbVars
<1> QED
  BY <1>1, <1>2, <1>3

LEMMA ShareEvidence ==
  ASSUME TypeOK, TypeOK', EvidenceInv, NEW h \in Handlers,
         \/ \E p \in Posts : ShareStore(h, p)
         \/ ShareCreate(h) \/ ShareRollback(h) \/ ShareEnqueue(h)
         \/ RequestFails(h)
  PROVE  EvidenceInv'
<1>1. CASE ShareCreate(h)
  <2>1. PICK p \in Posts : p = handler[h].post
    BY <1>1 DEF ShareCreate, TypeOK, HandlersTyped
  <2>2. PICK kind \in PostKinds :
          Updates(p, [BlankRow("live") EXCEPT !.text = TRUE, !.html = kind.html,
                                              !.images = kind.images])
    BY <1>1, <2>1 DEF ShareCreate
  <2> DEFINE row == [BlankRow("live") EXCEPT !.text = TRUE, !.html = kind.html,
                                              !.images = kind.images]
  <2>3. row.status = "live" /\ row.count = 0 /\ row.hiddenBy = "none"
    BY DEF BlankRow
  <2>4. handler'[h].at # "reportCounted" /\ OthersKeep(h)
    <3>1. Goes(h, "shared") /\ "shared" # "reportCounted"
      BY <1>1 DEF ShareCreate
    <3> QED
      BY <3>1, GoesFrame DEF TypeOK
  <2>5. \A q \in Posts : FiledRows(q) \subseteq FiledRows(q)'
    BY <1>1 DEF FiledRows, ShareCreate
  <2>6. Updates(p, row)
    BY <2>2
  <2> HIDE DEF row
  <2> QED
    BY <2>3, <2>4, <2>5, <2>6, EvidenceUpdatingStep
<1>2. ASSUME NEW p \in Posts, ShareStore(h, p)
      PROVE  EvidenceInv'
  <2>1. handler'[h].at # "reportCounted" /\ OthersKeep(h) /\ UNCHANGED dbVars
    BY <1>2, BeginsFrame DEF ShareStore, TypeOK
  <2> QED
    BY <2>1, NotCounting, EvidenceReadingStep
<1>3. CASE ShareRollback(h) \/ ShareEnqueue(h) \/ RequestFails(h)
  <2>1. handler'[h].at # "reportCounted" /\ OthersKeep(h) /\ UNCHANGED dbVars
    BY <1>3, FinishesFrame DEF ShareRollback, ShareEnqueue, RequestFails, TypeOK
  <2> QED
    BY <2>1, NotCounting, EvidenceReadingStep
<1> QED
  BY <1>1, <1>2, <1>3

\* A step of a pass, or of time, that leaves the requests alone.
LEMMA EvidencePassStep ==
  ASSUME TypeOK, TypeOK', EvidenceInv, UNCHANGED handler, UNCHANGED report,
         \A p \in Posts :
            /\ post'[p].status = "pruned" => post[p].status = "pruned"
            /\ post'[p].count = post[p].count
            /\ post'[p].hiddenBy = post[p].hiddenBy
  PROVE  EvidenceInv'
<1>1. \A p \in Posts : FiledRows(p)' = FiledRows(p)
  BY DEF FiledRows
<1>2. CountsAreFiled'
  <2> SUFFICES ASSUME NEW h \in Handlers PROVE CountIsFiled(h)'
    BY DEF CountsAreFiled
  <2>1. CountIsFiled(h)
    BY DEF EvidenceInv, CountsAreFiled
  <2>2. handler[h].at = "reportCounted" => handler[h].post \in Posts
    BY DEF TypeOK, HandlersTyped
  <2> QED
    BY <1>1, <2>1, <2>2 DEF CountIsFiled
<1>3. SystemHideHasEvidence' /\ CountWithinFiled'
  BY <1>1, EvidenceKept DEF EvidenceInv, SystemHideHasEvidence, CountWithinFiled
<1> QED
  BY <1>2, <1>3 DEF EvidenceInv

LEMMA JobEvidence ==
  ASSUME TypeOK, TypeOK', EvidenceInv, NEW j \in Jobs, JobStart(j) \/ JobStep(j)
  PROVE  EvidenceInv'
<1>1. CASE UNCHANGED post /\ UNCHANGED report /\ UNCHANGED handler
  BY <1>1, EvidencePassStep
<1>2. CASE JobExpire(j)
  <2>1. PICK p \in job[j].todo :
          Updates(p, Stub(post[p], "RETENTION")) \/ UNCHANGED post
    BY <1>2 DEF JobExpire
  <2>2. p \in Posts /\ post[p] \in PostRow
    BY <2>1 DEF TypeOK, JobState
  <2>3. UNCHANGED report /\ UNCHANGED handler
    BY <1>2 DEF JobExpire
  <2>4. CASE Updates(p, Stub(post[p], "RETENTION"))
    <3>1. \A q \in Posts :
            /\ post'[q].status = "pruned" => post[q].status = "pruned"
            /\ post'[q].count = post[q].count
            /\ post'[q].hiddenBy = post[q].hiddenBy
      BY <2>2, <2>4, UpdatesFrame, StubFields DEF TypeOK
    <3> QED
      BY <2>3, <3>1, EvidencePassStep
  <2> QED
    BY <1>1, <2>1, <2>3, <2>4
<1>3. CASE JobPrune(j)
  <2>1. /\ UNCHANGED handler
        /\ \A h \in ReportDesk : handler[h].at = "reportCounted"
              => handler[h].post \notin {p \in Posts : Prunable(p)}
        /\ \A p \in Posts : IF Prunable(p)
             THEN post'[p] = BlankRow("pruned")
                  /\ report'[p] = [m \in Members |-> "none"]
             ELSE post'[p] = post[p] /\ report'[p] = report[p]
    BY <1>3 DEF JobPrune
  <2>2. \A p \in Posts : Prunable(p) =>
           post'[p].count = 0 /\ post'[p].hiddenBy = "none" /\ FiledRows(p)' = {}
    BY <2>1 DEF BlankRow, FiledRows
  <2>3. \A p \in Posts : ~Prunable(p) =>
           post'[p] = post[p] /\ FiledRows(p)' = FiledRows(p)
    BY <2>1 DEF FiledRows
  <2>4. CountsAreFiled'
    <3> SUFFICES ASSUME NEW h \in Handlers, handler[h].at = "reportCounted"
                 PROVE CountIsFiled(h)'
      BY <2>1 DEF CountsAreFiled, CountIsFiled
    <3>1. CountIsFiled(h) /\ handler[h].post \in Posts /\ h \in ReportDesk
      BY DEF EvidenceInv, CountsAreFiled, TypeOK, HandlersTyped
    <3>2. ~Prunable(handler[h].post)
      BY <2>1, <3>1
    <3> QED
      BY <2>1, <2>3, <3>1, <3>2 DEF CountIsFiled
  <2>5. SystemHideHasEvidence'
    BY <2>2, <2>3 DEF EvidenceInv, SystemHideHasEvidence
  <2>6. CountWithinFiled'
    <3> SUFFICES ASSUME NEW p \in Posts
                 PROVE  post'[p].count <= Cardinality(FiledRows(p)')
      BY DEF CountWithinFiled
    <3>1. Cardinality({}) = 0
      BY FS_EmptySet
    <3>2. CASE Prunable(p)
      BY <2>2, <3>1, <3>2
    <3>3. CASE ~Prunable(p)
      BY <2>3, <3>3 DEF EvidenceInv, CountWithinFiled
    <3> QED
      BY <3>2, <3>3
  <2> QED
    BY <2>4, <2>5, <2>6 DEF EvidenceInv
<1>4. ASSUME \/ JobStart(j) \/ JobRead(j) \/ JobUnlink(j) \/ JobExpired(j)
             \/ JobSweep(j) \/ JobFails(j) \/ JobRelease(j) \/ JobReleaseFails(j)
      PROVE  UNCHANGED post /\ UNCHANGED report /\ UNCHANGED handler
  BY <1>4 DEF JobStart, JobRead, JobUnlink, JobExpired, JobSweep, JobFails,
     JobRelease, JobReleaseFails, dbVars
<1> QED
  BY <1>1, <1>2, <1>3, <1>4 DEF JobStep

LEMMA TimeEvidence ==
  ASSUME TypeOK, TypeOK', EvidenceInv,
         \/ \E p \in Posts : PostAges(p) \/ FileAges(p)
         \/ ClaimGoesStale
         \/ Crash
  PROVE  EvidenceInv'
<1>1. ASSUME NEW p \in Posts, PostAges(p)
      PROVE  EvidenceInv'
  <2> DEFINE row == [post[p] EXCEPT !.age = "old"]
  <2>1. row.status = post[p].status /\ row.count = post[p].count
        /\ row.hiddenBy = post[p].hiddenBy
    BY DEF TypeOK, PostRow
  <2>2. Updates(p, row) /\ UNCHANGED handler /\ UNCHANGED report
    BY <1>1 DEF PostAges
  <2> HIDE DEF row
  <2>3. post'[p] = row /\ \A q \in Posts \ {p} : post'[q] = post[q]
    BY <2>2, UpdatesFrame DEF TypeOK
  <2> QED
    BY <2>1, <2>2, <2>3, EvidencePassStep
<1>2. ASSUME NEW p \in Posts, FileAges(p)
      PROVE  EvidenceInv'
  BY <1>2, EvidencePassStep DEF FileAges, dbVars
<1>3. CASE ClaimGoesStale
  BY <1>3, EvidencePassStep DEF ClaimGoesStale, dbVars
<1>4. CASE Crash
  <2>1. \A h \in Handlers : handler'[h].at # "reportCounted"
    BY <1>4 DEF Crash, Idle
  <2>2. UNCHANGED post /\ UNCHANGED report
    BY <1>4 DEF Crash, dbVars
  <2> QED
    BY <2>1, <2>2 DEF EvidenceInv, CountsAreFiled, CountIsFiled,
       SystemHideHasEvidence, CountWithinFiled, FiledRows
<1> QED
  BY <1>1, <1>2, <1>3, <1>4

LEMMA InitEvidence == Init => EvidenceInv
<1> SUFFICES ASSUME Init PROVE EvidenceInv
  OBVIOUS
<1>1. \A p \in Posts : FiledRows(p) = {}
  BY DEF Init, FiledRows
<1>2. \A p \in Posts : post[p].count = 0 /\ post[p].hiddenBy = "none"
  BY DEF Init, BlankRow
<1>3. CountsAreFiled
  BY DEF Init, CountsAreFiled, CountIsFiled, Idle
<1>4. Cardinality({}) = 0
  BY FS_EmptySet
<1>5. SystemHideHasEvidence
  BY <1>2 DEF SystemHideHasEvidence
<1>6. CountWithinFiled
  BY <1>1, <1>2, <1>4 DEF CountWithinFiled
<1> QED
  BY <1>3, <1>5, <1>6 DEF EvidenceInv

LEMMA NextEvidence == TypeOK /\ TypeOK' /\ EvidenceInv /\ [Next]_vars => EvidenceInv'
<1> SUFFICES ASSUME TypeOK, TypeOK', EvidenceInv, [Next]_vars PROVE EvidenceInv'
  OBVIOUS
<1>1. ASSUME NEW h \in Handlers,
             HandlerOpens(h) \/ HandlerContinues(h) \/ RequestFails(h)
      PROVE  EvidenceInv'
  BY <1>1, ReportEvidence, ConsoleEvidence, RemovalEvidence, ShareEvidence
  DEF HandlerOpens, HandlerContinues
<1>2. ASSUME NEW j \in Jobs, JobStart(j) \/ JobStep(j)
      PROVE  EvidenceInv'
  BY <1>2, JobEvidence
<1>3. CASE UNCHANGED vars
  BY <1>3 DEF vars, EvidenceInv, CountsAreFiled, CountIsFiled,
     SystemHideHasEvidence, CountWithinFiled, FiledRows
<1> QED
  BY <1>1, <1>2, <1>3, TimeEvidence DEF Next

LEMMA EvidenceInvariant == Spec => []EvidenceInv
  BY InitEvidence, NextEvidence, TypeCorrect, PTL DEF Spec

\* The SYSTEM hides a post only on reports by enough members of enough clubs,
\* for every number of overlapping reports, retries and dismissals.
THEOREM AutoHideHasEvidence == Spec => []SystemHideHasEvidence
  BY EvidenceInvariant, PTL DEF EvidenceInv

\* The cached count never exceeds the reports ever filed on the post.
THEOREM CountNeverExceedsFiled == Spec => []CountWithinFiled
  BY EvidenceInvariant, PTL DEF EvidenceInv

-----------------------------------------------------------------------------
(***************************************************************************)
(* The life of a post: the table implements PostLifecycle.                 *)
(***************************************************************************)

\* What one step may do to one row.
RowMoves(p) ==
    \/ post'[p].status = post[p].status
    \/ post[p].status \in {"live", "removed"} /\ post'[p].status = "removed"
    \/ /\ post[p].status = "absent"
       /\ post'[p].status = "live" /\ post'[p].hiddenBy = "none"

\* What one step may do to the table: nothing, move one row, or prune stubs
\* along with what was queued for them.
TableStep ==
    \/ UNCHANGED post
    \/ \E p \in Posts : RowMoves(p) /\ \A q \in Posts \ {p} : post'[q] = post[q]
    \/ \E S \in SUBSET Posts : \A p \in Posts :
          IF p \in S THEN /\ post[p].status = "removed"
                          /\ post'[p].status = "pruned" /\ queue'[p] = {}
                     ELSE post'[p] = post[p]

LEMMA UpdateMoves ==
  ASSUME TypeOK, NEW p \in Posts, NEW row, Updates(p, row),
         \/ row.status = post[p].status
         \/ post[p].status \in {"live", "removed"} /\ row.status = "removed"
         \/ /\ post[p].status = "absent"
            /\ row.status = "live" /\ row.hiddenBy = "none"
  PROVE  TableStep
<1>1. post'[p] = row /\ \A q \in Posts \ {p} : post'[q] = post[q]
  BY UpdatesFrame DEF TypeOK
<1> QED
  BY <1>1 DEF TableStep, RowMoves

LEMMA RequestTableStep ==
  ASSUME TypeOK, FilesInv, NEW h \in Handlers,
         HandlerOpens(h) \/ HandlerContinues(h) \/ RequestFails(h)
  PROVE  TableStep
<1>1. CASE UNCHANGED post
  BY <1>1 DEF TableStep
<1>2. CASE \/ HandlerOpens(h) \/ RequestFails(h) \/ ReportInsert(h)
           \/ DismissRows(h) \/ RemoveEnqueue(h) \/ RemoveUnlink(h)
           \/ ImageUnlink(h) \/ ShareRollback(h) \/ ShareEnqueue(h)
  <2>1. UNCHANGED post
    BY <1>2 DEF HandlerOpens, RequestFails, ReportRead, DismissRead, UnhideRead,
       PatchRead, RemoveRead, ImageRead, ShareStore, ReportInsert, DismissRows,
       RemoveEnqueue, RemoveUnlink, ImageUnlink, ShareRollback, ShareEnqueue,
       Opens, dbVars
  <2> QED
    BY <1>1, <2>1
<1>3. ASSUME NEW q \in Posts, q = handler[h].post,
             \/ ReportCommit(h) \/ DismissCommit(h) \/ UnhideWrite(h)
             \/ PatchWrite(h) \/ RemoveCommit(h) \/ ImageDelete(h)
      PROVE  TableStep
  <2>1. post[q] \in PostRow /\ post[q].status # "absent"
    BY <1>3, WriterKnows DEF ReportCommit, DismissCommit, UnhideWrite, PatchWrite,
       RemoveCommit, ImageDelete
  <2>2. ASSUME NEW n, NEW hiddenBy,
               \/ Updates(q, [post[q] EXCEPT !.count = n, !.hiddenBy = hiddenBy])
               \/ Updates(q, [post[q] EXCEPT !.count = n])
        PROVE  TableStep
    <3> DEFINE row1 == [post[q] EXCEPT !.count = n, !.hiddenBy = hiddenBy]
               row2 == [post[q] EXCEPT !.count = n]
    <3>1. row1.status = post[q].status /\ row2.status = post[q].status
      BY <2>1 DEF PostRow
    <3>2. Updates(q, row1) \/ Updates(q, row2)
      BY <2>2
    <3> HIDE DEF row1, row2
    <3> QED
      BY <3>1, <3>2, UpdateMoves
  <2>3. ASSUME NEW hiddenBy, NEW text, NEW exempt,
               \/ Updates(q, [post[q] EXCEPT !.hiddenBy = hiddenBy, !.text = text,
                                             !.exempt = exempt])
               \/ Updates(q, [post[q] EXCEPT !.hiddenBy = hiddenBy,
                                             !.exempt = exempt])
        PROVE  TableStep
    <3> DEFINE row1 == [post[q] EXCEPT !.hiddenBy = hiddenBy, !.text = text,
                                       !.exempt = exempt]
               row2 == [post[q] EXCEPT !.hiddenBy = hiddenBy, !.exempt = exempt]
    <3>1. row1.status = post[q].status /\ row2.status = post[q].status
      BY <2>1 DEF PostRow
    <3>2. Updates(q, row1) \/ Updates(q, row2)
      BY <2>3
    <3> HIDE DEF row1, row2
    <3> QED
      BY <3>1, <3>2, UpdateMoves
  <2>4. ASSUME NEW by, Updates(q, Stub(post[q], by)), post[q].status # "pruned"
        PROVE  TableStep
    <3>1. Stub(post[q], by).status = "removed"
      BY <2>1, StubFields
    <3>2. post[q].status \in {"live", "removed"}
      BY <2>1, <2>4 DEF PostRow
    <3> QED
      BY <2>4, <3>1, <3>2, UpdateMoves
  <2>5. CASE Updates(q, [post[q] EXCEPT !.images = FALSE])
    <3> DEFINE row == [post[q] EXCEPT !.images = FALSE]
    <3>1. row.status = post[q].status
      BY <2>1 DEF PostRow
    <3>2. Updates(q, row)
      BY <2>5
    <3> HIDE DEF row
    <3> QED
      BY <3>1, <3>2, UpdateMoves
  <2>6. CASE ReportCommit(h)
    BY <1>3, <2>2, <2>6 DEF ReportCommit
  <2>7. CASE DismissCommit(h)
    BY <1>1, <1>3, <2>2, <2>7 DEF DismissCommit, ReportsDismissed, RowGone, dbVars
  <2>8. CASE UnhideWrite(h) \/ PatchWrite(h)
    BY <1>1, <1>3, <2>3, <2>8 DEF UnhideWrite, PatchWrite, RowGone, dbVars
  <2>9. CASE RemoveCommit(h)
    BY <1>1, <1>3, <2>4, <2>9 DEF RemoveCommit, RowGone, dbVars
  <2>10. CASE ImageDelete(h)
    BY <1>1, <1>3, <2>5, <2>10 DEF ImageDelete
  <2> QED
    BY <1>3, <2>6, <2>7, <2>8, <2>9, <2>10
<1>4. CASE ShareCreate(h)
  <2>1. PICK q \in Posts : q = handler[h].post /\ post[q].status = "absent"
    BY <1>4 DEF ShareCreate, TypeOK, HandlersTyped, FilesInv, RequestsKnowTheirRow,
       RequestKnowsItsRow
  <2>2. PICK kind \in PostKinds :
          Updates(q, [BlankRow("live") EXCEPT !.text = TRUE, !.html = kind.html,
                                              !.images = kind.images])
    BY <1>4, <2>1 DEF ShareCreate
  <2> DEFINE row == [BlankRow("live") EXCEPT !.text = TRUE, !.html = kind.html,
                                              !.images = kind.images]
  <2>3. row.status = "live" /\ row.hiddenBy = "none"
    BY DEF BlankRow
  <2>4. Updates(q, row)
    BY <2>2
  <2> HIDE DEF row
  <2> QED
    BY <2>1, <2>3, <2>4, UpdateMoves
<1>5. handler[h].post \in Posts \/ HandlerOpens(h)
        \/ handler[h].at = "idle"
  BY DEF TypeOK, HandlersTyped
<1>6. handler[h].at = "idle" => ~HandlerContinues(h)
  BY DEF HandlerContinues, ReportInsert, ReportCommit, DismissRows, DismissCommit,
     UnhideWrite, PatchWrite, RemoveCommit, RemoveEnqueue, RemoveUnlink,
     ImageDelete, ImageUnlink, ShareCreate, ShareRollback, ShareEnqueue
<1> QED
  BY <1>2, <1>3, <1>4, <1>5, <1>6 DEF HandlerContinues

LEMMA PassTableStep ==
  ASSUME TypeOK, FilesInv, NEW j \in Jobs, JobStart(j) \/ JobStep(j)
  PROVE  TableStep
<1>1. CASE UNCHANGED post
  BY <1>1 DEF TableStep
<1>2. CASE JobExpire(j)
  <2>1. PICK p \in job[j].todo :
          \/ post[p].status # "pruned" /\ Updates(p, Stub(post[p], "RETENTION"))
          \/ UNCHANGED post
    BY <1>2 DEF JobExpire
  <2>2. p \in Posts /\ post[p] \in PostRow /\ post[p].status # "absent"
    BY <2>1 DEF TypeOK, JobState, FilesInv, PassesKnowTheirRows, PassKnowsItsRows
  <2>3. Stub(post[p], "RETENTION").status = "removed"
    BY <2>2, StubFields
  <2>4. post[p].status \in {"live", "removed", "pruned"}
    BY <2>2 DEF PostRow
  <2> QED
    BY <1>1, <2>1, <2>2, <2>3, <2>4, UpdateMoves
<1>3. CASE JobPrune(j)
  <2> DEFINE S == {p \in Posts : Prunable(p)}
  <2>1. \A p \in Posts : IF p \in S THEN post'[p] = BlankRow("pruned") /\ queue'[p] = {}
                                    ELSE post'[p] = post[p]
    BY <1>3 DEF JobPrune
  <2>2. \A p \in Posts :
          IF p \in S THEN /\ post[p].status = "removed"
                          /\ post'[p].status = "pruned" /\ queue'[p] = {}
                     ELSE post'[p] = post[p]
    BY <2>1 DEF Prunable, BlankRow
  <2>3. S \in SUBSET Posts
    OBVIOUS
  <2> HIDE DEF S
  <2> QED
    BY <2>2, <2>3 DEF TableStep
<1>4. ASSUME \/ JobStart(j) \/ JobRead(j) \/ JobUnlink(j) \/ JobExpired(j)
             \/ JobSweep(j) \/ JobFails(j) \/ JobRelease(j) \/ JobReleaseFails(j)
      PROVE  UNCHANGED post
  BY <1>4 DEF JobStart, JobRead, JobUnlink, JobExpired, JobSweep, JobFails,
     JobRelease, JobReleaseFails, dbVars
<1> QED
  BY <1>1, <1>2, <1>3, <1>4 DEF JobStep

LEMMA NextTableStep ==
  ASSUME TypeOK, FilesInv, [Next]_vars
  PROVE  TableStep
<1>1. ASSUME NEW p \in Posts, PostAges(p)
      PROVE  TableStep
  <2> DEFINE row == [post[p] EXCEPT !.age = "old"]
  <2>1. row.status = post[p].status
    BY DEF TypeOK, PostRow
  <2>2. Updates(p, row)
    BY <1>1 DEF PostAges
  <2> HIDE DEF row
  <2> QED
    BY <2>1, <2>2, UpdateMoves
<1>2. ASSUME \/ \E p \in Posts : FileAges(p)
             \/ ClaimGoesStale \/ Crash \/ UNCHANGED vars
      PROVE  UNCHANGED post
  BY <1>2 DEF FileAges, ClaimGoesStale, Crash, vars, dbVars
<1>3. CASE UNCHANGED post
  BY <1>3 DEF TableStep
<1> QED
  BY <1>1, <1>2, <1>3, RequestTableStep, PassTableStep DEF Next

LEMMA InitRefines == Init => Lifecycle!Init
  BY DEF Init, Lifecycle!Init, phase, PhaseOf, BlankRow

LEMMA PhaseAt ==
  ASSUME NEW p \in Posts
  PROVE  phase[p] = PhaseOf(post[p]) /\ phase'[p] = PhaseOf(post'[p])
  BY DEF phase, PhaseOf

LEMMA StepRefines ==
  ASSUME TypeOK, TypeOK', TableStep
  PROVE  [Lifecycle!Next]_phase
<1>t. post \in [Posts -> PostRow] /\ post' \in [Posts -> PostRow]
  BY DEF TypeOK
<1>f. phase = [p \in Posts |-> phase[p]] /\ phase' = [p \in Posts |-> phase'[p]]
  BY DEF phase
<1>1. CASE UNCHANGED post
  BY <1>1 DEF phase, PhaseOf
<1>2. ASSUME NEW p \in Posts, RowMoves(p),
             \A q \in Posts \ {p} : post'[q] = post[q]
      PROVE  [Lifecycle!Next]_phase
  <2>1. \A q \in Posts \ {p} : phase'[q] = phase[q]
    BY <1>2, PhaseAt
  <2>2. phase' = [phase EXCEPT ![p] = phase'[p]]
    BY <1>f, <2>1
  <2>3. /\ post[p].status \in {"absent", "live", "removed", "pruned"}
        /\ post'[p].status \in {"absent", "live", "removed", "pruned"}
    BY <1>t DEF PostRow
  <2>4. \/ phase'[p] = phase[p]
        \/ phase[p] = "absent" /\ phase'[p] = "visible"
        \/ phase[p] = "visible" /\ phase'[p] = "hidden"
        \/ phase[p] = "hidden" /\ phase'[p] = "visible"
        \/ phase[p] \in {"visible", "hidden"} /\ phase'[p] = "removed"
    BY <1>2, <2>3, PhaseAt DEF RowMoves, PhaseOf
  <2>5. CASE phase'[p] = phase[p]
    BY <1>f, <2>1, <2>5
  <2>6. CASE phase'[p] # phase[p]
    <3>1. \/ Lifecycle!Share(p) \/ Lifecycle!Hide(p)
          \/ Lifecycle!Show(p) \/ Lifecycle!Remove(p)
      BY <2>2, <2>4, <2>6 DEF Lifecycle!Share, Lifecycle!Hide, Lifecycle!Show,
         Lifecycle!Remove, Lifecycle!Move
    <3> QED
      BY <3>1 DEF Lifecycle!Next
  <2> QED
    BY <2>5, <2>6
<1>3. ASSUME NEW S \in SUBSET Posts,
             \A p \in Posts :
               IF p \in S THEN post[p].status = "removed" /\ post'[p].status = "pruned"
                          ELSE post'[p] = post[p]
      PROVE  [Lifecycle!Next]_phase
  <2>1. \A p \in Posts : p \in S => phase[p] = "removed" /\ phase'[p] = "gone"
    BY <1>3, PhaseAt DEF PhaseOf
  <2>2. \A p \in Posts : p \notin S => phase'[p] = phase[p]
    BY <1>3, PhaseAt
  <2>3. phase' = [p \in Posts |-> IF p \in S THEN "gone" ELSE phase[p]]
    BY <1>f, <2>1, <2>2
  <2>4. Lifecycle!Prune(S)
    BY <2>1, <2>3 DEF Lifecycle!Prune
  <2> QED
    BY <2>4 DEF Lifecycle!Next
<1> QED
  BY <1>1, <1>2, <1>3 DEF TableStep

\* The table implements the abstract life of a post: nothing visible or hidden
\* is ever deleted, only stubs are, and a removed post never comes back.
THEOREM TableImplementsLifecycle == Spec => ImplementsLifecycle
<1>1. TypeOK /\ TypeOK' /\ FilesInv /\ [Next]_vars => [Lifecycle!Next]_phase
  BY NextTableStep, StepRefines
<1> QED
  BY <1>1, InitRefines, TypeCorrect, FilesInvariant, PTL
  DEF Spec, ImplementsLifecycle, Lifecycle!Spec

-----------------------------------------------------------------------------
(***************************************************************************)
(* Withdrawals.                                                            *)
(***************************************************************************)

LEMMA NextWithdrawal ==
  ASSUME TypeOK, FilesInv, WithdrawalFollowsRemoval, [Next]_vars
  PROVE  WithdrawalFollowsRemoval'
<1>1. CASE UNCHANGED queue
  <2>1. TableStep
    BY NextTableStep
  <2> QED
    BY <1>1, <2>1 DEF WithdrawalFollowsRemoval, TableStep, RowMoves
<1>2. ASSUME NEW j \in Jobs, JobPrune(j)
      PROVE  WithdrawalFollowsRemoval'
  <2>1. \A p \in Posts : IF Prunable(p)
           THEN queue'[p] = {}
           ELSE queue'[p] = queue[p] /\ post'[p] = post[p]
    BY <1>2 DEF JobPrune
  <2> QED
    BY <2>1 DEF WithdrawalFollowsRemoval
<1>3. ASSUME NEW h \in Handlers, RemoveEnqueue(h) \/ ShareEnqueue(h)
      PROVE  WithdrawalFollowsRemoval'
  <2>1. UNCHANGED post
    BY <1>3 DEF RemoveEnqueue, ShareEnqueue, dbVars
  <2>2. CASE RemoveEnqueue(h)
    <3>1. handler[h].post \in Posts
          /\ post[handler[h].post].status \in {"removed", "pruned"}
      BY <2>2 DEF RemoveEnqueue, TypeOK, HandlersTyped, FilesInv,
         RequestsKnowTheirRow, RequestKnowsItsRow
    <3>2. \/ UNCHANGED queue
          \/ /\ post[handler[h].post].status # "pruned"
             /\ queue' = [queue EXCEPT ![handler[h].post] = @ \cup {"REMOVED"}]
      BY <2>2 DEF RemoveEnqueue, Enqueued
    <3> QED
      BY <2>1, <3>1, <3>2 DEF WithdrawalFollowsRemoval, TypeOK
  <2>3. CASE ShareEnqueue(h)
    <3>1. \/ UNCHANGED queue
          \/ queue' = [queue EXCEPT ![handler[h].post] = @ \cup {"CREATED"}]
      BY <2>3 DEF ShareEnqueue, Enqueued
    <3> QED
      BY <2>1, <3>1 DEF WithdrawalFollowsRemoval, TypeOK
  <2> QED
    BY <1>3, <2>2, <2>3
<1>4. CASE \/ \E p \in Posts : PostAges(p) \/ FileAges(p)
           \/ ClaimGoesStale \/ Crash \/ UNCHANGED vars
           \/ \E j \in Jobs : JobStart(j) \/ (JobStep(j) /\ ~JobPrune(j))
           \/ \E h \in Handlers :
                 \/ HandlerOpens(h) \/ RequestFails(h)
                 \/ HandlerContinues(h) /\ ~RemoveEnqueue(h) /\ ~ShareEnqueue(h)
  <2>1. ASSUME NEW h \in Handlers,
               \/ HandlerOpens(h) \/ RequestFails(h)
               \/ HandlerContinues(h) /\ ~RemoveEnqueue(h) /\ ~ShareEnqueue(h)
        PROVE  UNCHANGED queue
    BY <2>1 DEF HandlerOpens, HandlerContinues, RequestFails, ReportRead,
       ReportInsert, ReportCommit, DismissRead, UnhideRead, PatchRead,
       DismissRows, DismissCommit, UnhideWrite, PatchWrite, RemoveRead,
       RemoveCommit, RemoveUnlink, ImageRead, ImageDelete, ImageUnlink,
       ShareStore, ShareCreate, ShareRollback, Opens
  <2>2. ASSUME NEW j \in Jobs, JobStart(j) \/ (JobStep(j) /\ ~JobPrune(j))
        PROVE  UNCHANGED queue
    BY <2>2 DEF JobStep, JobStart, JobRead, JobExpire, JobUnlink, JobExpired,
       JobSweep, JobFails, JobRelease, JobReleaseFails
  <2>3. ASSUME \/ \E p \in Posts : PostAges(p) \/ FileAges(p)
               \/ ClaimGoesStale \/ Crash \/ UNCHANGED vars
        PROVE  UNCHANGED queue
    BY <2>3 DEF PostAges, FileAges, ClaimGoesStale, Crash, vars
  <2> QED
    BY <1>1, <1>4, <2>1, <2>2, <2>3
<1> QED
  BY <1>2, <1>3, <1>4 DEF Next, HandlerContinues, JobStep

\* A withdrawal is queued for the mirrors only once the removal is committed.
THEOREM WithdrawalsAreTrue == Spec => []WithdrawalFollowsRemoval
<1>1. Init => WithdrawalFollowsRemoval
  BY DEF Init, WithdrawalFollowsRemoval
<1>2. TypeOK /\ FilesInv /\ WithdrawalFollowsRemoval /\ [Next]_vars
         => WithdrawalFollowsRemoval'
  BY NextWithdrawal
<1> QED
  BY <1>1, <1>2, TypeCorrect, FilesInvariant, PTL DEF Spec

-----------------------------------------------------------------------------
\* All of it together: the invariant the runs check on small instances.
THEOREM Inductive == Spec => []IInv
  BY TypeCorrect, FilesInvariant, EvidenceInvariant, WithdrawalsAreTrue, PTL
  DEF IInv, FilesInv, EvidenceInv

-----------------------------------------------------------------------------
(***************************************************************************)
(* The exemption.  Nothing but a report that had read the post as open to  *)
(* hiding hides it for the system.                                         *)
(***************************************************************************)
NoneHidden == \A p \in Posts : post'[p].hiddenBy = "SYSTEM" => post[p].hiddenBy = "SYSTEM"

HiddenByReport ==
    \E h \in ReportDesk :
      /\ handler[h].post \in Posts /\ handler[h].mayHide
      /\ \A p \in Posts \ {handler[h].post} : post'[p] = post[p]

LEMMA UpdateHidesNone ==
  ASSUME TypeOK, NEW p \in Posts, NEW row, Updates(p, row),
         row.hiddenBy \in {post[p].hiddenBy, "none", "ADMIN"}
  PROVE  NoneHidden
  BY UpdatesFrame DEF TypeOK, NoneHidden

LEMMA ReportHides ==
  ASSUME TypeOK, NEW h \in Handlers, ReportCommit(h)
  PROVE  NoneHidden \/ HiddenByReport
<1> DEFINE p == handler[h].post
<1>1. h \in ReportDesk /\ p \in Posts
  BY DEF TypeOK, HandlersTyped, ReportCommit
<1> DEFINE row == [post[p] EXCEPT !.count = OpenCount(h),
                     !.hiddenBy = IF ShouldHide(h) THEN "SYSTEM" ELSE @]
<1>2. Updates(p, row)
  BY DEF ReportCommit
<1>3. ~ShouldHide(h) => row.hiddenBy = post[p].hiddenBy
  BY <1>1 DEF TypeOK, PostRow
<1> HIDE DEF row
<1>4. CASE ShouldHide(h)
  <2>1. \A q \in Posts \ {p} : post'[q] = post[q]
    BY <1>1, <1>2, UpdatesFrame DEF TypeOK
  <2> QED
    BY <1>1, <1>4, <2>1 DEF ShouldHide, HiddenByReport
<1>5. CASE ~ShouldHide(h)
  BY <1>1, <1>2, <1>3, <1>5, UpdateHidesNone
<1> QED
  BY <1>4, <1>5

LEMMA ConsoleHidesNone ==
  ASSUME TypeOK, NEW h \in Handlers,
         \/ DismissCommit(h) \/ UnhideWrite(h) \/ PatchWrite(h)
         \/ RemoveCommit(h) \/ ImageDelete(h)
  PROVE  NoneHidden
<1> DEFINE p == handler[h].post
<1>1. p \in Posts /\ post[p] \in PostRow
  BY DEF TypeOK, HandlersTyped, DismissCommit, UnhideWrite, PatchWrite, RemoveCommit,
     ImageDelete
<1>2. CASE UNCHANGED post
  BY <1>2 DEF NoneHidden
<1>3. CASE Updates(p, [post[p] EXCEPT !.count = 0])
  <2> DEFINE row == [post[p] EXCEPT !.count = 0]
  <2>1. row.hiddenBy = post[p].hiddenBy
    BY <1>1 DEF PostRow
  <2> HIDE DEF row
  <2> QED
    BY <1>1, <1>3, <2>1, UpdateHidesNone DEF row
<1>4. ASSUME NEW hiddenBy \in {post[p].hiddenBy, "none", "ADMIN"}, NEW text,
             NEW exempt,
             \/ Updates(p, [post[p] EXCEPT !.hiddenBy = hiddenBy, !.text = text,
                                           !.exempt = exempt])
             \/ Updates(p, [post[p] EXCEPT !.hiddenBy = hiddenBy,
                                           !.exempt = exempt])
      PROVE  NoneHidden
  <2> DEFINE row1 == [post[p] EXCEPT !.hiddenBy = hiddenBy, !.text = text,
                                     !.exempt = exempt]
             row2 == [post[p] EXCEPT !.hiddenBy = hiddenBy, !.exempt = exempt]
  <2>1. row1.hiddenBy = hiddenBy /\ row2.hiddenBy = hiddenBy
    BY <1>1 DEF PostRow
  <2>2. Updates(p, row1) \/ Updates(p, row2)
    BY <1>4
  <2> HIDE DEF row1, row2
  <2> QED
    BY <1>1, <2>1, <2>2, UpdateHidesNone
<1>5. ASSUME NEW by, Updates(p, Stub(post[p], by))
      PROVE  NoneHidden
  BY <1>1, <1>5, StubFields, UpdateHidesNone
<1>6. CASE Updates(p, [post[p] EXCEPT !.images = FALSE])
  <2> DEFINE row == [post[p] EXCEPT !.images = FALSE]
  <2>1. row.hiddenBy = post[p].hiddenBy
    BY <1>1 DEF PostRow
  <2> HIDE DEF row
  <2> QED
    BY <1>1, <1>6, <2>1, UpdateHidesNone DEF row
<1>7. CASE DismissCommit(h)
  BY <1>2, <1>3, <1>7 DEF DismissCommit, ReportsDismissed, RowGone, dbVars
<1>8. CASE UnhideWrite(h)
  BY <1>2, <1>4, <1>8 DEF UnhideWrite, RowGone, dbVars
<1>9. CASE PatchWrite(h)
  BY <1>2, <1>4, <1>9 DEF PatchWrite, RowGone, dbVars
<1>10. CASE RemoveCommit(h)
  BY <1>2, <1>5, <1>10 DEF RemoveCommit, RowGone, dbVars
<1>11. CASE ImageDelete(h)
  BY <1>2, <1>6, <1>11 DEF ImageDelete
<1> QED
  BY <1>7, <1>8, <1>9, <1>10, <1>11

LEMMA ShareHidesNone ==
  ASSUME TypeOK, NEW h \in Handlers, ShareCreate(h)
  PROVE  NoneHidden
<1> DEFINE p == handler[h].post
<1>1. p \in Posts
  BY DEF TypeOK, HandlersTyped, ShareCreate
<1>2. PICK kind \in PostKinds :
        Updates(p, [BlankRow("live") EXCEPT !.text = TRUE, !.html = kind.html,
                                            !.images = kind.images])
  BY DEF ShareCreate
<1> DEFINE row == [BlankRow("live") EXCEPT !.text = TRUE, !.html = kind.html,
                                           !.images = kind.images]
<1>3. row.hiddenBy = "none"
  BY DEF BlankRow
<1> HIDE DEF row
<1> QED
  BY <1>1, <1>2, <1>3, UpdateHidesNone DEF row

LEMMA PassHidesNone ==
  ASSUME TypeOK, NEW j \in Jobs, JobStart(j) \/ JobStep(j)
  PROVE  NoneHidden
<1>1. CASE JobExpire(j)
  <2>1. PICK p \in job[j].todo :
          Updates(p, Stub(post[p], "RETENTION")) \/ UNCHANGED post
    BY <1>1 DEF JobExpire
  <2>2. p \in Posts /\ post[p] \in PostRow
    BY DEF TypeOK, JobState
  <2> QED
    BY <2>1, <2>2, StubFields, UpdateHidesNone DEF NoneHidden
<1>2. CASE JobPrune(j)
  BY <1>2 DEF JobPrune, BlankRow, NoneHidden
<1>3. ASSUME \/ JobStart(j) \/ JobRead(j) \/ JobUnlink(j) \/ JobExpired(j)
             \/ JobSweep(j) \/ JobFails(j) \/ JobRelease(j) \/ JobReleaseFails(j)
      PROVE  UNCHANGED post
  BY <1>3 DEF JobStart, JobRead, JobUnlink, JobExpired, JobSweep, JobFails,
     JobRelease, JobReleaseFails, dbVars
<1> QED
  BY <1>1, <1>2, <1>3 DEF JobStep, NoneHidden

\* An exempt post stays out of the threshold's reach, as soon as no report is in
\* flight that had read it before the exemption (autoHideExempt).
THEOREM ExemptionIsKept == Spec => ExemptionHolds
<1>1. ASSUME TypeOK, [Next]_vars
      PROVE  NoneHidden \/ HiddenByReport
  <2>1. CASE UNCHANGED post
    BY <2>1 DEF NoneHidden
  <2>2. ASSUME NEW h \in Handlers,
               \/ HandlerOpens(h) \/ RequestFails(h) \/ ReportInsert(h)
               \/ DismissRows(h) \/ RemoveEnqueue(h) \/ RemoveUnlink(h)
               \/ ImageUnlink(h) \/ ShareRollback(h) \/ ShareEnqueue(h)
        PROVE  UNCHANGED post
    BY <2>2 DEF HandlerOpens, RequestFails, ReportRead, DismissRead, UnhideRead,
       PatchRead, RemoveRead, ImageRead, ShareStore, ReportInsert, DismissRows,
       RemoveEnqueue, RemoveUnlink, ImageUnlink, ShareRollback, ShareEnqueue,
       Opens, dbVars
  <2>3. ASSUME NEW p \in Posts, PostAges(p)
        PROVE  NoneHidden
    <3> DEFINE row == [post[p] EXCEPT !.age = "old"]
    <3>1. row.hiddenBy = post[p].hiddenBy
      BY <1>1 DEF TypeOK, PostRow
    <3>2. Updates(p, row)
      BY <2>3 DEF PostAges
    <3> HIDE DEF row
    <3> QED
      BY <1>1, <3>1, <3>2, UpdateHidesNone
  <2>4. ASSUME \/ \E p \in Posts : FileAges(p)
               \/ ClaimGoesStale \/ Crash \/ UNCHANGED vars
        PROVE  UNCHANGED post
    BY <2>4 DEF FileAges, ClaimGoesStale, Crash, vars, dbVars
  <2> QED
    BY <1>1, <2>1, <2>2, <2>3, <2>4, ReportHides, ConsoleHidesNone, ShareHidesNone,
       PassHidesNone
    DEF Next, HandlerContinues
<1>2. TypeOK /\ [Next]_vars =>
        [\A p \in Posts :
           /\ post[p].exempt
           /\ post[p].hiddenBy # "SYSTEM"
           /\ \A h \in ReportDesk : handler[h].post = p => ~handler[h].mayHide
           => post'[p].hiddenBy # "SYSTEM"]_vars
  BY <1>1 DEF NoneHidden, HiddenByReport
<1> QED
  BY <1>2, TypeCorrect, PTL DEF Spec, ExemptionHolds
=============================================================================
