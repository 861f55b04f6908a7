--------------------------- MODULE ServicesProofs ---------------------------
(***************************************************************************)
(* The digest: what it repeats and what it passes by, for any number of    *)
(* events, overlapping runs and faults, and any first window.  And the     *)
(* services together: what is proved of each alone holds in MCServices,    *)
(* where every step is one service's and leaves the others as they are.    *)
(***************************************************************************)
EXTENDS MCServices, SessionsProofs, ImageLibraryProofs, BedPlannerProofs

Typed ==
    /\ hour \in Nat /\ watermark \in Nat /\ floor \in Nat
    /\ lapses \in Nat /\ faults \in Nat
    /\ event \in [Events -> EventRow]
    /\ mailed \in [Events -> Nat]
    /\ run \in [Runs -> RunState]

\* Whoever has passed the claim holds it.
Holds(r) == run[r].at \notin {"idle", "claim"} => claim = r

\* What the window of a run in progress still says of the watermark.
WindowOpen(r) ==
    run[r].at \in {"collect", "send", "mark"} =>
      /\ watermark <= run[r].since
      /\ watermark # NoMark => run[r].since = watermark

InWindow(r, e) ==
    /\ event[e].at = "committed"
    /\ run[r].since < event[e].stamp /\ event[e].stamp <= run[r].now

\* What was collected is the window's, all of it but for late commits.
FoundAll(r) ==
    run[r].at \in {"send", "mark"} =>
      /\ run[r].since < run[r].now
      /\ \A e \in run[r].found : InWindow(r, e)
      /\ \A e \in Events : InWindow(r, e) => e \in run[r].found \/ event[e].late

Sent(r) == run[r].at = "mark" => \A e \in run[r].found : mailed[e] > 0

RunsKnow == \A r \in Runs : Holds(r) /\ WindowOpen(r) /\ FoundAll(r) /\ Sent(r)

\* A mail that the watermark covers or is about to.
Told(e) ==
    /\ event[e].at = "committed"
    /\ \/ event[e].stamp <= watermark
       \/ \E r \in Runs : run[r].at = "mark" /\ e \in run[r].found

Once(e) == IF Told(e) THEN 1 ELSE 0

Counted == \A e \in Events : mailed[e] <= lapses + Once(e)

DigestInv == Typed /\ RunsKnow /\ Counted /\ NothingPassedUnsaid

-----------------------------------------------------------------------------
LEMMA InitHolds == DigestInit => DigestInv
<1> SUFFICES ASSUME DigestInit PROVE DigestInv
  OBVIOUS
<1>1. Typed
  BY DEF DigestInit, Typed, EventRow, RunState, RunIdle, NoMark
<1>2. RunsKnow
  BY DEF DigestInit, RunsKnow, Holds, WindowOpen, FoundAll, Sent, RunIdle
<1>3. Counted
  <2>1. lapses = 0 /\ \A e \in Events : mailed[e] = 0
    BY DEF DigestInit
  <2>2. \A e \in Events : Once(e) \in Nat
    BY DEF Once
  <2>3. ASSUME NEW e \in Events PROVE mailed[e] <= lapses + Once(e)
    <3>1. Once(e) \in Nat
      BY <2>2
    <3>2. mailed[e] = 0 /\ lapses = 0
      BY <2>1
    <3>3. 0 <= 0 + Once(e)
      BY <3>1
    <3> QED
      BY <3>2, <3>3
  <2> QED
    BY <2>3 DEF Counted
<1>4. NothingPassedUnsaid
  BY DEF DigestInit, NothingPassedUnsaid
<1> QED
  BY <1>1, <1>2, <1>3, <1>4 DEF DigestInv

LEMMA TypedKept ==
  ASSUME Typed, [DigestNext]_digestVars PROVE Typed'
<1> USE DigestAssumption DEF Typed, RunState
<1>1. ASSUME NEW e \in Events, StampEvent(e) PROVE Typed'
  <2>1. PICK t \in {hour, hour + 1} :
          /\ hour' = t
          /\ event' = [event EXCEPT ![e].at = "stamped", ![e].stamp = t]
    BY <1>1 DEF StampEvent
  <2>2. t \in Nat /\ event[e] \in EventRow
    BY <2>1
  <2>3. [event[e] EXCEPT !.at = "stamped", !.stamp = t] \in EventRow
    BY <2>2 DEF EventRow
  <2>4. event' \in [Events -> EventRow]
    BY <2>1, <2>3
  <2> QED
    BY <1>1, <2>1, <2>2, <2>4 DEF StampEvent
<1>2. ASSUME NEW e \in Events, CommitEvent(e) PROVE Typed'
  <2>1. PassedBy(e) \in BOOLEAN
    BY Zenon DEF PassedBy
  <2> QED
    <3> DEFINE new == [event[e] EXCEPT !.at = "committed", !.late = PassedBy(e)]
    <3>1. event[e] \in EventRow
      OBVIOUS
    <3>2. new \in EventRow
      BY <2>1, <3>1 DEF EventRow
    <3>3. event' = [event EXCEPT ![e] = new]
      BY <1>2 DEF CommitEvent
    <3> HIDE DEF new
    <3>4. event' \in [Events -> EventRow]
      BY <3>2, <3>3
    <3> QED
      BY <1>2, <3>4 DEF CommitEvent
<1>3. CASE SaveMail
  BY <1>3 DEF SaveMail
<1>4. ASSUME NEW r \in Runs, RunStarts(r) PROVE Typed'
  BY <1>4 DEF RunStarts, RunIdle
<1>5. ASSUME NEW r \in Runs, RunClaims(r) PROVE Typed'
  BY <1>5 DEF RunClaims, Continue, RunIdle
<1>6. ASSUME NEW r \in Runs, ReadWatermark(r) PROVE Typed'
  <2>1. Since(run[r].now) \in Nat
    BY DEF Since
  <2> QED
    BY <1>6, <2>1 DEF ReadWatermark
<1>7. ASSUME NEW r \in Runs, Collect(r) PROVE Typed'
  <2> DEFINE found == Collected(run[r].since, run[r].now)
             at == IF found = {} \/ ~mail THEN "release" ELSE "send"
  <2>1. run' = [run EXCEPT ![r].at = at, ![r].found = found]
    BY <1>7 DEF Collect
  <2>2. found \in SUBSET Events
    BY DEF Collected
  <2>3. at \in {"release", "send"}
    OBVIOUS
  <2> HIDE DEF found, at
  <2>4. run' \in [Runs -> RunState]
    BY <2>1, <2>2, <2>3
  <2> QED
    BY <1>7, <2>4 DEF Collect
<1>8. ASSUME NEW r \in Runs, SendSucceeds(r) PROVE Typed'
  BY <1>8 DEF SendSucceeds, Continue
<1>9. ASSUME NEW r \in Runs, SendFails(r) PROVE Typed'
  BY <1>9 DEF SendFails, Continue
<1>10. ASSUME NEW r \in Runs, MoveWatermark(r) PROVE Typed'
  BY <1>10 DEF MoveWatermark, Continue, Mark
<1>11. ASSUME NEW r \in Runs, Release(r) PROVE Typed'
  BY <1>11 DEF Release, RunIdle
<1>12. ASSUME NEW r \in Runs, StatementFails(r) PROVE Typed'
  BY <1>12 DEF StatementFails, Lapsed, Continue
<1>13. ASSUME NEW r \in Runs, RunDies(r) PROVE Typed'
  BY <1>13 DEF RunDies, Lapsed, RunIdle
<1>14. CASE ClaimGoesStale
  BY <1>14 DEF ClaimGoesStale
<1>15. CASE UNCHANGED digestVars
  BY <1>15 DEF digestVars
<1> QED
  BY <1>1, <1>2, <1>3, <1>4, <1>5, <1>6, <1>7, <1>8, <1>9, <1>10, <1>11, <1>12,
     <1>13, <1>14, <1>15 DEF DigestNext, RunStep

\* The claim has one holder, so one run at most is past it.
LEMMA OneHolder ==
  ASSUME RunsKnow, NEW r \in Runs, run[r].at \notin {"idle", "claim"}
  PROVE  /\ claim = r
         /\ \A s \in Runs \ {r} : run[s].at \in {"idle", "claim"}
  BY DEF RunsKnow, Holds

\* A step of one run, past the claim, that leaves claim and watermark alone.
LEMMA OthersWait ==
  ASSUME RunsKnow, NEW r \in Runs, run[r].at \notin {"idle", "claim"},
         NEW s \in Runs \ {r}, run'[s] = run[s]
  PROVE  Holds(s)' /\ WindowOpen(s)' /\ FoundAll(s)' /\ Sent(s)'
<1>1. run'[s].at \in {"idle", "claim"}
  BY OneHolder
<1> QED
  BY <1>1 DEF Holds, WindowOpen, FoundAll, Sent

\* A run that starts or ends knows nothing.
LEMMA IdleKnows ==
  ASSUME NEW s \in Runs, run'[s].at \in {"idle", "claim", "release"},
         run'[s].at = "release" => claim' = s
  PROVE  Holds(s)' /\ WindowOpen(s)' /\ FoundAll(s)' /\ Sent(s)'
  BY DEF Holds, WindowOpen, FoundAll, Sent

LEMMA RunsKnowKept ==
  ASSUME Typed, RunsKnow, [DigestNext]_digestVars PROVE RunsKnow'
<1> SUFFICES ASSUME NEW s \in Runs
             PROVE  Holds(s)' /\ WindowOpen(s)' /\ FoundAll(s)' /\ Sent(s)'
  BY DEF RunsKnow
<1>a. Holds(s) /\ WindowOpen(s) /\ FoundAll(s) /\ Sent(s)
  BY DEF RunsKnow
<1>b. /\ run \in [Runs -> RunState] /\ run[s] \in RunState
      /\ watermark \in Nat /\ event \in [Events -> EventRow]
  BY DEF Typed
<1>1. ASSUME NEW e \in Events, StampEvent(e)
      PROVE  Holds(s)' /\ WindowOpen(s)' /\ FoundAll(s)' /\ Sent(s)'
  <2>1. /\ run' = run /\ claim' = claim /\ watermark' = watermark
        /\ mailed' = mailed
    BY <1>1 DEF StampEvent
  <2>2. PICK t \in {hour, hour + 1} :
          event' = [event EXCEPT ![e].at = "stamped", ![e].stamp = t]
    BY <1>1 DEF StampEvent
  <2>3. event[e].at = "none" /\ event'[e].at = "stamped"
    BY <1>b, <1>1, <2>2 DEF StampEvent, EventRow
  <2>4. \A x \in Events : x # e => event'[x] = event[x]
    BY <1>b, <2>2
  <2>5. \A x \in Events : InWindow(s, x)' <=> InWindow(s, x)
    BY <2>1, <2>3, <2>4 DEF InWindow
  <2>6. \A x \in Events : InWindow(s, x) => event'[x] = event[x]
    BY <2>3, <2>4 DEF InWindow
  <2>7. FoundAll(s)'
    BY <1>a, <1>b, <2>1, <2>5, <2>6 DEF FoundAll, RunState
  <2> QED
    BY <1>a, <2>1, <2>7 DEF Holds, WindowOpen, Sent
<1>2. ASSUME NEW e \in Events, CommitEvent(e)
      PROVE  Holds(s)' /\ WindowOpen(s)' /\ FoundAll(s)' /\ Sent(s)'
  <2>1. /\ run' = run /\ claim' = claim /\ watermark' = watermark
        /\ mailed' = mailed
    BY <1>2 DEF CommitEvent
  <2>2. \A x \in Events : x # e => event'[x] = event[x]
    BY <1>b, <1>2 DEF CommitEvent
  <2>3. /\ event[e].at = "stamped" /\ event'[e].at = "committed"
        /\ event'[e].stamp = event[e].stamp /\ event'[e].late = PassedBy(e)
    BY <1>b, <1>2 DEF CommitEvent, EventRow
  <2>4. \A x \in Events : InWindow(s, x) => InWindow(s, x)'
    BY <2>1, <2>2, <2>3 DEF InWindow
  <2>5. ASSUME run[s].at \in {"send", "mark"}, NEW x \in Events, InWindow(s, x)'
        PROVE  x \in run'[s].found \/ event'[x].late
    <3>1. CASE x = e
      BY <2>1, <2>3, <2>5, <3>1 DEF InWindow, PassedBy
    <3>2. CASE x # e
      BY <1>a, <2>1, <2>2, <2>5, <3>2 DEF InWindow, FoundAll
    <3> QED
      BY <3>1, <3>2
  <2>6. FoundAll(s)'
    BY <1>a, <1>b, <2>1, <2>4, <2>5 DEF FoundAll, RunState
  <2> QED
    BY <1>a, <2>1, <2>6 DEF Holds, WindowOpen, Sent
<1>3. CASE SaveMail \/ UNCHANGED digestVars
  <2>1. /\ run' = run /\ claim' = claim /\ watermark' = watermark
        /\ event' = event /\ mailed' = mailed
    BY <1>3 DEF SaveMail, digestVars
  <2> QED
    BY <1>a, <2>1 DEF Holds, WindowOpen, FoundAll, Sent, InWindow
<1>4. ASSUME NEW r \in Runs, RunStarts(r)
      PROVE  Holds(s)' /\ WindowOpen(s)' /\ FoundAll(s)' /\ Sent(s)'
  <2>1. CASE s = r
    <3>1. run'[s].at = "claim"
      BY <1>b, <1>4, <2>1 DEF RunStarts, RunIdle
    <3> QED
      BY <3>1, IdleKnows
  <2>2. CASE s # r
    <3>1. /\ run'[s] = run[s] /\ claim' = claim /\ watermark' = watermark
          /\ event' = event /\ mailed' = mailed
      BY <1>b, <1>4, <2>2 DEF RunStarts
    <3> QED
      BY <1>a, <3>1 DEF Holds, WindowOpen, FoundAll, Sent, InWindow
  <2> QED
    BY <2>1, <2>2
<1>5. ASSUME NEW r \in Runs, RunClaims(r)
      PROVE  Holds(s)' /\ WindowOpen(s)' /\ FoundAll(s)' /\ Sent(s)'
  <2>1. CASE MayClaim
    <3>1. \A x \in Runs : run[x].at \in {"idle", "claim"}
      BY <2>1, DigestAssumption DEF RunsKnow, Holds, MayClaim
    <3>2. claim' = r /\ run' = [run EXCEPT ![r].at = "read"]
      BY <1>5, <2>1 DEF RunClaims, Continue
    <3>3. CASE s = r
      <4>1. run'[s].at = "read"
        BY <1>b, <3>2, <3>3 DEF RunState
      <4> QED
        BY <3>2, <3>3, <4>1 DEF Holds, WindowOpen, FoundAll, Sent
    <3>4. CASE s # r
      <4>1. run'[s].at \in {"idle", "claim"}
        BY <1>b, <3>1, <3>2, <3>4
      <4> QED
        BY <4>1, IdleKnows
    <3> QED
      BY <3>3, <3>4
  <2>2. CASE ~MayClaim
    <3>1. /\ run' = [run EXCEPT ![r] = RunIdle] /\ claim' = claim
          /\ watermark' = watermark /\ event' = event /\ mailed' = mailed
      BY <1>5, <2>2 DEF RunClaims
    <3>2. CASE s = r
      <4>1. run'[s].at = "idle"
        BY <1>b, <3>1, <3>2 DEF RunIdle
      <4> QED
        BY <4>1, IdleKnows
    <3>3. CASE s # r
      <4>1. run'[s] = run[s]
        BY <1>b, <3>1, <3>3
      <4> QED
        BY <1>a, <3>1, <4>1 DEF Holds, WindowOpen, FoundAll, Sent, InWindow
    <3> QED
      BY <3>2, <3>3
  <2> QED
    BY <2>1, <2>2
<1>6. ASSUME NEW r \in Runs, ReadWatermark(r)
      PROVE  Holds(s)' /\ WindowOpen(s)' /\ FoundAll(s)' /\ Sent(s)'
  <2>1. /\ run[r].at = "read" /\ claim' = claim /\ watermark' = watermark
        /\ run' = [run EXCEPT ![r].at = "collect", ![r].since = Since(run[r].now)]
    BY <1>6 DEF ReadWatermark
  <2>2. CASE s = r
    <3>1. run'[s].at = "collect" /\ run'[s].since = Since(run[s].now)
      BY <1>b, <2>1, <2>2 DEF RunState
    <3>2. run[s].now \in Nat
      BY <1>b DEF RunState
    <3>3. /\ watermark <= Since(run[s].now)
          /\ watermark # NoMark => Since(run[s].now) = watermark
      BY <1>b, <3>2, DigestAssumption DEF Since, NoMark
    <3>4. claim' = s
      BY <1>a, <2>1, <2>2 DEF Holds
    <3> QED
      BY <2>1, <3>1, <3>3, <3>4 DEF Holds, WindowOpen, FoundAll, Sent
  <2>3. CASE s # r
    <3>1. run'[s] = run[s]
      BY <1>b, <2>1, <2>3
    <3> QED
      BY <2>1, <2>3, <3>1, OthersWait
  <2> QED
    BY <2>2, <2>3
<1>7. ASSUME NEW r \in Runs, Collect(r)
      PROVE  Holds(s)' /\ WindowOpen(s)' /\ FoundAll(s)' /\ Sent(s)'
  <2> DEFINE found == Collected(run[r].since, run[r].now)
             at == IF found = {} \/ ~mail THEN "release" ELSE "send"
  <2>1. /\ run[r].at = "collect" /\ claim' = claim /\ watermark' = watermark
        /\ event' = event
        /\ run' = [run EXCEPT ![r].at = at, ![r].found = found]
    BY <1>7 DEF Collect
  <2>2. CASE s = r
    <3>1. /\ run'[s].at = at /\ run'[s].found = found
          /\ run'[s].since = run[s].since /\ run'[s].now = run[s].now
      BY <1>b, <2>1, <2>2 DEF RunState
    <3>2. claim' = s
      BY <1>a, <2>1, <2>2 DEF Holds
    <3>3. CASE at = "release"
      <4>1. run'[s].at = "release"
        BY <3>1, <3>3
      <4> QED
        BY <3>2, <4>1, IdleKnows
    <3>4. CASE at = "send"
      <4>1. \A e \in Events : e \in found <=> InWindow(s, e)'
        BY <2>1, <2>2, <3>1 DEF Collected, InWindow
      <4>2. found \subseteq Events
        BY DEF Collected
      <4>3. PICK e \in Events : e \in found
        BY <3>4, <4>2
      <4>4. InWindow(s, e)' /\ event'[e].stamp \in Nat
        BY <1>b, <2>1, <4>1, <4>3 DEF EventRow
      <4>5. run'[s].since < run'[s].now
        <5>1. run'[s].since \in Nat /\ run'[s].now \in Nat
          BY <1>b, <3>1 DEF RunState
        <5> QED
          BY <4>4, <5>1 DEF InWindow
      <4>6. FoundAll(s)'
        BY <3>1, <4>1, <4>2, <4>5 DEF FoundAll
      <4>7. run'[s].at = "send"
        BY <3>1, <3>4
      <4>8. WindowOpen(s)'
        BY <1>a, <2>1, <2>2, <3>1 DEF WindowOpen
      <4> QED
        BY <3>2, <4>6, <4>7, <4>8 DEF Holds, Sent
    <3> QED
      BY <3>3, <3>4
  <2>3. CASE s # r
    <3>1. run'[s] = run[s]
      BY <1>b, <2>1, <2>3
    <3> QED
      BY <2>1, <2>3, <3>1, OthersWait
  <2> QED
    BY <2>2, <2>3
<1>8. ASSUME NEW r \in Runs, SendSucceeds(r)
      PROVE  Holds(s)' /\ WindowOpen(s)' /\ FoundAll(s)' /\ Sent(s)'
  <2>1. /\ run[r].at = "send" /\ claim' = claim /\ watermark' = watermark
        /\ event' = event /\ run' = [run EXCEPT ![r].at = "mark"]
    BY <1>8 DEF SendSucceeds, Continue
  <2>2. CASE s = r
    <3>1. /\ run'[s].at = "mark" /\ run'[s].found = run[s].found
          /\ run'[s].since = run[s].since /\ run'[s].now = run[s].now
      BY <1>b, <2>1, <2>2 DEF RunState
    <3>2. Holds(s)' /\ WindowOpen(s)'
      BY <1>a, <2>1, <2>2, <3>1 DEF Holds, WindowOpen
    <3>3. FoundAll(s)'
      BY <1>a, <2>1, <2>2, <3>1 DEF FoundAll, InWindow
    <3>4. ASSUME NEW e \in run[s].found PROVE mailed'[e] > 0
      <4>1. e \in Events /\ mailed[e] \in Nat
        BY <1>b DEF RunState, Typed
      <4> QED
        BY <1>8, <2>2, <4>1 DEF SendSucceeds
    <3> QED
      BY <3>1, <3>2, <3>3, <3>4 DEF Sent
  <2>3. CASE s # r
    <3>1. run'[s] = run[s]
      BY <1>b, <2>1, <2>3
    <3> QED
      BY <2>1, <2>3, <3>1, OthersWait
  <2> QED
    BY <2>2, <2>3
<1>9. ASSUME NEW r \in Runs, SendFails(r) \/ MoveWatermark(r) \/ StatementFails(r)
      PROVE  Holds(s)' /\ WindowOpen(s)' /\ FoundAll(s)' /\ Sent(s)'
  <2>1. /\ run[r].at \in {"read", "collect", "send", "mark"} /\ claim' = claim
        /\ run' = [run EXCEPT ![r].at = "release"]
    BY <1>9 DEF SendFails, MoveWatermark, StatementFails, Continue
  <2>2. CASE s = r
    <3>1. run'[s].at = "release" /\ claim' = s
      BY <1>a, <1>b, <2>1, <2>2 DEF Holds, RunState
    <3> QED
      BY <3>1, IdleKnows
  <2>3. CASE s # r
    <3>1. run'[s] = run[s]
      BY <1>b, <2>1, <2>3
    <3> QED
      BY <2>1, <2>3, <3>1, OthersWait
  <2> QED
    BY <2>2, <2>3
<1>10. ASSUME NEW r \in Runs, Release(r)
       PROVE  Holds(s)' /\ WindowOpen(s)' /\ FoundAll(s)' /\ Sent(s)'
  <2>1. run[r].at = "release" /\ run' = [run EXCEPT ![r] = RunIdle]
    BY <1>10 DEF Release
  <2>2. run'[s].at \in {"idle", "claim"}
    BY <1>b, <2>1, OneHolder DEF RunIdle
  <2> QED
    BY <2>2, IdleKnows
<1>11. ASSUME NEW r \in Runs, RunDies(r)
       PROVE  Holds(s)' /\ WindowOpen(s)' /\ FoundAll(s)' /\ Sent(s)'
  <2>1. /\ run' = [run EXCEPT ![r] = RunIdle] /\ watermark' = watermark
        /\ claim' = IF claim = r THEN "left" ELSE claim
        /\ event' = event /\ mailed' = mailed
    BY <1>11 DEF RunDies
  <2>2. CASE s = r
    <3>1. run'[s].at = "idle"
      BY <1>b, <2>1, <2>2 DEF RunIdle
    <3> QED
      BY <3>1, IdleKnows
  <2>3. CASE s # r
    <3>1. run'[s] = run[s]
      BY <1>b, <2>1, <2>3
    <3>2. Holds(s)'
      BY <1>a, <2>1, <2>3, <3>1 DEF Holds
    <3> QED
      BY <1>a, <2>1, <3>1, <3>2 DEF WindowOpen, FoundAll, Sent, InWindow
  <2> QED
    BY <2>2, <2>3
<1>12. CASE ClaimGoesStale
  <2>1. /\ run' = run /\ claim = "left" /\ watermark' = watermark
        /\ event' = event /\ mailed' = mailed
    BY <1>12 DEF ClaimGoesStale
  <2>2. Holds(s)'
    BY <1>a, <2>1, DigestAssumption DEF Holds
  <2> QED
    BY <1>a, <2>1, <2>2 DEF WindowOpen, FoundAll, Sent, InWindow
<1> QED
  BY <1>1, <1>2, <1>3, <1>4, <1>5, <1>6, <1>7, <1>8, <1>9, <1>10, <1>11, <1>12
     DEF DigestNext, RunStep

-----------------------------------------------------------------------------
\* Whatever is told stays told, unless a mark is abandoned and so counted.
LEMMA StillCounted ==
  ASSUME Typed, Typed', Counted, NEW e \in Events,
         mailed'[e] = mailed[e],
         \/ lapses' = lapses /\ (Told(e) => Told(e)')
         \/ lapses' = lapses + 1
  PROVE  mailed'[e] <= lapses' + Once(e)'
<1>1. mailed[e] \in Nat /\ lapses \in Nat /\ lapses' \in Nat
  BY DEF Typed
<1>2. mailed[e] <= lapses + Once(e) /\ Once(e) \in {0, 1} /\ Once(e)' \in {0, 1}
  BY DEF Counted, Once
<1>3. CASE lapses' = lapses /\ (Told(e) => Told(e)')
  <2>1. Once(e) <= Once(e)'
    BY <1>3 DEF Once
  <2> QED
    BY <1>1, <1>2, <1>3, <2>1
<1>4. CASE lapses' = lapses + 1
  BY <1>1, <1>2, <1>4
<1> QED
  BY <1>3, <1>4

\* A run that is not at its mark moves on.
LEMMA StillTold ==
  ASSUME Typed, NEW e \in Events, event' = event, watermark' = watermark,
         NEW r \in Runs, run[r].at # "mark",
         \A s \in Runs \ {r} : run'[s] = run[s]
  PROVE  Told(e) => Told(e)'
  BY DEF Told

LEMMA CountedKept ==
  ASSUME Typed, Typed', RunsKnow, Counted, [DigestNext]_digestVars
  PROVE  Counted'
<1> SUFFICES ASSUME NEW e \in Events PROVE mailed'[e] <= lapses' + Once(e)'
  BY DEF Counted
<1>a. /\ run \in [Runs -> RunState] /\ event \in [Events -> EventRow]
      /\ watermark \in Nat /\ mailed \in [Events -> Nat] /\ lapses \in Nat
  BY DEF Typed
<1>1. ASSUME NEW x \in Events, StampEvent(x) \/ CommitEvent(x)
      PROVE  mailed'[e] <= lapses' + Once(e)'
  <2>1. /\ run' = run /\ watermark' = watermark /\ mailed' = mailed
        /\ lapses' = lapses
    BY <1>1 DEF StampEvent, CommitEvent
  <2>2. event[x].at # "committed" /\ (e # x => event'[e] = event[e])
    BY <1>1, <1>a DEF StampEvent, CommitEvent
  <2>3. Told(e) => Told(e)'
    BY <2>1, <2>2 DEF Told
  <2> QED
    BY <2>1, <2>3, StillCounted
<1>2. CASE SaveMail \/ ClaimGoesStale \/ UNCHANGED digestVars
  <2>1. /\ run' = run /\ watermark' = watermark /\ mailed' = mailed
        /\ lapses' = lapses /\ event' = event
    BY <1>2 DEF SaveMail, ClaimGoesStale, digestVars
  <2>2. Told(e) => Told(e)'
    BY <2>1 DEF Told
  <2> QED
    BY <2>1, <2>2, StillCounted
<1>3. ASSUME NEW r \in Runs,
             RunStarts(r) \/ RunClaims(r) \/ ReadWatermark(r) \/ Collect(r)
             \/ SendFails(r) \/ Release(r)
      PROVE  mailed'[e] <= lapses' + Once(e)'
  <2>1. /\ run[r].at # "mark" /\ watermark' = watermark /\ mailed' = mailed
        /\ lapses' = lapses /\ event' = event
    BY <1>3 DEF RunStarts, RunClaims, ReadWatermark, Collect, SendFails, Release
  <2>2. \A s \in Runs \ {r} : run'[s] = run[s]
    BY <1>3, <1>a DEF RunStarts, RunClaims, ReadWatermark, Collect, SendFails,
       Release, Continue
  <2>3. Told(e) => Told(e)'
    BY <2>1, <2>2, StillTold
  <2> QED
    BY <2>1, <2>3, StillCounted
<1>4. ASSUME NEW r \in Runs, SendSucceeds(r)
      PROVE  mailed'[e] <= lapses' + Once(e)'
  <2>1. /\ run[r].at = "send" /\ watermark' = watermark /\ lapses' = lapses
        /\ event' = event /\ run' = [run EXCEPT ![r].at = "mark"]
        /\ mailed'[e] = mailed[e] + IF e \in run[r].found THEN 1 ELSE 0
    BY <1>4 DEF SendSucceeds, Continue
  <2>2. CASE e \in run[r].found
    <3>1. InWindow(r, e) /\ watermark <= run[r].since /\ run[r].since \in Nat
      BY <1>a, <2>1, <2>2 DEF RunsKnow, FoundAll, WindowOpen, RunState
    <3>2. event[e].at = "committed" /\ ~(event[e].stamp <= watermark)
      <4>1. event[e].stamp \in Nat
        BY <1>a DEF EventRow
      <4> QED
        BY <1>a, <3>1, <4>1 DEF InWindow
    <3>3. \A s \in Runs : run[s].at # "mark"
      BY <2>1, OneHolder
    <3>4. Once(e) = 0
      BY <3>2, <3>3 DEF Told, Once
    <3>5. run'[r].at = "mark" /\ run'[r].found = run[r].found
      BY <1>a, <2>1 DEF RunState
    <3>6. Told(e)'
      BY <2>1, <2>2, <3>2, <3>5 DEF Told
    <3>7. Once(e)' = 1
      BY <3>6 DEF Once
    <3>8. mailed[e] <= lapses /\ mailed'[e] = mailed[e] + 1
      BY <1>a, <2>1, <2>2, <3>4 DEF Counted
    <3> QED
      BY <1>a, <2>1, <3>7, <3>8
  <2>3. CASE e \notin run[r].found
    <3>1. mailed'[e] = mailed[e]
      BY <1>a, <2>1, <2>3
    <3>2. \A s \in Runs \ {r} : run'[s] = run[s]
      BY <1>a, <2>1
    <3>3. run[r].at # "mark"
      BY <2>1
    <3>4. Told(e) => Told(e)'
      BY <2>1, <3>2, <3>3, StillTold
    <3> QED
      BY <2>1, <3>1, <3>4, StillCounted
  <2> QED
    BY <2>2, <2>3
<1>5. ASSUME NEW r \in Runs, MoveWatermark(r)
      PROVE  mailed'[e] <= lapses' + Once(e)'
  <2>1. /\ run[r].at = "mark" /\ watermark' = run[r].now /\ lapses' = lapses
        /\ event' = event /\ mailed' = mailed
    BY <1>5 DEF MoveWatermark, Mark
  <2>2. /\ watermark <= run[r].since /\ run[r].since < run[r].now
        /\ \A x \in run[r].found : InWindow(r, x)
    BY <2>1 DEF RunsKnow, WindowOpen, FoundAll
  <2>3. ASSUME Told(e) PROVE Told(e)'
    <3>1. event[e].at = "committed" /\ event[e].stamp \in Nat
      BY <1>a, <2>3 DEF Told, EventRow
    <3>2. run[r].now \in Nat /\ run[r].since \in Nat
      BY <1>a DEF RunState
    <3>3. CASE event[e].stamp <= watermark
      <4>1. event[e].stamp <= run[r].now
        BY <1>a, <2>2, <3>1, <3>2, <3>3
      <4> QED
        BY <2>1, <3>1, <4>1 DEF Told
    <3>4. CASE \E s \in Runs : run[s].at = "mark" /\ e \in run[s].found
      <4>1. e \in run[r].found
        BY <2>1, <3>4, OneHolder
      <4>2. event[e].stamp <= run[r].now
        BY <2>2, <4>1 DEF InWindow
      <4> QED
        BY <2>1, <3>1, <4>2 DEF Told
    <3> QED
      BY <2>3, <3>3, <3>4 DEF Told
  <2> QED
    BY <2>1, <2>3, StillCounted
<1>6. ASSUME NEW r \in Runs, StatementFails(r) \/ RunDies(r)
      PROVE  mailed'[e] <= lapses' + Once(e)'
  <2>1. /\ watermark' = watermark /\ event' = event /\ mailed' = mailed
        /\ lapses' = lapses + IF run[r].at = "mark" THEN 1 ELSE 0
    BY <1>6 DEF StatementFails, RunDies, Lapsed
  <2>2. \A s \in Runs \ {r} : run'[s] = run[s]
    BY <1>6, <1>a DEF StatementFails, RunDies, Continue
  <2>3. CASE run[r].at = "mark"
    BY <2>1, <2>3, StillCounted
  <2>4. CASE run[r].at # "mark"
    <3>1. Told(e) => Told(e)'
      BY <2>1, <2>2, <2>4, StillTold
    <3> QED
      BY <1>a, <2>1, <2>4, <3>1, StillCounted
  <2> QED
    BY <2>3, <2>4
<1> QED
  BY <1>1, <1>2, <1>3, <1>4, <1>5, <1>6 DEF DigestNext, RunStep

-----------------------------------------------------------------------------
Unsaid(e) ==
    event[e].at = "committed" /\ event[e].stamp <= watermark
      => mailed[e] > 0 \/ Missed(e)

LEMMA PassedKept ==
  ASSUME Typed, Typed', RunsKnow, NothingPassedUnsaid, [DigestNext]_digestVars
  PROVE  NothingPassedUnsaid'
<1> SUFFICES ASSUME NEW e \in Events PROVE Unsaid(e)'
  BY DEF NothingPassedUnsaid, Unsaid
<1>a. /\ run \in [Runs -> RunState] /\ event \in [Events -> EventRow]
      /\ watermark \in Nat /\ mailed \in [Events -> Nat]
      /\ mailed' \in [Events -> Nat]
  BY DEF Typed
<1>b. Unsaid(e)
  BY DEF NothingPassedUnsaid, Unsaid
<1>1. ASSUME NEW x \in Events, StampEvent(x) \/ CommitEvent(x)
      PROVE  Unsaid(e)'
  <2>1. watermark' = watermark /\ mailed' = mailed /\ floor' = floor
    BY <1>1 DEF StampEvent, CommitEvent
  <2>2. CASE e # x
    <3>1. event'[e] = event[e]
      BY <1>1, <1>a, <2>2 DEF StampEvent, CommitEvent
    <3> QED
      BY <1>b, <2>1, <3>1 DEF Unsaid, Missed
  <2>3. CASE e = x /\ StampEvent(x)
    <3>1. PICK t \in {hour, hour + 1} :
            event' = [event EXCEPT ![x].at = "stamped", ![x].stamp = t]
      BY <2>3 DEF StampEvent
    <3>2. event'[e].at # "committed"
      BY <1>a, <2>3, <3>1 DEF EventRow
    <3> QED
      BY <3>2 DEF Unsaid
  <2>4. CASE e = x /\ CommitEvent(x)
    <3>1. /\ event'[e].stamp = event[e].stamp
          /\ event'[e].late = PassedBy(e)
      BY <1>a, <2>4 DEF CommitEvent, EventRow
    <3>2. event'[e].stamp <= watermark' => event'[e].late
      BY <2>1, <3>1 DEF PassedBy
    <3> QED
      BY <3>2 DEF Unsaid, Missed
  <2> QED
    BY <1>1, <2>2, <2>3, <2>4
<1>2. CASE \/ SaveMail \/ ClaimGoesStale \/ UNCHANGED digestVars
           \/ \E r \in Runs :
                RunStarts(r) \/ RunClaims(r) \/ ReadWatermark(r) \/ Collect(r)
                \/ SendFails(r) \/ Release(r) \/ StatementFails(r) \/ RunDies(r)
  <2>1. /\ watermark' = watermark /\ mailed' = mailed /\ floor' = floor
        /\ event' = event
    BY <1>2 DEF SaveMail, ClaimGoesStale, digestVars, RunStarts, RunClaims,
       ReadWatermark, Collect, SendFails, Release, StatementFails, RunDies
  <2> QED
    BY <1>b, <2>1 DEF Unsaid, Missed
<1>3. ASSUME NEW r \in Runs, SendSucceeds(r) PROVE Unsaid(e)'
  <2>1. /\ watermark' = watermark /\ floor' = floor /\ event' = event
        /\ mailed'[e] = mailed[e] + IF e \in run[r].found THEN 1 ELSE 0
    BY <1>3 DEF SendSucceeds
  <2>2. mailed[e] > 0 => mailed'[e] > 0
    BY <1>a, <2>1
  <2> QED
    BY <1>b, <2>1, <2>2 DEF Unsaid, Missed
<1>4. ASSUME NEW r \in Runs, MoveWatermark(r) PROVE Unsaid(e)'
  <2>1. /\ run[r].at = "mark" /\ watermark' = run[r].now
        /\ event' = event /\ mailed' = mailed
        /\ floor' = IF watermark = NoMark THEN run[r].since ELSE floor
    BY <1>4 DEF MoveWatermark, Mark
  <2>2. /\ run[r].since < run[r].now
        /\ watermark # NoMark => run[r].since = watermark
        /\ InWindow(r, e) => e \in run[r].found \/ event[e].late
        /\ e \in run[r].found => mailed[e] > 0
    BY <2>1 DEF RunsKnow, WindowOpen, FoundAll, Sent
  <2>3. run[r].now \in Nat /\ run[r].since \in Nat /\ event[e].stamp \in Nat
    BY <1>a DEF RunState, EventRow
  <2>4. watermark' # NoMark
    BY <2>1, <2>2, <2>3 DEF NoMark
  <2> SUFFICES ASSUME event[e].at = "committed", event[e].stamp <= run[r].now
               PROVE  mailed[e] > 0 \/ Missed(e)'
    BY <2>1 DEF Unsaid
  <2>5. CASE run[r].since < event[e].stamp
    BY <2>1, <2>2, <2>5 DEF InWindow, Missed
  <2>6. CASE ~(run[r].since < event[e].stamp) /\ watermark = NoMark
    <3>1. event'[e].stamp <= floor'
      BY <2>1, <2>3, <2>6
    <3> QED
      BY <2>4, <3>1 DEF Missed
  <2>7. CASE ~(run[r].since < event[e].stamp) /\ watermark # NoMark
    <3>1. event[e].stamp <= watermark
      BY <1>a, <2>2, <2>3, <2>7
    <3>2. mailed[e] > 0 \/ event[e].late \/ event[e].stamp <= floor
      BY <1>b, <3>1 DEF Unsaid, Missed
    <3> QED
      BY <2>1, <2>4, <2>7, <3>2 DEF Missed
  <2> QED
    BY <2>5, <2>6, <2>7
<1> QED
  BY <1>1, <1>2, <1>3, <1>4 DEF DigestNext, RunStep

-----------------------------------------------------------------------------
\* The inductive invariant: a run past the claim is the only one, its window
\* begins at the watermark, and what it has found is what is in its window.
THEOREM DigestInductive == DigestSpec => []DigestInv
<1>1. DigestInit => DigestInv
  BY InitHolds
<1>2. DigestInv /\ [DigestNext]_digestVars => DigestInv'
  BY TypedKept, RunsKnowKept, CountedKept, PassedKept DEF DigestInv
<1> QED
  BY <1>1, <1>2, PTL DEF DigestSpec

\* "ONE digest per period, never a repeat", but for a send whose watermark was
\* never written (runAdminDigest).
THEOREM NoRepeats == DigestSpec => []RepeatsAreCounted
<1>1. DigestInv => RepeatsAreCounted
  <2> SUFFICES ASSUME DigestInv, NEW e \in Events PROVE mailed[e] <= 1 + lapses
    BY DEF RepeatsAreCounted
  <2>1. /\ mailed[e] \in Nat /\ lapses \in Nat /\ Once(e) \in {0, 1}
        /\ mailed[e] <= lapses + Once(e)
    BY DEF DigestInv, Typed, Counted, Once
  <2> QED
    BY <2>1
<1> QED
  BY <1>1, DigestInductive, PTL

\* The watermark passes no event unsaid but the two kinds `Missed` names
\* (collectDigest, runAdminDigest).
THEOREM NothingLost == DigestSpec => []NothingPassedUnsaid
<1>1. DigestInv => NothingPassedUnsaid
  BY DEF DigestInv
<1> QED
  BY <1>1, DigestInductive, PTL

-----------------------------------------------------------------------------
\* What is bounded by the clock and by the faults.
Clocks ==
    /\ mail \in BOOLEAN
    /\ claim \in Runs \cup {"free", "left", "stale"}
    /\ watermark <= hour
    /\ \A r \in Runs : run[r].now <= hour /\ run[r].since <= hour
    /\ lapses <= faults /\ faults <= MaxFaults

LEMMA ClocksBegin == DigestInit => Clocks
  BY DigestAssumption DEF DigestInit, Clocks, NoMark, RunIdle

LEMMA ClocksKept ==
  ASSUME Typed, Typed', Clocks, [DigestNext]_digestVars PROVE Clocks'
<1>a. /\ run \in [Runs -> RunState] /\ hour \in Nat /\ watermark \in Nat
      /\ lapses \in Nat /\ faults \in Nat /\ MaxFaults \in Nat /\ FirstWindow \in Nat
      /\ \A r \in Runs : run[r].now \in Nat /\ run[r].since \in Nat
  BY DigestAssumption DEF Typed, RunState
<1>b. /\ mail \in BOOLEAN /\ claim \in Runs \cup {"free", "left", "stale"}
      /\ watermark <= hour
      /\ \A r \in Runs : run[r].now <= hour /\ run[r].since <= hour
      /\ lapses <= faults /\ faults <= MaxFaults
  BY DEF Clocks
\* A run keeps the instants it has, and the clock does not go back.
<1>c. ASSUME hour' \in Nat, hour <= hour', watermark' <= hour',
             mail' \in BOOLEAN, claim' \in Runs \cup {"free", "left", "stale"},
             \A r \in Runs : /\ run'[r].now <= hour
                             /\ run'[r].since <= hour,
             \A r \in Runs : run'[r].now \in Nat /\ run'[r].since \in Nat,
             lapses' <= faults', faults' <= MaxFaults
      PROVE  Clocks'
  <2>1. \A r \in Runs : run'[r].now <= hour' /\ run'[r].since <= hour'
    BY <1>a, <1>c
  <2> QED
    BY <1>c, <2>1 DEF Clocks
<1>d. /\ hour' \in Nat /\ watermark' \in Nat
      /\ \A r \in Runs : run'[r].now \in Nat /\ run'[r].since \in Nat
  BY DEF Typed, RunState
<1>1. ASSUME NEW e \in Events, StampEvent(e) PROVE Clocks'
  <2>1. /\ hour' \in {hour, hour + 1}
        /\ UNCHANGED <<mail, claim, watermark, run, lapses, faults>>
    BY <1>1 DEF StampEvent
  <2>2. hour <= hour' /\ watermark' <= hour'
    BY <1>a, <1>b, <2>1
  <2> QED
    BY <1>b, <1>c, <1>d, <2>1, <2>2
<1>2. CASE \/ \E e \in Events : CommitEvent(e)
           \/ SaveMail \/ ClaimGoesStale \/ UNCHANGED digestVars
  <2>1. /\ UNCHANGED <<hour, watermark, run, lapses, faults>>
        /\ mail' \in {mail, ~mail} /\ claim' \in {claim, "stale"}
    BY <1>2 DEF CommitEvent, SaveMail, ClaimGoesStale, digestVars
  <2>2. mail' \in BOOLEAN /\ claim' \in Runs \cup {"free", "left", "stale"}
    BY <1>b, <2>1
  <2>3. hour <= hour'
    BY <1>a, <2>1
  <2> QED
    BY <1>a, <1>b, <1>c, <2>1, <2>2, <2>3
<1>3. ASSUME NEW r \in Runs,
             RunStarts(r) \/ RunClaims(r) \/ ReadWatermark(r) \/ Collect(r)
             \/ SendSucceeds(r) \/ SendFails(r) \/ MoveWatermark(r) \/ Release(r)
             \/ StatementFails(r) \/ RunDies(r)
      PROVE  Clocks'
  <2>1. hour' = hour /\ mail' = mail
    BY <1>3 DEF RunStarts, RunClaims, ReadWatermark, Collect, SendSucceeds,
       SendFails, MoveWatermark, Release, StatementFails, RunDies
  <2>2. \A s \in Runs : s # r => run'[s] = run[s]
    BY <1>3, <1>a DEF RunStarts, RunClaims, ReadWatermark, Collect, SendSucceeds,
       SendFails, MoveWatermark, Release, StatementFails, RunDies, Continue
  <2>3. /\ run'[r].now \in {run[r].now, hour, 0}
        /\ run'[r].since \in {run[r].since, Since(run[r].now), 0}
    <3>1. CASE RunStarts(r) \/ Release(r) \/ RunDies(r)
      <4>1. \/ run'[r] = RunIdle
            \/ run'[r] = [RunIdle EXCEPT !.at = "claim", !.now = hour]
        BY <1>a, <3>1 DEF RunStarts, Release, RunDies
      <4>2. /\ RunIdle.now = 0 /\ RunIdle.since = 0
            /\ [RunIdle EXCEPT !.at = "claim", !.now = hour].now = hour
            /\ [RunIdle EXCEPT !.at = "claim", !.now = hour].since = 0
        BY DEF RunIdle
      <4> QED
        BY <4>1, <4>2
    <3>5. CASE RunClaims(r)
      <4>1. run'[r] \in {RunIdle, [run[r] EXCEPT !.at = "read"]}
        BY <1>a, <3>5 DEF RunClaims, Continue
      <4>2. run[r] \in RunState
        BY <1>a
      <4> QED
        BY <4>1, <4>2 DEF RunIdle, RunState
    <3>2. CASE ReadWatermark(r)
      BY <1>a, <3>2 DEF ReadWatermark, RunState
    <3>3. CASE Collect(r)
      <4> DEFINE found == Collected(run[r].since, run[r].now)
                 at == IF found = {} \/ ~mail THEN "release" ELSE "send"
      <4>1. run' = [run EXCEPT ![r].at = at, ![r].found = found]
        BY <3>3 DEF Collect
      <4> HIDE DEF found, at
      <4> QED
        BY <1>a, <4>1 DEF RunState
    <3>4. CASE SendSucceeds(r) \/ SendFails(r) \/ MoveWatermark(r)
               \/ StatementFails(r)
      BY <1>a, <3>4 DEF SendSucceeds, SendFails, MoveWatermark, StatementFails,
         Continue, RunState
    <3> QED
      BY <1>3, <3>1, <3>2, <3>3, <3>4, <3>5
  <2>4. Since(run[r].now) <= hour
    BY <1>a, <1>b DEF Since, NoMark
  <2>5. \A s \in Runs : run'[s].now <= hour /\ run'[s].since <= hour
    BY <1>a, <1>b, <2>2, <2>3, <2>4
  <2>6. watermark' \in {watermark, run[r].now}
    BY <1>3 DEF RunStarts, RunClaims, ReadWatermark, Collect, SendSucceeds,
       SendFails, MoveWatermark, Mark, Release, StatementFails, RunDies
  <2>7. claim' \in {claim, r, "free", "left"}
    BY <1>3 DEF RunStarts, RunClaims, ReadWatermark, Collect, SendSucceeds,
       SendFails, MoveWatermark, Release, StatementFails, RunDies
  <2>8. lapses' <= faults' /\ faults' <= MaxFaults
    <3>1. CASE StatementFails(r) \/ RunDies(r)
      <4>1. /\ faults' = faults + 1 /\ faults < MaxFaults
            /\ lapses' \in {lapses, lapses + 1}
        BY <1>a, <3>1 DEF StatementFails, RunDies, Lapsed
      <4> QED
        BY <1>a, <1>b, <4>1
    <3>2. CASE ~(StatementFails(r) \/ RunDies(r))
      <4>1. lapses' = lapses /\ faults' = faults
        BY <1>3, <3>2 DEF RunStarts, RunClaims, ReadWatermark, Collect,
           SendSucceeds, SendFails, MoveWatermark, Release
      <4> QED
        BY <1>b, <4>1
    <3> QED
      BY <3>1, <3>2
  <2>9. watermark' <= hour' /\ hour <= hour'
    BY <1>a, <1>b, <2>1, <2>6
  <2>10. claim' \in Runs \cup {"free", "left", "stale"}
    BY <1>b, <2>7
  <2> QED
    BY <1>b, <1>c, <1>d, <2>1, <2>5, <2>8, <2>9, <2>10
<1> QED
  BY <1>1, <1>2, <1>3 DEF DigestNext, RunStep

\* What an event's mails are bounded by is what lapses are: the faults.
LEMMA DigestTypes == DigestInv /\ Clocks => DigestTypeOK
<1> SUFFICES ASSUME DigestInv, Clocks PROVE DigestTypeOK
  OBVIOUS
<1>1. ASSUME NEW e \in Events PROVE mailed[e] \in 0..(1 + MaxFaults)
  <2>1. /\ mailed[e] \in Nat /\ lapses \in Nat /\ faults \in Nat
        /\ MaxFaults \in Nat /\ Once(e) \in {0, 1}
        /\ mailed[e] <= lapses + Once(e) /\ lapses <= faults /\ faults <= MaxFaults
    BY DigestAssumption DEF DigestInv, Typed, Counted, Once, Clocks
  <2> QED
    BY <2>1
<1>2. mailed \in [Events -> 0..(1 + MaxFaults)]
  BY <1>1 DEF DigestInv, Typed
<1>3. faults \in 0..MaxFaults
  BY DigestAssumption DEF DigestInv, Typed, Clocks
<1> QED
  BY <1>2, <1>3 DEF DigestInv, Typed, Clocks, DigestTypeOK

\* Whatever runs overlap and die: the watermark is an instant that has been, the
\* claim is free, held or left behind, and no event is mailed more often than
\* once and once for each fault (runAdminDigest).
THEOREM DigestTypeCorrect == DigestSpec => []DigestTypeOK
<1>1. DigestInv /\ Clocks /\ [DigestNext]_digestVars => (DigestInv /\ Clocks)'
  BY TypedKept, RunsKnowKept, CountedKept, PassedKept, ClocksKept DEF DigestInv
<1> QED
  BY <1>1, InitHolds, ClocksBegin, DigestTypes, PTL DEF DigestSpec

-----------------------------------------------------------------------------
(***************************************************************************)
(* The services together.  A step of MCServices is one service's step or   *)
(* leaves its variables alone, so the whole implements each of them.       *)
(***************************************************************************)
LEMMA StepOfEach ==
  ASSUME [Next]_vars
  PROVE  /\ [LimitNext]_limitVars
         /\ [SyncNext]_syncVars \/ (LimitNext /\ UNCHANGED <<reported, issue, call>>)
         /\ [DigestNext]_digestVars
         /\ [SessionNext]_sessionVars
         /\ [ImageNext]_imageVars
         /\ [SearchNext]_searchVars
<1>1. CASE UNCHANGED vars
  BY <1>1 DEF vars, syncVars, limitVars
<1>2. CASE Next
  <2>1. part = "limits" \/ UNCHANGED syncVars \/ SyncNext
    BY <1>2 DEF Next, Beside
  <2>2. part = "limits" => LimitNext /\ UNCHANGED <<reported, issue, call>>
    BY <1>2 DEF Next, Beside
  <2>3. ASSUME SyncNext PROVE [LimitNext]_limitVars
    <3>1. ASSUME NEW r \in Calls,
                 GateRefuses(r) \/ InvalidVersion(r) \/ VersionCheck(r)
          PROVE  \E k \in LimitKeys : Admit(k) \/ Refuse(k)
      BY <3>1, SyncAssumption DEF GateRefuses, InvalidVersion, VersionCheck
    <3>2. ASSUME NEW r \in Calls,
                 GateMatches(r) \/ Stamps(r) \/ Upsert(r) \/ Insert(r) \/ Update(r)
          PROVE  UNCHANGED limitVars
      BY <3>2 DEF GateMatches, Stamps, Upsert, Insert, Update
    <3>3. ASSUME NEW i \in Issues, Clear(i) PROVE UNCHANGED limitVars
      BY <3>3 DEF Clear
    <3> QED
      BY <2>3, <3>1, <3>2, <3>3 DEF SyncNext, LimitNext
  <2>4. [LimitNext]_limitVars
    BY <2>1, <2>2, <2>3 DEF syncVars, limitVars
  <2>5. [SyncNext]_syncVars \/ (LimitNext /\ UNCHANGED <<reported, issue, call>>)
    BY <2>1, <2>2
  <2>6. [DigestNext]_digestVars /\ [SessionNext]_sessionVars
    BY <1>2 DEF Next, Beside
  <2>7. [ImageNext]_imageVars /\ [SearchNext]_searchVars
    BY <1>2 DEF Next, Beside
  <2> QED
    BY <2>4, <2>5, <2>6, <2>7
<1> QED
  BY <1>1, <1>2

\* Whatever part runs, it runs as its own specification says: what the theorems
\* say of the limiter, the digest, the sessions and the library alone is said of
\* the behaviours this run explores.
THEOREM EachServiceIsItself ==
  FairSpec => LimitSpec /\ DigestSpec /\ SessionSpec /\ ImageSpec
<1>1. Init => LimitInit /\ DigestInit /\ SessionInit /\ ImageInit
  BY DEF Init, SyncInit
<1>2. [Next]_vars => /\ [LimitNext]_limitVars /\ [DigestNext]_digestVars
                     /\ [SessionNext]_sessionVars /\ [ImageNext]_imageVars
  BY StepOfEach
<1> QED
  BY <1>1, <1>2, PTL DEF FairSpec, LimitSpec, DigestSpec, SessionSpec, ImageSpec

\* The types of all the services together, for any sizes of each: one open
\* issue and one session cookie at most, digests within the clock and the
\* faults, pictures, requests and answers of searches as they should be.
THEOREM ServicesTyped == FairSpec => []TypesOK
<1>1. FairSpec => []DigestTypeOK /\ []SessionTypeOK
  BY EachServiceIsItself, DigestTypeCorrect, SessionTypeCorrect, PTL
<1>2. FairSpec => []ImageTypeOK
  <2>1. ImageInv => ImageTypeOK
    BY DEF ImageInv
  <2> QED
    BY <2>1, EachServiceIsItself, ImageInductive, PTL
<1>3. FairSpec => []SyncTypeOK
  <2>1. Init => SyncInv /\ LimitInv
    BY SyncStarts, LimitStarts DEF Init, SyncInit
  <2>2. SyncInv /\ LimitInv /\ [Next]_vars => (SyncInv /\ LimitInv)'
    <3> SUFFICES ASSUME SyncInv, LimitInv, [Next]_vars
                 PROVE  SyncInv' /\ LimitInv'
      OBVIOUS
    <3>1. CASE [SyncNext]_syncVars
      BY <3>1, GateKeeps
    <3>2. CASE LimitNext /\ UNCHANGED <<reported, issue, call>>
      <4>1. SyncInv'
        BY <3>2 DEF SyncInv, IssuesHold, MissesAreClears, Keyed
      <4> QED
        BY <3>2, <4>1, LimitKept
    <3> QED
      BY <3>1, <3>2, StepOfEach
  <2> QED
    BY <2>1, <2>2, SyncTypes, PTL DEF FairSpec
<1>4. FairSpec => []SearchTypeOK
  <2>1. Init => SearchTypeOK
    BY SearchBegins DEF Init, NoSearch, SearchTypeOK, Rounds
  <2>2. SearchTypeOK /\ [Next]_vars => SearchTypeOK'
    BY StepOfEach, SearchKept
  <2> QED
    BY <2>1, <2>2, PTL DEF FairSpec
<1> QED
  BY <1>1, <1>2, <1>3, <1>4, PTL DEF TypesOK
=============================================================================
