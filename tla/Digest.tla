------------------------------- MODULE Digest -------------------------------
(***************************************************************************)
(* The administrators' digest: what happened since the last one, mailed by *)
(* runs the host's cron starts.  A run claims the job, reads the           *)
(* watermark, collects what is stamped in (since, now], sends, and only    *)
(* then moves the watermark.                                               *)
(*                                                                         *)
(* An event is a row with a timestamp the digest looks at (a club          *)
(* registered or reviewed, a key issued or revoked, an issue opened); it   *)
(* is stamped before it commits.  Time is the count of stamps that differ. *)
(* The mail server is external: a send succeeds or throws.  A run takes    *)
(* less than the 15 minutes after which its claim may be taken over.       *)
(***************************************************************************)
EXTENDS Naturals

CONSTANTS
    Events,      \* rows the digest reports
    Runs,        \* runs that may overlap
    FirstWindow, \* what a run covers when there is no watermark
    MaxFaults    \* bound on crashes and failed statements

ASSUME DigestAssumption ==
    /\ {FirstWindow, MaxFaults} \subseteq Nat
    /\ {"free", "left", "stale"} \cap Runs = {}

VARIABLES
    hour,        \* the newest stamp so far
    event,       \* the rows: their stamp, whether they committed, and late
    mailed,      \* digests that named the event
    mail,        \* is an SMTP server set, and a recipient?
    claim,       \* job_claims: who holds it, free or stale
    watermark,   \* digest.last_sent_at, or none
    run,         \* what each run has read
    floor,       \* since when the first digest sent covered
    lapses,      \* sends the watermark does not know of
    faults       \* crashes and failed statements so far

digestVars ==
    <<hour, event, mailed, mail, claim, watermark, run, floor, lapses, faults>>

NoMark == 0

-----------------------------------------------------------------------------
EventRow ==
    [at : {"none", "stamped", "committed"}, stamp : Nat, late : BOOLEAN]

RunState ==
    [at : {"idle", "claim", "read", "collect", "send", "mark", "release"},
     now : Nat, since : Nat, found : SUBSET Events]

RunIdle == [at |-> "idle", now |-> 0, since |-> 0, found |-> {}]

DigestTypeOK ==
    /\ event \in [Events -> EventRow]
    /\ mailed \in [Events -> 0..(1 + MaxFaults)]
    /\ mail \in BOOLEAN
    /\ claim \in Runs \cup {"free", "left", "stale"}
    /\ run \in [Runs -> RunState]
    /\ watermark <= hour
    /\ \A r \in Runs : run[r].now <= hour /\ run[r].since <= hour
    /\ lapses <= faults /\ faults \in 0..MaxFaults

DigestInit ==
    /\ hour = 1
    /\ event = [e \in Events |-> [at |-> "none", stamp |-> 0, late |-> FALSE]]
    /\ mailed = [e \in Events |-> 0]
    /\ mail \in BOOLEAN
    /\ claim = "free"
    /\ watermark = NoMark
    /\ run = [r \in Runs |-> RunIdle]
    /\ floor = 0
    /\ lapses = 0
    /\ faults = 0

-----------------------------------------------------------------------------
\* A statement takes its time; another may have the same.
StampEvent(e) ==
    /\ event[e].at = "none"
    /\ \E t \in {hour, hour + 1} :
         /\ hour' = t
         /\ event' = [event EXCEPT ![e].at = "stamped", ![e].stamp = t]
    /\ UNCHANGED <<mailed, mail, claim, watermark, run, floor, lapses, faults>>

\* Has the window of a digest that is sent, or about to be, passed it by?
PassedBy(e) ==
    \/ event[e].stamp <= watermark
    \/ \E r \in Runs : run[r].at \in {"send", "mark"}
                       /\ event[e].stamp <= run[r].now

CommitEvent(e) ==
    /\ event[e].at = "stamped"
    /\ event' = [event EXCEPT ![e].at = "committed", ![e].late = PassedBy(e)]
    /\ UNCHANGED <<hour, mailed, mail, claim, watermark, run, floor, lapses,
                   faults>>

\* PUT of the mail settings: all of them in one transaction.
SaveMail ==
    /\ mail' = ~mail
    /\ UNCHANGED <<hour, event, mailed, claim, watermark, run, floor, lapses,
                   faults>>

-----------------------------------------------------------------------------
(***************************************************************************)
(* runAdminDigest.                                                         *)
(***************************************************************************)
Continue(r, at) == run' = [run EXCEPT ![r].at = at]

RunStarts(r) ==
    /\ run[r].at = "idle"
    /\ run' = [run EXCEPT ![r] = [RunIdle EXCEPT !.at = "claim", !.now = hour]]
    /\ UNCHANGED <<hour, event, mailed, mail, claim, watermark, floor, lapses,
                   faults>>

MayClaimAnyhow == TRUE                                        \* mutant

MayClaimFree == claim = "free"                                \* mutant

MayClaim == claim \in {"free", "stale"}

\* The guarded update is the claim; without it the run answers 409.
RunClaims(r) ==
    /\ run[r].at = "claim"
    /\ IF MayClaim THEN claim' = r /\ Continue(r, "read")
       ELSE UNCHANGED claim /\ run' = [run EXCEPT ![r] = RunIdle]
    /\ UNCHANGED <<hour, event, mailed, mail, watermark, floor, lapses, faults>>

Since(now) ==
    IF watermark # NoMark THEN watermark
    ELSE IF now > FirstWindow THEN now - FirstWindow ELSE 0

ReadWatermark(r) ==
    /\ run[r].at = "read"
    /\ run' = [run EXCEPT ![r].at = "collect", ![r].since = Since(run[r].now)]
    /\ UNCHANGED <<hour, event, mailed, mail, claim, watermark, floor, lapses,
                   faults>>

\* collectDigest: the rows of (since, until].
Collected(since, until) ==
    {e \in Events : event[e].at = "committed"
                    /\ since < event[e].stamp /\ event[e].stamp <= until}

\* Nothing new, no server or no recipient: nothing is sent, nothing moves.
Collect(r) ==
    /\ run[r].at = "collect"
    /\ LET found == Collected(run[r].since, run[r].now) IN
         run' = [run EXCEPT
           ![r].at = IF found = {} \/ ~mail THEN "release" ELSE "send",
           ![r].found = found]
    /\ UNCHANGED <<hour, event, mailed, mail, claim, watermark, floor, lapses,
                   faults>>

\* The server takes the mail.  A call that throws although it did is this step
\* and StatementFails: sent, the watermark where it was, the claim released.
SendSucceeds(r) ==
    /\ run[r].at = "send"
    /\ mail
    /\ mailed' = [e \in Events |->
         mailed[e] + IF e \in run[r].found THEN 1 ELSE 0]
    /\ Continue(r, "mark")
    /\ UNCHANGED <<hour, event, mail, claim, watermark, floor, lapses, faults>>

\* sendMail reads the settings again, or the server refuses.
SendFails(r) ==
    /\ run[r].at = "send"
    /\ Continue(r, "release")
    /\ UNCHANGED <<hour, event, mailed, mail, claim, watermark, floor, lapses,
                   faults>>

MarkLate(r) == hour                                           \* mutant

\* The instant the run began, not the one it writes at.
Mark(r) == run[r].now

MoveWatermark(r) ==
    /\ run[r].at = "mark"
    /\ watermark' = Mark(r)
    /\ floor' = IF watermark = NoMark THEN run[r].since ELSE floor
    /\ Continue(r, "release")
    /\ UNCHANGED <<hour, event, mailed, mail, claim, lapses, faults>>

\* Whoever holds the claim, it is free again.
Release(r) ==
    /\ run[r].at = "release"
    /\ claim' = "free"
    /\ run' = [run EXCEPT ![r] = RunIdle]
    /\ UNCHANGED <<hour, event, mailed, mail, watermark, floor, lapses, faults>>

(***************************************************************************)
(* Faults.                                                                 *)
(***************************************************************************)
Lapsed(r) == lapses' = lapses + IF run[r].at = "mark" THEN 1 ELSE 0

\* A statement throws, or sendMail does after the server took the mail: the
\* claim is released all the same.
StatementFails(r) ==
    /\ run[r].at \in {"read", "collect", "mark"}
    /\ faults < MaxFaults
    /\ faults' = faults + 1
    /\ Lapsed(r)
    /\ Continue(r, "release")
    /\ UNCHANGED <<hour, event, mailed, mail, claim, watermark, floor>>

\* The process stops, or the release fails: the claim stays behind.
RunDies(r) ==
    /\ run[r].at # "idle"
    /\ faults < MaxFaults
    /\ faults' = faults + 1
    /\ Lapsed(r)
    /\ claim' = IF claim = r THEN "left" ELSE claim
    /\ run' = [run EXCEPT ![r] = RunIdle]
    /\ UNCHANGED <<hour, event, mailed, mail, watermark, floor>>

ClaimGoesStale ==
    /\ claim = "left"
    /\ claim' = "stale"
    /\ UNCHANGED <<hour, event, mailed, mail, watermark, run, floor, lapses,
                   faults>>

-----------------------------------------------------------------------------
RunStep(r) ==
    \/ RunClaims(r) \/ ReadWatermark(r) \/ Collect(r)
    \/ SendSucceeds(r) \/ SendFails(r)
    \/ MoveWatermark(r) \/ Release(r)

DigestNext ==
    \/ \E e \in Events : StampEvent(e) \/ CommitEvent(e)
    \/ SaveMail
    \/ \E r \in Runs : RunStarts(r) \/ RunStep(r) \/ StatementFails(r) \/ RunDies(r)
    \/ ClaimGoesStale

DigestSpec == DigestInit /\ [][DigestNext]_digestVars

\* The cron fires, a run goes on, a claim left behind gets old, and a mail
\* server that is asked again and again takes the mail in the end.
DigestFairness ==
    /\ WF_digestVars(\E r \in Runs : RunStarts(r))
    /\ \A r \in Runs : WF_digestVars(RunStep(r))
    /\ WF_digestVars(ClaimGoesStale)
    /\ \A r \in Runs : SF_digestVars(SendSucceeds(r))

-----------------------------------------------------------------------------
(***************************************************************************)
(* Properties                                                              *)
(***************************************************************************)

\* "ONE digest per period, never a repeat": an event is named by one digest,
\* and by one more for each send whose watermark was never written.
RepeatsAreCounted == \A e \in Events : mailed[e] <= 1 + lapses

\* The watermark never passes an event nobody was told of, but for two: one
\* that committed after the digest covering its stamp had been collected, and
\* one older than what the first digest reached back to.
Missed(e) == event[e].late \/ (watermark # NoMark /\ event[e].stamp <= floor)

NothingPassedUnsaid ==
    \A e \in Events :
      event[e].at = "committed" /\ event[e].stamp <= watermark
        => mailed[e] > 0 \/ Missed(e)

\* While mail stays set up, every event is told in the end, unless it is one of
\* the two above or was a day old before the first digest went out.
TooOld(e) == watermark = NoMark /\ event[e].stamp + FirstWindow <= hour

EventsAreTold ==
    <>[]mail =>
      \A e \in Events :
        event[e].at = "committed" ~> mailed[e] > 0 \/ Missed(e) \/ TooOld(e)
=============================================================================
