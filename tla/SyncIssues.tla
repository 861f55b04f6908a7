----------------------------- MODULE SyncIssues -----------------------------
(***************************************************************************)
(* What a club's requests say of its API version, and what the server      *)
(* makes of it: the version gate before every data route, the version      *)
(* check, the stamp on the club, and the one open issue an administrator   *)
(* clears by hand.  Clubs do not interact: this is one club, with one key. *)
(*                                                                         *)
(* The recording is an upsert by the unique openKey, which either is one   *)
(* statement or reads and then inserts: both are here.  A request that     *)
(* declares no version passes the gate and leaves no trace.                *)
(***************************************************************************)
EXTENDS RateLimiter

CONSTANTS
    Calls,       \* requests of the club that may be in flight
    Issues,      \* ids of issues
    MaxSeen      \* bound on what one issue counts

ASSUME SyncAssumption ==
    /\ MaxSeen \in Nat \ {0}
    /\ {"gate", "version"} \subseteq LimitKeys

VARIABLES
    reported,    \* lastReportedApiVersion
    issue,       \* SyncIssue, by id
    call         \* what each request has read and decided

syncVars == <<reported, issue, call, limitVars>>

-----------------------------------------------------------------------------
Versions == {"server's", "another"}

IssueRow ==
    [status : {"none", "OPEN", "CLEARED"}, openKey : BOOLEAN, seen : 0..MaxSeen]

NoIssue == [status |-> "none", openKey |-> FALSE, seen |-> 0]

CallState ==
    [at : {"idle", "stamp", "upsert", "insert", "update"},
     says : Versions, saw : Versions \cup {"none"}, force : BOOLEAN,
     attempt : 1..2, clears : 0..2]

CallIdle ==
    [at |-> "idle", says |-> "server's", saw |-> "none", force |-> FALSE,
     attempt |-> 1, clears |-> 0]

\* The issue that holds the club's openKey.
Keyed == {i \in Issues : issue[i].openKey}

SyncInit ==
    /\ LimitInit
    /\ reported = "none"
    /\ issue = [i \in Issues |-> NoIssue]
    /\ call = [r \in Calls |-> CallIdle]

SyncTypeOK ==
    /\ LimitTypeOK
    /\ reported \in Versions \cup {"none"}
    /\ issue \in [Issues -> IssueRow]
    /\ call \in [Calls -> CallState]
    /\ Keyed = {i \in Issues : issue[i].status = "OPEN"}
    /\ Cardinality(Keyed) <= 1

Moves(r, state) == call' = [call EXCEPT ![r] = state]
Ends(r) == Moves(r, CallIdle)

-----------------------------------------------------------------------------
(***************************************************************************)
(* A request arrives.  The club row it decides on is the one its           *)
(* authentication loaded.                                                  *)
(***************************************************************************)
Starts(r, says, force) ==
    Moves(r, [at |-> "stamp", says |-> says, saw |-> reported, force |-> force,
              attempt |-> 1, clears |-> 0])

\* enforceClientApiVersion: a matching version is stamped; another one is
\* recorded within the key's allowance, and refused either way.
GateMatches(r) ==
    /\ call[r] = CallIdle
    /\ Starts(r, "server's", FALSE)
    /\ UNCHANGED <<reported, issue, limitVars>>

GateRefuses(r) ==
    /\ call[r] = CallIdle
    /\ \/ Admit("gate") /\ Starts(r, "another", FALSE)
       \/ Refuse("gate") /\ UNCHANGED call
    /\ UNCHANGED <<reported, issue>>

\* A malformed version takes from the same allowance; only the audit has it.
InvalidVersion(r) ==
    /\ call[r] = CallIdle
    /\ Admit("gate")
    /\ UNCHANGED <<reported, issue, call>>

\* GET /version: a limit of its own, and a stamp and a recording always.
VersionCheck(r) ==
    /\ call[r] = CallIdle
    /\ \/ Admit("version") /\ \E v \in Versions : Starts(r, v, TRUE)
       \/ Refuse("version") /\ UNCHANGED call
    /\ UNCHANGED <<reported, issue>>

\* stampReportedVersion: written when forced, when the value changed, or when
\* the last check is an hour old (at any time here).
Stamps(r) ==
    /\ call[r].at = "stamp"
    /\ \E stale \in BOOLEAN :
         reported' = IF call[r].force \/ stale \/ call[r].saw # call[r].says
                     THEN call[r].says ELSE reported
    /\ IF call[r].says = "server's" THEN Ends(r)
       ELSE Moves(r, [call[r] EXCEPT !.at = "upsert"])
    /\ UNCHANGED <<issue, limitVars>>

-----------------------------------------------------------------------------
(***************************************************************************)
(* recordVersionMismatch.                                                  *)
(***************************************************************************)
Recounted(i) ==
    /\ issue[i].seen < MaxSeen
    /\ issue' = [issue EXCEPT ![i].seen = @ + 1]

Unopened == {i \in Issues : issue[i].status = "none"}

\* A fresh id: which of the unused ones does not matter.
Opened ==
    /\ Unopened # {}
    /\ issue' = [issue EXCEPT ![CHOOSE i \in Unopened : TRUE] =
         [status |-> "OPEN", openKey |-> TRUE, seen |-> 1]]

\* The upsert: it refreshes the open issue, opens one, or has seen none and is
\* about to insert.
Upsert(r) ==
    /\ call[r].at = "upsert"
    /\ \/ \E i \in Keyed : Recounted(i) /\ Ends(r)
       \/ Keyed = {} /\ Opened /\ Ends(r)
       \/ Keyed = {} /\ Moves(r, [call[r] EXCEPT !.at = "insert"])
                     /\ UNCHANGED issue
    /\ UNCHANGED <<reported, limitVars>>

\* The key may be taken by now (P2002): then the winner's row is updated.
Insert(r) ==
    /\ call[r].at = "insert"
    /\ \/ Keyed = {} /\ Opened /\ Ends(r)
       \/ Keyed # {} /\ Moves(r, [call[r] EXCEPT !.at = "update"])
                     /\ UNCHANGED issue
    /\ UNCHANGED <<reported, limitVars>>

\* ATTEMPTS: the second miss is thrown.
Attempts == 2

OneAttempt == 1                                               \* mutant

MayNotRetry(r) == call[r].attempt < OneAttempt                \* mutant

MayRetry(r) == call[r].attempt < Attempts

\* The row may be cleared by now (P2025): once more from the upsert.
Update(r) ==
    /\ call[r].at = "update"
    /\ \/ \E i \in Keyed : Recounted(i) /\ Ends(r)
       \/ /\ Keyed = {}
          /\ IF MayRetry(r)
             THEN Moves(r, [call[r] EXCEPT !.at = "upsert", !.attempt = @ + 1])
             ELSE Ends(r)
          /\ UNCHANGED issue
    /\ UNCHANGED <<reported, limitVars>>

PutAwayKeyed(i) == [issue[i] EXCEPT !.status = "CLEARED"]     \* mutant

\* The key is freed in the same write.
PutAway(i) == [issue[i] EXCEPT !.status = "CLEARED", !.openKey = FALSE]

\* clearIssueAction: guarded by the status.
Clear(i) ==
    /\ issue[i].status = "OPEN"
    /\ issue' = [issue EXCEPT ![i] = PutAway(i)]
    /\ call' = [r \in Calls |->
         IF call[r].at \in {"upsert", "insert", "update"} /\ call[r].clears < 2
         THEN [call[r] EXCEPT !.clears = @ + 1] ELSE call[r]]
    /\ UNCHANGED <<reported, limitVars>>

-----------------------------------------------------------------------------
SyncNext ==
    \/ \E r \in Calls :
         \/ GateMatches(r) \/ GateRefuses(r) \/ InvalidVersion(r)
         \/ VersionCheck(r)
         \/ Stamps(r) \/ Upsert(r) \/ Insert(r) \/ Update(r)
    \/ \E i \in Issues : Clear(i)

SyncSpec == SyncInit /\ [][SyncNext]_syncVars

-----------------------------------------------------------------------------
\* A mismatch that is recorded ends up counted on an issue that is open, or
\* has been cleared after it: nothing is counted on an issue an administrator
\* has put away, and a recording is given up only when issues were cleared
\* under it twice (recordVersionMismatch, clearIssueAction).
Recording(r) == call[r].at \in {"upsert", "insert", "update"}

MismatchIsSeen ==
    [][\A r \in Calls :
         Recording(r) /\ call'[r] = CallIdle =>
           \/ call[r].clears = 2
           \/ \E i \in Issues : issue'[i].status = "OPEN"
                                /\ issue'[i].seen = issue[i].seen + 1
      ]_syncVars
=============================================================================
