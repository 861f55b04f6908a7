------------------------------ MODULE Sessions ------------------------------
(***************************************************************************)
(* Console sessions of one user: a signed cookie that is checked against   *)
(* the user's row, refreshed by the proxy while pages are read, and voided *)
(* by a change of password.  A request carries the cookie its browser had  *)
(* when it was sent, and what the answer sets arrives later, in any order. *)
(*                                                                         *)
(* A password is its generation; hashing and signing are left out.  A      *)
(* change takes its instant in the process and commits later, so changes   *)
(* may commit in another order than that of their instants.                *)
(*                                                                         *)
(* History, in no cookie and no column: the fields `knew` and `late` of a  *)
(* token say which password it was given for and whether that had been     *)
(* changed before the token was made; `writtenAt` is the second in which   *)
(* the last change committed.                                              *)
(***************************************************************************)
EXTENDS Naturals

CONSTANTS
    Browsers,     \* browsers of the user
    Trips,        \* requests that may be in flight
    SessionMaxAge, \* SESSION_MAX_AGE
    AbsoluteMaxAge, \* SESSION_ABSOLUTE_MAX_AGE
    RefreshAfter, \* SESSION_REFRESH_AFTER_SECONDS
    MaxSeconds,   \* bound on the clock
    MaxPasswords  \* bound on passwords

ASSUME SessionAssumption ==
    /\ {SessionMaxAge, AbsoluteMaxAge, RefreshAfter} \subseteq Nat \ {0}
    /\ {MaxSeconds, MaxPasswords} \subseteq Nat \ {0}

VARIABLES
    seconds,      \* the clock
    password,     \* the user's password, passwordChangedAt, and the history
    jar,          \* the session cookie, by browser
    trip          \* what each request carries and has decided

sessionVars == <<seconds, password, jar, trip>>

-----------------------------------------------------------------------------
Seconds == 0..MaxSeconds
Passwords == 1..MaxPasswords

Tokens ==
    [authAt : Seconds, issuedAt : Seconds, knew : Passwords, late : BOOLEAN]

\* A browser has one cookie or none, a response sets one or none.
Cookies == {{}} \cup {{t} : t \in Tokens}

TripState ==
    [at : {"idle", "signin", "matched", "page", "change", "checked", "stamped",
           "changed", "logout", "sets", "clears"},
     from : Browsers, cookie : Cookies, typed : Passwords, stamp : Seconds]

TripIdle ==
    [at |-> "idle", from |-> CHOOSE b \in Browsers : TRUE, cookie |-> {},
     typed |-> 1, stamp |-> 0]

IsCookie(c) ==
    c = {} \/ \E t \in c : c = {t} /\ t \in Tokens

SessionTypeOK ==
    /\ seconds \in Seconds
    /\ password \in [now : Passwords, changedAt : Seconds, writtenAt : Seconds]
    /\ password.changedAt <= password.writtenAt /\ password.writtenAt <= seconds
    /\ \A b \in Browsers : IsCookie(jar[b])
    /\ \A r \in Trips :
         /\ IsCookie(trip[r].cookie)
         /\ \A t \in trip[r].cookie : t.authAt <= seconds

SessionInit ==
    /\ seconds = 1
    /\ password = [now |-> 1, changedAt |-> 0, writtenAt |-> 0]
    /\ jar = [b \in Browsers |-> {}]
    /\ trip = [r \in Trips |-> TripIdle]

-----------------------------------------------------------------------------
(***************************************************************************)
(* Tokens.                                                                 *)
(***************************************************************************)
\* signSession at a sign-in.
Minted(knew) ==
    [authAt |-> seconds, issuedAt |-> seconds, knew |-> knew,
     late |-> knew # password.now]

\* readSessionToken: not expired, and signed in not too long ago.
Unexpired(t) ==
    /\ seconds < t.issuedAt + SessionMaxAge
    /\ seconds <= t.authAt + AbsoluteMaxAge

\* getSession: no password was changed since the sign-in.
Valid(t) == Unexpired(t) /\ t.authAt >= password.changedAt

RefreshDue(t) == seconds >= t.issuedAt + RefreshAfter

RefreshedAnew(t) ==                                           \* mutant
    [t EXCEPT !.issuedAt = seconds, !.authAt = seconds]

\* refreshedSessionToken carries the sign-in time forward.
Refreshed(t) == [t EXCEPT !.issuedAt = seconds]

-----------------------------------------------------------------------------
(***************************************************************************)
(* Requests.                                                               *)
(***************************************************************************)
Sends(r, b, at, cookie, typed) ==
    /\ trip[r] = TripIdle
    /\ trip' = [trip EXCEPT ![r] =
         [at |-> at, from |-> b, cookie |-> cookie, typed |-> typed, stamp |-> 0]]
    /\ UNCHANGED <<seconds, password, jar>>

SignIn(r, b) == \E p \in 1..password.now : Sends(r, b, "signin", {}, p)
OpenPage(r, b) == jar[b] # {} /\ Sends(r, b, "page", jar[b], 1)
LogOut(r, b) == Sends(r, b, "logout", {}, 1)

ChangePassword(r, b) ==
    /\ password.now < MaxPasswords
    /\ \E p \in 1..password.now : Sends(r, b, "change", jar[b], p)

Becomes(r, state) == trip' = [trip EXCEPT ![r] = state]

\* The answer sets a cookie, or nothing.
Sets(r, cookie) ==
    Becomes(r, IF cookie = {} THEN TripIdle
               ELSE [trip[r] EXCEPT !.at = "sets", !.cookie = cookie])

\* loginAction reads the hash and verifies what was typed.
SignInMatches(r) ==
    /\ trip[r].at = "signin"
    /\ Becomes(r, IF trip[r].typed = password.now
                  THEN [trip[r] EXCEPT !.at = "matched"] ELSE TripIdle)
    /\ UNCHANGED <<seconds, password, jar>>

SignInEnds(r) ==
    /\ trip[r].at = "matched"
    /\ Sets(r, {Minted(trip[r].typed)})
    /\ UNCHANGED <<seconds, password, jar>>

\* The proxy refreshes what it reads, without the database; the page itself
\* asks the database.
ReadPage(r) ==
    /\ trip[r].at = "page"
    /\ LET read == {t \in trip[r].cookie : Unexpired(t)} IN
         Sets(r, {Refreshed(t) : t \in {u \in read : RefreshDue(u)}})
    /\ UNCHANGED <<seconds, password, jar>>

\* The change-password handler: the session, the current password, the instant
\* (once the new password is hashed), the update, and a fresh session for this
\* browser.
ChangeChecked(r) ==
    /\ trip[r].at = "change"
    /\ Becomes(r, IF (\E t \in trip[r].cookie : Valid(t))
                     /\ trip[r].typed = password.now
                  THEN [trip[r] EXCEPT !.at = "checked"] ELSE TripIdle)
    /\ UNCHANGED <<seconds, password, jar>>

ChangeStamped(r) ==
    /\ trip[r].at = "checked"
    /\ Becomes(r, [trip[r] EXCEPT !.at = "stamped", !.stamp = seconds])
    /\ UNCHANGED <<seconds, password, jar>>

\* The update is of the user, whatever password the row has by now.
ChangeWritten(r) ==
    /\ trip[r].at = "stamped"
    /\ password.now < MaxPasswords
    /\ password' = [now |-> password.now + 1, changedAt |-> trip[r].stamp,
                    writtenAt |-> seconds]
    /\ Becomes(r, [trip[r] EXCEPT !.at = "changed", !.stamp = 0,
                                  !.typed = password.now + 1])
    /\ UNCHANGED <<seconds, jar>>

ChangeEnds(r) ==
    /\ trip[r].at = "changed"
    /\ Sets(r, {Minted(trip[r].typed)})
    /\ UNCHANGED <<seconds, password, jar>>

LogOutEnds(r) ==
    /\ trip[r].at = "logout"
    /\ Becomes(r, [trip[r] EXCEPT !.at = "clears"])
    /\ UNCHANGED <<seconds, password, jar>>

\* The answer reaches the browser.
Arrives(r) ==
    /\ trip[r].at \in {"sets", "clears"}
    /\ jar' = [jar EXCEPT ![trip[r].from] = trip[r].cookie]
    /\ Becomes(r, TripIdle)
    /\ UNCHANGED <<seconds, password>>

\* The request or its answer is lost, or the process stops.
TripLost(r) ==
    /\ trip[r] # TripIdle
    /\ Becomes(r, TripIdle)
    /\ UNCHANGED <<seconds, password, jar>>

SecondPasses ==
    /\ seconds < MaxSeconds
    /\ seconds' = seconds + 1
    /\ UNCHANGED <<password, jar, trip>>

-----------------------------------------------------------------------------
SessionNext ==
    \/ \E r \in Trips, b \in Browsers :
         SignIn(r, b) \/ OpenPage(r, b) \/ LogOut(r, b) \/ ChangePassword(r, b)
    \/ \E r \in Trips :
         \/ SignInMatches(r) \/ SignInEnds(r) \/ ReadPage(r)
         \/ ChangeChecked(r) \/ ChangeStamped(r) \/ ChangeWritten(r)
         \/ ChangeEnds(r) \/ LogOutEnds(r) \/ Arrives(r) \/ TripLost(r)
    \/ SecondPasses

SessionSpec == SessionInit /\ [][SessionNext]_sessionVars

-----------------------------------------------------------------------------
(***************************************************************************)
(* Properties                                                              *)
(***************************************************************************)

\* A change of password voids every session given for an earlier one, refreshed
\* or not, but for two kinds: one given between the instant the change took and
\* the second in which it committed (those of the very second of the change
\* among them, and those an overlapping change had voided), and one whose
\* sign-in had verified the old password before the commit and was given its
\* token after it (getSession, loginAction, the change-password handler).
InUse == UNION ({jar[b] : b \in Browsers} \cup {trip[r].cookie : r \in Trips})

ChangeVoidsSessions ==
    \A t \in InUse :
      Valid(t) /\ t.knew # password.now
        => t.late \/ t.authAt \in password.changedAt..password.writtenAt
=============================================================================
