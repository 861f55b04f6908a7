--------------------------- MODULE SessionsProofs ---------------------------
(***************************************************************************)
(* The door.  What a change of password voids, for any number of browsers  *)
(* and of requests in flight, any ages, and answers in any order; what the *)
(* rate limiter lets through; and what becomes of a version mismatch.      *)
(***************************************************************************)
EXTENDS Sessions, SyncIssues, FiniteSetTheorems, TLAPS

\* What is true of every token that is kept or under way: it is of the current
\* password, or no later than the commit of the last change, or was late.
TokenHolds(t) ==
    /\ t.authAt <= seconds
    /\ t.knew = password.now \/ t.late \/ t.authAt <= password.writtenAt

Known ==
    {t \in [authAt : Nat, issuedAt : Nat, knew : Nat, late : BOOLEAN] :
       TokenHolds(t)}

Stages ==
    {"idle", "signin", "matched", "page", "change", "checked", "stamped",
     "changed", "logout", "sets", "clears"}

KnownTrips ==
    [at : Stages, from : Browsers \cup {TripIdle.from}, cookie : SUBSET Known,
     typed : Nat, stamp : 0..seconds]

SessionInv ==
    /\ seconds \in Nat
    /\ password \in [now : Nat, changedAt : Nat, writtenAt : Nat]
    /\ password.changedAt <= password.writtenAt
    /\ password.writtenAt <= seconds
    /\ jar \in [Browsers -> SUBSET Known]
    /\ trip \in [Trips -> KnownTrips]

-----------------------------------------------------------------------------
LEMMA IdleIsKnown ==
  ASSUME seconds \in Nat PROVE TripIdle \in KnownTrips
  BY DEF TripIdle, KnownTrips, Stages

\* A token made now holds, whatever password it was asked with; a refreshed one
\* keeps its sign-in.
LEMMA MintedHolds ==
  ASSUME SessionInv, NEW knew \in Nat PROVE Minted(knew) \in Known
<1>1. (knew # password.now) \in BOOLEAN
  OBVIOUS
<1>2. Minted(knew) \in [authAt : Nat, issuedAt : Nat, knew : Nat, late : BOOLEAN]
  BY <1>1 DEF Minted, SessionInv
<1>3. TokenHolds(Minted(knew))
  <2>1. Minted(knew).authAt = seconds
    BY DEF Minted
  <2>2. knew = password.now \/ Minted(knew).late
    BY DEF Minted
  <2>3. Minted(knew).knew = knew
    BY DEF Minted
  <2> QED
    BY <2>1, <2>2, <2>3 DEF TokenHolds, SessionInv
<1> QED
  BY <1>2, <1>3 DEF Known

LEMMA RefreshedHolds ==
  ASSUME SessionInv, NEW t \in Known PROVE Refreshed(t) \in Known
  BY DEF Refreshed, Known, TokenHolds, SessionInv

\* What held of a token holds after the clock or the password has moved on.
LEMMA TokensKept ==
  ASSUME SessionInv, seconds' \in Nat, seconds <= seconds',
         \/ password' = password
         \/ password'.writtenAt = seconds
  PROVE  Known \subseteq Known'
<1> SUFFICES ASSUME NEW t \in Known PROVE t \in Known'
  OBVIOUS
<1>1. /\ t \in [authAt : Nat, issuedAt : Nat, knew : Nat, late : BOOLEAN]
      /\ TokenHolds(t)
  BY DEF Known
<1>2. TokenHolds(t)'
  BY <1>1 DEF TokenHolds, SessionInv
<1> QED
  BY <1>1, <1>2 DEF Known

\* A request's step that leaves clock, password and jars alone.
LEMMA TripKept ==
  ASSUME SessionInv, NEW r \in Trips, NEW state \in KnownTrips,
         trip' = [trip EXCEPT ![r] = state], UNCHANGED <<seconds, password, jar>>
  PROVE  SessionInv'
<1>1. Known' = Known /\ KnownTrips' = KnownTrips
  BY DEF Known, KnownTrips, TokenHolds
<1> QED
  BY <1>1 DEF SessionInv

\* The same of a request that answers with a cookie, or with none.
LEMMA AnswerKept ==
  ASSUME SessionInv, NEW r \in Trips, NEW cookie \in SUBSET Known, Sets(r, cookie),
         UNCHANGED <<seconds, password, jar>>
  PROVE  SessionInv'
<1> DEFINE state == IF cookie = {} THEN TripIdle
                    ELSE [trip[r] EXCEPT !.at = "sets", !.cookie = cookie]
<1>1. trip[r] \in KnownTrips
  BY DEF SessionInv
<1>2. state \in KnownTrips
  BY <1>1, IdleIsKnown DEF KnownTrips, Stages, SessionInv
<1>3. trip' = [trip EXCEPT ![r] = state]
  BY DEF Sets, Becomes
<1> HIDE DEF state
<1> QED
  BY <1>2, <1>3, TripKept

LEMMA SessionInvKept ==
  ASSUME SessionInv, [SessionNext]_sessionVars PROVE SessionInv'
<1>a. /\ seconds \in Nat
      /\ password \in [now : Nat, changedAt : Nat, writtenAt : Nat]
      /\ password.changedAt <= password.writtenAt /\ password.writtenAt <= seconds
      /\ \A r \in Trips : trip[r] \in KnownTrips
      /\ \A b \in Browsers : jar[b] \in SUBSET Known
  BY DEF SessionInv
<1>1. ASSUME NEW r \in Trips, NEW b \in Browsers,
             \/ SignIn(r, b) \/ OpenPage(r, b) \/ LogOut(r, b)
             \/ ChangePassword(r, b)
      PROVE  SessionInv'
  <2>1. PICK at \in {"signin", "page", "logout", "change"},
             cookie \in SUBSET Known, typed \in Nat :
               Sends(r, b, at, cookie, typed)
    BY <1>a, <1>1 DEF SignIn, OpenPage, LogOut, ChangePassword
  <2>2. [at |-> at, from |-> b, cookie |-> cookie, typed |-> typed, stamp |-> 0]
          \in KnownTrips
    BY <1>a DEF KnownTrips, Stages
  <2> QED
    BY <2>1, <2>2, TripKept DEF Sends
<1>2. ASSUME NEW r \in Trips, SignInMatches(r) PROVE SessionInv'
  <2>1. [trip[r] EXCEPT !.at = "matched"] \in KnownTrips
    BY <1>a DEF KnownTrips, Stages
  <2> QED
    BY <1>a, <1>2, <2>1, IdleIsKnown, TripKept DEF SignInMatches, Becomes
<1>3. ASSUME NEW r \in Trips, SignInEnds(r) \/ ChangeEnds(r) PROVE SessionInv'
  <2>1. {Minted(trip[r].typed)} \in SUBSET Known
    BY <1>a, MintedHolds DEF KnownTrips, Stages
  <2> QED
    BY <1>3, <2>1, AnswerKept DEF SignInEnds, ChangeEnds
<1>4. ASSUME NEW r \in Trips, ReadPage(r) PROVE SessionInv'
  <2> DEFINE read == {t \in trip[r].cookie : Unexpired(t)}
             cookie == {Refreshed(t) : t \in {u \in read : RefreshDue(u)}}
  <2>1. cookie \in SUBSET Known
    <3>1. trip[r].cookie \in SUBSET Known
      BY <1>a DEF KnownTrips, Stages
    <3> QED
      BY <3>1, RefreshedHolds
  <2>2. Sets(r, cookie) /\ UNCHANGED <<seconds, password, jar>>
    BY <1>4 DEF ReadPage
  <2> HIDE DEF cookie
  <2> QED
    BY <2>1, <2>2, AnswerKept
<1>5. ASSUME NEW r \in Trips, ChangeChecked(r) PROVE SessionInv'
  <2>1. [trip[r] EXCEPT !.at = "checked"] \in KnownTrips
    BY <1>a DEF KnownTrips, Stages
  <2> QED
    BY <1>a, <1>5, <2>1, IdleIsKnown, TripKept DEF ChangeChecked, Becomes
<1>5a. ASSUME NEW r \in Trips, ChangeStamped(r) PROVE SessionInv'
  <2>1. [trip[r] EXCEPT !.at = "stamped", !.stamp = seconds] \in KnownTrips
    <3>1. seconds \in 0..seconds /\ trip[r] \in KnownTrips
      BY <1>a
    <3> QED
      BY <3>1 DEF KnownTrips, Stages
  <2> QED
    BY <1>5a, <2>1, TripKept DEF ChangeStamped, Becomes
<1>6. ASSUME NEW r \in Trips, ChangeWritten(r) PROVE SessionInv'
  <2> DEFINE state == [trip[r] EXCEPT !.at = "changed", !.stamp = 0,
                                      !.typed = password.now + 1]
  <2>1. /\ password' = [now |-> password.now + 1, changedAt |-> trip[r].stamp,
                        writtenAt |-> seconds]
        /\ trip' = [trip EXCEPT ![r] = state]
        /\ seconds' = seconds /\ jar' = jar
    BY <1>6 DEF ChangeWritten, Becomes
  <2>2. Known \subseteq Known'
    BY <1>a, <2>1, TokensKept
  <2>3. state \in KnownTrips
    <3>1. password.now + 1 \in Nat /\ 0 \in 0..seconds /\ trip[r] \in KnownTrips
      BY <1>a
    <3> QED
      BY <3>1 DEF KnownTrips, Stages
  <2>4. KnownTrips \subseteq KnownTrips'
    BY <2>1, <2>2 DEF KnownTrips, Stages
  <2>5. /\ password' \in [now : Nat, changedAt : Nat, writtenAt : Nat]
        /\ password'.changedAt <= password'.writtenAt
        /\ password'.writtenAt <= seconds'
    <3>1. trip[r].stamp \in Nat /\ trip[r].stamp <= seconds
      BY <1>a DEF KnownTrips
    <3> QED
      BY <1>a, <2>1, <3>1
  <2> HIDE DEF state
  <2> QED
    BY <2>1, <2>2, <2>3, <2>4, <2>5 DEF SessionInv
<1>7. ASSUME NEW r \in Trips, LogOutEnds(r) PROVE SessionInv'
  <2>1. [trip[r] EXCEPT !.at = "clears"] \in KnownTrips
    BY <1>a DEF KnownTrips, Stages
  <2> QED
    BY <1>7, <2>1, TripKept DEF LogOutEnds, Becomes
<1>8. ASSUME NEW r \in Trips, Arrives(r) PROVE SessionInv'
  <2>1. Known' = Known /\ KnownTrips' = KnownTrips
    BY <1>8 DEF Arrives, Known, KnownTrips, TokenHolds
  <2>2. trip[r].cookie \in SUBSET Known
    BY <1>a DEF KnownTrips, Stages
  <2> QED
    BY <1>8, <2>1, <2>2, IdleIsKnown DEF Arrives, Becomes, SessionInv
<1>9. ASSUME NEW r \in Trips, TripLost(r) PROVE SessionInv'
  BY <1>a, <1>9, IdleIsKnown, TripKept DEF TripLost, Becomes
<1>10. CASE SecondPasses
  <2>1. seconds' \in Nat /\ seconds <= seconds' /\ UNCHANGED <<password, jar, trip>>
    BY <1>a, <1>10 DEF SecondPasses
  <2>2. Known \subseteq Known'
    BY <2>1, TokensKept
  <2>3. KnownTrips \subseteq KnownTrips'
    BY <1>a, <2>1, <2>2 DEF KnownTrips, Stages
  <2> QED
    BY <1>a, <2>1, <2>2, <2>3 DEF SessionInv
<1>11. CASE UNCHANGED sessionVars
  BY <1>11 DEF sessionVars, SessionInv, Known, KnownTrips, TokenHolds
<1> QED
  BY <1>1, <1>2, <1>3, <1>4, <1>5, <1>6, <1>7, <1>8, <1>9, <1>10, <1>11,
     <1>5a DEF SessionNext

-----------------------------------------------------------------------------
\* A change of password voids every session given for an earlier one, but for
\* those given between the instant it took and the second of its commit, and
\* those whose sign-in its commit overtook, in whatever order overlapping
\* changes commit (getSession, loginAction, the change-password handler).
THEOREM OldSessionsAreVoid == SessionSpec => []ChangeVoidsSessions
<1>1. SessionInit => SessionInv
  BY IdleIsKnown DEF SessionInit, SessionInv
<1>2. SessionInv /\ [SessionNext]_sessionVars => SessionInv'
  BY SessionInvKept
<1>3. SessionInv => ChangeVoidsSessions
  <2> SUFFICES ASSUME SessionInv, NEW t \in InUse, Valid(t), t.knew # password.now
               PROVE  t.late \/ t.authAt \in password.changedAt..password.writtenAt
    BY DEF ChangeVoidsSessions
  <2>1. t \in Known
    BY DEF InUse, SessionInv, KnownTrips
  <2> QED
    BY <2>1 DEF Known, TokenHolds, Valid, SessionInv
<1> QED
  BY <1>1, <1>2, <1>3, PTL DEF SessionSpec
-----------------------------------------------------------------------------
\* A cookie is one token, made no later than now for a password that was set.
FreshBy(cookie, now, newest) ==
    \A t \in cookie :
      cookie = {t} /\ t.issuedAt <= now /\ t.knew \in 1..newest

Fresh(cookie) == FreshBy(cookie, seconds, password.now)

SessionBounds ==
    /\ seconds <= MaxSeconds
    /\ password.now \in 1..MaxPasswords
    /\ \A b \in Browsers : Fresh(jar[b])
    /\ \A r \in Trips : Fresh(trip[r].cookie) /\ trip[r].typed \in 1..password.now

LEMMA SessionBoundsBegin == SessionInit => SessionBounds
<1> SUFFICES ASSUME SessionInit PROVE SessionBounds
  OBVIOUS
<1>1. seconds <= MaxSeconds /\ password.now \in 1..MaxPasswords
  BY SessionAssumption DEF SessionInit
<1>2. Fresh({}) /\ TripIdle.cookie = {} /\ TripIdle.typed = 1
  BY DEF Fresh, FreshBy, TripIdle
<1> QED
  BY <1>1, <1>2 DEF SessionInit, SessionBounds

\* A request's step that leaves clock, password and jars alone.
LEMMA BoundsOfTrip ==
  ASSUME SessionInv, SessionBounds, NEW r \in Trips, NEW state,
         Fresh(state.cookie), state.typed \in 1..password.now,
         trip' = [trip EXCEPT ![r] = state], UNCHANGED <<seconds, password, jar>>
  PROVE  SessionBounds'
<1>1. trip'[r] = state /\ \A s \in Trips \ {r} : trip'[s] = trip[s]
  BY DEF SessionInv
<1>2. \A s \in Trips : Fresh(trip'[s].cookie) /\ trip'[s].typed \in 1..password.now
  BY <1>1 DEF SessionBounds
<1> QED
  BY <1>2 DEF SessionBounds, Fresh

LEMMA IdleIsFresh ==
  ASSUME SessionInv, SessionBounds
  PROVE  Fresh(TripIdle.cookie) /\ TripIdle.typed \in 1..password.now
  BY DEF Fresh, FreshBy, TripIdle, SessionBounds, SessionInv

\* The same of a request that answers with a cookie, or with none.
LEMMA BoundsOfAnswer ==
  ASSUME SessionInv, SessionBounds, NEW r \in Trips, NEW cookie, Fresh(cookie),
         Sets(r, cookie), UNCHANGED <<seconds, password, jar>>
  PROVE  SessionBounds'
<1> DEFINE state == IF cookie = {} THEN TripIdle
                    ELSE [trip[r] EXCEPT !.at = "sets", !.cookie = cookie]
<1>1. trip[r] \in KnownTrips
  BY DEF SessionInv
<1>2. Fresh(state.cookie) /\ state.typed \in 1..password.now
  <2>1. CASE cookie = {}
    BY <2>1, IdleIsFresh
  <2>2. CASE cookie # {}
    <3>1. state.cookie = cookie /\ state.typed = trip[r].typed
      BY <1>1, <2>2 DEF KnownTrips
    <3> QED
      BY <3>1 DEF SessionBounds
  <2> QED
    BY <2>1, <2>2
<1>3. trip' = [trip EXCEPT ![r] = state]
  BY DEF Sets, Becomes
<1> HIDE DEF state
<1> QED
  BY <1>2, <1>3, BoundsOfTrip

LEMMA MintedIsFresh ==
  ASSUME SessionInv, SessionBounds, NEW knew \in 1..password.now
  PROVE  Fresh({Minted(knew)})
<1>1. Minted(knew).issuedAt = seconds /\ Minted(knew).knew = knew /\ seconds \in Nat
  BY DEF Minted, SessionInv
<1> QED
  BY <1>1 DEF Fresh, FreshBy

LEMMA SessionBoundsKept ==
  ASSUME SessionInv, SessionBounds, [SessionNext]_sessionVars PROVE SessionBounds'
<1>a. /\ seconds \in Nat /\ seconds <= MaxSeconds
      /\ password.now \in 1..MaxPasswords
      /\ MaxSeconds \in Nat /\ MaxPasswords \in Nat
      /\ \A b \in Browsers : Fresh(jar[b])
      /\ \A r \in Trips : Fresh(trip[r].cookie) /\ trip[r].typed \in 1..password.now
      /\ \A b \in Browsers : jar[b] \in SUBSET Known
      /\ \A r \in Trips : trip[r] \in KnownTrips /\ trip[r].cookie \in SUBSET Known
  BY SessionAssumption DEF SessionInv, SessionBounds, KnownTrips
\* What was in time stays so, with the clock or the password moved on.
<1>b. ASSUME NEW now \in Nat, seconds <= now,
             NEW newest \in Nat, password.now <= newest,
             NEW c \in SUBSET Known, Fresh(c)
      PROVE  FreshBy(c, now, newest)
  <2> SUFFICES ASSUME NEW t \in c
               PROVE  c = {t} /\ t.issuedAt <= now /\ t.knew \in 1..newest
    BY DEF FreshBy
  <2>1. c = {t} /\ t.issuedAt <= seconds /\ t.knew \in 1..password.now
    BY <1>b DEF Fresh, FreshBy
  <2>2. t.issuedAt \in Nat
    BY DEF Known
  <2> QED
    BY <1>a, <1>b, <2>1, <2>2
<1>1. ASSUME NEW r \in Trips, NEW b \in Browsers,
             \/ SignIn(r, b) \/ OpenPage(r, b) \/ LogOut(r, b)
             \/ ChangePassword(r, b)
      PROVE  SessionBounds'
  <2>1. PICK at \in {"signin", "page", "logout", "change"}, cookie \in {{}, jar[b]},
             typed \in 1..password.now :
               Sends(r, b, at, cookie, typed)
    BY <1>a, <1>1 DEF SignIn, OpenPage, LogOut, ChangePassword
  <2>2. Fresh(cookie)
    BY <1>a DEF Fresh, FreshBy
  <2> DEFINE state == [at |-> at, from |-> b, cookie |-> cookie, typed |-> typed,
                       stamp |-> 0]
  <2>3. state.cookie = cookie /\ state.typed = typed
    OBVIOUS
  <2>4. trip' = [trip EXCEPT ![r] = state] /\ UNCHANGED <<seconds, password, jar>>
    BY <2>1 DEF Sends
  <2> HIDE DEF state
  <2> QED
    BY <2>2, <2>3, <2>4, BoundsOfTrip
<1>2. ASSUME NEW r \in Trips, NEW at \in Stages,
             \/ Becomes(r, TripIdle)
             \/ Becomes(r, [trip[r] EXCEPT !.at = at]),
             UNCHANGED <<seconds, password, jar>>
      PROVE  SessionBounds'
  <2>1. /\ Fresh([trip[r] EXCEPT !.at = at].cookie)
        /\ [trip[r] EXCEPT !.at = at].typed \in 1..password.now
    BY <1>a DEF KnownTrips
  <2> QED
    BY <1>2, <2>1, IdleIsFresh, BoundsOfTrip DEF Becomes
<1>3. ASSUME NEW r \in Trips,
             SignInMatches(r) \/ ChangeChecked(r) \/ LogOutEnds(r) \/ TripLost(r)
      PROVE  SessionBounds'
  BY <1>2, <1>3 DEF SignInMatches, ChangeChecked, LogOutEnds, TripLost, Stages
<1>4. ASSUME NEW r \in Trips, SignInEnds(r) \/ ChangeEnds(r) PROVE SessionBounds'
  <2>1. Fresh({Minted(trip[r].typed)})
    BY <1>a, MintedIsFresh
  <2> QED
    BY <1>4, <2>1, BoundsOfAnswer DEF SignInEnds, ChangeEnds
<1>5. ASSUME NEW r \in Trips, ReadPage(r) PROVE SessionBounds'
  <2> DEFINE read == {t \in trip[r].cookie : Unexpired(t)}
             cookie == {Refreshed(t) : t \in {u \in read : RefreshDue(u)}}
  <2>1. Fresh(cookie)
    <3> SUFFICES ASSUME NEW t \in cookie
                 PROVE  cookie = {t} /\ t.issuedAt <= seconds
                        /\ t.knew \in 1..password.now
      BY DEF Fresh, FreshBy
    <3>1. PICK u \in trip[r].cookie : t = Refreshed(u) /\ RefreshDue(u) /\ Unexpired(u)
      OBVIOUS
    <3>2. trip[r].cookie = {u} /\ u.knew \in 1..password.now
      BY <1>a DEF Fresh, FreshBy
    <3>3. cookie = {t}
      BY <3>1, <3>2
    <3>4. u \in [authAt : Nat, issuedAt : Nat, knew : Nat, late : BOOLEAN]
      BY <1>a DEF KnownTrips, Known
    <3>5. t.issuedAt = seconds /\ t.knew = u.knew
      BY <3>1, <3>4 DEF Refreshed
    <3> QED
      BY <1>a, <3>2, <3>3, <3>5
  <2>2. Sets(r, cookie) /\ UNCHANGED <<seconds, password, jar>>
    BY <1>5 DEF ReadPage
  <2> HIDE DEF cookie
  <2> QED
    BY <2>1, <2>2, BoundsOfAnswer
<1>10. ASSUME NEW r \in Trips, ChangeStamped(r) PROVE SessionBounds'
  <2> DEFINE state == [trip[r] EXCEPT !.at = "stamped", !.stamp = seconds]
  <2>1. trip' = [trip EXCEPT ![r] = state] /\ UNCHANGED <<seconds, password, jar>>
    BY <1>10 DEF ChangeStamped, Becomes
  <2>2. Fresh(state.cookie) /\ state.typed \in 1..password.now
    BY <1>a DEF KnownTrips
  <2> HIDE DEF state
  <2> QED
    BY <2>1, <2>2, BoundsOfTrip
<1>6. ASSUME NEW r \in Trips, ChangeWritten(r) PROVE SessionBounds'
  <2> DEFINE state == [trip[r] EXCEPT !.at = "changed", !.stamp = 0,
                                      !.typed = password.now + 1]
  <2>1. /\ password'.now = password.now + 1 /\ password.now < MaxPasswords
        /\ trip' = [trip EXCEPT ![r] = state]
        /\ seconds' = seconds /\ jar' = jar
    BY <1>6 DEF ChangeWritten, Becomes
  <2>2. password'.now \in 1..MaxPasswords /\ password.now <= password'.now
    BY <1>a, <2>1
  <2>3. ASSUME NEW c \in SUBSET Known, Fresh(c)
        PROVE  FreshBy(c, seconds', password'.now)
    BY <1>a, <1>b, <2>1, <2>2, <2>3
  <2>4. state.cookie = trip[r].cookie /\ state.typed = password'.now
    BY <1>a, <2>1 DEF KnownTrips
  <2>5. trip'[r] = state /\ \A s \in Trips \ {r} : trip'[s] = trip[s]
    BY <2>1 DEF SessionInv
  <2> HIDE DEF state
  <2>6. \A s \in Trips :
          trip'[s].cookie = trip[s].cookie /\ trip'[s].typed \in 1..password'.now
    BY <1>a, <2>2, <2>4, <2>5
  <2>7. \A s \in Trips : FreshBy(trip'[s].cookie, seconds', password'.now)
    BY <1>a, <2>3, <2>6
  <2>8. \A b \in Browsers : FreshBy(jar'[b], seconds', password'.now)
    BY <1>a, <2>1, <2>3
  <2> QED
    BY <1>a, <2>1, <2>2, <2>6, <2>7, <2>8 DEF SessionBounds, Fresh
<1>7. ASSUME NEW r \in Trips, Arrives(r) PROVE SessionBounds'
  <2>1. /\ jar' = [jar EXCEPT ![trip[r].from] = trip[r].cookie]
        /\ trip' = [trip EXCEPT ![r] = TripIdle]
        /\ UNCHANGED <<seconds, password>>
    BY <1>7 DEF Arrives, Becomes
  <2>2. \A b \in Browsers : jar'[b] \in {jar[b], trip[r].cookie}
    BY <2>1 DEF SessionInv
  <2>3. \A s \in Trips : trip'[s] \in {trip[s], TripIdle}
    BY <2>1 DEF SessionInv
  <2>4. \A s \in Trips : Fresh(trip'[s].cookie) /\ trip'[s].typed \in 1..password.now
    BY <1>a, <2>3, IdleIsFresh
  <2>5. \A b \in Browsers : Fresh(jar'[b])
    BY <1>a, <2>2
  <2> QED
    BY <1>a, <2>1, <2>4, <2>5 DEF SessionBounds, Fresh
<1>8. CASE SecondPasses
  <2>1. /\ seconds' = seconds + 1 /\ seconds < MaxSeconds
        /\ UNCHANGED <<password, jar, trip>>
    BY <1>8 DEF SecondPasses
  <2>2. seconds' \in Nat /\ seconds <= seconds' /\ seconds' <= MaxSeconds
        /\ password'.now \in Nat /\ password.now <= password'.now
    BY <1>a, <2>1
  <2>3. /\ \A b \in Browsers : FreshBy(jar[b], seconds', password'.now)
        /\ \A r \in Trips : FreshBy(trip[r].cookie, seconds', password'.now)
    BY <1>a, <1>b, <2>2
  <2> QED
    BY <1>a, <2>1, <2>2, <2>3 DEF SessionBounds, Fresh
<1>9. CASE UNCHANGED sessionVars
  BY <1>9 DEF sessionVars, SessionBounds, Fresh
<1> QED
  BY <1>1, <1>3, <1>4, <1>5, <1>6, <1>7, <1>8, <1>9, <1>10 DEF SessionNext

LEMMA SessionTypes == SessionInv /\ SessionBounds => SessionTypeOK
<1> SUFFICES ASSUME SessionInv, SessionBounds PROVE SessionTypeOK
  OBVIOUS
<1>1. /\ seconds \in Seconds
      /\ password \in [now : Passwords, changedAt : Seconds, writtenAt : Seconds]
  BY SessionAssumption DEF SessionInv, SessionBounds, Seconds, Passwords
<1>2. ASSUME NEW c \in SUBSET Known, Fresh(c)
      PROVE  IsCookie(c) /\ \A t \in c : t.authAt <= seconds
  <2>1. ASSUME NEW t \in c
        PROVE  c = {t} /\ t \in Tokens /\ t.authAt <= seconds
    <3>1. /\ t \in [authAt : Nat, issuedAt : Nat, knew : Nat, late : BOOLEAN]
          /\ t.authAt <= seconds
      BY <2>1 DEF Known, TokenHolds
    <3>2. c = {t} /\ t.issuedAt <= seconds /\ t.knew \in 1..password.now
      BY <1>2, <2>1 DEF Fresh, FreshBy
    <3>3. t.authAt \in Seconds /\ t.issuedAt \in Seconds /\ t.knew \in Passwords
      BY <1>1, <3>1, <3>2, SessionAssumption DEF Seconds, Passwords
    <3> QED
      BY <3>1, <3>2, <3>3 DEF Tokens
  <2> QED
    BY <2>1 DEF IsCookie
<1>3. /\ \A b \in Browsers : jar[b] \in SUBSET Known /\ Fresh(jar[b])
      /\ \A r \in Trips : trip[r].cookie \in SUBSET Known /\ Fresh(trip[r].cookie)
  BY DEF SessionInv, SessionBounds, KnownTrips
<1> QED
  BY <1>1, <1>2, <1>3 DEF SessionTypeOK, SessionInv

\* A browser has one session or none, and each was made by the clock that is
\* and for a password that was set (signSession, refreshedSessionToken).
THEOREM SessionTypeCorrect == SessionSpec => []SessionTypeOK
<1>1. SessionInit => SessionInv /\ SessionBounds
  BY IdleIsKnown, SessionBoundsBegin DEF SessionInit, SessionInv
<1>2. SessionInv /\ SessionBounds /\ [SessionNext]_sessionVars
        => (SessionInv /\ SessionBounds)'
  BY SessionInvKept, SessionBoundsKept
<1> QED
  BY <1>1, <1>2, SessionTypes, PTL DEF SessionSpec

-----------------------------------------------------------------------------
(***************************************************************************)
(* The rate limiter in front of sign-in, registration and the API, for any *)
(* limit, window, keys and restarts.                                       *)
(***************************************************************************)
\* When a key's window opened, or would if a request came now.
OpenSince(k) ==
    IF bucket[k].resetAt = 0 THEN ticks ELSE bucket[k].resetAt - LimitWindow

\* How many of a key's requests were let through before this window.
Before(k) == Len(admitted[k]) - bucket[k].count

\* What `n` windows admit.
Worth(n) == n * LimitMax

WindowHolds(k) ==
    /\ bucket[k].count <= Len(admitted[k])
    /\ bucket[k].resetAt = 0 => bucket[k].count = 0
    /\ bucket[k].resetAt # 0 => LimitWindow <= bucket[k].resetAt
    /\ OpenSince(k) <= ticks
    /\ \A i \in DOMAIN admitted[k] :
         /\ admitted[k][i] <= ticks
         /\ i <= Before(k) => admitted[k][i] <= OpenSince(k)

\* A span that reaches into the window holds what one window and the restarts
\* let through before it.
EarlierHolds(k) ==
    \A from \in Nat :
      from + LimitWindow > OpenSince(k) =>
        Cardinality({i \in 1..Before(k) : from <= admitted[k][i]})
          <= Worth(1 + restarts)

SpanHolds(k) ==
    \A from \in Nat :
      Cardinality({i \in DOMAIN admitted[k] :
                     from <= admitted[k][i] /\ admitted[k][i] < from + LimitWindow})
        <= Worth(2 + restarts)

LimitInv ==
    /\ LimitTypeOK
    /\ \A k \in LimitKeys : WindowHolds(k) /\ EarlierHolds(k) /\ SpanHolds(k)

-----------------------------------------------------------------------------
LEMMA LimitConstants ==
  LimitMax \in Nat \ {0} /\ LimitWindow \in Nat \ {0} /\ LimitTime \in Nat
  BY LimitAssumption

LEMMA WorthOf ==
  ASSUME NEW n \in Nat
  PROVE  /\ Worth(1 + n) \in Nat /\ Worth(2 + n) \in Nat
         /\ LimitMax <= Worth(1 + n)
         /\ Worth(2 + n) = Worth(1 + n) + LimitMax
         /\ Worth(1 + (n + 1)) = Worth(2 + n)
         /\ Worth(2 + (n + 1)) = Worth(2 + n) + LimitMax
<1>1. LimitMax \in Nat
  BY LimitConstants
<1>2. /\ n * LimitMax \in Nat
      /\ (1 + n) * LimitMax = n * LimitMax + LimitMax
      /\ (2 + n) * LimitMax = n * LimitMax + LimitMax + LimitMax
      /\ (1 + (n + 1)) * LimitMax = n * LimitMax + LimitMax + LimitMax
      /\ (2 + (n + 1)) * LimitMax = n * LimitMax + LimitMax + LimitMax + LimitMax
  BY <1>1
<1> QED
  BY <1>1, <1>2 DEF Worth

\* Counting indices: of a part, and of all but the last `m`.
LEMMA Counts ==
  ASSUME NEW n \in Nat, NEW S \in SUBSET (1..n), NEW T \in SUBSET S
  PROVE  /\ IsFiniteSet(S) /\ Cardinality(S) \in Nat /\ Cardinality(T) \in Nat
         /\ Cardinality(T) <= Cardinality(S)
<1>0. IsFiniteSet(1..n)
  BY FS_Interval
<1>1. IsFiniteSet(S)
  BY <1>0, FS_Subset
<1>2. IsFiniteSet(T) /\ Cardinality(T) <= Cardinality(S)
  BY <1>1, FS_Subset
<1> QED
  BY <1>1, <1>2, FS_CardinalityType

LEMMA CountTail ==
  ASSUME NEW n \in Nat, NEW m \in 0..n, NEW S \in SUBSET (1..n)
  PROVE  Cardinality(S) <= Cardinality({i \in S : i <= n - m}) + m
<1> DEFINE low == {i \in S : i <= n - m}
           high == {i \in S : n - m < i}
<1>1. m \in Nat /\ m <= n /\ \A i \in S : i \in Int /\ 1 <= i /\ i <= n
  OBVIOUS
<1>2. \A i \in Int : ~(i <= n - m /\ n - m < i) /\ (i <= n - m \/ n - m < i)
  BY <1>1
<1>3. \A i \in Int : n - m < i /\ i <= n => i \in (n - m + 1)..n
  BY <1>1
<1>4. S = low \cup high /\ low \cap high = {}
  BY <1>1, <1>2, Zenon
<1>5. IsFiniteSet(S) /\ IsFiniteSet(low) /\ IsFiniteSet(high)
  <2>1. IsFiniteSet(1..n)
    BY FS_Interval
  <2>2. low \in SUBSET (1..n) /\ high \in SUBSET (1..n)
    OBVIOUS
  <2> HIDE DEF low, high
  <2> QED
    BY <2>1, <2>2, FS_Subset
<1>6. high \in SUBSET ((n - m + 1)..n)
  BY <1>1, <1>3, Zenon
<1>7. IsFiniteSet((n - m + 1)..n) /\ Cardinality((n - m + 1)..n) = m
  BY FS_Interval
<1>8. Cardinality(high) <= m
  BY <1>6, <1>7, FS_Subset
<1>9. /\ Cardinality(low) \in Nat /\ Cardinality(high) \in Nat
      /\ Cardinality(low \cap high) = 0
  BY <1>4, <1>5, FS_CardinalityType, FS_EmptySet
<1> HIDE DEF low, high
<1>10. Cardinality(low \cup high) =
        Cardinality(low) + Cardinality(high) - Cardinality(low \cap high)
  BY <1>5, FS_Union
<1>11. Cardinality(S) <= Cardinality(low) + m
  BY <1>4, <1>8, <1>9, <1>10
<1> QED
  BY <1>11 DEF low

LEMMA SequenceOf ==
  ASSUME NEW T, NEW s \in Seq(T)
  PROVE  /\ Len(s) \in Nat /\ DOMAIN s = 1..Len(s)
         /\ \A i \in DOMAIN s : s[i] \in T
  OBVIOUS

LEMMA LimitTypes ==
  ASSUME LimitTypeOK, NEW k \in LimitKeys
  PROVE  /\ ticks \in Nat /\ restarts \in Nat
         /\ bucket[k].count \in Nat /\ bucket[k].count <= LimitMax
         /\ bucket[k].resetAt \in Nat
         /\ admitted[k] \in Seq(Nat) /\ Len(admitted[k]) \in Nat
         /\ DOMAIN admitted[k] = 1..Len(admitted[k])
         /\ \A i \in DOMAIN admitted[k] : admitted[k][i] \in Nat
<1>1. LimitMax \in Nat /\ LimitWindow \in Nat /\ LimitTime \in Nat /\ MaxRestarts \in Nat
  BY LimitAssumption
<1>2. /\ bucket[k] \in [count : 0..LimitMax, resetAt : 0..(LimitTime + LimitWindow)]
      /\ admitted[k] \in Seq(0..LimitTime)
  BY DEF LimitTypeOK
<1>3. /\ Len(admitted[k]) \in Nat /\ DOMAIN admitted[k] = 1..Len(admitted[k])
      /\ \A i \in DOMAIN admitted[k] : admitted[k][i] \in 0..LimitTime
  BY <1>2, SequenceOf
<1>4. admitted[k] \in Seq(Nat)
  BY <1>1, <1>2
<1> QED
  BY <1>1, <1>2, <1>3, <1>4 DEF LimitTypeOK

\* A key that nothing happens to.
LEMMA KeyRests ==
  ASSUME LimitInv, NEW k \in LimitKeys, UNCHANGED <<bucket[k], admitted[k], restarts>>,
         ticks' \in Nat, ticks <= ticks'
  PROVE  WindowHolds(k)' /\ EarlierHolds(k)' /\ SpanHolds(k)'
<1>1. WindowHolds(k) /\ EarlierHolds(k) /\ SpanHolds(k)
  BY DEF LimitInv
<1>2. /\ ticks \in Nat /\ bucket[k].count \in Nat /\ bucket[k].resetAt \in Nat
      /\ Len(admitted[k]) \in Nat /\ LimitWindow \in Nat
      /\ \A i \in DOMAIN admitted[k] : admitted[k][i] \in Nat
  BY LimitTypes, LimitConstants DEF LimitInv
<1>3. Before(k)' = Before(k)
  BY DEF Before
<1>4. OpenSince(k) <= OpenSince(k)' /\ OpenSince(k) \in Int /\ OpenSince(k)' \in Int
  BY <1>2 DEF OpenSince
<1>5. WindowHolds(k)'
  BY <1>1, <1>2, <1>3, <1>4 DEF WindowHolds, OpenSince
<1>6. EarlierHolds(k)'
  <2> SUFFICES ASSUME NEW from \in Nat, from + LimitWindow > OpenSince(k)'
               PROVE  Cardinality({i \in 1..Before(k)' : from <= admitted'[k][i]})
                        <= Worth(1 + restarts')
    BY DEF EarlierHolds, Worth
  <2>1. from + LimitWindow > OpenSince(k)
    BY <1>2, <1>4
  <2>2. {i \in 1..Before(k)' : from <= admitted'[k][i]} =
          {i \in 1..Before(k) : from <= admitted[k][i]}
    BY <1>3
  <2>3. Cardinality({i \in 1..Before(k) : from <= admitted[k][i]})
          <= Worth(1 + restarts)
    BY <1>1, <2>1 DEF EarlierHolds
  <2> QED
    BY <2>2, <2>3
<1>7. SpanHolds(k)'
  BY <1>1 DEF SpanHolds, Worth
<1> QED
  BY <1>5, <1>6, <1>7
\* What a key's window and what came before it let through.
LEMMA WindowCounts ==
  ASSUME LimitInv, NEW k \in LimitKeys, NEW from \in Nat,
         from + LimitWindow > OpenSince(k)
  PROVE  Cardinality({i \in DOMAIN admitted[k] : from <= admitted[k][i]})
           <= Worth(1 + restarts) + bucket[k].count
<1> DEFINE n == Len(admitted[k])
           m == bucket[k].count
           S == {i \in 1..n : from <= admitted[k][i]}
           low == {i \in S : i <= n - m}
<1>1. n \in Nat /\ DOMAIN admitted[k] = 1..n /\ m \in 0..n /\ m \in Nat
  BY LimitTypes DEF LimitInv, WindowHolds
<1>2. Cardinality({i \in 1..(n - m) : from <= admitted[k][i]}) <= Worth(1 + restarts)
  BY DEF LimitInv, EarlierHolds, Before
<1>3. low = {i \in 1..(n - m) : from <= admitted[k][i]}
  <2>1. \A i : i \in 1..n /\ i <= n - m <=> i \in 1..(n - m)
    BY <1>1
  <2> QED
    BY <2>1, Zenon
<1>4. Cardinality(low) \in Nat /\ Cardinality(S) \in Nat /\ S \in SUBSET (1..n)
  <2>1. S \in SUBSET (1..n) /\ low \in SUBSET S
    OBVIOUS
  <2> HIDE DEF S, low
  <2> QED
    BY <1>1, <2>1, Counts
<1>5. Worth(1 + restarts) \in Nat
  <2>1. restarts \in Nat
    BY LimitTypes DEF LimitInv
  <2> QED
    BY <2>1, WorthOf
<1>6. Cardinality(low) <= Worth(1 + restarts)
  BY <1>2, <1>3
<1> HIDE DEF S, n, m
<1>7. Cardinality(S) <= Cardinality(low) + m
  BY <1>1, <1>4, CountTail
<1> HIDE DEF low
<1>8. Cardinality(S) <= Worth(1 + restarts) + m
  BY <1>1, <1>4, <1>5, <1>6, <1>7
<1> QED
  BY <1>1, <1>8 DEF S, n, m

\* A request let through opens a window or goes into one that has room.
LEMMA AdmitOpens ==
  ASSUME LimitInv, NEW k \in LimitKeys, Admit(k)
  PROVE  WindowHolds(k)' /\ EarlierHolds(k)'
<1> DEFINE log == admitted[k]
           n == Len(log)
           row == bucket[k]
<1>1. /\ ticks \in Nat /\ restarts \in Nat /\ row.count \in Nat
      /\ row.count <= LimitMax /\ row.resetAt \in Nat /\ n \in Nat
      /\ log \in Seq(Nat) /\ DOMAIN log = 1..n
      /\ \A i \in 1..n : log[i] \in Nat
  BY LimitTypes DEF LimitInv
<1>2. LimitWindow \in Nat \ {0} /\ LimitMax \in Nat \ {0}
  BY LimitConstants
<1>3. WindowHolds(k) /\ EarlierHolds(k)
  BY DEF LimitInv
<1>4. /\ admitted'[k] = Append(log, ticks) /\ ticks' = ticks /\ restarts' = restarts
      /\ bucket'[k] = IF Ended(k) THEN [count |-> 1, resetAt |-> ticks + LimitWindow]
                      ELSE [bucket[k] EXCEPT !.count = @ + 1]
  <2>1. k \in DOMAIN bucket /\ k \in DOMAIN admitted
    BY DEF LimitInv, LimitTypeOK
  <2> QED
    BY <2>1 DEF Admit
<1>5. /\ Len(admitted'[k]) = n + 1 /\ DOMAIN admitted'[k] = 1..(n + 1)
      /\ admitted'[k][n + 1] = ticks /\ \A i \in 1..n : admitted'[k][i] = log[i]
  BY <1>1, <1>4
<1>6. CASE Ended(k)
  <2>1. bucket'[k].count = 1 /\ bucket'[k].resetAt = ticks + LimitWindow
    BY <1>4, <1>6
  <2>2. Before(k)' = n /\ OpenSince(k)' = ticks
    BY <1>1, <1>2, <1>4, <1>5, <2>1 DEF Before, OpenSince
  <2>3. WindowHolds(k)'
    BY <1>1, <1>2, <1>3, <1>4, <1>5, <2>1, <2>2 DEF WindowHolds
  <2>4. ASSUME NEW from \in Nat, from + LimitWindow > ticks
        PROVE  Cardinality({i \in 1..n : from <= log[i]}) <= Worth(1 + restarts)
    <3>1. CASE row.resetAt = 0
      <4>1. OpenSince(k) = ticks /\ Before(k) = n
        BY <1>1, <1>3, <3>1 DEF OpenSince, Before, WindowHolds
      <4> QED
        BY <1>3, <2>4, <4>1 DEF EarlierHolds
    <3>2. CASE row.resetAt # 0
      <4>1. from > OpenSince(k)
        BY <1>1, <1>2, <1>3, <1>6, <2>4, <3>2 DEF OpenSince, Ended, WindowHolds
      <4> DEFINE S == {i \in 1..n : from <= log[i]}
                 m == row.count
      <4>2. m \in 0..n /\ S \in SUBSET (1..n)
        BY <1>1, <1>3 DEF WindowHolds
      <4>3. {i \in S : i <= n - m} = {}
        <5>1. OpenSince(k) \in Int
          BY <1>1, <1>2 DEF OpenSince
        <5>2. \A i \in 1..n : i <= n - m => log[i] <= OpenSince(k)
          BY <1>1, <1>3 DEF WindowHolds, Before
        <5>3. \A i \in 1..n : i <= n - m => ~(from <= log[i])
          BY <1>1, <4>1, <5>1, <5>2
        <5> QED
          BY <5>3
      <4>4. LimitMax <= Worth(1 + restarts) /\ Worth(1 + restarts) \in Nat
        BY <1>1, WorthOf
      <4> HIDE DEF S
      <4>5. Cardinality(S) <= 0 + m /\ Cardinality(S) \in Nat
        BY <1>1, <4>2, <4>3, CountTail, Counts, FS_EmptySet
      <4>6. Cardinality(S) <= Worth(1 + restarts)
        BY <1>1, <1>2, <4>4, <4>5
      <4> QED
        BY <4>6 DEF S
    <3> QED
      BY <3>1, <3>2
  <2>5. EarlierHolds(k)'
    <3> SUFFICES ASSUME NEW from \in Nat, from + LimitWindow > ticks
                 PROVE  Cardinality({i \in 1..n : from <= admitted'[k][i]})
                          <= Worth(1 + restarts)
      BY <1>4, <2>2 DEF EarlierHolds, Worth
    <3>1. {i \in 1..n : from <= admitted'[k][i]} = {i \in 1..n : from <= log[i]}
      BY <1>5
    <3> QED
      BY <2>4, <3>1
  <2> QED
    BY <2>3, <2>5
<1>7. CASE ~Ended(k)
  <2>1. /\ bucket'[k].count = row.count + 1 /\ bucket'[k].resetAt = row.resetAt
        /\ row.resetAt # 0
    <3>1. row \in [count : 0..LimitMax, resetAt : 0..(LimitTime + LimitWindow)]
      BY DEF LimitInv, LimitTypeOK
    <3> QED
      BY <1>1, <1>4, <1>7, <3>1 DEF Ended
  <2>2. Before(k)' = Before(k) /\ OpenSince(k)' = OpenSince(k)
    <3>1. Before(k)' = Before(k)
      <4>1. /\ Before(k)' = Len(admitted'[k]) - bucket'[k].count
            /\ Before(k) = n - row.count
        BY DEF Before
      <4>2. \A x, y \in Nat : (x + 1) - (y + 1) = x - y
        OBVIOUS
      <4>3. (n + 1) - (row.count + 1) = n - row.count
        BY <1>1, <4>2, Zenon
      <4> QED
        BY <1>5, <2>1, <4>1, <4>3
    <3>2. OpenSince(k)' = OpenSince(k)
      BY <1>4, <2>1 DEF OpenSince
    <3> QED
      BY <3>1, <3>2
  <2>3. Before(k) \in 0..n
    BY <1>1, <1>3 DEF Before, WindowHolds
  <2>4. WindowHolds(k)'
    <3>1. /\ row.count <= n /\ LimitWindow <= row.resetAt /\ OpenSince(k) <= ticks
          /\ \A i \in 1..n : log[i] <= ticks /\ (i <= Before(k) => log[i] <= OpenSince(k))
      BY <1>1, <1>3, <2>1 DEF WindowHolds
    <3>2. row.count + 1 <= n + 1
      BY <1>1, <3>1
    <3>3. ASSUME NEW i \in 1..(n + 1)
          PROVE  /\ admitted'[k][i] <= ticks
                 /\ i <= Before(k) => admitted'[k][i] <= OpenSince(k)
      <4>1. CASE i \in 1..n
        BY <1>5, <3>1, <4>1
      <4>2. CASE i = n + 1
        BY <1>1, <1>5, <2>3, <4>2
      <4> QED
        BY <1>1, <4>1, <4>2
    <3> QED
      BY <1>4, <1>5, <2>1, <2>2, <3>1, <3>2, <3>3 DEF WindowHolds
  <2>5. EarlierHolds(k)'
    <3> SUFFICES ASSUME NEW from \in Nat, from + LimitWindow > OpenSince(k)
                 PROVE  Cardinality({i \in 1..Before(k) : from <= admitted'[k][i]})
                          <= Worth(1 + restarts)
      BY <1>4, <2>2 DEF EarlierHolds, Worth
    <3>1. {i \in 1..Before(k) : from <= admitted'[k][i]} =
            {i \in 1..Before(k) : from <= log[i]}
      <4>1. \A i \in 1..Before(k) : i \in 1..n
        BY <1>1, <2>3
      <4>2. \A i \in 1..Before(k) : admitted'[k][i] = log[i]
        BY <1>5, <4>1
      <4> HIDE DEF log
      <4> QED
        BY <4>2
    <3> QED
      BY <1>3, <3>1 DEF EarlierHolds
  <2> QED
    BY <2>4, <2>5
<1> QED
  BY <1>6, <1>7
LEMMA AdmitKeeps ==
  ASSUME LimitInv, NEW k \in LimitKeys, Admit(k)
  PROVE  LimitInv'
<1> DEFINE log == admitted[k]
           n == Len(log)
<1>1. /\ ticks \in Nat /\ restarts \in Nat /\ n \in Nat /\ DOMAIN log = 1..n
      /\ bucket[k].count \in Nat
      /\ log \in Seq(Nat)
  BY LimitTypes DEF LimitInv
<1>2. LimitWindow \in Nat \ {0} /\ LimitMax \in Nat \ {0} /\ LimitTime \in Nat
  BY LimitConstants
<1>3. /\ ticks \in 0..LimitTime /\ restarts \in 0..MaxRestarts
      /\ bucket \in [LimitKeys ->
           [count : 0..LimitMax, resetAt : 0..(LimitTime + LimitWindow)]]
      /\ admitted \in [LimitKeys -> Seq(0..LimitTime)]
  BY DEF LimitInv, LimitTypeOK
<1>4. /\ ticks' = ticks /\ restarts' = restarts
      /\ admitted' = [admitted EXCEPT ![k] = Append(log, ticks)]
      /\ \A j \in LimitKeys : j # k =>
           bucket'[j] = bucket[j] /\ admitted'[j] = admitted[j]
  BY <1>3 DEF Admit
<1>5. LimitTypeOK'
  <2> DEFINE row == IF Ended(k) THEN [count |-> 1, resetAt |-> ticks + LimitWindow]
                    ELSE [bucket[k] EXCEPT !.count = @ + 1]
  <2>1. row \in [count : 0..LimitMax, resetAt : 0..(LimitTime + LimitWindow)]
    <3>1. bucket[k] \in [count : 0..LimitMax, resetAt : 0..(LimitTime + LimitWindow)]
      BY <1>3
    <3>2. CASE Ended(k)
      BY <1>2, <1>3, <3>2
    <3>3. CASE ~Ended(k)
      <4>1. bucket[k].count < LimitMax
        BY <1>2, <3>1, <3>3 DEF Admit, Admits, Full
      <4> QED
        BY <1>2, <3>1, <3>3, <4>1
    <3> QED
      BY <3>2, <3>3
  <2>2. bucket' = [bucket EXCEPT ![k] = row]
    BY DEF Admit
  <2> HIDE DEF row
  <2>3. bucket' \in [LimitKeys ->
          [count : 0..LimitMax, resetAt : 0..(LimitTime + LimitWindow)]]
    BY <1>3, <2>1, <2>2
  <2>4. log \in Seq(0..LimitTime)
    BY <1>3
  <2>5. Append(log, ticks) \in Seq(0..LimitTime)
    BY <1>3, <2>4
  <2>6. admitted' \in [LimitKeys -> Seq(0..LimitTime)]
    BY <1>3, <1>4, <2>5
  <2> QED
    BY <1>3, <1>4, <2>3, <2>6 DEF LimitTypeOK
<1>6. WindowHolds(k)' /\ EarlierHolds(k)'
  BY AdmitOpens
<1>7. SpanHolds(k)'
  <2> SUFFICES ASSUME NEW from \in Nat
               PROVE  Cardinality({i \in DOMAIN admitted'[k] :
                         from <= admitted'[k][i]
                         /\ admitted'[k][i] < from + LimitWindow})
                        <= Worth(2 + restarts)
    BY <1>4 DEF SpanHolds, Worth
  <2> DEFINE new == admitted'[k]
             span == {i \in DOMAIN new : from <= new[i] /\ new[i] < from + LimitWindow}
  <2>1. /\ new = Append(log, ticks) /\ Len(new) = n + 1 /\ DOMAIN new = 1..(n + 1)
        /\ new[n + 1] = ticks /\ \A i \in 1..n : new[i] = log[i]
    BY <1>1, <1>3, <1>4
  <2>2. CASE from + LimitWindow > ticks
    <3> DEFINE all == {i \in 1..(n + 1) : from <= new[i]}
               low == {i \in all : i <= (n + 1) - bucket'[k].count}
               m == bucket'[k].count
    <3>1. m \in 0..(n + 1) /\ m <= LimitMax /\ m \in Nat
      <4>1. m \in 0..LimitMax /\ m <= Len(new)
        BY <1>5, <1>6 DEF LimitTypeOK, WindowHolds
      <4> QED
        BY <1>1, <1>2, <2>1, <4>1
    <3>2. OpenSince(k)' \in Int /\ OpenSince(k)' <= ticks
      <4>1. bucket'[k].resetAt \in Nat
        BY <1>2, <1>5 DEF LimitTypeOK
      <4> QED
        BY <1>1, <1>2, <1>4, <1>6, <4>1 DEF OpenSince, WindowHolds
    <3>3. from + LimitWindow > OpenSince(k)'
      BY <1>1, <1>2, <2>2, <3>2
    <3>4. Before(k)' = (n + 1) - m
      BY <2>1 DEF Before
    <3>5. Cardinality({i \in 1..((n + 1) - m) : from <= new[i]}) <= Worth(1 + restarts)
      BY <1>4, <1>6, <3>3, <3>4 DEF EarlierHolds, Worth
    <3>6. low = {i \in 1..((n + 1) - m) : from <= new[i]}
      <4>1. \A i : i \in 1..(n + 1) /\ i <= (n + 1) - m <=> i \in 1..((n + 1) - m)
        BY <1>1, <3>1
      <4> QED
        BY <4>1, Zenon
    <3>7. Cardinality(low) <= Worth(1 + restarts)
      BY <3>5, <3>6
    <3>8. span \in SUBSET all /\ all \in SUBSET (1..(n + 1)) /\ low \in SUBSET all
      BY <2>1
    <3>9. /\ Worth(1 + restarts) \in Nat /\ Worth(2 + restarts) \in Nat
          /\ Worth(2 + restarts) = Worth(1 + restarts) + LimitMax
      BY <1>1, WorthOf
    <3>10. n + 1 \in Nat
      BY <1>1
    <3> HIDE DEF all, span, m, new
    <3>11. Cardinality(all) <= Cardinality(low) + m
      <4>1. ASSUME NEW N \in Nat, m \in 0..N, all \in SUBSET (1..N)
            PROVE  Cardinality(all) <= Cardinality({i \in all : i <= N - m}) + m
        BY <4>1, CountTail
      <4> QED
        BY <3>1, <3>8, <3>10, <4>1 DEF m
    <3> HIDE DEF low
    <3>12. /\ Cardinality(span) \in Nat /\ Cardinality(all) \in Nat
           /\ Cardinality(low) \in Nat /\ Cardinality(span) <= Cardinality(all)
      <4>1. ASSUME NEW N \in Nat, all \in SUBSET (1..N), NEW T \in SUBSET all
            PROVE  /\ Cardinality(all) \in Nat /\ Cardinality(T) \in Nat
                   /\ Cardinality(T) <= Cardinality(all)
        BY <4>1, Counts
      <4> QED
        BY <3>8, <3>10, <4>1
    <3>13. Cardinality(span) <= Worth(2 + restarts)
      BY <1>2, <3>1, <3>7, <3>9, <3>11, <3>12
    <3> QED
      BY <3>13 DEF span, new
  <2>3. CASE ~(from + LimitWindow > ticks)
    <3>1. span = {i \in DOMAIN log : from <= log[i] /\ log[i] < from + LimitWindow}
      <4>1. ~(ticks < from + LimitWindow)
        BY <1>1, <1>2, <2>3
      <4>2. \A i \in 1..(n + 1) : i \in 1..n \/ i = n + 1
        BY <1>1
      <4>3. \A i \in 1..n : i \in 1..(n + 1)
        BY <1>1
      <4> HIDE DEF new
      <4> QED
        BY <1>1, <2>1, <4>1, <4>2, <4>3
    <3> QED
      BY <3>1 DEF LimitInv, SpanHolds
  <2> QED
    BY <2>2, <2>3
<1>8. ASSUME NEW j \in LimitKeys, j # k
      PROVE  WindowHolds(j)' /\ EarlierHolds(j)' /\ SpanHolds(j)'
  BY <1>1, <1>4, <1>8, KeyRests
<1> QED
  BY <1>5, <1>6, <1>7, <1>8 DEF LimitInv
LEMMA RestartKeeps ==
  ASSUME LimitInv, Restart
  PROVE  LimitInv'
<1>1. /\ restarts \in Nat /\ MaxRestarts \in Nat /\ ticks \in Nat
      /\ LimitMax \in Nat /\ LimitWindow \in Nat \ {0} /\ LimitTime \in Nat
  BY LimitAssumption DEF LimitInv, LimitTypeOK
<1>2. /\ ticks' = ticks /\ admitted' = admitted /\ restarts' = restarts + 1
      /\ bucket' = [k \in LimitKeys |-> NoWindow]
  BY DEF Restart
<1>3. LimitTypeOK'
  BY <1>1, <1>2 DEF LimitInv, LimitTypeOK, Restart, NoWindow
<1> SUFFICES ASSUME NEW k \in LimitKeys
             PROVE  WindowHolds(k)' /\ EarlierHolds(k)' /\ SpanHolds(k)'
  BY <1>3 DEF LimitInv
<1> DEFINE n == Len(admitted[k])
<1>4. /\ WindowHolds(k) /\ SpanHolds(k) /\ n \in Nat /\ DOMAIN admitted[k] = 1..n
      /\ bucket[k].count \in Nat /\ bucket[k].count <= LimitMax
      /\ bucket[k].resetAt \in Nat
      /\ \A i \in 1..n : admitted[k][i] \in Nat
  BY LimitTypes DEF LimitInv
<1>5. /\ bucket'[k].count = 0 /\ bucket'[k].resetAt = 0
      /\ OpenSince(k)' = ticks /\ Before(k)' = n
  BY <1>2, <1>4 DEF NoWindow, OpenSince, Before
<1>6. WindowHolds(k)'
  BY <1>1, <1>2, <1>4, <1>5 DEF WindowHolds
<1>7. /\ Worth(1 + restarts) \in Nat /\ Worth(2 + restarts) \in Nat
      /\ Worth(2 + restarts) = Worth(1 + restarts) + LimitMax
      /\ Worth(1 + restarts') = Worth(2 + restarts)
      /\ Worth(2 + restarts') = Worth(2 + restarts) + LimitMax
  BY <1>1, <1>2, WorthOf
<1>8. EarlierHolds(k)'
  <2> SUFFICES ASSUME NEW from \in Nat, from + LimitWindow > ticks
               PROVE  Cardinality({i \in 1..n : from <= admitted[k][i]})
                        <= Worth(1 + restarts')
    BY <1>2, <1>5 DEF EarlierHolds, Worth
  <2>1. OpenSince(k) \in Int /\ OpenSince(k) <= ticks
    BY <1>1, <1>4 DEF OpenSince, WindowHolds
  <2>2. from + LimitWindow > OpenSince(k)
    BY <1>1, <2>1
  <2> DEFINE S == {i \in 1..n : from <= admitted[k][i]}
  <2>3. Cardinality(S) <= Worth(1 + restarts) + bucket[k].count
    BY <1>4, <2>2, WindowCounts
  <2>4. Cardinality(S) \in Nat
    BY <1>4, Counts
  <2> HIDE DEF S
  <2>5. Cardinality(S) <= Worth(1 + restarts')
    BY <1>1, <1>4, <1>7, <2>3, <2>4
  <2> QED
    BY <2>5 DEF S
<1>9. SpanHolds(k)'
  <2> SUFFICES ASSUME NEW from \in Nat
               PROVE  Cardinality({i \in 1..n : from <= admitted[k][i]
                                     /\ admitted[k][i] < from + LimitWindow})
                        <= Worth(2 + restarts')
    BY <1>2, <1>4 DEF SpanHolds, Worth
  <2> DEFINE span == {i \in 1..n : from <= admitted[k][i]
                                     /\ admitted[k][i] < from + LimitWindow}
  <2>1. Cardinality(span) <= Worth(2 + restarts)
    BY <1>4 DEF SpanHolds
  <2>2. Cardinality(span) \in Nat
    BY <1>4, Counts
  <2> HIDE DEF span
  <2>3. Cardinality(span) <= Worth(2 + restarts')
    BY <1>1, <1>7, <2>1, <2>2
  <2> QED
    BY <2>3 DEF span
<1> QED
  BY <1>6, <1>8, <1>9

LEMMA LimitStarts == LimitInit => LimitInv
<1> SUFFICES ASSUME LimitInit PROVE LimitInv
  OBVIOUS
<1>1. /\ LimitMax \in Nat /\ LimitWindow \in Nat \ {0} /\ LimitTime \in Nat
      /\ MaxRestarts \in Nat
  BY LimitAssumption
<1>2. << >> \in Seq(0..LimitTime)
  OBVIOUS
<1>3. LimitTypeOK
  BY <1>1, <1>2 DEF LimitInit, LimitTypeOK, NoWindow
<1> SUFFICES ASSUME NEW k \in LimitKeys
             PROVE  WindowHolds(k) /\ EarlierHolds(k) /\ SpanHolds(k)
  BY <1>3 DEF LimitInv
<1>4. /\ admitted[k] = << >> /\ ticks = 0 /\ restarts = 0
      /\ bucket[k].count = 0 /\ bucket[k].resetAt = 0
  BY DEF LimitInit, NoWindow
<1>5. /\ Len(admitted[k]) = 0 /\ DOMAIN admitted[k] = {} /\ 1..0 = {}
      /\ Before(k) = 0
  BY <1>4 DEF Before
<1>6. Worth(1 + restarts) \in Nat /\ Worth(2 + restarts) \in Nat
  BY <1>4, WorthOf
<1>7. ASSUME NEW from
      PROVE  /\ Cardinality({i \in 1..Before(k) : from <= admitted[k][i]}) = 0
             /\ Cardinality({i \in DOMAIN admitted[k] : from <= admitted[k][i]
                   /\ admitted[k][i] < from + LimitWindow}) = 0
  <2>1. /\ {i \in 1..Before(k) : from <= admitted[k][i]} = {}
        /\ {i \in DOMAIN admitted[k] : from <= admitted[k][i]
              /\ admitted[k][i] < from + LimitWindow} = {}
    BY <1>5
  <2> QED
    BY <2>1, FS_EmptySet
<1>8. EarlierHolds(k) /\ SpanHolds(k)
  <2>1. 0 <= Worth(1 + restarts) /\ 0 <= Worth(2 + restarts)
    BY <1>6
  <2> QED
    BY <1>7, <2>1 DEF EarlierHolds, SpanHolds
<1>9. WindowHolds(k)
  BY <1>4, <1>5 DEF WindowHolds, OpenSince
<1> QED
  BY <1>8, <1>9

\* Where the limiter is left alone its invariant stays.
LEMMA LimitRests == LimitInv /\ UNCHANGED limitVars => LimitInv'
  BY LimitConstants, KeyRests DEF limitVars, LimitInv, LimitTypeOK

LEMMA LimitKept ==
  ASSUME LimitInv, [LimitNext]_limitVars PROVE LimitInv'
<1>1. ASSUME UNCHANGED <<bucket, admitted, restarts>>,
             ticks' \in 0..LimitTime, ticks <= ticks'
      PROVE  LimitInv'
  <2>1. ticks' \in Nat
    BY <1>1, LimitConstants
  <2>2. LimitTypeOK'
    BY <1>1 DEF LimitInv, LimitTypeOK
  <2> QED
    BY <1>1, <2>1, <2>2, KeyRests DEF LimitInv
<1>2. CASE UNCHANGED limitVars
  BY <1>1, <1>2, LimitConstants DEF limitVars, LimitInv, LimitTypeOK
<1>3. CASE LimitTick
  BY <1>1, <1>3, LimitConstants DEF LimitTick, LimitInv, LimitTypeOK
<1> QED
  BY <1>2, <1>3, AdmitKeeps, RestartKeeps DEF LimitNext, Refuse

\* No span as long as a window lets a key's requests through more than two
\* windows and one for each restart, for any limit, window and number of
\* restarts (checkRateLimit).
THEOREM SpansAreBounded == LimitSpec => []SpanIsBounded
<1>1. LimitInv /\ [LimitNext]_limitVars => LimitInv'
  BY LimitKept
<1>2. LimitInv => SpanIsBounded
  <2> SUFFICES ASSUME LimitInv, NEW k \in LimitKeys, NEW from \in 0..ticks
               PROVE  Cardinality({i \in DOMAIN admitted[k] :
                         from <= admitted[k][i]
                         /\ admitted[k][i] < from + LimitWindow})
                        <= (2 + restarts) * LimitMax
    BY DEF SpanIsBounded
  <2>1. from \in Nat
    OBVIOUS
  <2> QED
    BY <2>1 DEF LimitInv, SpanHolds, Worth
<1> QED
  BY <1>1, <1>2, LimitStarts, PTL DEF LimitSpec
-----------------------------------------------------------------------------
(***************************************************************************)
(* What becomes of a version mismatch.  A recording that misses the row it *)
(* was about to update misses it because the issue was cleared under it;   *)
(* so its attempts count the clears it met.                                *)
(***************************************************************************)
IssuesHold ==
    \A i \in Issues :
      /\ issue[i].openKey <=> issue[i].status = "OPEN"
      /\ issue[i].status = "none" => issue[i].seen = 0
      /\ \A j \in Issues : issue[i].openKey /\ issue[j].openKey => i = j

MissesAreClears(r) ==
    /\ call[r].at \in {"upsert", "insert", "update"} =>
         call[r].attempt <= call[r].clears + 1
    /\ call[r].at = "update" => Keyed # {} \/ call[r].attempt <= call[r].clears
    /\ call[r].at = "stamp" => call[r].attempt = 1

SyncInv ==
    /\ issue \in [Issues -> IssueRow]
    /\ call \in [Calls -> CallState]
    /\ reported \in Versions \cup {"none"}
    /\ IssuesHold
    /\ \A r \in Calls : MissesAreClears(r)

LEMMA SyncStarts == SyncInit => SyncInv
  BY SyncAssumption
  DEF SyncInit, SyncInv, IssuesHold, MissesAreClears, NoIssue, IssueRow, CallIdle,
      CallState, Versions

\* A step of one request that leaves the issues alone.
LEMMA MovesKeeps ==
  ASSUME SyncInv, NEW r \in Calls, NEW state \in CallState, Moves(r, state),
         issue' = issue, reported' \in Versions \cup {"none"},
         /\ state.at \in {"upsert", "insert", "update"} =>
              state.attempt <= state.clears + 1
         /\ state.at = "update" => Keyed # {} \/ state.attempt <= state.clears
         /\ state.at = "stamp" => state.attempt = 1
  PROVE  SyncInv'
<1>1. /\ call' \in [Calls -> CallState]
      /\ \A q \in Calls : call'[q] = IF q = r THEN state ELSE call[q]
  BY DEF SyncInv, Moves
<1>2. Keyed' = Keyed
  BY DEF Keyed
<1>3. \A q \in Calls : MissesAreClears(q)'
  BY <1>1, <1>2 DEF SyncInv, MissesAreClears
<1> QED
  BY <1>1, <1>3 DEF SyncInv, IssuesHold

\* An issue that is refreshed, or opened, is open and counts one more.
LEMMA CountsOne ==
  ASSUME SyncInv, NEW i \in Issues,
         \/ i \in Keyed /\ Recounted(i)
         \/ i \in Unopened /\ Keyed = {}
            /\ issue' = [issue EXCEPT ![i] =
                          [status |-> "OPEN", openKey |-> TRUE, seen |-> 1]]
  PROVE  /\ issue' \in [Issues -> IssueRow]
         /\ issue'[i].status = "OPEN" /\ issue'[i].seen = issue[i].seen + 1
         /\ IssuesHold'
         /\ Keyed' # {}
<1>1. MaxSeen \in Nat \ {0} /\ issue[i] \in IssueRow
  BY SyncAssumption DEF SyncInv
<1>2. CASE i \in Keyed /\ Recounted(i)
  <2>1. issue' = [issue EXCEPT ![i] = [issue[i] EXCEPT !.seen = issue[i].seen + 1]]
    BY <1>2 DEF Recounted
  <2>2. [issue[i] EXCEPT !.seen = issue[i].seen + 1] \in IssueRow
    BY <1>1, <1>2 DEF Recounted, IssueRow
  <2>3. /\ issue' \in [Issues -> IssueRow]
        /\ issue'[i].status = issue[i].status /\ issue'[i].openKey
        /\ issue'[i].seen = issue[i].seen + 1
        /\ \A j \in Issues \ {i} : issue'[j] = issue[j]
    BY <1>1, <1>2, <2>1, <2>2 DEF SyncInv, IssueRow, Keyed
  <2>4. issue[i].status = "OPEN"
    BY <1>2 DEF SyncInv, IssuesHold, Keyed
  <2> QED
    BY <2>3, <2>4 DEF SyncInv, IssuesHold, Keyed
<1>3. CASE /\ i \in Unopened /\ Keyed = {}
           /\ issue' = [issue EXCEPT ![i] =
                         [status |-> "OPEN", openKey |-> TRUE, seen |-> 1]]
  <2>1. [status |-> "OPEN", openKey |-> TRUE, seen |-> 1] \in IssueRow
    BY <1>1 DEF IssueRow
  <2>2. /\ issue' \in [Issues -> IssueRow]
        /\ issue'[i] = [status |-> "OPEN", openKey |-> TRUE, seen |-> 1]
        /\ \A j \in Issues \ {i} : issue'[j] = issue[j]
    BY <1>3, <2>1 DEF SyncInv
  <2>3. issue[i].seen = 0
    BY <1>3 DEF SyncInv, IssuesHold, Unopened
  <2> QED
    BY <2>2, <2>3 DEF SyncInv, IssuesHold, Keyed
<1> QED
  BY <1>2, <1>3

\* The step that ends a recording with a count.
LEMMA SeenKeeps ==
  ASSUME SyncInv, NEW r \in Calls, Ends(r), UNCHANGED reported,
         (\E i \in Keyed : Recounted(i)) \/ (Keyed = {} /\ Opened)
  PROVE  /\ SyncInv'
         /\ \E i \in Issues : issue'[i].status = "OPEN"
                              /\ issue'[i].seen = issue[i].seen + 1
<1>1. PICK i \in Issues :
        \/ i \in Keyed /\ Recounted(i)
        \/ i \in Unopened /\ Keyed = {}
           /\ issue' = [issue EXCEPT ![i] =
                         [status |-> "OPEN", openKey |-> TRUE, seen |-> 1]]
  BY DEF Keyed, Opened, Unopened
<1>2. /\ issue' \in [Issues -> IssueRow]
      /\ issue'[i].status = "OPEN" /\ issue'[i].seen = issue[i].seen + 1
      /\ IssuesHold' /\ Keyed' # {}
  BY <1>1, CountsOne
<1>3. CallIdle \in CallState /\ CallIdle.at = "idle"
  BY DEF CallIdle, CallState, Versions
<1>4. /\ call' \in [Calls -> CallState]
      /\ \A q \in Calls : call'[q] = IF q = r THEN CallIdle ELSE call[q]
  BY <1>3 DEF SyncInv, Ends, Moves
<1>5. \A q \in Calls : MissesAreClears(q)'
  BY <1>2, <1>3, <1>4 DEF SyncInv, MissesAreClears
<1> QED
  BY <1>2, <1>4, <1>5 DEF SyncInv
\* Clearing takes the key from the row, and every recording learns of it.
LEMMA ClearKeeps ==
  ASSUME SyncInv, NEW i \in Issues, Clear(i)
  PROVE  SyncInv' /\ \A r \in Calls : call'[r].at = call[r].at
<1>1. issue[i] \in IssueRow /\ PutAway(i) \in IssueRow
      /\ PutAway(i).status = "CLEARED" /\ ~PutAway(i).openKey
  BY DEF SyncInv, PutAway, IssueRow
<1>2. /\ issue' \in [Issues -> IssueRow]
      /\ issue'[i] = PutAway(i)
      /\ \A j \in Issues \ {i} : issue'[j] = issue[j]
  BY <1>1 DEF SyncInv, Clear
<1>3. IssuesHold'
  BY <1>1, <1>2 DEF SyncInv, IssuesHold
<1>4. ASSUME NEW r \in Calls
      PROVE  /\ call'[r] \in CallState /\ call'[r].at = call[r].at
             /\ MissesAreClears(r)'
  <2>1. call[r] \in CallState /\ MissesAreClears(r)
    BY DEF SyncInv
  <2>2. call'[r] = IF /\ call[r].at \in {"upsert", "insert", "update"}
                      /\ call[r].clears < 2
                   THEN [call[r] EXCEPT !.clears = call[r].clears + 1]
                   ELSE call[r]
    BY DEF Clear
  <2>3. CASE /\ call[r].at \in {"upsert", "insert", "update"}
             /\ call[r].clears < 2
    <3>1. /\ call'[r] \in CallState /\ call'[r].at = call[r].at
          /\ call'[r].attempt = call[r].attempt
          /\ call'[r].clears = call[r].clears + 1
      BY <2>1, <2>2, <2>3 DEF CallState
    <3> QED
      BY <2>1, <2>3, <3>1 DEF MissesAreClears, CallState
  <2>4. CASE ~(/\ call[r].at \in {"upsert", "insert", "update"}
               /\ call[r].clears < 2)
    <3>1. call'[r] = call[r]
      BY <2>2, <2>4
    <3>2. call[r].at = "update" => call[r].attempt <= call[r].clears
      BY <2>1, <2>4 DEF CallState
    <3> QED
      BY <2>1, <3>1, <3>2 DEF MissesAreClears
  <2> QED
    BY <2>3, <2>4
<1>5. call' \in [Calls -> CallState]
  BY <1>4 DEF Clear
<1> QED
  BY <1>2, <1>3, <1>4, <1>5 DEF SyncInv, Clear

\* What a step does to a recording that ends with it.
SeenOrCleared ==
    \A r \in Calls :
      Recording(r) /\ call'[r] = CallIdle =>
        \/ call[r].clears = 2
        \/ \E i \in Issues : issue'[i].status = "OPEN"
                             /\ issue'[i].seen = issue[i].seen + 1

LEMMA CallKeeps ==
  ASSUME SyncInv, NEW r \in Calls,
         \/ GateMatches(r) \/ GateRefuses(r) \/ InvalidVersion(r)
         \/ VersionCheck(r)
         \/ Stamps(r) \/ Upsert(r) \/ Insert(r) \/ Update(r)
  PROVE  SyncInv' /\ SeenOrCleared
<1>1. /\ call[r] \in CallState /\ MissesAreClears(r)
      /\ call \in [Calls -> CallState] /\ reported \in Versions \cup {"none"}
  BY DEF SyncInv
<1>2. CallIdle \in CallState /\ CallIdle.at = "idle" /\ CallIdle.attempt = 1
  BY DEF CallIdle, CallState, Versions
<1>3. ASSUME NEW state, Moves(r, state)
      PROVE  \A q \in Calls : call'[q] = IF q = r THEN state ELSE call[q]
  BY <1>1, <1>3 DEF Moves
<1>4. ASSUME call[r] = CallIdle, UNCHANGED <<reported, issue>>,
             \/ UNCHANGED call
             \/ \E v \in Versions, f \in BOOLEAN : Starts(r, v, f)
      PROVE  SyncInv' /\ SeenOrCleared
  <2>1. CASE UNCHANGED call
    BY <1>2, <1>4, <2>1
    DEF SyncInv, IssuesHold, MissesAreClears, Keyed, SeenOrCleared, Recording
  <2>2. ASSUME NEW v \in Versions, NEW f \in BOOLEAN, Starts(r, v, f)
        PROVE  SyncInv' /\ SeenOrCleared
    <3> DEFINE state == [at |-> "stamp", says |-> v, saw |-> reported,
                         force |-> f, attempt |-> 1, clears |-> 0]
    <3>1. /\ state \in CallState /\ state.at = "stamp" /\ state.attempt = 1
          /\ Moves(r, state)
      BY <1>1, <2>2 DEF Starts, CallState
    <3> HIDE DEF state
    <3>2. SyncInv'
      BY <1>1, <1>4, <3>1, MovesKeeps
    <3>3. SeenOrCleared
      BY <1>2, <1>3, <1>4, <3>1 DEF SeenOrCleared, Recording
    <3> QED
      BY <3>2, <3>3
  <2> QED
    BY <1>4, <2>1, <2>2
<1>5. CASE GateMatches(r)
  BY <1>4, <1>5 DEF GateMatches, Versions
<1>6. CASE GateRefuses(r) \/ InvalidVersion(r)
  BY <1>4, <1>6 DEF GateRefuses, InvalidVersion, Versions
<1>7. CASE VersionCheck(r)
  BY <1>4, <1>7 DEF VersionCheck
<1>8. CASE Stamps(r)
  <2>1. reported' \in Versions \cup {"none"} /\ issue' = issue
    BY <1>1, <1>8 DEF Stamps, CallState
  <2>2. SeenOrCleared
    <3>1. \A q \in Calls : Recording(q) => call'[q] = call[q]
      BY <1>3, <1>8 DEF Stamps, Ends, Recording
    <3> QED
      BY <1>2, <3>1 DEF SeenOrCleared, Recording
  <2>3. SyncInv'
    <3>1. CASE Ends(r)
      BY <1>2, <2>1, <3>1, MovesKeeps DEF Ends
    <3>2. CASE Moves(r, [call[r] EXCEPT !.at = "upsert"])
      <4> DEFINE state == [call[r] EXCEPT !.at = "upsert"]
      <4>1. /\ state \in CallState /\ state.at = "upsert"
            /\ state.attempt <= state.clears + 1
        BY <1>1, <1>8 DEF Stamps, MissesAreClears, CallState
      <4> HIDE DEF state
      <4> QED
        BY <2>1, <3>2, <4>1, MovesKeeps DEF state
    <3> QED
      BY <1>8, <3>1, <3>2 DEF Stamps
  <2> QED
    BY <2>2, <2>3
<1>9. ASSUME NEW at \in {"upsert", "insert", "update"}, NEW n \in 1..2,
             Moves(r, [call[r] EXCEPT !.at = at, !.attempt = n]),
             UNCHANGED <<reported, issue>>,
             n <= call[r].clears + 1,
             at = "update" => Keyed # {}
      PROVE  SyncInv' /\ SeenOrCleared
  <2> DEFINE state == [call[r] EXCEPT !.at = at, !.attempt = n]
  <2>1. /\ state \in CallState /\ state.at = at /\ state.attempt = n
        /\ state.clears = call[r].clears
    BY <1>1, <1>9 DEF CallState
  <2> HIDE DEF state
  <2>2. Moves(r, state)
    BY <1>9 DEF state
  <2>3. SyncInv'
    BY <1>1, <1>9, <2>1, <2>2, MovesKeeps
  <2>4. SeenOrCleared
    BY <1>2, <1>3, <1>9, <2>1, <2>2 DEF SeenOrCleared, Recording
  <2> QED
    BY <2>3, <2>4
<1>10. ASSUME Ends(r), UNCHANGED reported,
              (\E i \in Keyed : Recounted(i)) \/ (Keyed = {} /\ Opened)
       PROVE  SyncInv' /\ SeenOrCleared
  BY <1>10, SeenKeeps DEF SeenOrCleared
<1>11. CASE Upsert(r)
  <2>1. CASE Moves(r, [call[r] EXCEPT !.at = "insert"]) /\ UNCHANGED issue
    <3>1. [call[r] EXCEPT !.at = "insert"]
            = [call[r] EXCEPT !.at = "insert", !.attempt = call[r].attempt]
      BY <1>1 DEF CallState
    <3>2. call[r].attempt \in 1..2 /\ call[r].attempt <= call[r].clears + 1
      BY <1>1, <1>11 DEF Upsert, CallState, MissesAreClears
    <3> QED
      BY <1>9, <1>11, <2>1, <3>1, <3>2 DEF Upsert
  <2> QED
    BY <1>10, <1>11, <2>1 DEF Upsert
<1>5a. CASE Insert(r)
  <2>1. CASE Keyed # {} /\ Moves(r, [call[r] EXCEPT !.at = "update"])
             /\ UNCHANGED issue
    <3>1. [call[r] EXCEPT !.at = "update"]
            = [call[r] EXCEPT !.at = "update", !.attempt = call[r].attempt]
      BY <1>1 DEF CallState
    <3>2. call[r].attempt \in 1..2 /\ call[r].attempt <= call[r].clears + 1
      BY <1>1, <1>5a DEF Insert, CallState, MissesAreClears
    <3> QED
      BY <1>9, <1>5a, <2>1, <3>1, <3>2 DEF Insert
  <2> QED
    BY <1>10, <1>5a, <2>1 DEF Insert
<1>13. CASE Update(r)
  <2>1. CASE \E i \in Keyed : Recounted(i) /\ Ends(r)
    BY <1>10, <1>13, <2>1 DEF Update
  <2>2. CASE Keyed = {} /\ UNCHANGED issue
             /\ IF MayRetry(r)
                THEN Moves(r, [call[r] EXCEPT !.at = "upsert", !.attempt = @ + 1])
                ELSE Ends(r)
    <3>1. call[r].attempt \in 1..2 /\ call[r].attempt <= call[r].clears
          /\ call[r].clears \in 0..2
      BY <1>1, <1>13, <2>2 DEF Update, CallState, MissesAreClears
    <3>2. CASE MayRetry(r)
      <4>1. call[r].attempt + 1 \in 1..2
            /\ call[r].attempt + 1 <= call[r].clears + 1
        BY <3>1, <3>2 DEF MayRetry, Attempts
      <4>2. Moves(r, [call[r] EXCEPT !.at = "upsert",
                                     !.attempt = call[r].attempt + 1])
        BY <2>2, <3>2
      <4> QED
        BY <1>9, <1>13, <2>2, <4>1, <4>2 DEF Update
    <3>3. CASE ~MayRetry(r)
      <4>1. call[r].clears = 2 /\ Ends(r)
        BY <2>2, <3>1, <3>3 DEF MayRetry, Attempts
      <4>2. SyncInv'
        BY <1>1, <1>2, <1>13, <2>2, <4>1, MovesKeeps DEF Ends, Update
      <4>3. SeenOrCleared
        BY <1>2, <1>3, <4>1 DEF SeenOrCleared, Recording, Ends
      <4> QED
        BY <4>2, <4>3
    <3> QED
      BY <3>2, <3>3
  <2> QED
    BY <1>13, <2>1, <2>2 DEF Update
<1> QED
  BY <1>5, <1>6, <1>7, <1>8, <1>11, <1>5a, <1>13

LEMMA SyncKept ==
  ASSUME SyncInv, [SyncNext]_syncVars
  PROVE  SyncInv' /\ [SeenOrCleared]_syncVars
<1>1. CASE UNCHANGED syncVars
  BY <1>1 DEF syncVars, SyncInv, IssuesHold, MissesAreClears, Keyed
<1>2. ASSUME NEW i \in Issues, Clear(i) PROVE SyncInv' /\ SeenOrCleared
  <2>1. SyncInv' /\ \A r \in Calls : call'[r].at = call[r].at
    BY <1>2, ClearKeeps
  <2> QED
    BY <2>1 DEF SeenOrCleared, Recording, CallIdle
<1> QED
  BY <1>1, <1>2, CallKeeps DEF SyncNext

\* A recording of a mismatch ends on an issue that is open, or issues were
\* cleared under it twice, for any number of overlapping requests, issues and
\* clears (recordVersionMismatch).
THEOREM MismatchesAreSeen == SyncSpec => MismatchIsSeen
<1>1. SyncInv /\ [SyncNext]_syncVars => SyncInv' /\ [SeenOrCleared]_syncVars
  BY SyncKept
<1> QED
  BY <1>1, SyncStarts, PTL DEF SyncSpec, MismatchIsSeen, SeenOrCleared

LEMMA GateKeeps ==
  ASSUME SyncInv, LimitInv, [SyncNext]_syncVars PROVE SyncInv' /\ LimitInv'
<1>1. SyncInv'
  BY SyncKept
<1>2. UNCHANGED limitVars => LimitInv'
  BY LimitRests
<1>3. ASSUME NEW k \in LimitKeys, Admit(k) \/ Refuse(k) PROVE LimitInv'
  BY <1>3, AdmitKeeps, LimitRests DEF Refuse
<1>4. ASSUME NEW r \in Calls,
             GateRefuses(r) \/ InvalidVersion(r) \/ VersionCheck(r)
      PROVE  \E k \in LimitKeys : Admit(k) \/ Refuse(k)
  BY <1>4, SyncAssumption DEF GateRefuses, InvalidVersion, VersionCheck
<1>5. ASSUME NEW r \in Calls,
             GateMatches(r) \/ Stamps(r) \/ Upsert(r) \/ Insert(r) \/ Update(r)
      PROVE  UNCHANGED limitVars
  BY <1>5 DEF GateMatches, Stamps, Upsert, Insert, Update
<1>6. ASSUME NEW i \in Issues, Clear(i) PROVE UNCHANGED limitVars
  BY <1>6 DEF Clear
<1>7. UNCHANGED syncVars => UNCHANGED limitVars
  BY DEF syncVars
<1> QED
  BY <1>1, <1>2, <1>3, <1>4, <1>5, <1>6, <1>7 DEF SyncNext

LEMMA SyncTypes == SyncInv /\ LimitInv => SyncTypeOK
<1> SUFFICES ASSUME SyncInv, LimitInv PROVE Cardinality(Keyed) <= 1
  BY DEF SyncInv, LimitInv, SyncTypeOK, IssuesHold, Keyed
<1>1. CASE Keyed = {}
  BY <1>1, FS_EmptySet
<1>2. CASE Keyed # {}
  <2>1. PICK i \in Keyed : TRUE
    BY <1>2
  <2>2. Keyed = {i}
    BY <2>1 DEF SyncInv, IssuesHold, Keyed
  <2> QED
    BY <2>2, FS_Singleton
<1> QED
  BY <1>1, <1>2

\* However many requests meet the gate, record and are cleared under at once, a
\* club has one open issue at most, and it is the one that holds the club's key
\* (recordVersionMismatch, clearIssueAction).
THEOREM OneOpenIssue == SyncSpec => []SyncTypeOK
<1>1. SyncInv /\ LimitInv /\ [SyncNext]_syncVars => SyncInv' /\ LimitInv'
  BY GateKeeps
<1>2. SyncInit => LimitInv
  BY LimitStarts DEF SyncInit
<1> QED
  BY <1>1, <1>2, SyncTypes, SyncStarts, PTL DEF SyncSpec
=============================================================================
