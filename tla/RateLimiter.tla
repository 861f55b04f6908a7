---------------------------- MODULE RateLimiter ----------------------------
(***************************************************************************)
(* The in-memory rate limiter: fixed windows, one per key, counted from    *)
(* the first request that finds none open.  A restart of the process       *)
(* forgets them all.                                                       *)
(***************************************************************************)
EXTENDS Naturals, FiniteSets, Sequences

CONSTANTS
    LimitKeys,   \* what requests are counted by
    LimitMax,    \* requests a window admits
    LimitWindow, \* its length
    LimitTime,   \* bound on the clock
    MaxRestarts  \* bound on restarts

ASSUME LimitAssumption ==
    /\ {LimitMax, LimitWindow} \subseteq Nat \ {0}
    /\ {LimitTime, MaxRestarts} \subseteq Nat

VARIABLES
    ticks,       \* the clock
    bucket,      \* buckets, by key
    admitted,    \* when requests were let through, by key
    restarts     \* restarts so far

limitVars == <<ticks, bucket, admitted, restarts>>

-----------------------------------------------------------------------------
\* A key that has no window counts as one that ended.
NoWindow == [count |-> 0, resetAt |-> 0]

LimitInit ==
    /\ ticks = 0
    /\ bucket = [k \in LimitKeys |-> NoWindow]
    /\ admitted = [k \in LimitKeys |-> << >>]
    /\ restarts = 0

LimitTypeOK ==
    /\ ticks \in 0..LimitTime
    /\ bucket \in [LimitKeys ->
         [count : 0..LimitMax, resetAt : 0..(LimitTime + LimitWindow)]]
    /\ restarts \in 0..MaxRestarts
    /\ admitted \in [LimitKeys -> Seq(0..LimitTime)]

Ended(k) == ticks >= bucket[k].resetAt

FullLate(k) == bucket[k].count > LimitMax                     \* mutant

Full(k) == bucket[k].count >= LimitMax

Admits(k) == Ended(k) \/ ~Full(k)

\* checkRateLimit, allowed.
Admit(k) ==
    /\ Admits(k)
    /\ bucket' = [bucket EXCEPT ![k] =
         IF Ended(k) THEN [count |-> 1, resetAt |-> ticks + LimitWindow]
         ELSE [bucket[k] EXCEPT !.count = @ + 1]]
    /\ admitted' = [admitted EXCEPT ![k] = Append(@, ticks)]
    /\ UNCHANGED <<ticks, restarts>>

\* checkRateLimit, refused.
Refuse(k) == ~Admits(k) /\ UNCHANGED limitVars

LimitTick ==
    /\ ticks < LimitTime
    /\ ticks' = ticks + 1
    /\ UNCHANGED <<bucket, admitted, restarts>>

Restart ==
    /\ restarts < MaxRestarts
    /\ restarts' = restarts + 1
    /\ bucket' = [k \in LimitKeys |-> NoWindow]
    /\ UNCHANGED <<ticks, admitted>>

LimitNext == (\E k \in LimitKeys : Admit(k) \/ Refuse(k)) \/ LimitTick \/ Restart

LimitSpec == LimitInit /\ [][LimitNext]_limitVars

-----------------------------------------------------------------------------
\* In any span as long as a window, wherever it begins, a key gets through at
\* most what two windows admit, and one more window's worth for each restart:
\* the two may meet at a boundary, never three (checkRateLimit).
SpanIsBounded ==
    \A k \in LimitKeys, from \in 0..ticks :
      Cardinality({i \in DOMAIN admitted[k] :
                     from <= admitted[k][i] /\ admitted[k][i] < from + LimitWindow})
        <= (2 + restarts) * LimitMax
=============================================================================
