------------------------- MODULE PushDeliveryProofs -------------------------
(***************************************************************************)
(* The push queue, for any numbers of posts, clubs and cron ticks, any     *)
(* batch size and any number of attempts.                                  *)
(***************************************************************************)
EXTENDS PushDelivery, FiniteSetTheorems, SequenceTheorems, TLAPS

-----------------------------------------------------------------------------
(***************************************************************************)
(* The line: what is left of a sequence without some of its members.       *)
(***************************************************************************)
UpTo(K, i) == {j \in K : j <= i}

\* The n-th place that is kept is one, for each n there is.
LEMMA PlaceExists ==
  ASSUME NEW K \in SUBSET Nat, IsFiniteSet(K), NEW n \in 1 .. Cardinality(K)
  PROVE  \E i \in K : Cardinality(UpTo(K, i)) = n
<1> DEFINE size == Cardinality(K)
           rank == [i \in K |-> Cardinality(UpTo(K, i))]
<1>1. size \in Nat
  BY FS_CardinalityType
<1>2. ASSUME NEW i \in K
      PROVE  /\ IsFiniteSet(UpTo(K, i)) /\ Cardinality(UpTo(K, i)) \in 1 .. size
  <2>1. UpTo(K, i) \in SUBSET K /\ i \in UpTo(K, i)
    BY DEF UpTo
  <2>2. IsFiniteSet(UpTo(K, i)) /\ Cardinality(UpTo(K, i)) <= size
    BY <2>1, FS_Subset
  <2>3. Cardinality(UpTo(K, i)) \in Nat /\ Cardinality(UpTo(K, i)) # 0
    BY <2>1, <2>2, FS_CardinalityType, FS_EmptySet
  <2> QED
    BY <1>1, <2>2, <2>3
<1>3. ASSUME NEW i \in K, NEW j \in K, i < j
      PROVE  Cardinality(UpTo(K, i)) < Cardinality(UpTo(K, j))
  <2>1. UpTo(K, i) \in SUBSET UpTo(K, j) /\ UpTo(K, i) # UpTo(K, j)
    <3>1. i \in Nat /\ j \in Nat /\ ~(j <= i) /\ j <= j
      BY <1>3
    <3>2. j \in UpTo(K, j) /\ j \notin UpTo(K, i)
      BY <3>1 DEF UpTo
    <3>3. ASSUME NEW k \in K, k <= i PROVE k <= j
      BY <1>3, <3>1, <3>3
    <3>4. UpTo(K, i) \in SUBSET UpTo(K, j)
      BY <3>3 DEF UpTo
    <3> QED
      BY <3>2, <3>4
  <2>2. /\ Cardinality(UpTo(K, i)) <= Cardinality(UpTo(K, j))
        /\ Cardinality(UpTo(K, j)) # Cardinality(UpTo(K, i))
    BY <1>2, <2>1, FS_Subset
  <2> QED
    BY <1>1, <1>2, <2>2
<1>4. rank \in Injection(K, 1 .. size)
  <2>1. rank \in [K -> 1 .. size]
    BY <1>2
  <2>2. ASSUME NEW i \in K, NEW j \in K, rank[i] = rank[j] PROVE i = j
    <3>1. ~(i < j) /\ ~(j < i)
      BY <1>1, <1>2, <1>3, <2>2
    <3> QED
      BY <3>1
  <2> HIDE DEF rank
  <2> QED
    BY <2>1, <2>2 DEF Injection, IsInjective
<1>5. IsFiniteSet(1 .. size) /\ Cardinality(1 .. size) = size
  BY <1>1, FS_Interval
<1>6. rank \in Surjection(K, 1 .. size)
  <2> HIDE DEF rank
  <2> QED
    BY <1>4, <1>5, FS_Injection
<1> QED
  BY <1>6 DEF Surjection

LEMMA WithoutIs ==
  ASSUME NEW R, NEW seq \in Seq(R), NEW S
  PROVE  LET rest == Without(seq, S)
         IN  /\ rest \in Seq(R)
             /\ \A n \in DOMAIN rest :
                  rest[n] \notin S /\ \E i \in DOMAIN seq : rest[n] = seq[i]
             /\ (\A i, j \in DOMAIN seq : seq[i] = seq[j] => i = j)
                  => \A m, n \in DOMAIN rest : rest[m] = rest[n] => m = n
<1> DEFINE kept == {i \in DOMAIN seq : seq[i] \notin S}
           size == Cardinality(kept)
           place(n) == CHOOSE i \in kept : Cardinality(UpTo(kept, i)) = n
           rest == Without(seq, S)
<1>1. kept \in SUBSET Nat /\ IsFiniteSet(kept) /\ size \in Nat
  <2>1. IsFiniteSet(1 .. Len(seq)) /\ kept \in SUBSET (1 .. Len(seq))
    BY FS_Interval
  <2> QED
    BY <2>1, FS_Subset, FS_CardinalityType
<1>2. \A n \in 1 .. size : place(n) \in kept /\ Cardinality(UpTo(kept, place(n))) = n
  <2> SUFFICES ASSUME NEW n \in 1 .. size
               PROVE  place(n) \in kept /\ Cardinality(UpTo(kept, place(n))) = n
    OBVIOUS
  <2>1. \E i \in kept : Cardinality(UpTo(kept, i)) = n
    <3> HIDE DEF kept
    <3> QED
      BY <1>1, PlaceExists
  <2> QED
    BY <2>1, Zenon
<1>3. rest = [n \in 1 .. size |-> seq[place(n)]]
  BY DEF Without, UpTo
<1> HIDE DEF place, size, rest
<1>4. \A n \in 1 .. size : /\ place(n) \in DOMAIN seq /\ seq[place(n)] \in R
                           /\ seq[place(n)] \notin S
  <2>1. \A i \in kept : i \in DOMAIN seq /\ seq[i] \in R /\ seq[i] \notin S
    OBVIOUS
  <2> HIDE DEF kept
  <2> QED
    BY <1>2, <2>1
<1>5. rest \in Seq(R) /\ DOMAIN rest = 1 .. size
  BY <1>1, <1>3, <1>4
<1>6. ASSUME \A i, j \in DOMAIN seq : seq[i] = seq[j] => i = j,
             NEW m \in 1 .. size, NEW n \in 1 .. size, rest[m] = rest[n]
      PROVE  m = n
  <2>1. place(m) = place(n)
    BY <1>3, <1>4, <1>6
  <2> QED
    BY <1>2, <2>1
<1>7. \A n \in 1 .. size : rest[n] = seq[place(n)]
  BY <1>3
<1>8. \A n \in DOMAIN rest :
        rest[n] \notin S /\ \E i \in DOMAIN seq : rest[n] = seq[i]
  BY <1>4, <1>5, <1>7
<1> QED
  BY <1>5, <1>6, <1>8 DEF rest
-----------------------------------------------------------------------------
(***************************************************************************)
(* Types.                                                                  *)
(***************************************************************************)
LineOK == line \in Seq(Rows) /\ LineIsPending

SweepsOK ==
    /\ sweep \in [Sweeps -> SweepState]
    /\ \A s \in Sweeps :
         /\ sweep[s].at \in {"hold", "call", "record"} => sweep[s].batch # <<>>
         /\ Len(sweep[s].batch) <= BatchSize

LEMMA RowIs ==
  ASSUME NEW r \in Rows
  PROVE  /\ PostOf(r) \in Posts /\ ClubOf(r) \in Clubs /\ KindOf(r) \in Kinds
         /\ r = <<PostOf(r), ClubOf(r), KindOf(r)>>
  BY DEF Rows, PostOf, ClubOf, KindOf

LEMMA IdleIsState == SweepIdle \in SweepState
  BY DEF SweepIdle, SweepState

LEMMA TypeInit == Init => TypeOK
<1> SUFFICES ASSUME Init PROVE TypeOK
  OBVIOUS
<1>1. sweep \in [Sweeps -> SweepState]
  BY IdleIsState DEF Init
<1>2. \A s \in Sweeps : sweep[s].at = "idle" /\ Len(sweep[s].batch) <= BatchSize
  BY PushAssumption DEF Init, SweepIdle
<1>3. line \in Seq(Rows) /\ LineIsPending
  BY DEF Init, LineIsPending
<1> QED
  BY <1>1, <1>2, <1>3
  DEF Init, TypeOK, ClubRow, DeliveryRow, NoDelivery, Asking, NotAsked

LEMMA WithoutOK ==
  ASSUME TypeOK, NEW S, line' = Without(line, S),
         \A r \in Rows \ S : row'[r].status = row[r].status
  PROVE  LineOK'
<1>1. /\ line' \in Seq(Rows)
      /\ \A n \in DOMAIN line' :
           line'[n] \notin S /\ \E i \in DOMAIN line : line'[n] = line[i]
      /\ \A m, n \in DOMAIN line' : line'[m] = line'[n] => m = n
  <2>1. line \in Seq(Rows) /\ \A i, j \in DOMAIN line : line[i] = line[j] => i = j
    BY DEF TypeOK, LineIsPending
  <2> QED
    BY <2>1, WithoutIs
<1>2. ASSUME NEW n \in DOMAIN line' PROVE row'[line'[n]].status = "PENDING"
  <2>1. PICK i \in DOMAIN line : line'[n] = line[i]
    BY <1>1
  <2>2. line[i] \in Rows \ S
    BY <1>1, <2>1 DEF TypeOK
  <2> QED
    BY <2>1, <2>2 DEF TypeOK, LineIsPending
<1> QED
  BY <1>1, <1>2 DEF LineOK, LineIsPending

LEMMA TurnsOK ==
  ASSUME TypeOK, NEW s \in Sweeps, sweep[s].batch # <<>>, Turns(s)
  PROVE  SweepsOK'
<1> DEFINE batch == sweep[s].batch
           state == [SweepIdle EXCEPT !.at = "next", !.batch = Tail(batch)]
<1>1. batch \in Seq(Rows) /\ Len(batch) <= BatchSize /\ batch # <<>>
  BY DEF TypeOK, SweepState
<1>2. Tail(batch) \in Seq(Rows) /\ Len(Tail(batch)) <= BatchSize
  BY <1>1, HeadTailProperties, LenProperties, PushAssumption
<1>3. sweep' = [sweep EXCEPT ![s] = state]
  BY DEF Turns
<1> HIDE DEF batch
<1>4. state \in SweepState /\ state.at = "next" /\ state.batch = Tail(batch)
  BY <1>2, IdleIsState DEF SweepIdle, SweepState
<1> HIDE DEF state
<1> QED
  BY <1>2, <1>3, <1>4 DEF TypeOK, SweepsOK

\* A row is written, and is taken out of the line.
LEMMA RecordOK ==
  ASSUME TypeOK, NEW r \in Rows, NEW new \in DeliveryRow,
         row' = [row EXCEPT ![r] = new], line' = Without(line, {r})
  PROVE  row' \in [Rows -> DeliveryRow] /\ LineOK'
<1>1. row' \in [Rows -> DeliveryRow]
  BY DEF TypeOK
<1>2. \A q \in Rows \ {r} : row'[q].status = row[q].status
  BY DEF TypeOK
<1> QED
  BY <1>1, <1>2, WithoutOK

\* The rows that are queued follow those in line.
LEMMA CreateOK ==
  ASSUME TypeOK, NEW p \in Posts, NEW k \in Kinds, EnqueueCreate(p, k)
  PROVE  row' \in [Rows -> DeliveryRow] /\ LineOK'
<1> DEFINE fresh == {r \in {p} \X asked[p][k].to \X {k} :
                        post[p] # "pruned" /\ row[r].status = "none"}
           count == Cardinality(fresh)
<1>1. fresh \subseteq Rows
  BY DEF TypeOK, Asking, Rows
<1>2. IsFiniteSet(fresh) /\ count \in Nat
  <2> DEFINE every == {<<p, c, k>> : c \in Clubs}
             named == [c \in Clubs |-> <<p, c, k>>]
  <2>1. named \in Surjection(Clubs, every)
    BY DEF Surjection
  <2>2. IsFiniteSet(every)
    BY <2>1, FS_Surjection, PushAssumption
  <2>3. asked[p][k].to \subseteq Clubs
    BY DEF TypeOK, Asking
  <2>4. fresh \subseteq every
    BY <2>3
  <2> QED
    BY <2>2, <2>4, FS_Subset, FS_CardinalityType
<1>3. PICK order \in [1 .. count -> fresh] :
        /\ \A r \in fresh : \E i \in DOMAIN order : order[i] = r
        /\ line' = line \o order
  BY DEF EnqueueCreate
<1>4. row' = [r \in Rows |->
        IF r \in fresh THEN [status |-> "PENDING", attempts |-> 0] ELSE row[r]]
  BY DEF EnqueueCreate
<1>5. \A r \in fresh : row[r].status = "none"
  OBVIOUS
<1> HIDE DEF fresh
<1>6. \A i, j \in 1 .. count : order[i] = order[j] => i = j
  <2>1. order \in Surjection(1 .. count, fresh)
    BY <1>3 DEF Surjection
  <2>2. IsFiniteSet(1 .. count) /\ Cardinality(1 .. count) = count
    BY <1>2, FS_Interval
  <2>3. order \in Injection(1 .. count, fresh)
    BY <2>1, <2>2, FS_Surjection
  <2> QED
    BY <2>3 DEF Injection, IsInjective
<1>7. order \in Seq(Rows) /\ Len(order) = count
  BY <1>1, <1>2
<1>8. line \in Seq(Rows) /\ Len(line) \in Nat
  BY DEF TypeOK
<1>9. /\ line' \in Seq(Rows) /\ DOMAIN line' = 1 .. Len(line) + count
      /\ \A i \in 1 .. Len(line) + count :
           line'[i] = IF i <= Len(line) THEN line[i] ELSE order[i - Len(line)]
  BY <1>2, <1>3, <1>7, <1>8, ConcatProperties, LenProperties
<1>10. \A i \in 1 .. Len(line) : /\ line[i] \in Rows \ fresh
                                 /\ row'[line[i]].status = "PENDING"
  <2>1. \A i \in 1 .. Len(line) : line[i] \in Rows /\ row[line[i]].status = "PENDING"
    BY DEF TypeOK, LineIsPending
  <2> QED
    BY <1>4, <1>5, <2>1
<1>11. \A i \in 1 .. count : order[i] \in fresh /\ row'[order[i]].status = "PENDING"
  BY <1>1, <1>3, <1>4
<1>12. row' \in [Rows -> DeliveryRow]
  BY <1>4 DEF TypeOK, DeliveryRow
<1>13. ASSUME NEW i \in DOMAIN line'
       PROVE  \/ i \in 1 .. Len(line) /\ line'[i] = line[i]
              \/ /\ ~(i <= Len(line)) /\ i - Len(line) \in 1 .. count
                 /\ line'[i] = order[i - Len(line)]
  <2>1. i \in 1 .. Len(line) + count
    BY <1>9
  <2>2. i <= Len(line) => i \in 1 .. Len(line)
    BY <1>8, <2>1
  <2>3. ~(i <= Len(line)) => i - Len(line) \in 1 .. count
    BY <1>2, <1>8, <2>1
  <2> QED
    BY <1>9, <2>1, <2>2, <2>3
<1>14. ASSUME NEW i \in DOMAIN line' PROVE row'[line'[i]].status = "PENDING"
  BY <1>10, <1>11, <1>13
<1>15. ASSUME NEW i \in DOMAIN line', NEW j \in DOMAIN line', line'[i] = line'[j]
       PROVE  i = j
  <2>1. CASE i \in 1 .. Len(line) /\ line'[i] = line[i]
    <3>1. j \in 1 .. Len(line) /\ line'[j] = line[j]
      BY <1>10, <1>11, <1>13, <1>15, <2>1
    <3>2. \A m, n \in 1 .. Len(line) : line[m] = line[n] => m = n
      BY DEF TypeOK, LineIsPending
    <3>3. line[i] = line[j]
      BY <1>15, <2>1, <3>1
    <3> QED
      BY <2>1, <3>1, <3>2, <3>3
  <2>2. CASE i - Len(line) \in 1 .. count /\ line'[i] = order[i - Len(line)]
    <3>1. j - Len(line) \in 1 .. count /\ line'[j] = order[j - Len(line)]
      BY <1>10, <1>11, <1>13, <1>15, <2>2
    <3>2. i - Len(line) = j - Len(line)
      BY <1>6, <1>15, <2>2, <3>1
    <3>3. i \in Int /\ j \in Int
      BY <1>2, <1>8, <1>9
    <3> QED
      BY <1>8, <3>2, <3>3
  <2> QED
    BY <1>13, <2>1, <2>2
<1> QED
  BY <1>9, <1>12, <1>14, <1>15 DEF LineOK, LineIsPending
LEMMA Updated ==
  ASSUME NEW A, NEW B, NEW T, NEW f \in [A -> [B -> T]],
         NEW a \in A, NEW b \in B, NEW t \in T
  PROVE  [f EXCEPT ![a][b] = t] \in [A -> [B -> T]]
  OBVIOUS

LEMMA UpdatedAt ==
  ASSUME NEW A, NEW B, NEW T, NEW f \in [A -> [B -> T]],
         NEW a \in A, NEW b \in B, NEW t, NEW i \in A, NEW j \in B
  PROVE  \/ [f EXCEPT ![a][b] = t][i][j] = f[i][j]
         \/ /\ a = i /\ b = j
            /\ [f EXCEPT ![a][b] = t][i][j] = t
  OBVIOUS

LEMMA TypeKept == TypeOK /\ [Next]_vars => TypeOK'
<1> SUFFICES ASSUME TypeOK, [Next]_vars PROVE TypeOK'
  OBVIOUS
<1>0. /\ post \in [Posts -> {"absent", "live", "hidden", "removed", "pruned"}]
      /\ club \in [Clubs -> ClubRow]
      /\ row \in [Rows -> DeliveryRow]
      /\ LineOK
      /\ asked \in [Posts -> [Kinds -> Asking]]
      /\ SweepsOK
      /\ running \in BOOLEAN
      /\ heard \in [Clubs -> [Posts -> {"nothing", "shared", "withdrawn"}]]
      /\ got \in [Rows -> Nat]
      /\ late \in [Clubs -> Nat]
      /\ faults \in Nat
  BY DEF TypeOK, LineOK, SweepsOK
<1>a. /\ UNCHANGED queueVars => row' \in [Rows -> DeliveryRow] /\ LineOK'
      /\ UNCHANGED sweepVars => SweepsOK' /\ running' \in BOOLEAN
      /\ UNCHANGED sweep => SweepsOK'
      /\ UNCHANGED callVars =>
           /\ heard' \in [Clubs -> [Posts -> {"nothing", "shared", "withdrawn"}]]
           /\ got' \in [Rows -> Nat] /\ late' \in [Clubs -> Nat]
  BY <1>0 DEF queueVars, sweepVars, callVars, LineOK, LineIsPending, SweepsOK
<1>b. /\ NotAsked \in Asking /\ [at |-> "asked", to |-> {}] \in Asking
      /\ NoDelivery \in DeliveryRow
  BY DEF NotAsked, Asking, NoDelivery, DeliveryRow
<1>c. \A s \in Sweeps : sweep[s] \in SweepState /\ sweep[s].batch \in Seq(Rows)
  BY <1>0 DEF SweepsOK, SweepState
<1> DEFINE Typed ==
      /\ post' \in [Posts -> {"absent", "live", "hidden", "removed", "pruned"}]
      /\ club' \in [Clubs -> ClubRow]
      /\ row' \in [Rows -> DeliveryRow]
      /\ LineOK'
      /\ asked' \in [Posts -> [Kinds -> Asking]]
      /\ SweepsOK'
      /\ running' \in BOOLEAN
      /\ heard' \in [Clubs -> [Posts -> {"nothing", "shared", "withdrawn"}]]
      /\ got' \in [Rows -> Nat]
      /\ late' \in [Clubs -> Nat]
      /\ faults' \in Nat
<1>d. Typed => TypeOK'
  BY DEF TypeOK, LineOK, SweepsOK
<1> HIDE DEF Typed
<1>1. ASSUME NEW p \in Posts, Share(p) \/ HideOrShow(p) \/ Remove(p) PROVE Typed
  <2>1. asked' \in [Posts -> [Kinds -> Asking]]
    <3>1. UNCHANGED asked \/ \E k \in Kinds : Asks(p, k)
      BY <1>1 DEF Share, HideOrShow, Remove, Kinds
    <3>2. ASSUME NEW k \in Kinds, Asks(p, k)
          PROVE  asked' \in [Posts -> [Kinds -> Asking]]
      BY <1>0, <1>b, <3>2, Updated DEF Asks
    <3> QED
      BY <1>0, <3>1, <3>2
  <2>2. post' \in [Posts -> {"absent", "live", "hidden", "removed", "pruned"}]
    BY <1>0, <1>1 DEF Share, HideOrShow, Remove
  <2>3. UNCHANGED <<club, queueVars, sweepVars, callVars, faults>>
    BY <1>1 DEF Share, HideOrShow, Remove
  <2> QED
    BY <1>0, <1>a, <2>1, <2>2, <2>3 DEF Typed
<1>2. ASSUME NEW p \in Posts, Prune(p) PROVE Typed
  <2> DEFINE cascaded == {r \in Rows : PostOf(r) = p}
  <2>1. row' = [r \in Rows |-> IF r \in cascaded THEN NoDelivery ELSE row[r]]
        /\ line' = Without(line, cascaded)
    BY <1>2 DEF Prune
  <2> HIDE DEF cascaded
  <2>2. LineOK'
    BY <2>1, WithoutOK
  <2>3. row' \in [Rows -> DeliveryRow]
    BY <1>0, <1>b, <2>1
  <2> QED
    BY <1>0, <1>2, <1>a, <2>2, <2>3 DEF Prune, Typed
<1>3. ASSUME NEW p \in Posts, NEW k \in Kinds, EnqueueRead(p, k) PROVE Typed
  <2>1. [at |-> "read", to |-> Recipients] \in Asking
    BY DEF Asking, Recipients
  <2>2. asked' \in [Posts -> [Kinds -> Asking]]
    BY <1>0, <1>3, <1>b, <2>1 DEF EnqueueRead
  <2> QED
    BY <1>0, <1>3, <1>a, <2>2 DEF EnqueueRead, Typed
<1>4. ASSUME NEW p \in Posts, NEW k \in Kinds, EnqueueCreate(p, k) PROVE Typed
  <2>1. asked' \in [Posts -> [Kinds -> Asking]]
    BY <1>0, <1>4, <1>b DEF EnqueueCreate
  <2>2. row' \in [Rows -> DeliveryRow] /\ LineOK'
    BY <1>4, CreateOK
  <2> QED
    BY <1>0, <1>4, <1>a, <2>1, <2>2 DEF EnqueueCreate, Typed
<1>5. ASSUME NEW r \in Rows, BecomesDue(r) PROVE Typed
  <2>1. line \in Seq(Rows) /\ line' = Append(line, r) /\ UNCHANGED row
        /\ row[r].status = "PENDING" /\ (\A i \in DOMAIN line : line[i] # r)
    BY <1>0, <1>5 DEF BecomesDue, LineOK
  <2>2. /\ line' \in Seq(Rows) /\ DOMAIN line' = 1 .. Len(line) + 1
        /\ \A i \in 1 .. Len(line) : i \in DOMAIN line /\ line'[i] = line[i]
        /\ line'[Len(line) + 1] = r /\ Len(line) \in Nat
    BY <2>1, AppendProperties, LenProperties
  <2>3. \A i \in DOMAIN line' : i \in 1 .. Len(line) \/ i = Len(line) + 1
    BY <2>2
  <2>4. LineOK'
    BY <1>0, <2>1, <2>2, <2>3 DEF LineOK, LineIsPending
  <2> QED
    BY <1>0, <1>5, <1>a, <2>1, <2>4 DEF BecomesDue, Typed
<1>6. ASSUME NEW s \in Sweeps, SweepStarts(s) PROVE Typed
  <2> DEFINE state == [SweepIdle EXCEPT !.at = "next", !.batch = OldestDue]
  <2>1. OldestDue \in Seq(Rows) /\ Len(OldestDue) <= BatchSize
    <3>1. line \in Seq(Rows) /\ Len(line) \in Nat
      BY <1>0 DEF LineOK
    <3> DEFINE n == IF Len(line) < BatchSize THEN Len(line) ELSE BatchSize
    <3>2. n \in 0 .. Len(line) /\ n <= BatchSize /\ n \in Int
      BY <3>1, PushAssumption
    <3>3. \A i \in 1 .. n : line[i] \in Rows
      BY <3>1, <3>2
    <3>4. OldestDue = SubSeq(line, 1, n)
      BY DEF OldestDue
    <3> HIDE DEF n
    <3>5. SubSeq(line, 1, n) \in Seq(Rows)
          /\ Len(SubSeq(line, 1, n)) = IF 1 <= n THEN n - 1 + 1 ELSE 0
      BY <3>2, <3>3, SubSeqProperties
    <3> QED
      BY <3>2, <3>4, <3>5, PushAssumption
  <2>2. state \in SweepState /\ state.at = "next" /\ state.batch = OldestDue
    BY <2>1, IdleIsState DEF SweepIdle, SweepState
  <2>3. sweep' = [sweep EXCEPT ![s] = state]
    BY <1>6 DEF SweepStarts
  <2> HIDE DEF state
  <2>4. SweepsOK'
    BY <1>0, <2>1, <2>2, <2>3 DEF SweepsOK
  <2> QED
    BY <1>0, <1>6, <1>a, <2>4 DEF SweepStarts, Typed
<1>7. ASSUME NEW s \in Sweeps, SweepEnds(s) PROVE Typed
  <2>1. SweepIdle.at = "idle" /\ Len(SweepIdle.batch) <= BatchSize
    BY PushAssumption DEF SweepIdle
  <2>2. sweep' = [sweep EXCEPT ![s] = SweepIdle]
    BY <1>7 DEF SweepEnds
  <2>3. SweepsOK'
    BY <1>0, <2>1, <2>2, IdleIsState DEF SweepsOK
  <2> QED
    BY <1>0, <1>7, <1>a, <2>3 DEF SweepEnds, Typed
<1>8. ASSUME NEW s \in Sweeps, DeliverRead(s) PROVE Typed
  <2>1. sweep[s].batch # <<>>
    BY <1>8 DEF DeliverRead
  <2>2. Head(sweep[s].batch) \in Rows
    BY <1>c, <2>1, HeadTailProperties
  <2>3. SweepsOK'
    <3>1. CASE Turns(s)
      BY <2>1, <3>1, TurnsOK
    <3>2. CASE ~Turns(s)
      <4> DEFINE r == Head(sweep[s].batch)
                 at == IF Held(ClubOf(r)) THEN "hold" ELSE "call"
                 attempts == row[r].attempts + 1
                 withdrawn == Withdrawn(r)
      <4>1. attempts \in Nat
        BY <1>0, <2>2 DEF DeliveryRow
      <4>2. withdrawn \in BOOLEAN
        BY DEF Withdrawn
      <4>3. sweep' = [sweep EXCEPT ![s].at = at, ![s].attempts = attempts,
                                   ![s].withdrawn = withdrawn]
        BY <1>8, <3>2 DEF DeliverRead
      <4>4. at \in {"hold", "call"}
        OBVIOUS
      <4> HIDE DEF r, at, attempts, withdrawn
      <4> DEFINE state == [sweep[s] EXCEPT !.at = at, !.attempts = attempts,
                                           !.withdrawn = withdrawn]
      <4>5. sweep' = [sweep EXCEPT ![s] = state]
        BY <4>3
      <4>6. state \in SweepState /\ state.batch = sweep[s].batch
        BY <1>c, <4>1, <4>2, <4>4 DEF SweepState
      <4> HIDE DEF state
      <4> QED
        BY <1>0, <2>1, <4>5, <4>6 DEF SweepsOK
    <3> QED
      BY <3>1, <3>2
  <2> QED
    BY <1>0, <1>8, <1>a, <2>3 DEF DeliverRead, Typed
<1>9. ASSUME NEW s \in Sweeps, DeliverHold(s) PROVE Typed
  <2>1. sweep[s].batch # <<>> /\ Turns(s) /\ UNCHANGED row
        /\ line' = Without(line, {Head(sweep[s].batch)})
    BY <1>0, <1>9 DEF DeliverHold, SweepsOK
  <2>2. SweepsOK'
    BY <2>1, TurnsOK
  <2>3. LineOK'
    BY <2>1, WithoutOK
  <2> QED
    BY <1>0, <1>9, <1>a, <2>2, <2>3 DEF DeliverHold, Typed
<1>10. ASSUME NEW s \in Sweeps, DeliverCall(s) PROVE Typed
  <2> DEFINE r == Head(sweep[s].batch)
  <2>1. sweep[s].batch # <<>>
    BY <1>0, <1>10 DEF DeliverCall, SweepsOK
  <2>2. r \in Rows /\ PostOf(r) \in Posts /\ ClubOf(r) \in Clubs
    BY <1>c, <2>1, HeadTailProperties, RowIs
  <2>3. PICK ok \in BOOLEAN : sweep' = [sweep EXCEPT ![s].at = "record", ![s].ok = ok]
    BY <1>10 DEF DeliverCall
  <2>4. SweepsOK'
    <3> DEFINE state == [sweep[s] EXCEPT !.at = "record", !.ok = ok]
    <3>1. sweep' = [sweep EXCEPT ![s] = state]
      BY <2>3
    <3>2. state \in SweepState /\ state.batch = sweep[s].batch
      BY <1>c DEF SweepState
    <3> HIDE DEF state
    <3> QED
      BY <1>0, <2>1, <3>1, <3>2 DEF SweepsOK
  <2> HIDE DEF r
  <2>5. /\ heard' \in [Clubs -> [Posts -> {"nothing", "shared", "withdrawn"}]]
        /\ got' \in [Rows -> Nat] /\ late' \in [Clubs -> Nat]
    <3>1. \/ UNCHANGED callVars
          \/ /\ heard' = [heard EXCEPT ![ClubOf(r)][PostOf(r)] =
                  IF sweep[s].withdrawn THEN "withdrawn" ELSE "shared"]
             /\ got' = [got EXCEPT ![r] = @ + 1]
             /\ late' = [late EXCEPT ![ClubOf(r)] =
                  IF Reachable(ClubOf(r)) THEN @ ELSE @ + 1]
      BY <1>10 DEF DeliverCall, r
    <3> DEFINE c == ClubOf(r)
               word == IF sweep[s].withdrawn THEN "withdrawn" ELSE "shared"
               n == IF Reachable(c) THEN late[c] ELSE late[c] + 1
    <3>2. word \in {"shared", "withdrawn"} /\ n \in Nat /\ c \in Clubs
      BY <1>0, <2>2
    <3>3. \/ UNCHANGED callVars
          \/ /\ heard' = [heard EXCEPT ![c][PostOf(r)] = word]
             /\ got' = [got EXCEPT ![r] = @ + 1]
             /\ late' = [late EXCEPT ![c] = n]
      BY <3>1
    <3> HIDE DEF c, word, n
    <3>4. [heard EXCEPT ![c][PostOf(r)] = word]
            \in [Clubs -> [Posts -> {"nothing", "shared", "withdrawn"}]]
      BY <1>0, <2>2, <3>2, Updated
    <3>5. [got EXCEPT ![r] = @ + 1] \in [Rows -> Nat]
          /\ [late EXCEPT ![c] = n] \in [Clubs -> Nat]
      BY <1>0, <2>2, <3>2
    <3> QED
      BY <1>a, <3>3, <3>4, <3>5, Zenon
  <2> QED
    BY <1>0, <1>10, <1>a, <2>4, <2>5 DEF DeliverCall, Typed
<1>11. ASSUME NEW s \in Sweeps, DeliverRecord(s) PROVE Typed
  <2> DEFINE r == Head(sweep[s].batch)
             n == sweep[s].attempts
             new == IF row[r].status = "none" THEN row[r]
                    ELSE IF sweep[s].ok THEN [status |-> "DELIVERED", attempts |-> n]
                    ELSE Failed(n)
  <2>1. sweep[s].batch # <<>> /\ n \in Nat /\ Turns(s)
    BY <1>0, <1>c, <1>11 DEF DeliverRecord, SweepsOK, SweepState
  <2>2. r \in Rows
    BY <1>c, <2>1, HeadTailProperties
  <2>3. SweepsOK'
    BY <2>1, TurnsOK
  <2>4. new \in DeliveryRow
    BY <1>0, <2>1, <2>2 DEF DeliveryRow, Failed
  <2>5. row' = [row EXCEPT ![r] = new] /\ line' = Without(line, {r})
    BY <1>11 DEF DeliverRecord
  <2> HIDE DEF r, n, new
  <2>6. row' \in [Rows -> DeliveryRow] /\ LineOK'
    BY <2>2, <2>4, <2>5, RecordOK
  <2> QED
    BY <1>0, <1>11, <1>a, <2>3, <2>6 DEF DeliverRecord, Typed
<1>12. ASSUME NEW c \in Clubs, NEW new \in ClubRow, Moves(c, new) PROVE Typed
  BY <1>0, <1>12, <1>a DEF Moves, Typed
<1>13. ASSUME ClubNext PROVE Typed
  <2>1. PICK c \in Clubs :
          \/ Suspend(c) \/ Reapprove(c) \/ PutTarget(c) \/ DeleteTarget(c)
          \/ \E v \in {"agrees", "differs"} : ReportVersion(c, v)
    BY <1>13 DEF ClubNext
  <2>2. club[c] \in ClubRow
    BY <1>0
  <2>3. \E new \in ClubRow : Moves(c, new)
    BY <2>1, <2>2
    DEF Suspend, Reapprove, PutTarget, DeleteTarget, ReportVersion, ClubRow
  <2> QED
    BY <1>12, <2>3
<1>14. ASSUME NEW s \in Sweeps, UpdateFails(s) PROVE Typed
  <2>1. sweep[s].batch # <<>> /\ Turns(s)
    BY <1>0, <1>14 DEF UpdateFails, SweepsOK
  <2>2. SweepsOK'
    BY <2>1, TurnsOK
  <2> QED
    BY <1>0, <1>14, <1>a, <2>2 DEF UpdateFails, Typed
<1>15. ASSUME Crash PROVE Typed
  <2>1. SweepIdle.at = "idle" /\ Len(SweepIdle.batch) <= BatchSize
    BY PushAssumption DEF SweepIdle
  <2>2. SweepsOK'
    BY <1>15, <2>1, IdleIsState DEF Crash, SweepsOK
  <2>3. asked' \in [Posts -> [Kinds -> Asking]]
    BY <1>15, <1>b DEF Crash
  <2>4. UNCHANGED <<post, club, queueVars, callVars>>
    BY <1>15, Zenon DEF Crash
  <2>5. running' \in BOOLEAN
    BY <1>15, Zenon DEF Crash
  <2>6. faults' \in Nat
    BY <1>0, <1>15 DEF Crash
  <2> QED
    BY <1>0, <1>a, <2>2, <2>3, <2>4, <2>5, <2>6 DEF Typed
<1>16. ASSUME UNCHANGED vars PROVE Typed
  BY <1>0, <1>16, <1>a DEF vars, queueVars, sweepVars, callVars, Typed
<1>17. ASSUME PostNext PROVE Typed
  BY <1>1, <1>2, <1>3, <1>4, <1>17 DEF PostNext
<1>18. ASSUME NEW s \in Sweeps, SweepStarts(s) \/ SweepStep(s) \/ UpdateFails(s)
       PROVE  Typed
  BY <1>6, <1>7, <1>8, <1>9, <1>10, <1>11, <1>14, <1>18 DEF SweepStep
<1> QED
  BY <1>d, <1>5, <1>13, <1>15, <1>16, <1>17, <1>18 DEF Next

\* The rows, the line and what a sweep carries are what they should be: a row is
\* in line once, and only while it is pending.
THEOREM PushTypeCorrect == Spec => []TypeOK
<1>1. TypeOK /\ [Next]_vars => TypeOK'
  BY TypeKept
<1> QED
  BY <1>1, TypeInit, PTL DEF Spec
-----------------------------------------------------------------------------
(***************************************************************************)
(* What the pushes say.  One sweep is at work at a time, so between the    *)
(* read of a row and its update only the world moves, no other push.       *)
(***************************************************************************)
RowAt(s) == Head(sweep[s].batch)

AtWork(s) == sweep[s].at # "idle"

Sending(s) == sweep[s].at \in {"call", "record"}

OneSweep ==
    /\ \A s \in Sweeps : AtWork(s) => running
    /\ \A s, t \in Sweeps : AtWork(s) /\ AtWork(t) => s = t

Removal(p, c) == <<p, c, "REMOVED">>

\* Only a removed post is withdrawn, and a pruned one has no rows.
Withdrawals ==
    /\ \A p \in Posts :
         asked[p]["REMOVED"].at # "idle" => post[p] \in {"removed", "pruned"}
    /\ \A p \in Posts, c \in Clubs :
         row[Removal(p, c)].status # "none" => post[p] = "removed"
    /\ \A r \in Rows : post[PostOf(r)] = "pruned" => row[r].status = "none"

Word(withdrawn) == IF withdrawn THEN "withdrawn" ELSE "shared"

\* A push that shows a post is on its way only while its withdrawal is not yet
\* delivered; the answer is to the last push that went out.
Says(s) ==
    LET r == RowAt(s)
        p == PostOf(r)
        c == ClubOf(r)
    IN  /\ Sending(s) /\ KindOf(r) = "REMOVED" => sweep[s].withdrawn
        /\ sweep[s].at = "call" /\ ~sweep[s].withdrawn
             => row[Removal(p, c)].status # "DELIVERED"
        /\ sweep[s].at = "record" /\ sweep[s].ok
             => heard[c][p] = Word(sweep[s].withdrawn)

\* The attempt a push is counted as is the one after those its row counts.
Counts(s) ==
    Sending(s) =>
      IF row[RowAt(s)].status = "none" THEN post[PostOf(RowAt(s))] = "pruned"
      ELSE sweep[s].attempts = row[RowAt(s)].attempts + 1

Unrecorded(r) == \E s \in Sweeps : sweep[s].at = "record" /\ RowAt(s) = r

Counted ==
    \A r \in Rows :
      IF row[r].status = "none"
      THEN post[PostOf(r)] # "pruned" => got[r] = 0
      ELSE got[r] <= row[r].attempts + faults + (IF Unrecorded(r) THEN 1 ELSE 0)

\* A push is on its way to a club that has heard none since it was reachable.
OnItsWay(c) == \E s \in Sweeps : sweep[s].at = "call" /\ ClubOf(RowAt(s)) = c

Latecomers ==
    \A c \in Clubs :
      /\ late[c] <= 1
      /\ Reachable(c) \/ OnItsWay(c) => late[c] = 0

PushInv ==
    /\ TypeOK
    /\ OneSweep
    /\ Withdrawals
    /\ \A s \in Sweeps : Says(s) /\ Counts(s)
    /\ Counted
    /\ Latecomers
    /\ RemovalIsLastWord
LEMMA PushInit == Init => PushInv
<1> SUFFICES ASSUME Init PROVE PushInv
  OBVIOUS
<1>1. TypeOK
  BY TypeInit
<1>2. \A s \in Sweeps : sweep[s].at = "idle"
  BY DEF Init, SweepIdle
<1>3. OneSweep /\ \A s \in Sweeps : Says(s) /\ Counts(s)
  BY <1>2 DEF OneSweep, AtWork, Says, Counts, Sending
<1>4. \A r \in Rows : row[r].status = "none"
  BY DEF Init, NoDelivery
<1>5. \A p \in Posts, c \in Clubs : Removal(p, c) \in Rows
  BY DEF Removal, Rows, Kinds
<1>6. Withdrawals
  BY <1>4, <1>5 DEF Init, Withdrawals, NotAsked, Kinds
<1>7. Counted /\ Latecomers
  BY <1>4 DEF Init, Counted, Latecomers
<1>8. RemovalIsLastWord
  BY <1>4, <1>5 DEF RemovalIsLastWord, Removal
<1> QED
  BY <1>1, <1>3, <1>6, <1>7, <1>8 DEF PushInv

\* The row a sweep is at.
LEMMA RowAtIs ==
  ASSUME TypeOK, NEW s \in Sweeps,
         sweep[s].at \in {"hold", "call", "record"} \/ sweep[s].batch # <<>>
  PROVE  /\ RowAt(s) \in Rows
         /\ PostOf(RowAt(s)) \in Posts /\ ClubOf(RowAt(s)) \in Clubs
<1>1. sweep[s].batch \in Seq(Rows) /\ sweep[s].batch # <<>>
  BY DEF TypeOK, SweepState
<1> QED
  BY <1>1, HeadTailProperties, RowIs DEF RowAt

\* One step of the sweep s, the others untouched.
Works(s) ==
    \/ DeliverRead(s) \/ DeliverHold(s) \/ DeliverCall(s) \/ DeliverRecord(s)
    \/ UpdateFails(s)

LEMMA TurnsIs ==
  ASSUME TypeOK, NEW s \in Sweeps, Turns(s)
  PROVE  /\ sweep'[s].at = "next"
         /\ \A t \in Sweeps \ {s} : sweep'[t] = sweep[t]
  BY DEF TypeOK, Turns, SweepIdle

LEMMA CallIs ==
  ASSUME TypeOK, NEW s \in Sweeps, DeliverCall(s)
  PROVE  /\ sweep[s].at = "call" /\ sweep'[s].at = "record"
         /\ sweep'[s].batch = sweep[s].batch
         /\ sweep'[s].withdrawn = sweep[s].withdrawn
         /\ sweep'[s].attempts = sweep[s].attempts
         /\ \A t \in Sweeps \ {s} : sweep'[t] = sweep[t]
         /\ \/ sweep'[s].ok = FALSE /\ UNCHANGED callVars
            \/ LET r == RowAt(s)
               IN  /\ heard' = [heard EXCEPT ![ClubOf(r)][PostOf(r)] =
                         Word(sweep[s].withdrawn)]
                   /\ got' = [got EXCEPT ![r] = @ + 1]
                   /\ late' = [late EXCEPT ![ClubOf(r)] =
                         IF Reachable(ClubOf(r)) THEN @ ELSE @ + 1]
<1>1. sweep[s] \in SweepState
  BY DEF TypeOK
<1>2. PICK ok \in BOOLEAN : sweep' = [sweep EXCEPT ![s].at = "record", ![s].ok = ok]
  BY DEF DeliverCall
<1>3. /\ sweep'[s] = [sweep[s] EXCEPT !.at = "record", !.ok = ok]
      /\ \A t \in Sweeps \ {s} : sweep'[t] = sweep[t]
  BY <1>2 DEF TypeOK
<1>4. /\ sweep'[s].at = "record"
      /\ sweep'[s].batch = sweep[s].batch
      /\ sweep'[s].withdrawn = sweep[s].withdrawn
      /\ sweep'[s].attempts = sweep[s].attempts
  BY <1>1, <1>3 DEF SweepState
<1>5. CASE UNCHANGED callVars /\ sweep' = [sweep EXCEPT ![s].at = "record",
                                                        ![s].ok = FALSE]
  <2>1. sweep'[s] = [sweep[s] EXCEPT !.at = "record", !.ok = FALSE]
    BY <1>5 DEF TypeOK
  <2>2. sweep'[s].ok = FALSE
    BY <1>1, <2>1 DEF SweepState
  <2> QED
    BY <1>3, <1>4, <1>5, <2>2 DEF DeliverCall
<1>6. CASE ~(UNCHANGED callVars /\ sweep' = [sweep EXCEPT ![s].at = "record",
                                                          ![s].ok = FALSE])
  BY <1>3, <1>4, <1>6 DEF DeliverCall, RowAt, Word
<1> QED
  BY <1>5, <1>6

LEMMA ReadIs ==
  ASSUME TypeOK, NEW s \in Sweeps, DeliverRead(s)
  PROVE  /\ \A t \in Sweeps \ {s} : sweep'[t] = sweep[t]
         /\ \/ Turns(s) /\ sweep'[s].at = "next"
            \/ /\ sweep'[s].at = IF Held(ClubOf(RowAt(s))) THEN "hold" ELSE "call"
               /\ sweep'[s].batch = sweep[s].batch
               /\ sweep'[s].attempts = row[RowAt(s)].attempts + 1
               /\ sweep'[s].withdrawn = Withdrawn(RowAt(s))
               /\ row[RowAt(s)].status # "none"
               /\ club[ClubOf(RowAt(s))].target
<1>1. CASE Turns(s)
  BY <1>1, TurnsIs
<1>2. CASE ~Turns(s)
  <2> DEFINE at == IF Held(ClubOf(RowAt(s))) THEN "hold" ELSE "call"
             attempts == row[RowAt(s)].attempts + 1
             withdrawn == Withdrawn(RowAt(s))
  <2>1. /\ sweep' = [sweep EXCEPT ![s].at = at, ![s].attempts = attempts,
                                  ![s].withdrawn = withdrawn]
        /\ row[RowAt(s)].status # "none"
        /\ club[ClubOf(RowAt(s))].target
    BY <1>2 DEF DeliverRead, RowAt
  <2>2. sweep[s] \in SweepState
    BY DEF TypeOK
  <2> HIDE DEF at, attempts, withdrawn
  <2>3. /\ sweep'[s] = [sweep[s] EXCEPT !.at = at, !.attempts = attempts,
                                        !.withdrawn = withdrawn]
        /\ \A t \in Sweeps \ {s} : sweep'[t] = sweep[t]
    BY <2>1 DEF TypeOK
  <2>4. /\ sweep'[s].at = at /\ sweep'[s].batch = sweep[s].batch
        /\ sweep'[s].attempts = attempts /\ sweep'[s].withdrawn = withdrawn
    BY <2>2, <2>3 DEF SweepState
  <2> QED
    BY <2>1, <2>3, <2>4 DEF at, attempts, withdrawn
<1> QED
  BY <1>1, <1>2

\* Whatever it does, the sweep stays at work and the others stay as they are.
LEMMA WorkIs ==
  ASSUME TypeOK, NEW s \in Sweeps, Works(s)
  PROVE  /\ AtWork(s) /\ AtWork(s)' /\ UNCHANGED running
         /\ \A t \in Sweeps \ {s} : sweep'[t] = sweep[t]
<1>1. CASE DeliverRead(s)
  <2>1. sweep[s].at = "next" /\ UNCHANGED running
    BY <1>1 DEF DeliverRead
  <2> QED
    BY <1>1, <2>1, ReadIs DEF AtWork
<1>2. CASE DeliverCall(s)
  <2>1. UNCHANGED running
    BY <1>2 DEF DeliverCall
  <2> QED
    BY <1>2, <2>1, CallIs DEF AtWork
<1>3. CASE DeliverHold(s) \/ DeliverRecord(s) \/ UpdateFails(s)
  <2>1. sweep[s].at \in {"hold", "record"} /\ UNCHANGED running /\ Turns(s)
    BY <1>3 DEF DeliverHold, DeliverRecord, UpdateFails
  <2> QED
    BY <2>1, TurnsIs DEF AtWork
<1> QED
  BY <1>1, <1>2, <1>3 DEF Works

LEMMA OneSweepKept ==
  ASSUME TypeOK, OneSweep, [Next]_vars
  PROVE  OneSweep'
<1>1. ASSUME NEW s \in Sweeps, Works(s) PROVE OneSweep'
  BY <1>1, WorkIs DEF OneSweep, AtWork
<1>2. ASSUME NEW s \in Sweeps, SweepStarts(s) PROVE OneSweep'
  <2>1. ~running /\ running' /\ \A t \in Sweeps \ {s} : sweep'[t] = sweep[t]
    BY <1>2 DEF SweepStarts, MayStart, TypeOK
  <2> QED
    BY <2>1 DEF OneSweep, AtWork
<1>3. ASSUME NEW s \in Sweeps, SweepEnds(s) PROVE OneSweep'
  <2>1. /\ AtWork(s) /\ ~AtWork(s)'
        /\ \A t \in Sweeps \ {s} : sweep'[t] = sweep[t]
    BY <1>3 DEF SweepEnds, AtWork, TypeOK, SweepIdle
  <2> QED
    BY <2>1 DEF OneSweep, AtWork
<1>4. CASE Crash
  BY <1>4 DEF Crash, OneSweep, AtWork, SweepIdle
<1>5. CASE UNCHANGED sweepVars
  BY <1>5 DEF sweepVars, OneSweep, AtWork
<1> QED
  BY <1>1, <1>2, <1>3, <1>4, <1>5
  DEF Next, PostNext, ClubNext, SweepStep, Works, vars, sweepVars, Share, HideOrShow,
      Remove, Prune, EnqueueRead, EnqueueCreate, Suspend, Reapprove, PutTarget,
      DeleteTarget, ReportVersion, Moves, BecomesDue
\* The steps that write rows.
LEMMA CreateIs ==
  ASSUME TypeOK, NEW p \in Posts, NEW k \in Kinds, EnqueueCreate(p, k)
  PROVE  /\ asked[p][k].at = "read"
         /\ asked' = [asked EXCEPT ![p][k] = NotAsked]
         /\ UNCHANGED <<post, club, sweep, running, heard, got, late, faults>>
         /\ \A r \in Rows :
              \/ row'[r] = row[r]
              \/ /\ row[r].status = "none" /\ post[p] # "pruned"
                 /\ row'[r] = [status |-> "PENDING", attempts |-> 0]
                 /\ PostOf(r) = p /\ KindOf(r) = k
<1> DEFINE fresh == {r \in {p} \X asked[p][k].to \X {k} :
                        post[p] # "pruned" /\ row[r].status = "none"}
<1>1. row' = [r \in Rows |->
        IF r \in fresh THEN [status |-> "PENDING", attempts |-> 0] ELSE row[r]]
  BY DEF EnqueueCreate
<1>2. \A r \in fresh : /\ row[r].status = "none" /\ post[p] # "pruned"
                       /\ PostOf(r) = p /\ KindOf(r) = k
  BY DEF PostOf, KindOf
<1>3. /\ asked[p][k].at = "read"
      /\ asked' = [asked EXCEPT ![p][k] = NotAsked]
      /\ UNCHANGED <<post, club, sweep, running, heard, got, late, faults>>
  BY DEF EnqueueCreate, sweepVars, callVars
<1> HIDE DEF fresh
<1> QED
  BY <1>1, <1>2, <1>3

LEMMA RecordIs ==
  ASSUME TypeOK, NEW s \in Sweeps, DeliverRecord(s)
  PROVE  /\ sweep[s].at = "record" /\ RowAt(s) \in Rows
         /\ UNCHANGED <<post, club, asked, running, heard, got, late, faults>>
         /\ \A r \in Rows \ {RowAt(s)} : row'[r] = row[r]
         /\ \/ row'[RowAt(s)] = row[RowAt(s)]
            \/ /\ row[RowAt(s)].status # "none" /\ row'[RowAt(s)].status # "none"
               /\ row'[RowAt(s)].attempts = sweep[s].attempts
               /\ row'[RowAt(s)].status = "DELIVERED" => sweep[s].ok
         /\ row[RowAt(s)].status # "none"
              => row'[RowAt(s)].attempts = sweep[s].attempts
<1> DEFINE r == RowAt(s)
           n == sweep[s].attempts
<1>1. /\ sweep[s].at = "record" /\ r \in Rows
      /\ UNCHANGED <<post, club, asked, running, heard, got, late, faults>>
  BY RowAtIs DEF DeliverRecord, callVars
<1>2. row' = [row EXCEPT ![r] =
             IF @.status = "none" THEN @
             ELSE IF sweep[s].ok THEN [status |-> "DELIVERED", attempts |-> n]
             ELSE Failed(n)]
  BY DEF DeliverRecord, RowAt
<1> HIDE DEF r, n
<1>3. /\ \A q \in Rows \ {r} : row'[q] = row[q]
      /\ row'[r] = IF row[r].status = "none" THEN row[r]
                   ELSE IF sweep[s].ok THEN [status |-> "DELIVERED", attempts |-> n]
                   ELSE Failed(n)
  BY <1>1, <1>2 DEF TypeOK
<1>4. /\ Failed(n).attempts = n
      /\ Failed(n).status # "none" /\ Failed(n).status # "DELIVERED"
  BY DEF Failed
<1> QED
  BY <1>1, <1>3, <1>4 DEF r, n

LEMMA PruneIs ==
  ASSUME TypeOK, NEW p \in Posts, Prune(p)
  PROVE  /\ post[p] = "removed" /\ post' = [post EXCEPT ![p] = "pruned"]
         /\ UNCHANGED <<club, asked, sweep, running, heard, got, late, faults>>
         /\ \A r \in Rows : row'[r] = IF PostOf(r) = p THEN NoDelivery ELSE row[r]
  BY DEF Prune, sweepVars, callVars

LEMMA WithdrawalsKept ==
  ASSUME TypeOK, Withdrawals, [Next]_vars
  PROVE  Withdrawals'
<1>a. \A p \in Posts, c \in Clubs :
        /\ Removal(p, c) \in Rows /\ PostOf(Removal(p, c)) = p
        /\ KindOf(Removal(p, c)) = "REMOVED"
  BY DEF Removal, Rows, Kinds, PostOf, KindOf
<1>b. \A r \in Rows : PostOf(r) \in Posts
  BY RowIs
<1>1. ASSUME NEW p \in Posts, Share(p) \/ HideOrShow(p) \/ Remove(p)
      PROVE  Withdrawals'
  <2>1. /\ UNCHANGED row
        /\ \A q \in Posts \ {p} : post'[q] = post[q] /\ asked'[q] = asked[q]
    BY <1>1
    DEF Share, HideOrShow, Remove, Asks, queueVars, TypeOK
  <2>2. /\ post[p] \notin {"removed", "pruned"} \/ post[p] = "removed"
        /\ post[p] # "pruned" /\ post'[p] # "pruned"
        /\ post[p] = "removed" => post'[p] = "removed"
    BY <1>1 DEF Share, HideOrShow, Remove, TypeOK
  <2>3. asked'[p]["REMOVED"] = asked[p]["REMOVED"] \/ post'[p] = "removed"
    <3>1. CASE Remove(p)
      BY <3>1 DEF Remove, TypeOK
    <3>2. CASE Share(p) \/ HideOrShow(p)
      <4>1. asked' = asked \/ asked' = [asked EXCEPT ![p]["CREATED"] =
                                          [at |-> "asked", to |-> {}]]
        BY <3>2 DEF Share, HideOrShow, Asks
      <4> QED
        BY <4>1 DEF TypeOK, Kinds
    <3> QED
      BY <1>1, <3>1, <3>2
  <2> QED
    BY <1>a, <1>b, <2>1, <2>2, <2>3 DEF Withdrawals
<1>2. ASSUME NEW p \in Posts, Prune(p) PROVE Withdrawals'
  <2>1. /\ post'[p] = "pruned" /\ \A q \in Posts \ {p} : post'[q] = post[q]
        /\ NoDelivery.status = "none"
    BY <1>2, PruneIs DEF TypeOK, NoDelivery
  <2> QED
    BY <1>2, <1>a, <1>b, <2>1, PruneIs DEF Withdrawals
<1>3. ASSUME NEW p \in Posts, NEW k \in Kinds, EnqueueRead(p, k)
      PROVE  Withdrawals'
  <2>1. UNCHANGED <<post, row>> /\ asked[p][k].at # "idle"
    BY <1>3 DEF EnqueueRead, queueVars
  <2>2. \A q \in Posts : \/ asked'[q]["REMOVED"] = asked[q]["REMOVED"]
                         \/ q = p /\ k = "REMOVED"
    BY <1>3 DEF EnqueueRead, TypeOK, Kinds
  <2> QED
    BY <1>a, <1>b, <2>1, <2>2 DEF Withdrawals
<1>4. ASSUME NEW p \in Posts, NEW k \in Kinds, EnqueueCreate(p, k)
      PROVE  Withdrawals'
  <2>1. \A q \in Posts : asked'[q]["REMOVED"] = asked[q]["REMOVED"]
                         \/ asked'[q]["REMOVED"].at = "idle"
    <3>1. asked' = [asked EXCEPT ![p][k] = NotAsked] /\ NotAsked.at = "idle"
      BY <1>4, CreateIs DEF NotAsked
    <3> QED
      BY <3>1 DEF TypeOK, Kinds
  <2>2. UNCHANGED post
    BY <1>4, CreateIs
  <2>3. \A r \in Rows :
          \/ row'[r] = row[r]
          \/ post[p] # "pruned" /\ PostOf(r) = p /\ KindOf(r) = k
    BY <1>4, CreateIs
  <2>4. k = "REMOVED" => post[p] \in {"removed", "pruned"}
    BY <1>4, CreateIs DEF Withdrawals
  <2> QED
    BY <1>a, <1>b, <2>1, <2>2, <2>3, <2>4 DEF Withdrawals
<1>5. ASSUME NEW s \in Sweeps, DeliverRecord(s) PROVE Withdrawals'
  <2>1. UNCHANGED <<post, asked>> /\ \A r \in Rows :
          row[r].status = "none" <=> row'[r].status = "none"
    BY <1>5, RecordIs
  <2> QED
    BY <1>a, <1>b, <2>1 DEF Withdrawals
<1>6. ASSUME Crash PROVE Withdrawals'
  <2>1. UNCHANGED <<post, row>> /\ \A p \in Posts : asked'[p]["REMOVED"].at = "idle"
    BY <1>6 DEF Crash, queueVars, NotAsked, Kinds
  <2> QED
    BY <2>1 DEF Withdrawals
<1>7. ASSUME UNCHANGED <<post, asked, row>> PROVE Withdrawals'
  BY <1>7 DEF Withdrawals
<1> QED
  BY <1>1, <1>2, <1>3, <1>4, <1>5, <1>6, <1>7
  DEF Next, PostNext, ClubNext, SweepStep, vars, queueVars, SweepStarts, SweepEnds,
      DeliverRead, DeliverHold, DeliverCall, Suspend, Reapprove, PutTarget,
      DeleteTarget, ReportVersion, Moves, BecomesDue, UpdateFails
\* What happens around the sweep.
World ==
    PostNext \/ ClubNext \/ (\E r \in Rows : BecomesDue(r)) \/ UNCHANGED vars

LEMMA WorldIs ==
  ASSUME TypeOK, World
  PROVE  /\ UNCHANGED <<sweep, running, heard, got, faults>>
         /\ \A p \in Posts : post[p] = "pruned" => post'[p] = "pruned"
         /\ \A r \in Rows :
              \/ row'[r] = row[r]
              \/ /\ row[r].status = "none" /\ post[PostOf(r)] # "pruned"
                 /\ row'[r] = [status |-> "PENDING", attempts |-> 0]
              \/ row'[r].status = "none" /\ post'[PostOf(r)] = "pruned"
<1> DEFINE Around ==
      /\ UNCHANGED <<sweep, running, heard, got, faults>>
      /\ \A p \in Posts : post[p] = "pruned" => post'[p] = "pruned"
      /\ \A r \in Rows :
           \/ row'[r] = row[r]
           \/ /\ row[r].status = "none" /\ post[PostOf(r)] # "pruned"
              /\ row'[r] = [status |-> "PENDING", attempts |-> 0]
           \/ row'[r].status = "none" /\ post'[PostOf(r)] = "pruned"
<1>1. ASSUME NEW p \in Posts, Share(p) \/ HideOrShow(p) \/ Remove(p) PROVE Around
  <2>1. UNCHANGED <<row, sweep, running, heard, got, faults>>
    BY <1>1 DEF Share, HideOrShow, Remove, queueVars, sweepVars, callVars
  <2>2. /\ post[p] # "pruned" /\ \A q \in Posts \ {p} : post'[q] = post[q]
    BY <1>1 DEF Share, HideOrShow, Remove, TypeOK
  <2> QED
    BY <2>1, <2>2
<1>2. ASSUME NEW p \in Posts, Prune(p) PROVE Around
  <2>1. /\ post'[p] = "pruned" /\ \A q \in Posts \ {p} : post'[q] = post[q]
        /\ NoDelivery.status = "none"
    BY <1>2, PruneIs DEF TypeOK, NoDelivery
  <2>2. UNCHANGED <<sweep, running, heard, got, faults>>
        /\ \A r \in Rows : row'[r] = IF PostOf(r) = p THEN NoDelivery ELSE row[r]
    BY <1>2, PruneIs
  <2> QED
    BY <2>1, <2>2
<1>3. ASSUME NEW p \in Posts, NEW k \in Kinds, EnqueueCreate(p, k) PROVE Around
  BY <1>3, CreateIs
<1>4. ASSUME UNCHANGED <<post, row, sweepVars, heard, got, faults>> PROVE Around
  BY <1>4 DEF sweepVars
<1>5. ASSUME PostNext PROVE Around
  <2>1. PICK p \in Posts :
          \/ Share(p) \/ HideOrShow(p) \/ Remove(p) \/ Prune(p)
          \/ \E k \in Kinds : EnqueueRead(p, k) \/ EnqueueCreate(p, k)
    BY <1>5 DEF PostNext
  <2>2. ASSUME NEW k \in Kinds, EnqueueRead(p, k) PROVE Around
    BY <1>4, <2>2 DEF EnqueueRead, queueVars, callVars
  <2> HIDE DEF Around
  <2> QED
    BY <1>1, <1>2, <1>3, <2>1, <2>2
<1>6. ASSUME ClubNext \/ (\E r \in Rows : BecomesDue(r)) \/ UNCHANGED vars
      PROVE  Around
  <2>1. ASSUME ClubNext PROVE \E c \in Clubs : \E new : Moves(c, new)
    BY <2>1, Zenon
    DEF ClubNext, Suspend, Reapprove, PutTarget, DeleteTarget, ReportVersion
  <2>2. ASSUME NEW c \in Clubs, NEW new, Moves(c, new)
        PROVE  UNCHANGED <<post, row, sweepVars, heard, got, faults>>
    BY <2>2 DEF Moves, queueVars
  <2>3. ASSUME NEW r \in Rows, BecomesDue(r)
        PROVE  UNCHANGED <<post, row, sweepVars, heard, got, faults>>
    BY <2>3 DEF BecomesDue, callVars
  <2>4. UNCHANGED vars => UNCHANGED <<post, row, sweepVars, heard, got, faults>>
    BY DEF vars, sweepVars
  <2> HIDE DEF Around
  <2> QED
    BY <1>4, <1>6, <2>1, <2>2, <2>3, <2>4
<1> QED
  BY <1>5, <1>6 DEF World

\* What a step is to the sweep s: its own, or one that leaves it without a push, or
\* the world's.
LEMMA StepIs ==
  ASSUME TypeOK, OneSweep, [Next]_vars, NEW s \in Sweeps
  PROVE  Works(s) \/ ~Sending(s)' \/ World
<1>1. ASSUME NEW t \in Sweeps, Works(t), t # s PROVE ~Sending(s)'
  <2>1. AtWork(t) /\ sweep'[s] = sweep[s]
    BY <1>1, WorkIs
  <2>2. ~AtWork(s)
    BY <1>1, <2>1 DEF OneSweep
  <2> QED
    BY <2>1, <2>2 DEF AtWork, Sending
<1>2. ASSUME NEW t \in Sweeps, SweepStarts(t) PROVE ~Sending(s)'
  <2>1. ~AtWork(s) /\ (s = t \/ sweep'[s] = sweep[s])
    BY <1>2 DEF SweepStarts, MayStart, OneSweep, TypeOK
  <2>2. s = t => sweep'[s].at = "next"
    BY <1>2 DEF SweepStarts, TypeOK, SweepIdle
  <2> QED
    BY <2>1, <2>2 DEF AtWork, Sending
<1>3. ASSUME NEW t \in Sweeps, SweepEnds(t) PROVE ~Sending(s)'
  <2>1. /\ s # t => ~AtWork(s) /\ sweep'[s] = sweep[s]
        /\ s = t => sweep'[s].at = "idle"
    BY <1>3 DEF SweepEnds, OneSweep, AtWork, TypeOK, SweepIdle
  <2> QED
    BY <2>1 DEF AtWork, Sending
<1>4. ASSUME Crash PROVE ~Sending(s)'
  BY <1>4 DEF Crash, Sending, SweepIdle
<1> QED
  BY <1>1, <1>2, <1>3, <1>4 DEF Next, World, SweepStep, Works

LEMMA SaysKept ==
  ASSUME TypeOK, OneSweep, Withdrawals, [Next]_vars, NEW s \in Sweeps,
         Says(s), Counts(s)
  PROVE  Says(s)' /\ Counts(s)'
<1> DEFINE r == RowAt(s)
           removal == Removal(PostOf(r), ClubOf(r))
<1>1. CASE ~Sending(s)'
  BY <1>1 DEF Says, Counts, Sending
<1>2. ASSUME Sending(s), World PROVE Says(s)' /\ Counts(s)'
  <2>1. UNCHANGED <<sweep, heard>>
    BY <1>2, WorldIs
  <2>2. r \in Rows /\ removal \in Rows /\ PostOf(r) \in Posts
    BY <1>2, RowAtIs DEF Sending, Removal, Rows, Kinds
  <2>3. row'[removal].status = "DELIVERED" => row[removal].status = "DELIVERED"
    <3> HIDE DEF removal
    <3> QED
      BY <1>2, <2>2, WorldIs
  <2>4. Says(s)'
    BY <2>1, <2>3 DEF Says, Sending, RowAt
  <2>5. Counts(s)'
    <3>1. IF row'[r].status = "none" THEN post'[PostOf(r)] = "pruned"
          ELSE sweep[s].attempts = row'[r].attempts + 1
      <4> HIDE DEF r
      <4> QED
        BY <1>2, <2>2, WorldIs DEF Counts, r
    <3> QED
      BY <2>1, <3>1 DEF Counts, Sending, RowAt
  <2> QED
    BY <2>4, <2>5
<1>3. ASSUME ~Sending(s), World PROVE ~Sending(s)'
  BY <1>3, WorldIs DEF Sending
<1>4. ASSUME DeliverRead(s), Sending(s)' PROVE Says(s)' /\ Counts(s)'
  <2>1. /\ sweep'[s].at = "call" /\ sweep'[s].batch = sweep[s].batch
        /\ sweep'[s].attempts = row[r].attempts + 1
        /\ sweep'[s].withdrawn = Withdrawn(r)
        /\ row[r].status # "none"
    BY <1>4, ReadIs DEF Sending
  <2>2. UNCHANGED <<post, row>> /\ sweep[s].batch # <<>>
    BY <1>4, <2>1, ReadIs DEF DeliverRead, queueVars
  <2>3. r \in Rows /\ PostOf(r) \in Posts /\ ClubOf(r) \in Clubs
    BY <2>2, RowAtIs
  <2>4. ~Withdrawn(r) => row[removal].status = "none"
    BY <2>3 DEF Withdrawals, Withdrawn
  <2>5. KindOf(r) = "REMOVED" => Withdrawn(r)
    BY DEF Withdrawn
  <2>6. r' = r
    BY <2>1 DEF RowAt
  <2> HIDE DEF r
  <2>7. Says(s)'
    BY <2>1, <2>2, <2>4, <2>5, <2>6 DEF Says, r
  <2>8. Counts(s)'
    BY <2>1, <2>2, <2>6 DEF Counts, r
  <2> QED
    BY <2>7, <2>8
<1>5. ASSUME DeliverCall(s) PROVE Says(s)' /\ Counts(s)'
  <2>1. UNCHANGED <<post, row>>
    BY <1>5 DEF DeliverCall, queueVars
  <2>2. /\ sweep[s].at = "call" /\ sweep'[s].at = "record"
        /\ sweep'[s].batch = sweep[s].batch
        /\ sweep'[s].withdrawn = sweep[s].withdrawn
        /\ sweep'[s].attempts = sweep[s].attempts
    BY <1>5, CallIs
  <2>3. PostOf(r) \in Posts /\ ClubOf(r) \in Clubs /\ r' = r
    BY <2>2, RowAtIs DEF RowAt
  <2>4. \/ sweep'[s].ok = FALSE
        \/ heard' = [heard EXCEPT ![ClubOf(r)][PostOf(r)] = Word(sweep[s].withdrawn)]
    BY <1>5, CallIs
  <2> HIDE DEF r
  <2>5. sweep'[s].ok => heard'[ClubOf(r)][PostOf(r)] = Word(sweep[s].withdrawn)
    BY <2>3, <2>4 DEF TypeOK
  <2>6. KindOf(r) = "REMOVED" => sweep[s].withdrawn
    BY <2>2 DEF Says, Sending, r
  <2>7. Says(s)'
    BY <2>2, <2>3, <2>5, <2>6 DEF Says, r
  <2>8. Counts(s)'
    BY <2>1, <2>2, <2>3 DEF Counts, Sending, r
  <2> QED
    BY <2>7, <2>8
<1>6. ASSUME DeliverHold(s) \/ DeliverRecord(s) \/ UpdateFails(s)
      PROVE  ~Sending(s)'
  BY <1>6, TurnsIs DEF DeliverHold, DeliverRecord, UpdateFails, Sending
<1> HIDE DEF r, removal
<1> QED
  BY <1>1, <1>2, <1>3, <1>4, <1>5, <1>6, StepIs DEF Works
\* Of the sweeps, only one has a push that no row counts yet.
LEMMA NoOtherUnrecorded ==
  ASSUME TypeOK, OneSweep, NEW s \in Sweeps, AtWork(s), NEW r \in Rows
  PROVE  Unrecorded(r) => sweep[s].at = "record" /\ r = RowAt(s)
  BY DEF OneSweep, AtWork, Unrecorded

LEMMA CountedKept ==
  ASSUME TypeOK, TypeOK', OneSweep, Withdrawals, [Next]_vars, Counted,
         \A s \in Sweeps : Counts(s)
  PROVE  Counted'
<1>a. \A r \in Rows : /\ got[r] \in Nat /\ got'[r] \in Nat
                      /\ row[r].attempts \in Nat /\ row'[r].attempts \in Nat
                      /\ PostOf(r) \in Posts
  BY RowIs DEF TypeOK, DeliveryRow
<1>b. faults \in Nat /\ faults' \in Nat
  BY DEF TypeOK
<1>1. ASSUME World PROVE Counted'
  <2> SUFFICES ASSUME NEW r \in Rows
               PROVE  IF row'[r].status = "none"
                      THEN post'[PostOf(r)] # "pruned" => got'[r] = 0
                      ELSE got'[r] <= row'[r].attempts + faults'
                                      + (IF Unrecorded(r)' THEN 1 ELSE 0)
    BY DEF Counted
  <2>1. /\ got' = got /\ faults' = faults /\ (Unrecorded(r)' <=> Unrecorded(r))
        /\ post[PostOf(r)] = "pruned" => post'[PostOf(r)] = "pruned"
        /\ \/ row'[r] = row[r]
           \/ /\ row[r].status = "none" /\ post[PostOf(r)] # "pruned"
              /\ row'[r] = [status |-> "PENDING", attempts |-> 0]
           \/ row'[r].status = "none" /\ post'[PostOf(r)] = "pruned"
    BY <1>1, <1>a, WorldIs DEF Unrecorded, RowAt
  <2> QED
    BY <1>a, <1>b, <2>1 DEF Counted
<1>2. ASSUME UNCHANGED <<post, row, got>>, faults' = faults \/ faults' = faults + 1,
             \A r \in Rows : Unrecorded(r) /\ faults' = faults => Unrecorded(r)'
      PROVE  Counted'
  <2> SUFFICES ASSUME NEW r \in Rows
               PROVE  IF row[r].status = "none"
                      THEN post[PostOf(r)] # "pruned" => got[r] = 0
                      ELSE got[r] <= row[r].attempts + faults'
                                      + (IF Unrecorded(r)' THEN 1 ELSE 0)
    BY <1>2 DEF Counted
  <2> QED
    BY <1>2, <1>a, <1>b DEF Counted
<1>3. ASSUME NEW s \in Sweeps,
             SweepStarts(s) \/ SweepEnds(s) \/ DeliverRead(s) \/ DeliverHold(s)
      PROVE  Counted'
  <2>1. /\ UNCHANGED <<post, row, got, faults>> /\ sweep[s].at # "record"
        /\ \A t \in Sweeps \ {s} : sweep'[t] = sweep[t]
    <3>1. UNCHANGED <<post, row, got, faults>> /\ sweep[s].at # "record"
      BY <1>3 DEF SweepStarts, SweepEnds, DeliverRead, DeliverHold, queueVars, callVars
    <3>2. CASE SweepStarts(s) \/ SweepEnds(s)
      BY <3>1, <3>2 DEF SweepStarts, SweepEnds, TypeOK
    <3>3. CASE DeliverRead(s) \/ DeliverHold(s)
      BY <3>1, <3>3, WorkIs DEF Works
    <3> QED
      BY <1>3, <3>2, <3>3
  <2> QED
    BY <1>2, <2>1 DEF Unrecorded, RowAt
<1>4. ASSUME NEW s \in Sweeps, UpdateFails(s) PROVE Counted'
  <2>1. UNCHANGED <<post, row, got>> /\ faults' = faults + 1
    BY <1>4 DEF UpdateFails, queueVars, callVars
  <2> QED
    BY <1>2, <1>b, <2>1
<1>5. ASSUME Crash PROVE Counted'
  <2>1. UNCHANGED <<post, row, got>> /\ faults' = faults + 1
    BY <1>5 DEF Crash, queueVars, callVars
  <2> QED
    BY <1>2, <1>b, <2>1
<1>6. ASSUME NEW s \in Sweeps, DeliverCall(s) PROVE Counted'
  <2>1. /\ UNCHANGED <<post, row, faults>> /\ AtWork(s) /\ Sending(s)
        /\ sweep[s].at = "call"
    BY <1>6 DEF DeliverCall, queueVars, AtWork, Sending
  <2>2. RowAt(s) \in Rows /\ \A r \in Rows : r = RowAt(s) => Unrecorded(r)'
    BY <1>6, <2>1, CallIs, RowAtIs DEF Unrecorded, RowAt
  <2>3. \A r \in Rows : ~Unrecorded(r)
    BY <2>1, NoOtherUnrecorded
  <2>4. got' = got \/ got' = [got EXCEPT ![RowAt(s)] = @ + 1]
    BY <1>6, CallIs DEF callVars
  <2>7. \A r \in Rows : \/ got'[r] = got[r]
                        \/ r = RowAt(s) /\ got'[r] = got[r] + 1
    BY <2>2, <2>4 DEF TypeOK
  <2>5. row[RowAt(s)].status = "none" => post[PostOf(RowAt(s))] = "pruned"
    BY <2>1 DEF Counts
  <2> SUFFICES ASSUME NEW r \in Rows
               PROVE  IF row[r].status = "none"
                      THEN post[PostOf(r)] # "pruned" => got'[r] = 0
                      ELSE got'[r] <= row[r].attempts + faults
                                      + (IF Unrecorded(r)' THEN 1 ELSE 0)
    BY <2>1 DEF Counted
  <2>6. IF row[r].status = "none" THEN post[PostOf(r)] # "pruned" => got[r] = 0
        ELSE got[r] <= row[r].attempts + faults
    BY <1>a, <1>b, <2>3 DEF Counted
  <2> QED
    <3>1. CASE r = RowAt(s)
      BY <1>a, <1>b, <2>2, <2>5, <2>6, <2>7, <3>1
    <3>2. CASE r # RowAt(s)
      BY <1>a, <1>b, <2>6, <2>7, <3>2
    <3> QED
      BY <3>1, <3>2
<1>7. ASSUME NEW s \in Sweeps, DeliverRecord(s) PROVE Counted'
  <2>1. /\ UNCHANGED <<post, got, faults>> /\ AtWork(s) /\ Sending(s)
        /\ \A r \in Rows \ {RowAt(s)} : row'[r] = row[r]
    BY <1>7, RecordIs DEF AtWork, Sending
  <2> SUFFICES ASSUME NEW r \in Rows
               PROVE  IF row'[r].status = "none"
                      THEN post[PostOf(r)] # "pruned" => got[r] = 0
                      ELSE got[r] <= row'[r].attempts + faults
                                      + (IF Unrecorded(r)' THEN 1 ELSE 0)
    BY <2>1 DEF Counted
  <2>2. CASE r # RowAt(s)
    <3>1. ~Unrecorded(r) /\ row'[r] = row[r]
      BY <2>1, <2>2, NoOtherUnrecorded
    <3> QED
      BY <1>a, <1>b, <3>1 DEF Counted
  <2>3. CASE r = RowAt(s) /\ row[r].status = "none"
    <3>1. row'[r].status = "none"
      BY <1>7, <2>3, RecordIs
    <3> QED
      BY <2>3, <3>1 DEF Counted
  <2>4. CASE r = RowAt(s) /\ row[r].status # "none"
    <3>1. row'[r].status # "none" /\ row'[r].attempts = row[r].attempts + 1
      BY <1>7, <2>1, <2>4, RecordIs DEF Counts
    <3>2. got[r] <= row[r].attempts + faults + 1
      BY <1>a, <1>b, <2>4 DEF Counted
    <3> QED
      BY <1>a, <1>b, <3>1, <3>2
  <2> QED
    BY <2>2, <2>3, <2>4
<1> QED
  BY <1>1, <1>3, <1>4, <1>5, <1>6, <1>7 DEF Next, World, SweepStep

LEMMA LastWordKept ==
  ASSUME TypeOK, OneSweep, [Next]_vars, RemovalIsLastWord,
         \A s \in Sweeps : Says(s)
  PROVE  RemovalIsLastWord'
<1> SUFFICES ASSUME NEW p \in Posts, NEW c \in Clubs,
                    row'[Removal(p, c)].status = "DELIVERED"
             PROVE  heard'[c][p] = "withdrawn"
  BY DEF RemovalIsLastWord, Removal
<1> DEFINE m == Removal(p, c)
<1>a. /\ m \in Rows /\ PostOf(m) = p /\ ClubOf(m) = c /\ KindOf(m) = "REMOVED"
  BY DEF Removal, Rows, Kinds, PostOf, ClubOf, KindOf
<1>b. row[m].status = "DELIVERED" => heard[c][p] = "withdrawn"
  BY DEF RemovalIsLastWord, Removal
<1> HIDE DEF m
<1>1. CASE World
  BY <1>1, <1>a, <1>b, WorldIs DEF m
<1>2. CASE UNCHANGED <<row, heard>>
  BY <1>2, <1>b DEF m
<1>3. ASSUME NEW s \in Sweeps, DeliverCall(s) PROVE heard'[c][p] = "withdrawn"
  <2>1. UNCHANGED row /\ sweep[s].at = "call"
    BY <1>3 DEF DeliverCall, queueVars
  <2>2. PostOf(RowAt(s)) \in Posts /\ ClubOf(RowAt(s)) \in Clubs
    BY <2>1, RowAtIs
  <2>3. \/ heard' = heard
        \/ heard' = [heard EXCEPT ![ClubOf(RowAt(s))][PostOf(RowAt(s))] =
                       Word(sweep[s].withdrawn)]
    BY <1>3, CallIs DEF callVars
  <2>4. \/ heard'[c][p] = heard[c][p]
        \/ /\ heard'[c][p] = Word(sweep[s].withdrawn)
           /\ ClubOf(RowAt(s)) = c /\ PostOf(RowAt(s)) = p
    BY <2>2, <2>3, UpdatedAt DEF TypeOK
  <2>5. ClubOf(RowAt(s)) = c /\ PostOf(RowAt(s)) = p => sweep[s].withdrawn
    BY <2>1 DEF Says, m
  <2> QED
    BY <1>b, <2>1, <2>4, <2>5 DEF m, Word
<1>4. ASSUME NEW s \in Sweeps, DeliverRecord(s) PROVE heard'[c][p] = "withdrawn"
  <2>1. UNCHANGED heard /\ sweep[s].at = "record"
    BY <1>4, RecordIs
  <2>2. \/ row'[m] = row[m]
        \/ RowAt(s) = m /\ sweep[s].ok
    BY <1>4, <1>a, RecordIs DEF m
  <2>3. RowAt(s) = m /\ sweep[s].ok => heard[c][p] = "withdrawn"
    BY <1>a, <2>1 DEF Says, Sending, Word
  <2> QED
    BY <1>b, <2>1, <2>2, <2>3 DEF m
<1>5. ASSUME NEW s \in Sweeps, SweepStarts(s) \/ SweepEnds(s) \/ DeliverRead(s)
                               \/ DeliverHold(s) \/ UpdateFails(s)
      PROVE  UNCHANGED <<row, heard>>
  BY <1>5 DEF SweepStarts, SweepEnds, DeliverRead, DeliverHold, UpdateFails,
     queueVars, callVars
<1>6. Crash => UNCHANGED <<row, heard>>
  BY DEF Crash, queueVars, callVars
<1> QED
  BY <1>1, <1>2, <1>3, <1>4, <1>5, <1>6 DEF Next, World, SweepStep
\* One club moves; the others are reachable as before.
LEMMA MovesIs ==
  ASSUME TypeOK, NEW c \in Clubs, NEW new, Moves(c, new)
  PROVE  /\ UNCHANGED <<post, row, asked, sweep, running>>
         /\ late'[c] = IF Reachable(c)' THEN 0 ELSE late[c]
         /\ \A d \in Clubs \ {c} :
              late'[d] = late[d] /\ (Reachable(d)' <=> Reachable(d))
<1>1. /\ UNCHANGED <<post, row, asked, sweep, running>>
      /\ \A d \in Clubs \ {c} : club'[d] = club[d]
  BY DEF Moves, TypeOK, queueVars, sweepVars
<1> DEFINE n == IF Reachable(c)' THEN 0 ELSE late[c]
<1>2. late' = [late EXCEPT ![c] = n]
  BY DEF Moves
<1> HIDE DEF n
<1>3. late'[c] = n /\ \A d \in Clubs \ {c} : late'[d] = late[d]
  BY <1>2 DEF TypeOK
<1> QED
  BY <1>1, <1>3 DEF n, Reachable

LEMMA LatecomersKept ==
  ASSUME TypeOK, OneSweep, [Next]_vars, Latecomers
  PROVE  Latecomers'
<1>a. \A c \in Clubs : late[c] \in Nat
  BY DEF TypeOK
<1>1. ASSUME NEW c \in Clubs, NEW new, Moves(c, new) PROVE Latecomers'
  <2>1. \A d \in Clubs : OnItsWay(d)' <=> OnItsWay(d)
    BY <1>1, MovesIs DEF OnItsWay, RowAt
  <2> QED
    BY <1>1, <2>1, MovesIs DEF Latecomers
<1>2. ASSUME UNCHANGED <<club, late>>,
             \A c \in Clubs : OnItsWay(c)' => OnItsWay(c) \/ Reachable(c)
      PROVE  Latecomers'
  BY <1>2 DEF Latecomers, Reachable
<1>3. ASSUME NEW s \in Sweeps,
             SweepStarts(s) \/ SweepEnds(s) \/ (Works(s) /\ ~DeliverCall(s))
      PROVE  Latecomers'
  <2>1. UNCHANGED <<club, late>>
    BY <1>3 DEF Works, SweepStarts, SweepEnds, DeliverRead, DeliverHold,
       DeliverRecord, UpdateFails, callVars
  <2>2. \A t \in Sweeps \ {s} : sweep'[t] = sweep[t]
    BY <1>3, WorkIs DEF SweepStarts, SweepEnds, TypeOK
  <2>3. sweep'[s].at = "call" => /\ Reachable(ClubOf(RowAt(s)))
                                 /\ RowAt(s)' = RowAt(s)
    <3>1. CASE DeliverRead(s)
      <4>1. ASSUME sweep'[s].at = "call"
            PROVE  /\ sweep[s].batch # <<>> /\ RowAt(s)' = RowAt(s)
                   /\ ~Held(ClubOf(RowAt(s))) /\ club[ClubOf(RowAt(s))].target
        BY <3>1, <4>1, ReadIs DEF RowAt, DeliverRead
      <4>2. \A c \in Clubs : ~Held(c) /\ club[c].target => Reachable(c)
        BY DEF Held, Reachable, TypeOK, ClubRow
      <4> QED
        BY <4>1, <4>2, RowAtIs
    <3>2. CASE DeliverHold(s) \/ DeliverRecord(s) \/ UpdateFails(s)
      BY <3>2, TurnsIs DEF DeliverHold, DeliverRecord, UpdateFails
    <3>3. CASE SweepStarts(s) \/ SweepEnds(s)
      <4>1. ASSUME SweepStarts(s) PROVE sweep'[s].at = "next"
        BY <4>1 DEF SweepStarts, SweepIdle, TypeOK
      <4>2. ASSUME SweepEnds(s) PROVE sweep'[s].at = "idle"
        BY <4>2 DEF SweepEnds, SweepIdle, TypeOK
      <4> QED
        BY <3>3, <4>1, <4>2
    <3> QED
      BY <1>3, <3>1, <3>2, <3>3 DEF Works
  <2>4. ASSUME NEW c \in Clubs, OnItsWay(c)' PROVE OnItsWay(c) \/ Reachable(c)
    <3>1. PICK t \in Sweeps : sweep'[t].at = "call" /\ ClubOf(RowAt(t)') = c
      BY <2>4 DEF OnItsWay, ClubOf
    <3>2. CASE t = s
      BY <2>3, <3>1, <3>2
    <3>3. CASE t # s
      BY <2>2, <3>1, <3>3 DEF OnItsWay, RowAt
    <3> QED
      BY <3>2, <3>3
  <2> QED
    BY <1>2, <2>1, <2>4
<1>4. ASSUME NEW s \in Sweeps, DeliverCall(s) PROVE Latecomers'
  <2> DEFINE c == ClubOf(RowAt(s))
  <2>1. UNCHANGED club /\ AtWork(s) /\ sweep[s].at = "call"
    BY <1>4 DEF DeliverCall, AtWork
  <2>2. c \in Clubs /\ OnItsWay(c)
    BY <2>1, RowAtIs DEF OnItsWay
  <2>3. late[c] = 0
    BY <2>2 DEF Latecomers
  <2>4. \A d \in Clubs : ~OnItsWay(d)'
    BY <1>4, <2>1, CallIs DEF OneSweep, AtWork, OnItsWay
  <2>5. \/ late' = late
        \/ late' = [late EXCEPT ![c] = IF Reachable(c) THEN @ ELSE @ + 1]
    BY <1>4, CallIs DEF callVars
  <2> HIDE DEF c
  <2>6. /\ late'[c] \in {0, 1}
        /\ Reachable(c) => late'[c] = 0
        /\ \A d \in Clubs \ {c} : late'[d] = late[d]
    BY <2>2, <2>3, <2>5 DEF TypeOK
  <2>7. \A d \in Clubs : Reachable(d)' <=> Reachable(d)
    BY <2>1 DEF Reachable
  <2>8. ASSUME NEW d \in Clubs
        PROVE  late'[d] <= 1 /\ (Reachable(d)' => late'[d] = 0)
    <3>1. CASE d = c
      BY <2>6, <2>7, <3>1
    <3>2. CASE d # c
      BY <2>6, <2>7, <3>2 DEF Latecomers
    <3> QED
      BY <3>1, <3>2
  <2> QED
    BY <2>4, <2>8 DEF Latecomers
<1>5. ASSUME UNCHANGED <<club, late, sweep>> PROVE Latecomers'
  BY <1>2, <1>5 DEF OnItsWay, RowAt
<1>6. ASSUME Crash PROVE Latecomers'
  <2>1. UNCHANGED <<club, late>> /\ \A c \in Clubs : ~OnItsWay(c)'
    BY <1>6 DEF Crash, callVars, OnItsWay, SweepIdle
  <2> QED
    BY <1>2, <2>1
<1>7. ASSUME PostNext \/ (\E r \in Rows : BecomesDue(r)) \/ UNCHANGED vars
      PROVE  UNCHANGED <<club, late, sweep>>
  BY <1>7 DEF PostNext, BecomesDue, vars, Share, HideOrShow, Remove, Prune,
     EnqueueRead, EnqueueCreate, sweepVars, callVars
<1>8. ASSUME ClubNext PROVE \E c \in Clubs : \E new : Moves(c, new)
  BY <1>8, Zenon
  DEF ClubNext, Suspend, Reapprove, PutTarget, DeleteTarget, ReportVersion
<1> QED
  BY <1>1, <1>3, <1>4, <1>5, <1>6, <1>7, <1>8 DEF Next, SweepStep, Works

LEMMA PushInductive == Spec => []PushInv
<1>1. PushInv /\ [Next]_vars => PushInv'
  <2> SUFFICES ASSUME PushInv, [Next]_vars PROVE PushInv'
    OBVIOUS
  <2> USE DEF PushInv
  <2>1. TypeOK'
    BY TypeKept
  <2>2. OneSweep' /\ Withdrawals'
    BY OneSweepKept, WithdrawalsKept
  <2>3. \A s \in Sweeps : Says(s)' /\ Counts(s)'
    BY SaysKept
  <2>4. Counted' /\ Latecomers' /\ RemovalIsLastWord'
    BY <2>1, CountedKept, LatecomersKept, LastWordKept
  <2> QED
    BY <2>1, <2>2, <2>3, <2>4
<1> QED
  BY <1>1, PushInit, PTL DEF Spec

\* Once a club has been told that a post is withdrawn it is told nothing else of
\* it, however the two pushes fail, are retried and overtake each other
\* (deliverOne's `withdrawn`).
THEOREM WithdrawalIsLast == Spec => []RemovalIsLastWord
<1>1. PushInv => RemovalIsLastWord
  BY DEF PushInv
<1> QED
  BY <1>1, PushInductive, PTL

\* The pushes a club took in are the attempts its row counts, and one for a call
\* in progress, a crash or a failed update: ticks never overlap
\* (deliverySweepRunning).
THEOREM PushesCounted == Spec => []PushesAreCounted
<1>1. ASSUME PushInv PROVE PushesAreCounted
  <2> SUFFICES ASSUME NEW r \in Rows, row[r].status # "none"
               PROVE  got[r] <= row[r].attempts + Cardinality(Calling(r)) + faults
    BY DEF PushesAreCounted
  <2>1. got[r] <= row[r].attempts + faults + (IF Unrecorded(r) THEN 1 ELSE 0)
    BY <1>1 DEF PushInv, Counted
  <2>2. row[r].attempts \in Nat /\ faults \in Nat /\ got[r] \in Nat
    BY <1>1 DEF PushInv, TypeOK, DeliveryRow
  <2>3. CASE Unrecorded(r)
    <3>1. PICK s \in Sweeps : sweep[s].at = "record" /\ RowAt(s) = r
      BY <2>3 DEF Unrecorded
    <3>2. Calling(r) = {s}
      BY <1>1, <3>1 DEF PushInv, OneSweep, AtWork, Calling, RowAt
    <3>3. Cardinality(Calling(r)) = 1
      BY <3>2, FS_Singleton
    <3> QED
      BY <2>1, <2>2, <2>3, <3>3
  <2>4. CASE ~Unrecorded(r)
    <3>1. Calling(r) = {}
      BY <2>4 DEF Unrecorded, Calling, RowAt
    <3> QED
      BY <2>1, <2>2, <2>4, <3>1, FS_EmptySet
  <2> QED
    BY <2>3, <2>4
<1> QED
  BY <1>1, PushInductive, PTL

\* A club that is suspended, clears its target or reports another version takes in
\* one more push at most (suspendClubAction, deliverOne).
THEOREM HeldClubHearsOneMore == Spec => []HeldHearsOneMore
<1>1. PushInv => HeldHearsOneMore
  BY DEF PushInv, Latecomers, HeldHearsOneMore
<1> QED
  BY <1>1, PushInductive, PTL

-----------------------------------------------------------------------------
(***************************************************************************)
(* The queue keeps the promise.  A step maps to one of Announcements or to *)
(* a stutter, given what a sweep knows of the rows before it: they are     *)
(* still pending, unless their post was pruned, and a push that shows a    *)
(* post is on its way only to a club that never took its removal in.       *)
(***************************************************************************)
\* The rows a sweep has before it are pending or gone, and each is there once.
BatchWaits(s) ==
    AtWork(s) =>
      /\ \A i \in DOMAIN sweep[s].batch :
           row[sweep[s].batch[i]].status \in {"none", "PENDING"}
      /\ \A i, j \in DOMAIN sweep[s].batch :
           sweep[s].batch[i] = sweep[s].batch[j] => i = j

\* A push that shows a post goes to a club that never took its removal in, and a
\* good answer comes from a club that took the push in.
Reaches(s) ==
    LET r == RowAt(s)
    IN  /\ Sending(s) /\ ~sweep[s].withdrawn
             => got[Removal(PostOf(r), ClubOf(r))] = 0
        /\ sweep[s].at = "record" /\ sweep[s].ok => got[r] > 0

\* A pending row has attempts left.
AttemptsLeft ==
    \A r \in Rows : row[r].status = "PENDING" => row[r].attempts < MaxAttempts

\* Only a post that was shared is announced.
Announced ==
    \A p \in Posts : asked[p]["CREATED"].at # "idle" => post[p] # "absent"

PromiseInv ==
    /\ \A s \in Sweeps : BatchWaits(s) /\ Reaches(s)
    /\ AttemptsLeft
    /\ Announced

LEMMA PromiseInit == Init => PromiseInv
<1> SUFFICES ASSUME Init PROVE PromiseInv
  OBVIOUS
<1>1. \A s \in Sweeps : sweep[s].at = "idle" /\ sweep[s].batch = <<>>
  BY DEF Init, SweepIdle
<1>2. \A s \in Sweeps : BatchWaits(s) /\ Reaches(s)
  BY <1>1 DEF BatchWaits, Reaches, Sending, AtWork
<1>3. AttemptsLeft /\ Announced
  BY DEF Init, AttemptsLeft, Announced, NoDelivery, NotAsked, Kinds
<1> QED
  BY <1>2, <1>3 DEF PromiseInv

\* What a step does to a row: nothing, its creation, its end with its post, or
\* the record of the sweep that is at it.
LEMMA RowMoves ==
  ASSUME TypeOK, [Next]_vars, NEW r \in Rows
  PROVE  \/ row'[r] = row[r]
         \/ row[r].status = "none" /\ row'[r] = [status |-> "PENDING", attempts |-> 0]
         \/ row'[r].status = "none" /\ post'[PostOf(r)] = "pruned"
         \/ \E s \in Sweeps : DeliverRecord(s) /\ RowAt(s) = r
<1>1. CASE World
  BY <1>1, WorldIs
<1>2. ASSUME NEW s \in Sweeps, DeliverRecord(s) PROVE row'[r] = row[r] \/ RowAt(s) = r
  BY <1>2, RecordIs
<1>3. CASE UNCHANGED row
  BY <1>3
<1> QED
  BY <1>1, <1>2, <1>3
  DEF Next, World, SweepStep, SweepStarts, SweepEnds, DeliverRead, DeliverHold,
      DeliverCall, UpdateFails, Crash, queueVars

LEMMA AttemptsLeftKept ==
  ASSUME TypeOK, AttemptsLeft, [Next]_vars
  PROVE  AttemptsLeft'
<1> SUFFICES ASSUME NEW r \in Rows, row'[r].status = "PENDING"
             PROVE  row'[r].attempts < MaxAttempts
  BY DEF AttemptsLeft
<1>1. ASSUME NEW s \in Sweeps, DeliverRecord(s), RowAt(s) = r
      PROVE  row'[r].attempts < MaxAttempts
  <2> DEFINE n == sweep[s].attempts
  <2>1. row' = [row EXCEPT ![r] =
             IF @.status = "none" THEN @
             ELSE IF sweep[s].ok THEN [status |-> "DELIVERED", attempts |-> n]
             ELSE Failed(n)]
    BY <1>1 DEF DeliverRecord, RowAt
  <2>2. n \in Nat
    BY DEF TypeOK, SweepState
  <2> HIDE DEF n
  <2>3. row'[r] = IF row[r].status = "none" THEN row[r]
                  ELSE IF sweep[s].ok THEN [status |-> "DELIVERED", attempts |-> n]
                  ELSE Failed(n)
    BY <2>1 DEF TypeOK
  <2>4. row'[r] = Failed(n)
    BY <2>3
  <2> QED
    BY <2>2, <2>4, PushAssumption DEF Failed
<1>2. CASE row'[r] = row[r]
  BY <1>2 DEF AttemptsLeft
<1>3. CASE row'[r] = [status |-> "PENDING", attempts |-> 0]
  BY <1>3, PushAssumption
<1> QED
  BY <1>1, <1>2, <1>3, RowMoves

LEMMA AnnouncedKept ==
  ASSUME TypeOK, Announced, [Next]_vars
  PROVE  Announced'
<1>1. ASSUME NEW p \in Posts, Share(p) \/ HideOrShow(p) \/ Remove(p)
      PROVE  Announced'
  <2>1. \A q \in Posts \ {p} : post'[q] = post[q] /\ asked'[q] = asked[q]
    BY <1>1 DEF Share, HideOrShow, Remove, Asks, TypeOK
  <2>2. post'[p] # "absent"
    BY <1>1 DEF Share, HideOrShow, Remove, TypeOK
  <2> QED
    BY <2>1, <2>2 DEF Announced
<1>2. ASSUME NEW p \in Posts, Prune(p) PROVE Announced'
  <2>1. UNCHANGED asked /\ post'[p] = "pruned" /\ \A q \in Posts \ {p} : post'[q] = post[q]
    BY <1>2, PruneIs DEF TypeOK
  <2> QED
    BY <2>1 DEF Announced
<1>3. ASSUME NEW p \in Posts, NEW k \in Kinds, EnqueueRead(p, k) \/ EnqueueCreate(p, k)
      PROVE  Announced'
  <2>1. UNCHANGED post /\ asked[p][k].at # "idle"
    BY <1>3 DEF EnqueueRead, EnqueueCreate
  <2>2. \A q \in Posts : \/ asked'[q]["CREATED"] = asked[q]["CREATED"]
                         \/ q = p /\ k = "CREATED"
    BY <1>3 DEF EnqueueRead, EnqueueCreate, TypeOK, Kinds
  <2> QED
    BY <2>1, <2>2 DEF Announced
<1>4. ASSUME Crash PROVE Announced'
  <2>1. \A p \in Posts : asked'[p]["CREATED"].at = "idle"
    BY <1>4 DEF Crash, NotAsked, Kinds
  <2> QED
    BY <2>1 DEF Announced
<1>5. ASSUME UNCHANGED <<post, asked>> PROVE Announced'
  BY <1>5 DEF Announced
<1> QED
  BY <1>1, <1>2, <1>3, <1>4, <1>5
  DEF Next, PostNext, ClubNext, SweepStep, vars, SweepStarts, SweepEnds,
      DeliverRead, DeliverHold, DeliverCall, DeliverRecord, Suspend, Reapprove,
      PutTarget, DeleteTarget, ReportVersion, Moves, BecomesDue, UpdateFails

\* The oldest due rows are pending, and each is there once.
LEMMA OldestDueWaits ==
  ASSUME TypeOK
  PROVE  /\ \A i \in DOMAIN OldestDue : row[OldestDue[i]].status = "PENDING"
         /\ \A i, j \in DOMAIN OldestDue : OldestDue[i] = OldestDue[j] => i = j
<1> DEFINE n == IF Len(line) < BatchSize THEN Len(line) ELSE BatchSize
<1>1. /\ line \in Seq(Rows) /\ Len(line) \in Nat /\ DOMAIN line = 1 .. Len(line)
      /\ LineIsPending
  BY DEF TypeOK
<1>2. n \in 0 .. Len(line) /\ n \in Int
  BY <1>1, PushAssumption
<1>3. \A i \in 1 .. n : i \in DOMAIN line /\ line[i] \in Rows
  BY <1>1, <1>2
<1>4. OldestDue = SubSeq(line, 1, n)
  BY DEF OldestDue
<1> HIDE DEF n
<1>5. /\ DOMAIN OldestDue = 1 .. n
      /\ \A i \in 1 .. n : OldestDue[i] = line[i]
  BY <1>2, <1>3, <1>4, SubSeqProperties
<1> QED
  BY <1>1, <1>3, <1>5 DEF LineIsPending

\* A sweep that goes on to its next row leaves only the others before it.
LEMMA TurnsLeaves ==
  ASSUME TypeOK, NEW s \in Sweeps, sweep[s].batch # <<>>, Turns(s), AtWork(s),
         BatchWaits(s)
  PROVE  /\ \A i \in DOMAIN sweep'[s].batch :
              /\ sweep'[s].batch[i] \in Rows \ {RowAt(s)}
              /\ row[sweep'[s].batch[i]].status \in {"none", "PENDING"}
         /\ \A i, j \in DOMAIN sweep'[s].batch :
              sweep'[s].batch[i] = sweep'[s].batch[j] => i = j
<1> DEFINE b == sweep[s].batch
           rest == Tail(b)
<1>1. b \in Seq(Rows) /\ b # <<>>
  BY DEF TypeOK, SweepState
<1>2. /\ \A i \in DOMAIN b : row[b[i]].status \in {"none", "PENDING"}
      /\ \A i, j \in DOMAIN b : b[i] = b[j] => i = j
  BY DEF BatchWaits
<1>3. sweep'[s].batch = rest /\ RowAt(s) = b[1]
  BY <1>1 DEF Turns, TypeOK, SweepIdle, RowAt
<1> HIDE DEF b
<1>4. /\ rest \in Seq(Rows) /\ Len(rest) = Len(b) - 1 /\ Len(b) \in Nat
      /\ DOMAIN rest = 1 .. Len(rest) /\ DOMAIN b = 1 .. Len(b)
      /\ \A i \in 1 .. Len(rest) : rest[i] = b[i + 1]
  BY <1>1, HeadTailProperties
<1> HIDE DEF rest
<1>5. \A i \in DOMAIN rest :
        /\ i + 1 \in DOMAIN b /\ 1 \in DOMAIN b /\ i + 1 # 1
        /\ rest[i] = b[i + 1] /\ rest[i] \in Rows
  BY <1>4
<1>6. \A i, j \in DOMAIN rest : i + 1 = j + 1 => i = j
  BY <1>4
<1> QED
  BY <1>2, <1>3, <1>5, <1>6

LEMMA BatchWaitsKept ==
  ASSUME TypeOK, OneSweep, [Next]_vars, NEW s \in Sweeps, BatchWaits(s)
  PROVE  BatchWaits(s)'
<1>1. CASE ~AtWork(s)'
  BY <1>1 DEF BatchWaits
<1>2. ASSUME SweepStarts(s) PROVE BatchWaits(s)'
  <2>1. UNCHANGED row /\ sweep'[s].batch = OldestDue
    BY <1>2 DEF SweepStarts, queueVars, TypeOK, SweepIdle
  <2> QED
    BY <2>1, OldestDueWaits DEF BatchWaits
<1>3. ASSUME World, AtWork(s) PROVE BatchWaits(s)'
  <2> DEFINE b == sweep[s].batch
  <2>1. UNCHANGED sweep
    BY <1>3, WorldIs
  <2>2. \A r \in Rows : row[r].status \in {"none", "PENDING"}
                         => row'[r].status \in {"none", "PENDING"}
    BY <1>3, WorldIs
  <2>3. \A i \in DOMAIN b : b[i] \in Rows
    BY DEF TypeOK, SweepState
  <2> QED
    BY <1>3, <2>1, <2>2, <2>3 DEF BatchWaits
<1>4. ASSUME sweep'[s].batch = sweep[s].batch, UNCHANGED row, AtWork(s)
      PROVE  BatchWaits(s)'
  BY <1>4 DEF BatchWaits
<1>5. ASSUME Turns(s), AtWork(s), sweep[s].batch # <<>>,
             \A r \in Rows \ {RowAt(s)} : row'[r] = row[r]
      PROVE  BatchWaits(s)'
  BY <1>5, TurnsLeaves DEF BatchWaits
<1>6. ASSUME Works(s) PROVE BatchWaits(s)'
  <2>1. AtWork(s)
    BY <1>6, WorkIs
  <2>2. CASE DeliverCall(s)
    BY <1>4, <2>1, <2>2, CallIs DEF DeliverCall, queueVars
  <2>3. CASE DeliverRead(s)
    <3>1. sweep[s].batch # <<>> /\ UNCHANGED row
      BY <2>3 DEF DeliverRead, queueVars
    <3> QED
      BY <1>4, <1>5, <2>1, <2>3, <3>1, ReadIs
  <2>4. CASE DeliverHold(s) \/ UpdateFails(s)
    <3>1. sweep[s].batch # <<>> /\ UNCHANGED row /\ Turns(s)
      BY <2>4 DEF DeliverHold, UpdateFails, queueVars, TypeOK
    <3> QED
      BY <1>5, <2>1, <3>1
  <2>5. CASE DeliverRecord(s)
    <3>1. sweep[s].batch # <<>> /\ Turns(s)
      BY <2>5 DEF DeliverRecord, TypeOK
    <3> QED
      BY <1>5, <2>1, <2>5, <3>1, RecordIs
  <2> QED
    BY <1>6, <2>2, <2>3, <2>4, <2>5 DEF Works
<1>7. ASSUME NEW t \in Sweeps, t # s, Works(t) \/ SweepStarts(t) \/ SweepEnds(t)
      PROVE  ~AtWork(s)'
  <2>1. CASE Works(t)
    BY <1>7, <2>1, WorkIs DEF OneSweep, AtWork
  <2>2. CASE SweepStarts(t)
    BY <1>7, <2>2 DEF SweepStarts, MayStart, OneSweep, AtWork, TypeOK
  <2>3. CASE SweepEnds(t)
    BY <1>7, <2>3 DEF SweepEnds, OneSweep, AtWork, TypeOK
  <2> QED
    BY <1>7, <2>1, <2>2, <2>3
<1>8. ASSUME SweepEnds(s) \/ Crash PROVE ~AtWork(s)'
  BY <1>8 DEF SweepEnds, Crash, AtWork, TypeOK, SweepIdle
<1>9. ASSUME World, ~AtWork(s) PROVE ~AtWork(s)'
  BY <1>9, WorldIs DEF AtWork
<1> QED
  BY <1>1, <1>2, <1>3, <1>6, <1>7, <1>8, <1>9 DEF Next, World, SweepStep, Works

LEMMA ReachesKept ==
  ASSUME TypeOK, OneSweep, Withdrawals, Counted, [Next]_vars, NEW s \in Sweeps,
         Says(s), Reaches(s)
  PROVE  Reaches(s)'
<1> DEFINE r == RowAt(s)
           removal == Removal(PostOf(r), ClubOf(r))
<1>1. CASE ~Sending(s)'
  BY <1>1 DEF Reaches, Sending
<1>2. ASSUME World PROVE Reaches(s)'
  <2>1. UNCHANGED <<sweep, got>>
    BY <1>2, WorldIs
  <2> QED
    BY <2>1 DEF Reaches, Sending, RowAt
<1>3. ASSUME DeliverRead(s), Sending(s)' PROVE Reaches(s)'
  <2>1. /\ sweep'[s].at = "call" /\ sweep'[s].batch = sweep[s].batch
        /\ sweep'[s].withdrawn = Withdrawn(r)
        /\ row[r].status # "none"
    BY <1>3, ReadIs DEF Sending
  <2>2. UNCHANGED <<post, row, got>> /\ sweep[s].batch # <<>>
    BY <1>3, <2>1 DEF DeliverRead, queueVars, callVars
  <2>3. r \in Rows /\ PostOf(r) \in Posts /\ ClubOf(r) \in Clubs /\ r' = r
    BY <2>1, <2>2, RowAtIs DEF RowAt
  <2>4. removal \in Rows /\ PostOf(removal) = PostOf(r)
    BY <2>3 DEF Removal, Rows, Kinds, PostOf
  <2>5. ~Withdrawn(r) => row[removal].status = "none" /\ post[PostOf(r)] # "pruned"
    BY <2>1, <2>3 DEF Withdrawals, Withdrawn
  <2> HIDE DEF r, removal
  <2>6. ~Withdrawn(r) => got[removal] = 0
    BY <2>4, <2>5 DEF Counted
  <2> QED
    BY <2>1, <2>2, <2>3, <2>6 DEF Reaches, r, removal
<1>4. ASSUME DeliverCall(s) PROVE Reaches(s)'
  <2>1. /\ sweep[s].at = "call" /\ sweep'[s].at = "record"
        /\ sweep'[s].batch = sweep[s].batch
        /\ sweep'[s].withdrawn = sweep[s].withdrawn
        /\ \/ sweep'[s].ok = FALSE /\ UNCHANGED got
           \/ got' = [got EXCEPT ![r] = @ + 1]
    BY <1>4, CallIs DEF callVars
  <2>2. r' = r /\ r \in Rows /\ removal' = removal
    BY <2>1, RowAtIs DEF RowAt
  <2>3. ~sweep[s].withdrawn => got[removal] = 0 /\ r # removal
    <3>1. ~sweep[s].withdrawn => KindOf(r) # "REMOVED"
      BY <2>1 DEF Says, Sending
    <3>2. KindOf(removal) = "REMOVED"
      BY DEF Removal, KindOf
    <3> HIDE DEF removal
    <3>3. Sending(s)
      BY <2>1 DEF Sending
    <3> QED
      BY <3>1, <3>2, <3>3 DEF Reaches, removal
  <2>4. removal \in Rows
    BY <2>2, RowIs DEF Removal, Rows, Kinds
  <2> HIDE DEF r, removal
  <2>5. ~sweep[s].withdrawn => got'[removal] = 0
    BY <2>1, <2>2, <2>3, <2>4 DEF TypeOK
  <2>6. sweep'[s].ok => got'[r] > 0
    BY <2>1, <2>2 DEF TypeOK
  <2> QED
    BY <2>1, <2>2, <2>5, <2>6 DEF Reaches, r, removal
<1>5. ASSUME DeliverHold(s) \/ DeliverRecord(s) \/ UpdateFails(s)
      PROVE  ~Sending(s)'
  BY <1>5, TurnsIs DEF DeliverHold, DeliverRecord, UpdateFails, Sending
<1> HIDE DEF r, removal
<1> QED
  BY <1>1, <1>2, <1>3, <1>4, <1>5, StepIs DEF Works

LEMMA PromiseKept == PushInv /\ PromiseInv /\ [Next]_vars => PromiseInv'
<1> SUFFICES ASSUME PushInv, PromiseInv, [Next]_vars PROVE PromiseInv'
  OBVIOUS
<1> USE DEF PushInv, PromiseInv
<1>1. \A s \in Sweeps : BatchWaits(s)' /\ Reaches(s)'
  BY BatchWaitsKept, ReachesKept
<1>2. AttemptsLeft' /\ Announced'
  BY AttemptsLeftKept, AnnouncedKept
<1> QED
  BY <1>1, <1>2

LEMMA PromiseInductive == Spec => [](PushInv /\ PromiseInv)
<1>1. PushInv /\ [Next]_vars => PushInv'
  <2> SUFFICES ASSUME PushInv, [Next]_vars PROVE PushInv'
    OBVIOUS
  <2> USE DEF PushInv
  <2>1. TypeOK'
    BY TypeKept
  <2>2. OneSweep' /\ Withdrawals' /\ \A s \in Sweeps : Says(s)' /\ Counts(s)'
    BY OneSweepKept, WithdrawalsKept, SaysKept
  <2>3. Counted' /\ Latecomers' /\ RemovalIsLastWord'
    BY <2>1, CountedKept, LatecomersKept, LastWordKept
  <2> QED
    BY <2>1, <2>2, <2>3
<1> QED
  BY <1>1, PushInit, PromiseInit, PromiseKept, PTL DEF Spec

\* One post's state is one post's phase.
LEMMA PhaseMoves ==
  ASSUME TypeOK, NEW p \in Posts, NEW new, post' = [post EXCEPT ![p] = new]
  PROVE  phase' = [phase EXCEPT ![p] = PhaseOf(new)]
  BY DEF TypeOK, phase

LEMMA PhaseIs ==
  /\ PhaseOf("absent") = "absent" /\ PhaseOf("live") = "visible"
  /\ PhaseOf("hidden") = "hidden" /\ PhaseOf("removed") = "removed"
  /\ PhaseOf("pruned") = "gone"
  BY DEF PhaseOf

LEMMA PostsMove ==
  ASSUME TypeOK, NEW p \in Posts, Share(p) \/ HideOrShow(p) \/ Remove(p)
  PROVE  Promise!PostMoves \/ UNCHANGED Promise!promiseVars
<1>1. UNCHANGED <<row, heard, got>> /\ UNCHANGED TakenIn
  BY DEF Share, HideOrShow, Remove, queueVars, callVars, TakenIn
<1>2. phase[p] = PhaseOf(post[p])
  BY DEF phase
<1>3. CASE Share(p)
  <2>1. phase[p] = "absent" /\ phase' = [phase EXCEPT ![p] = "visible"]
    BY <1>2, <1>3, PhaseMoves, PhaseIs DEF Share
  <2> QED
    BY <1>1, <2>1 DEF Promise!PostMoves, Promise!Life!Share, Promise!Life!Move
<1>4. CASE HideOrShow(p)
  <2>1. \/ phase[p] = "visible" /\ phase' = [phase EXCEPT ![p] = "hidden"]
        \/ phase[p] = "hidden" /\ phase' = [phase EXCEPT ![p] = "visible"]
    BY <1>2, <1>4, PhaseMoves, PhaseIs DEF HideOrShow
  <2> QED
    BY <1>1, <2>1 DEF Promise!PostMoves, Promise!Life!Hide, Promise!Life!Show,
       Promise!Life!Move
<1>5. CASE Remove(p)
  <2>1. /\ post[p] \in {"live", "hidden", "removed"}
        /\ post' = [post EXCEPT ![p] = "removed"]
    BY <1>5 DEF Remove
  <2>2. CASE post[p] = "removed"
    <3>1. UNCHANGED post
      BY <2>1, <2>2 DEF TypeOK
    <3> QED
      BY <1>1, <3>1 DEF Promise!promiseVars, phase
  <2>3. CASE post[p] # "removed"
    <3>1. phase[p] \in {"visible", "hidden"} /\ phase' = [phase EXCEPT ![p] = "removed"]
      BY <1>2, <2>1, <2>3, PhaseMoves, PhaseIs
    <3> QED
      BY <1>1, <3>1 DEF Promise!PostMoves, Promise!Life!Remove, Promise!Life!Move
  <2> QED
    BY <2>2, <2>3
<1> QED
  BY <1>3, <1>4, <1>5

LEMMA PostIsPruned ==
  ASSUME TypeOK, NEW p \in Posts, Prune(p)
  PROVE  Promise!Prune({p})
<1>1. post[p] = "removed" /\ phase' = [phase EXCEPT ![p] = "gone"]
  BY PruneIs, PhaseMoves, PhaseIs
<1>2. phase[p] = "removed" /\ phase' = [q \in Posts |-> IF q \in {p} THEN "gone" ELSE phase[q]]
  BY <1>1, PhaseIs DEF phase
<1>3. row' = [r \in Rows |-> IF PostOf(r) = p THEN NoDelivery ELSE row[r]]
  BY DEF Prune
<1>4. UNCHANGED <<heard, got>> /\ UNCHANGED TakenIn
  BY PruneIs DEF TakenIn
<1>5. Promise!Life!Prune({p})
  BY <1>2 DEF Promise!Life!Prune
<1>6. row' = [n \in Promise!Notices |->
                IF n[1] \in {p} THEN Promise!NoNotice ELSE row[n]]
  BY <1>3 DEF Promise!Notices, Promise!Kinds, Rows, Kinds, PostOf, NoDelivery,
     Promise!NoNotice
<1> QED
  BY <1>4, <1>5, <1>6 DEF Promise!Prune

LEMMA RowsAreQueued ==
  ASSUME TypeOK, Withdrawals, Announced, NEW p \in Posts, NEW k \in Kinds,
         EnqueueCreate(p, k)
  PROVE  \E N \in SUBSET Promise!Notices : Promise!Queue(N)
<1> DEFINE fresh == {r \in {p} \X asked[p][k].to \X {k} :
                        post[p] # "pruned" /\ row[r].status = "none"}
<1>1. /\ asked[p][k].at = "read" /\ asked[p][k].to \subseteq Clubs
      /\ UNCHANGED <<post, heard, got>>
  BY CreateIs DEF TypeOK, Asking
<1>2. row' = [r \in Rows |->
        IF r \in fresh THEN [status |-> "PENDING", attempts |-> 0] ELSE row[r]]
  BY DEF EnqueueCreate
<1>3. k = "REMOVED" => post[p] \in {"removed", "pruned"}
  BY <1>1 DEF Withdrawals
<1>4. k = "CREATED" => post[p] # "absent"
  BY <1>1 DEF Announced
<1>5. fresh \subseteq Rows
  BY <1>1 DEF Rows
<1>6. ASSUME NEW r \in fresh
      PROVE  /\ row[r].status = "none" /\ r[1] = p /\ r[3] = k
             /\ phase[r[1]] \in IF r[3] = "REMOVED" THEN {"removed"}
                               ELSE {"visible", "hidden", "removed"}
  <2>1. row[r].status = "none" /\ r[1] = p /\ r[3] = k /\ post[p] # "pruned"
    OBVIOUS
  <2>2. phase[p] = PhaseOf(post[p])
    BY DEF phase
  <2> HIDE DEF fresh
  <2> QED
    BY <1>3, <1>4, <2>1, <2>2, PhaseIs DEF TypeOK, Kinds
<1>7. UNCHANGED <<phase, TakenIn, heard>>
  BY <1>1 DEF phase, TakenIn
<1> HIDE DEF fresh
<1>8. Promise!Notices = Rows
  BY DEF Promise!Notices, Promise!Kinds, Rows, Kinds
<1>9. Promise!Queue(fresh)
  BY <1>2, <1>6, <1>7, <1>8 DEF Promise!Queue
<1> QED
  BY <1>5, <1>8, <1>9

LEMMA PushIsTaken ==
  ASSUME PushInv, PromiseInv, NEW s \in Sweeps, DeliverCall(s)
  PROVE  \/ UNCHANGED Promise!promiseVars
         \/ \E word \in {"shared", "withdrawn"} : Promise!Take(RowAt(s), word)
<1> DEFINE r == RowAt(s)
           word == Word(sweep[s].withdrawn)
<1> USE DEF PushInv, PromiseInv
<1>1. UNCHANGED <<post, row, phase>> /\ sweep[s].at = "call"
  BY DEF DeliverCall, queueVars, phase
<1>2. r \in Rows /\ PostOf(r) \in Posts /\ Sending(s)
  BY <1>1, RowAtIs DEF Sending
<1>3. CASE UNCHANGED callVars
  BY <1>1, <1>3 DEF callVars, Promise!promiseVars, TakenIn
<1>4. CASE ~UNCHANGED callVars
  <2>1. /\ heard' = [heard EXCEPT ![ClubOf(r)][PostOf(r)] = word]
        /\ got' = [got EXCEPT ![r] = @ + 1]
    BY <1>4, CallIs
  <2>2. row[r].status = "PENDING" \/ phase[PostOf(r)] = "gone"
    <3>1. sweep[s].batch \in Seq(Rows) /\ sweep[s].batch # <<>>
      BY <1>1 DEF TypeOK, SweepState
    <3>2. 1 \in DOMAIN sweep[s].batch /\ r = sweep[s].batch[1]
      BY <3>1 DEF RowAt
    <3>3. row[r].status \in {"none", "PENDING"}
      BY <1>1, <3>2 DEF BatchWaits, AtWork
    <3>4. row[r].status = "none" => post[PostOf(r)] = "pruned"
      BY <1>2 DEF Counts
    <3> HIDE DEF r
    <3> QED
      BY <1>2, <3>3, <3>4, PhaseIs DEF phase
  <2>3. TakenIn' = TakenIn \cup {r}
    <3> HIDE DEF r
    <3> QED
      BY <1>2, <2>1 DEF TakenIn, TypeOK
  <2>4. word = "shared" => Removal(PostOf(r), ClubOf(r)) \notin TakenIn \cup {r}
    <3> SUFFICES ASSUME word = "shared"
                 PROVE  Removal(PostOf(r), ClubOf(r)) \notin TakenIn \cup {r}
      OBVIOUS
    <3>1. ~sweep[s].withdrawn
      BY DEF Word
    <3>2. KindOf(r) # "REMOVED" /\ got[Removal(PostOf(r), ClubOf(r))] = 0
      BY <1>2, <3>1 DEF Says, Reaches
    <3> QED
      BY <3>2 DEF TakenIn, Removal, KindOf
  <2>5. word \in {"shared", "withdrawn"}
    BY DEF Word
  <2> HIDE DEF r, word
  <2>6. Promise!Take(r, word)
    BY <1>1, <2>1, <2>2, <2>3, <2>4
    DEF Promise!Take, Promise!RemovalOf, Removal, PostOf, ClubOf
  <2> QED
    BY <2>5, <2>6 DEF r
<1> QED
  BY <1>3, <1>4

LEMMA AttemptIsRecorded ==
  ASSUME PushInv, PromiseInv, NEW s \in Sweeps, DeliverRecord(s)
  PROVE  \/ UNCHANGED Promise!promiseVars
         \/ Promise!Succeeds(RowAt(s)) \/ Promise!Fails(RowAt(s))
<1> DEFINE r == RowAt(s)
           n == sweep[s].attempts
<1> USE DEF PushInv, PromiseInv
<1>1. UNCHANGED <<phase, TakenIn, heard>> /\ sweep[s].at = "record" /\ r \in Rows
  BY RecordIs DEF phase, TakenIn
<1>2. row' = [row EXCEPT ![r] =
             IF @.status = "none" THEN @
             ELSE IF sweep[s].ok THEN [status |-> "DELIVERED", attempts |-> n]
             ELSE Failed(n)]
  BY DEF DeliverRecord, RowAt
<1>3. row[r].status \in {"none", "PENDING"}
  <2>1. sweep[s].batch \in Seq(Rows) /\ sweep[s].batch # <<>>
    BY <1>1 DEF TypeOK, SweepState
  <2>2. 1 \in DOMAIN sweep[s].batch /\ r = sweep[s].batch[1]
    BY <2>1 DEF RowAt
  <2> QED
    BY <1>1, <2>2 DEF BatchWaits, AtWork
<1>4. row[r].status = "PENDING" =>
        /\ n = row[r].attempts + 1 /\ row[r].attempts < MaxAttempts
        /\ row[r].attempts \in Nat
  <2>1. row[r].status = "PENDING" => n = row[r].attempts + 1
    BY <1>1 DEF Counts, Sending
  <2> HIDE DEF r, n
  <2> QED
    BY <1>1, <2>1 DEF AttemptsLeft, TypeOK, DeliveryRow
<1>5. sweep[s].ok => r \in TakenIn
  BY <1>1 DEF Reaches, TakenIn
<1> HIDE DEF r, n
<1>6. CASE row[r].status = "none"
  <2>1. UNCHANGED row
    BY <1>1, <1>2, <1>6 DEF TypeOK
  <2> QED
    BY <1>1, <2>1 DEF Promise!promiseVars
<1>7. CASE row[r].status = "PENDING" /\ sweep[s].ok
  <2>1. row' = [row EXCEPT ![r] =
                  [status |-> "DELIVERED", attempts |-> @.attempts + 1]]
    BY <1>2, <1>4, <1>7
  <2> QED
    BY <1>1, <1>5, <1>7, <2>1 DEF Promise!Succeeds, Promise!Tried, r
<1>8. CASE row[r].status = "PENDING" /\ ~sweep[s].ok
  <2> DEFINE status == IF row[r].attempts + 1 = MaxAttempts THEN "ABANDONED"
                       ELSE "PENDING"
  <2>1. Failed(n) = [status |-> status, attempts |-> row[r].attempts + 1]
    BY <1>4, <1>8, PushAssumption DEF Failed
  <2>2. row' = [row EXCEPT ![r] = [status |-> status, attempts |-> @.attempts + 1]]
    BY <1>2, <1>8, <2>1
  <2> QED
    BY <1>1, <1>8, <2>2 DEF Promise!Fails, Promise!Tried, r
<1> QED
  BY <1>3, <1>6, <1>7, <1>8

LEMMA StepKeepsPromise ==
  ASSUME PushInv, PromiseInv, [Next]_vars
  PROVE  [Promise!Next]_(Promise!promiseVars)
<1> USE DEF PushInv, PromiseInv
<1>0. Promise!Notices = Rows
  BY DEF Promise!Notices, Promise!Kinds, Rows, Kinds
<1>1. ASSUME NEW p \in Posts, Share(p) \/ HideOrShow(p) \/ Remove(p)
      PROVE  [Promise!Next]_(Promise!promiseVars)
  BY <1>1, PostsMove DEF Promise!Next
<1>2. ASSUME NEW p \in Posts, Prune(p) PROVE Promise!Next
  <2>1. {p} \in SUBSET Posts
    OBVIOUS
  <2> QED
    BY <1>2, <2>1, PostIsPruned DEF Promise!Next
<1>3. ASSUME NEW p \in Posts, NEW k \in Kinds, EnqueueCreate(p, k) PROVE Promise!Next
  BY <1>3, RowsAreQueued DEF Promise!Next
<1>4. ASSUME NEW s \in Sweeps, DeliverCall(s)
      PROVE  [Promise!Next]_(Promise!promiseVars)
  <2>1. RowAt(s) \in Rows
    BY <1>4, RowAtIs DEF DeliverCall
  <2> QED
    BY <1>0, <1>4, <2>1, PushIsTaken DEF Promise!Next
<1>5. ASSUME NEW s \in Sweeps, DeliverRecord(s)
      PROVE  [Promise!Next]_(Promise!promiseVars)
  <2>1. RowAt(s) \in Rows
    BY <1>5, RecordIs
  <2> QED
    BY <1>0, <1>5, <2>1, AttemptIsRecorded DEF Promise!Next
<1>6. ASSUME UNCHANGED <<post, row, heard, got>>
      PROVE  UNCHANGED Promise!promiseVars
  BY <1>6 DEF Promise!promiseVars, phase, TakenIn
<1> QED
  BY <1>1, <1>2, <1>3, <1>4, <1>5, <1>6
  DEF Next, PostNext, ClubNext, SweepStep, vars, queueVars, callVars, SweepStarts,
      SweepEnds, DeliverRead, DeliverHold, EnqueueRead, Suspend, Reapprove, PutTarget,
      DeleteTarget, ReportVersion, Moves, BecomesDue, UpdateFails, Crash

\* The queue implements the promise, for any posts, clubs, ticks, batch, attempts
\* and faults: every step of a sweep, an enqueue, a post or a club is a step of
\* Announcements or none (push-delivery.ts).
THEOREM QueueKeepsPromise == Spec => KeepsItsPromise
<1>1. Init => Promise!Init
  <2> SUFFICES ASSUME Init PROVE Promise!Init
    OBVIOUS
  <2>1. phase = [p \in Posts |-> "absent"]
    BY PhaseIs DEF Init, phase
  <2>2. TakenIn = {}
    BY DEF Init, TakenIn
  <2>3. row = [n \in Promise!Notices |-> Promise!NoNotice]
    BY DEF Init, Promise!Notices, Promise!Kinds, Rows, Kinds, Promise!NoNotice,
       NoDelivery
  <2> QED
    BY <2>1, <2>2, <2>3 DEF Init, Promise!Init, Promise!Life!Init
<1>2. PushInv /\ PromiseInv /\ [Next]_vars => [Promise!Next]_(Promise!promiseVars)
  BY StepKeepsPromise
<1> QED
  BY <1>1, <1>2, PromiseInductive, PTL DEF Spec, Promise!Spec, KeepsItsPromise

\* The posts that are announced live as those of the console do: the queue's
\* share, hide, show, remove and prune are steps of PostLifecycle.
THEOREM AnnouncedPostsLive == Spec => Promise!Life!Spec
<1>1. Promise!Init => Promise!Life!Init
  BY DEF Promise!Init
<1>2. [Promise!Next]_(Promise!promiseVars) => [Promise!Life!Next]_phase
  BY DEF Promise!Next, Promise!PostMoves, Promise!Prune, Promise!Life!Next,
     Promise!promiseVars, Promise!Queue, Promise!Take, Promise!Succeeds,
     Promise!Fails, Promise!Tried
<1> QED
  BY <1>1, <1>2, QueueKeepsPromise, PTL DEF Promise!Spec, Promise!Life!Spec,
     KeepsItsPromise

\* A club that took in that a post is removed is never shown it again, whether or
\* not this server learned that it had: more than RemovalIsLastWord, which waits
\* for the good answer.
THEOREM RemovalTakenIsFinal == Spec => []Promise!RemovalSticks
<1>1. Promise!Init => Promise!RemovalSticks
  BY DEF Promise!Init, Promise!RemovalSticks
<1>2. ASSUME TypeOK, Promise!RemovalSticks, [Promise!Next]_(Promise!promiseVars)
      PROVE  Promise!RemovalSticks'
  <2>1. ASSUME NEW n \in Promise!Notices, NEW word \in {"shared", "withdrawn"},
               Promise!Take(n, word)
        PROVE  Promise!RemovalSticks'
    <3> SUFFICES ASSUME NEW m \in TakenIn', m[3] = "REMOVED"
                 PROVE  heard'[m[2]][m[1]] = "withdrawn"
      BY DEF Promise!RemovalSticks
    <3>1. /\ TakenIn' = TakenIn \cup {n}
          /\ heard' = [heard EXCEPT ![n[2]][n[1]] = word]
          /\ word = "shared" => Promise!RemovalOf(n) \notin TakenIn'
      BY <2>1 DEF Promise!Take
    <3>2. /\ m \in Rows /\ m = <<m[1], m[2], m[3]>>
          /\ m[1] \in Posts /\ m[2] \in Clubs
          /\ n[1] \in Posts /\ n[2] \in Clubs
      BY DEF TakenIn, Rows, Promise!Notices
    <3>3. CASE m[1] = n[1] /\ m[2] = n[2]
      <4>1. m = Promise!RemovalOf(n)
        BY <3>2, <3>3 DEF Promise!RemovalOf
      <4>2. word = "withdrawn"
        BY <3>1, <4>1
      <4> DEFINE c == n[2]
                 p == n[1]
      <4>3. c \in Clubs /\ p \in Posts /\ heard' = [heard EXCEPT ![c][p] = word]
        BY <3>1, <3>2
      <4> HIDE DEF c, p
      <4>4. heard'[c][p] = "withdrawn"
        BY <1>2, <4>2, <4>3 DEF TypeOK
      <4> QED
        BY <3>3, <4>4 DEF c, p
    <3>4. CASE ~(m[1] = n[1] /\ m[2] = n[2])
      <4>1. m \in TakenIn
        BY <3>1, <3>4
      <4>2. heard'[m[2]][m[1]] = heard[m[2]][m[1]]
        BY <3>1, <3>2, <3>4 DEF TypeOK
      <4> QED
        BY <1>2, <4>1, <4>2 DEF Promise!RemovalSticks
    <3> QED
      BY <3>3, <3>4
  <2>2. ASSUME UNCHANGED <<TakenIn, heard>> PROVE Promise!RemovalSticks'
    BY <1>2, <2>2 DEF Promise!RemovalSticks
  <2> QED
    BY <1>2, <2>1, <2>2 DEF Promise!Next, Promise!promiseVars, Promise!PostMoves,
       Promise!Prune, Promise!Queue, Promise!Succeeds, Promise!Fails, Promise!Tried
<1> QED
  BY <1>1, <1>2, PushTypeCorrect, QueueKeepsPromise, PTL
  DEF Promise!Spec, KeepsItsPromise

\* A notice ends only with its attempts: a pending row has one left, a delivered
\* one took between one and all of them, an abandoned one all (fail()).
THEOREM AttemptsAreBounded == Spec => []Promise!AttemptsBounded
<1>0. Promise!Notices = Rows
  BY DEF Promise!Notices, Promise!Kinds, Rows, Kinds
<1>1. Promise!Init => Promise!AttemptsBounded
  BY DEF Promise!Init, Promise!AttemptsBounded, Promise!NoNotice
<1>2. ASSUME TypeOK, Promise!AttemptsBounded, [Promise!Next]_(Promise!promiseVars)
      PROVE  Promise!AttemptsBounded'
  <2>1. row \in [Rows -> DeliveryRow]
    BY <1>2 DEF TypeOK
  <2>2. ASSUME NEW n \in Rows, Promise!Succeeds(n) \/ Promise!Fails(n)
        PROVE  Promise!AttemptsBounded'
    <3>1. /\ row[n].status = "PENDING" /\ row[n].attempts \in Nat
          /\ row[n].attempts < MaxAttempts
      <4>1. row[n].status = "PENDING"
        BY <2>2 DEF Promise!Succeeds, Promise!Fails, Promise!Tried
      <4>2. row[n].attempts \in Nat
        BY <2>1 DEF DeliveryRow
      <4> QED
        BY <1>0, <1>2, <4>1, <4>2 DEF Promise!AttemptsBounded
    <3>2. \E status \in {"DELIVERED", "PENDING", "ABANDONED"} :
            /\ row' = [row EXCEPT ![n] =
                        [status |-> status, attempts |-> @.attempts + 1]]
            /\ status = "PENDING" => row[n].attempts + 1 # MaxAttempts
            /\ status = "ABANDONED" => row[n].attempts + 1 = MaxAttempts
      BY <2>2 DEF Promise!Succeeds, Promise!Fails, Promise!Tried
    <3>3. PICK status \in {"DELIVERED", "PENDING", "ABANDONED"} :
            /\ row' = [row EXCEPT ![n] =
                        [status |-> status, attempts |-> @.attempts + 1]]
            /\ status = "PENDING" => row[n].attempts + 1 # MaxAttempts
            /\ status = "ABANDONED" => row[n].attempts + 1 = MaxAttempts
      BY <3>2
    <3>4. /\ row'[n] = [status |-> status, attempts |-> row[n].attempts + 1]
          /\ \A m \in Rows \ {n} : row'[m] = row[m]
      BY <2>1, <3>3
    <3>5. /\ row'[n].status = status /\ row'[n].attempts = row[n].attempts + 1
      BY <3>4
    <3>6. /\ row'[n].status = "PENDING" => row'[n].attempts < MaxAttempts
          /\ row'[n].status = "DELIVERED" => row'[n].attempts \in 1..MaxAttempts
          /\ row'[n].status = "ABANDONED" => row'[n].attempts = MaxAttempts
      BY <3>1, <3>3, <3>5, PushAssumption
    <3> QED
      BY <1>0, <1>2, <3>4, <3>6 DEF Promise!AttemptsBounded
  <2>3. ASSUME NEW N \in SUBSET Rows, Promise!Queue(N)
        PROVE  Promise!AttemptsBounded'
    BY <1>0, <1>2, <2>1, <2>3, PushAssumption DEF Promise!Queue, Promise!AttemptsBounded
  <2>4. ASSUME NEW S \in SUBSET Posts, Promise!Prune(S)
        PROVE  Promise!AttemptsBounded'
    BY <1>0, <1>2, <2>1, <2>4
    DEF Promise!Prune, Promise!NoNotice, Promise!AttemptsBounded
  <2>5. ASSUME UNCHANGED row PROVE Promise!AttemptsBounded'
    BY <1>2, <2>5 DEF Promise!AttemptsBounded
  <2> QED
    BY <1>0, <1>2, <2>2, <2>3, <2>4, <2>5
    DEF Promise!Next, Promise!promiseVars, Promise!PostMoves, Promise!Take
<1> QED
  BY <1>1, <1>2, PushTypeCorrect, QueueKeepsPromise, PTL
  DEF Promise!Spec, KeepsItsPromise
=============================================================================
