--------------------------- MODULE FeedSyncProofs ---------------------------
(***************************************************************************)
(* What a club that mirrors the feed may rely on, for any numbers of       *)
(* posts, clubs and writers, any page size, lags and overlap.              *)
(***************************************************************************)
EXTENDS FeedSync, FiniteSetTheorems, WellFoundedInduction, TLAPS

(***************************************************************************)
(* The clock.  Nothing is stamped in the future, no statement is later     *)
(* than its lag and no pass longer than its length.                        *)
(***************************************************************************)
Clocked ==
    /\ \A p \in Posts : post[p].updatedAt <= clock
    /\ \A w \in Writers : write[w].at # "idle" =>
         write[w].stamp <= clock /\ clock <= write[w].stamp + CommitLag
    /\ \A c \in Clubs : cursor[c].since <= clock
    /\ \A c \in Clubs : sync[c].at # "idle" =>
         /\ sync[c].started <= clock /\ clock <= sync[c].started + PassLength
         /\ sync[c].last.since <= clock

Answering(c) == sync[c].at \in {"read", "answered"}

\* A club without a cursor shows nothing, and an answer without one is empty.
Cursors ==
    \A c \in Clubs :
      /\ cursor[c] = NoCursor => \A p \in Posts : copy[c][p] = 0
      /\ Answering(c) /\ sync[c].last = NoCursor =>
           sync[c].rows = {} /\ ~sync[c].more

(***************************************************************************)
(* What is on its way to a mirror.                                         *)
(***************************************************************************)

\* A mirror that shows version v of p need not be told of p: but for a picture
\* whose deletion nothing tells of yet, v is what the feed says.
Says(p, v) ==
    Exists(p) =>
      /\ Serialized(p) = 0 => v = 0
      /\ ~post[p].stale => v = Serialized(p)

\* What a club will show of p once it has applied the answer it waits for.
Applied(c, p) == IF p \in sync[c].rows THEN sync[c].page[p] ELSE copy[c][p]

\* Did p change so late that a pass begun at `started` may have passed it by?
Recent(p, started) == started <= post[p].updatedAt + CommitLag

\* A pass not yet begun will ask for p ...
FoundNext(c, p) ==
    cursor[c] # NoCursor => \/ Says(p, copy[c][p])
                            \/ post[p].updatedAt > StepBack(cursor[c].since)

\* ... as will the next page of the pass that goes on ...
FoundOnward(c, p) ==
    sync[c].at = "next" /\ cursor[c] # NoCursor =>
      \/ Says(p, copy[c][p])
      \/ Recent(p, sync[c].started)
      \/ After(p, cursor[c].since, cursor[c].id)

\* ... or the one after the answer it waits for.
FoundAfter(c, p) ==
    Answering(c) =>
      \/ Says(p, Applied(c, p))
      \/ Recent(p, sync[c].started)
      \/ sync[c].more /\ After(p, sync[c].last.since, sync[c].last.id)

Found ==
    \A c \in Clubs, p \in Posts :
      FoundNext(c, p) /\ FoundOnward(c, p) /\ FoundAfter(c, p)

FeedInv == TypeOK /\ Clocked /\ Cursors /\ Found

(***************************************************************************)
(* Stubs and the horizon.                                                  *)
(***************************************************************************)
Stub(p) == post[p].state = "removed"

\* The last moment at which a write of a removed post commits.
Settles(p) == post[p].removedAt + 3 * CommitLag

\* Nobody begins to write a stub but to dismiss its reports, so a stub whose
\* reports nobody dismisses comes to rest.
StubsSettle ==
    \A p \in Posts : Stub(p) =>
      /\ ~post[p].touched => post[p].updatedAt <= post[p].removedAt + 2 * CommitLag
      /\ \A w \in Writers : write[w].post = p /\ write[w].change # "touch" =>
           /\ write[w].at = "deleted" =>
                write[w].stamp <= post[p].removedAt + CommitLag
           /\ write[w].at = "stamped" =>
                write[w].stamp <= post[p].removedAt + 2 * CommitLag

\* Is a cursor at `since` too old for every answer at a moment?
TooOld(since, now) == \A h \in Horizons : since < HorizonAt(now, h) + Margin

\* The pass of c has compared with the horizon what it stored.
Checked(c) == sync[c].at = "next" \/ (Answering(c) /\ ~sync[c].checks)

\* What the club will show of p after the next step of its pass.
Will(c, p) == IF sync[c].at = "next" THEN copy[c][p] ELSE Applied(c, p)

OnPage(c, p) == Answering(c) /\ p \in sync[c].rows /\ sync[c].page[p] # 0

\* A club that shows a removed post has not gone far since it settled; nor has
\* the pass that compared its cursor with the horizon begun late.
Shown(c, p) ==
    Stub(p) /\ ~post[p].touched =>
      /\ copy[c][p] # 0 => cursor[c].since <= Settles(p) + PassLength
      /\ OnPage(c, p) => sync[c].started <= Settles(p)
      /\ Checked(c) /\ Will(c, p) # 0 =>
           \/ sync[c].started <= Settles(p)
           \/ \E h \in Horizons :
                sync[c].started + Margin <= Settles(p) + PassLength + h

\* A club that shows a pruned post starts over: its cursor is too old, the answer
\* it waits for says so, and what a pass under way will store is too old as well.
Missed(c, p) ==
    post[p].state = "pruned" /\ ~post[p].touched =>
      /\ copy[c][p] # 0 => TooOld(cursor[c].since, clock)
      /\ Answering(c) /\ sync[c].checks /\ copy[c][p] # 0 => Outdated(c)
      /\ OnPage(c, p) \/ (Checked(c) /\ Will(c, p) # 0) =>
           TooOld(sync[c].started + PassLength, clock)

\* The horizon of an answer is one of the settings', not before the pass began.
Answers ==
    \A c \in Clubs : Answering(c) =>
      \E h \in Horizons : sync[c].horizon >= sync[c].started - h

HorizonInv ==
    /\ StubsSettle
    /\ Answers
    /\ \A c \in Clubs, p \in Posts : Shown(c, p) /\ Missed(c, p)

-----------------------------------------------------------------------------
(***************************************************************************)
(* The (updatedAt, id) order and its first page.                           *)
(***************************************************************************)
LEMMA Smallest ==
  ASSUME NEW N \in SUBSET Nat, N # {}
  PROVE  \E n \in N : \A m \in N : n <= m
<1> DEFINE Less == OpToRel(<, Nat)
<1>1. \E n \in N : \A m \in N : ~(<<m, n>> \in Less)
  BY WFMin, NatLessThanWellFounded, Zenon
<1>2. \A m, n \in Nat : m < n => <<m, n>> \in Less
  BY DEF OpToRel
<1> HIDE DEF Less
<1>3. PICK n \in N : \A m \in N : ~(<<m, n>> \in Less)
  BY <1>1
<1>4. ASSUME NEW m \in N PROVE n <= m
  <2>1. m \in Nat /\ n \in Nat /\ ~(m < n)
    BY <1>2, <1>3
  <2> QED
    BY <2>1
<1> QED
  BY <1>4

LEMMA Ordered ==
  ASSUME post \in [Posts -> Row]
  PROVE  /\ \A p \in Posts : ~Precedes(p, p)
         /\ \A p, q \in Posts : p = q \/ Precedes(p, q) \/ Precedes(q, p)
         /\ \A p, q, r \in Posts :
              Precedes(p, q) /\ Precedes(q, r) => Precedes(p, r)
  BY FeedAssumption DEF Row, Precedes

LEMMA SubsetsAreFinite ==
  ASSUME NEW S \in SUBSET Posts
  PROVE  IsFiniteSet(S) /\ Cardinality(S) \in Nat
  BY FS_Subset, FS_CardinalityType, FeedAssumption

\* What is strictly less in a finite set has a smaller cardinality.
LEMMA StrictlyFewer ==
  ASSUME NEW S \in SUBSET Posts, NEW T \in SUBSET S, T # S
  PROVE  Cardinality(T) < Cardinality(S)
<1>1. /\ Cardinality(T) <= Cardinality(S)
      /\ Cardinality(S) = Cardinality(T) => S = T
  BY SubsetsAreFinite, FS_Subset
<1>2. Cardinality(S) \in Nat /\ Cardinality(T) \in Nat
  BY SubsetsAreFinite
<1> QED
  BY <1>1, <1>2

\* A set of rows has a last one.
LEMMA LastExists ==
  ASSUME post \in [Posts -> Row], NEW S \in SUBSET Posts, S # {}
  PROVE  \E p \in S : \A r \in S \ {p} : Precedes(r, p)
<1> DEFINE Above(p) == {q \in S : Precedes(p, q)}
           N == {Cardinality(Above(p)) : p \in S}
<1>1. \A p \in S : Above(p) \in SUBSET Posts /\ Cardinality(Above(p)) \in Nat
  BY SubsetsAreFinite
<1>2. PICK p \in S : \A q \in S : Cardinality(Above(p)) <= Cardinality(Above(q))
  <2>1. N \in SUBSET Nat /\ N # {}
    BY <1>1
  <2>2. PICK n \in N : \A m \in N : n <= m
    <3> HIDE DEF N
    <3> QED
      BY <2>1, Smallest
  <2> HIDE DEF Above
  <2>3. PICK p \in S : n = Cardinality(Above(p))
    OBVIOUS
  <2>4. \A q \in S : Cardinality(Above(q)) \in N
    OBVIOUS
  <2> QED
    BY <2>2, <2>3, <2>4, Zenon
<1>3. ASSUME NEW r \in S \ {p} PROVE Precedes(r, p)
  <2> SUFFICES ASSUME Precedes(p, r) PROVE FALSE
    BY Ordered
  <2>1. Above(r) \in SUBSET Above(p)
    BY Ordered
  <2>2. r \in Above(p) /\ r \notin Above(r)
    BY Ordered
  <2>3. Above(p) \in SUBSET Posts /\ Above(r) # Above(p)
    BY <1>1, <2>2
  <2> HIDE DEF Above
  <2>4. Cardinality(Above(r)) < Cardinality(Above(p))
    BY <2>1, <2>3, StrictlyFewer
  <2> QED
    BY <1>1, <1>2, <2>4
<1> QED
  BY <1>3

LEMMA LastRowIs ==
  ASSUME post \in [Posts -> Row], NEW S \in SUBSET Posts, S # {}
  PROVE  \E p \in S : /\ \A r \in S \ {p} : Precedes(r, p)
                      /\ LastRow(S) = [since |-> post[p].updatedAt, id |-> p]
<1> DEFINE p == CHOOSE q \in S : \A r \in S \ {q} : Precedes(r, q)
<1>1. p \in S /\ \A r \in S \ {p} : Precedes(r, p)
  BY LastExists
<1>2. LastRow(S) = [since |-> post[p].updatedAt, id |-> p]
  BY DEF LastRow
<1> QED
  BY <1>1, <1>2, Zenon

Before(S, p) == {q \in S : Precedes(q, p)}

LEMMA BeforeGrows ==
  ASSUME post \in [Posts -> Row], NEW S \in SUBSET Posts,
         NEW p \in S, NEW q \in S, Precedes(p, q)
  PROVE  Cardinality(Before(S, p)) < Cardinality(Before(S, q))
<1>1. Before(S, p) \in SUBSET Before(S, q)
  BY Ordered DEF Before
<1>2. p \in Before(S, q) /\ p \notin Before(S, p)
  BY Ordered DEF Before
<1>3. Before(S, q) \in SUBSET Posts
  BY DEF Before
<1> QED
  BY <1>1, <1>2, <1>3, StrictlyFewer

\* A page is at most Limit rows, and none only if nothing is asked for.
LEMMA PageIsBounded ==
  ASSUME post \in [Posts -> Row], NEW S \in SUBSET Posts
  PROVE  FirstPage(S) \in Page
<1> DEFINE F == FirstPage(S)
           rank == [p \in F |-> Cardinality(Before(S, p))]
<1>1. F \subseteq S /\ F \in SUBSET Posts
  BY DEF FirstPage
<1>2. \A p \in F : rank[p] \in 0 .. (Limit - 1)
  <2> SUFFICES ASSUME NEW p \in F PROVE rank[p] \in 0 .. (Limit - 1)
    OBVIOUS
  <2>1. Before(S, p) \in SUBSET Posts
    BY DEF Before
  <2>2. Cardinality(Before(S, p)) \in Nat
    BY <2>1, SubsetsAreFinite
  <2>3. Cardinality(Before(S, p)) < Limit
    BY DEF FirstPage, Before
  <2> QED
    BY <2>2, <2>3, FeedAssumption
<1>3. \A p, q \in F : rank[p] = rank[q] => p = q
  <2> SUFFICES ASSUME NEW p \in F, NEW q \in F, rank[p] = rank[q], p # q
               PROVE  FALSE
    OBVIOUS
  <2>1. Precedes(p, q) \/ Precedes(q, p)
    BY <1>1, Ordered
  <2>2. rank[p] < rank[q] \/ rank[q] < rank[p]
    BY <1>1, <2>1, BeforeGrows
  <2>3. rank[p] \in Int
    BY <1>2
  <2> QED
    BY <2>2, <2>3
<1> HIDE DEF F, rank
<1>4. rank \in Injection(F, 0 .. (Limit - 1))
  <2>1. rank \in [F -> 0 .. (Limit - 1)]
    BY <1>2 DEF rank
  <2> QED
    BY <2>1, <1>3 DEF Injection, IsInjective
<1>5. IsFiniteSet(0 .. (Limit - 1)) /\ Cardinality(0 .. (Limit - 1)) = Limit
  BY FS_Interval, FeedAssumption
<1>6. Cardinality(F) <= Limit
  BY <1>4, <1>5, FS_Injection
<1> QED
  BY <1>1, <1>6 DEF F, Page

LEMMA PageIsFilled ==
  ASSUME post \in [Posts -> Row], NEW S \in SUBSET Posts, S # {}
  PROVE  FirstPage(S) # {}
<1> DEFINE N == {Cardinality(Before(S, p)) : p \in S}
<1>1. \A p \in S : Before(S, p) \in SUBSET Posts
  BY DEF Before
<1>2. N \in SUBSET Nat /\ N # {}
  BY <1>1, SubsetsAreFinite
<1>3. PICK p \in S : \A q \in S : Cardinality(Before(S, p)) <= Cardinality(Before(S, q))
  <2>1. PICK n \in N : \A m \in N : n <= m
    <3> HIDE DEF N
    <3> QED
      BY <1>2, Smallest
  <2>2. PICK p \in S : n = Cardinality(Before(S, p))
    OBVIOUS
  <2>3. \A q \in S : Cardinality(Before(S, q)) \in N
    OBVIOUS
  <2> QED
    BY <2>1, <2>2, <2>3, Zenon
<1>4. Before(S, p) = {}
  <2> SUFFICES ASSUME NEW q \in Before(S, p) PROVE FALSE
    OBVIOUS
  <2>1. q \in S /\ Precedes(q, p)
    BY DEF Before
  <2>2. Cardinality(Before(S, q)) < Cardinality(Before(S, p))
    BY <2>1, BeforeGrows
  <2>3. Cardinality(Before(S, q)) \in Nat /\ Cardinality(Before(S, p)) \in Nat
    BY <2>1, <1>1, SubsetsAreFinite
  <2> QED
    BY <1>3, <2>1, <2>2, <2>3
<1>5. Cardinality(Before(S, p)) = 0
  BY <1>4, FS_EmptySet
<1>6. p \in FirstPage(S)
  BY <1>5, FeedAssumption DEF FirstPage, Before
<1> QED
  BY <1>6

\* A row that is asked for and not on the page is after its last one, and the
\* answer says that there is more.
LEMMA OffThePage ==
  ASSUME post \in [Posts -> Row], NEW S \in SUBSET Posts,
         NEW p \in S, p \notin FirstPage(S)
  PROVE  LET last == LastOf(FirstPage(S))
         IN  Cardinality(S) > Limit /\ After(p, last.since, last.id)
<1> DEFINE F == FirstPage(S)
<1>1. F \subseteq S /\ F # {} /\ F \in SUBSET Posts
  BY PageIsFilled DEF FirstPage
<1>2. PICK q \in F : LastRow(F) = [since |-> post[q].updatedAt, id |-> q]
  BY <1>1, LastRowIs
<1>3. Cardinality(Before(S, q)) < Limit /\ ~(Cardinality(Before(S, p)) < Limit)
  BY <1>1 DEF FirstPage, Before
<1>4. Before(S, p) \in SUBSET Posts /\ Before(S, q) \in SUBSET Posts
  BY DEF Before
<1>5. Cardinality(Before(S, p)) \in Nat /\ Cardinality(Before(S, q)) \in Nat
      /\ Cardinality(S) \in Nat
  BY <1>4, SubsetsAreFinite
<1>6. Precedes(q, p)
  <2>1. p # q
    BY <1>3
  <2>2. CASE Precedes(p, q)
    <3>1. Cardinality(Before(S, p)) < Cardinality(Before(S, q))
      BY <1>1, <2>2, BeforeGrows
    <3> QED
      BY <1>3, <1>5, <3>1, FeedAssumption
  <2> QED
    BY <1>1, <2>1, <2>2, Ordered
<1>7. Cardinality(S) > Limit
  <2>1. Before(S, p) \in SUBSET S /\ p \notin Before(S, p)
    BY Ordered DEF Before
  <2>2. Cardinality(Before(S, p)) < Cardinality(S)
    BY <2>1, StrictlyFewer
  <2> QED
    BY <1>3, <1>5, <2>2, FeedAssumption
<1>8. LastOf(F) = LastRow(F)
  BY <1>1 DEF LastOf
<1>9. After(p, post[q].updatedAt, q)
  BY <1>1, <1>6, FeedAssumption DEF Precedes, After, Row
<1> QED
  BY <1>2, <1>7, <1>8, <1>9

-----------------------------------------------------------------------------
(***************************************************************************)
(* One answer of the endpoint.                                             *)
(***************************************************************************)

\* What an answer holds of the rows it was asked for.
IsAnswer(pass, started, checks, full, since, id) ==
    /\ pass \in Pass
    /\ pass.at = "read" /\ pass.started = started /\ pass.checks = checks
    /\ pass.rows \subseteq Asked(full, since, id)
    /\ \A p \in Posts :
         pass.page[p] = IF p \in pass.rows THEN Serialized(p) ELSE 0
    /\ \A p \in Asked(full, since, id) \ pass.rows :
         pass.more /\ After(p, pass.last.since, pass.last.id)
    /\ pass.last = NoCursor => pass.rows = {} /\ ~pass.more
    /\ pass.last = NoCursor \/ \E p \in Posts : pass.last.since = post[p].updatedAt
    /\ \E h \in Horizons : pass.horizon = HorizonAt(clock, h)

LEMMA SerializedIsNat ==
  ASSUME post \in [Posts -> Row], NEW p \in Posts
  PROVE  Serialized(p) \in Nat
  BY DEF Serialized, Row

LEMMA AnswerIs ==
  ASSUME TypeOK, NEW c \in Clubs, NEW started \in Nat, NEW checks \in BOOLEAN,
         NEW full \in BOOLEAN, NEW since, NEW id,
         Reads(c, started, checks, full, since, id)
  PROVE  \E pass \in Pass : /\ IsAnswer(pass, started, checks, full, since, id)
                            /\ sync' = [sync EXCEPT ![c] = pass]
<1> DEFINE found == Asked(full, since, id)
           rows == FirstPage(found)
           page == [p \in Posts |-> IF p \in rows THEN Serialized(p) ELSE 0]
<1>1. post \in [Posts -> Row] /\ clock \in Nat
  BY DEF TypeOK
<1>2. found \in SUBSET Posts /\ rows \subseteq found /\ rows \in Page
  <2>1. found \in SUBSET Posts
    BY DEF Asked
  <2>2. rows \subseteq found
    BY DEF FirstPage
  <2>3. rows \in Page
    BY <1>1, <2>1, PageIsBounded
  <2> QED
    BY <2>1, <2>2, <2>3
<1>3. page \in [Posts -> Nat]
  BY <1>1, SerializedIsNat
<1>4. LastOf(rows) \in Cursor
      /\ (rows = {} => LastOf(rows) = NoCursor)
      /\ (rows # {} => /\ LastOf(rows) # NoCursor
                       /\ \E p \in Posts : LastOf(rows).since = post[p].updatedAt)
  <2>1. CASE rows = {}
    BY <2>1 DEF LastOf, NoCursor, Cursor
  <2>2. CASE rows # {}
    <3>1. PICK p \in rows : LastRow(rows) = [since |-> post[p].updatedAt, id |-> p]
      <4> HIDE DEF rows
      <4> QED
        BY <1>1, <1>2, <2>2, LastRowIs
    <3>2. p \in Posts /\ post[p].updatedAt \in Nat /\ p # None
      BY <1>1, <1>2, FeedAssumption DEF Row
    <3>3. LastOf(rows) = [since |-> post[p].updatedAt, id |-> p]
      BY <2>2, <3>1 DEF LastOf
    <3> QED
      BY <2>2, <3>2, <3>3 DEF Cursor, NoCursor
  <2> QED
    BY <2>1, <2>2
<1>5. \A p \in found \ rows :
        Cardinality(found) > Limit /\ After(p, LastOf(rows).since, LastOf(rows).id)
  <2> HIDE DEF found
  <2> QED
    BY <1>1, <1>2, OffThePage
<1>6. rows = {} => ~(Cardinality(found) > Limit)
  <2> SUFFICES ASSUME rows = {} PROVE ~(Cardinality(found) > Limit)
    OBVIOUS
  <2>1. found = {}
    <3> HIDE DEF found
    <3> QED
      BY <1>1, <1>2, PageIsFilled
  <2>2. Cardinality(found) = 0
    BY <2>1, FS_EmptySet
  <2> QED
    BY <2>2, FeedAssumption
<1>7. PICK h \in Horizons :
        sync' = [sync EXCEPT ![c] =
          [at |-> "read", started |-> started, checks |-> checks, rows |-> rows,
           page |-> page, last |-> LastOf(rows),
           more |-> Cardinality(found) > Limit, horizon |-> HorizonAt(clock, h)]]
  BY DEF Reads
<1>8. HorizonAt(clock, h) \in Int
  BY <1>1, FeedAssumption DEF HorizonAt
<1> DEFINE last == LastOf(rows)
           more == Cardinality(found) > Limit
           pass == [at |-> "read", started |-> started, checks |-> checks,
                    rows |-> rows, page |-> page, last |-> last, more |-> more,
                    horizon |-> HorizonAt(clock, h)]
<1>9. more \in BOOLEAN
  OBVIOUS
<1>10. pass \in Pass
  <2> HIDE DEF rows, page, last, more
  <2> QED
    BY <1>2, <1>3, <1>4, <1>8, <1>9 DEF Pass, last
<1>11. IsAnswer(pass, started, checks, full, since, id)
  <2>1. pass.rows \subseteq Asked(full, since, id)
    BY <1>2
  <2>2. \A p \in Posts : pass.page[p] = IF p \in rows THEN Serialized(p) ELSE 0
    OBVIOUS
  <2>3. \A p \in Asked(full, since, id) \ rows :
          more /\ After(p, last.since, last.id)
    BY <1>5
  <2>4. last = NoCursor => rows = {} /\ ~more
    BY <1>4, <1>6
  <2>5. last = NoCursor \/ \E p \in Posts : last.since = post[p].updatedAt
    BY <1>4
  <2> HIDE DEF rows, page, last, more
  <2> QED
    BY <1>10, <2>1, <2>2, <2>3, <2>4, <2>5 DEF IsAnswer
<1> QED
  BY <1>7, <1>10, <1>11

\* The request of a pass that opens, and of one that goes on.
LEMMA OpensWith ==
  ASSUME TypeOK, NEW c \in Clubs, PassOpens(c)
  PROVE  \E pass \in Pass :
           /\ IsAnswer(pass, clock, TRUE, cursor[c] = NoCursor,
                       StepBack(cursor[c].since), None)
           /\ sync' = [sync EXCEPT ![c] = pass]
<1> DEFINE full == cursor[c] = NoCursor
           checks == TRUE
<1>1. clock \in Nat /\ checks \in BOOLEAN /\ full \in BOOLEAN
  BY DEF TypeOK
<1>2. Reads(c, clock, checks, full, StepBack(cursor[c].since), None)
  BY DEF PassOpens
<1>3. \E pass \in Pass :
        /\ IsAnswer(pass, clock, checks, full, StepBack(cursor[c].since), None)
        /\ sync' = [sync EXCEPT ![c] = pass]
  <2> HIDE DEF full, checks
  <2> QED
    BY <1>1, <1>2, AnswerIs
<1> QED
  BY <1>3

LEMMA ContinuesWith ==
  ASSUME TypeOK, NEW c \in Clubs, PassContinues(c)
  PROVE  \E pass \in Pass :
           /\ IsAnswer(pass, sync[c].started, EveryPage, cursor[c] = NoCursor,
                       cursor[c].since, cursor[c].id)
           /\ sync' = [sync EXCEPT ![c] = pass]
<1> DEFINE full == cursor[c] = NoCursor
<1>1. sync[c].started \in Nat /\ EveryPage \in BOOLEAN /\ full \in BOOLEAN
  BY FeedAssumption DEF TypeOK, Pass
<1>2. Reads(c, sync[c].started, EveryPage, full, cursor[c].since, cursor[c].id)
  BY DEF PassContinues
<1>3. \E pass \in Pass :
        /\ IsAnswer(pass, sync[c].started, EveryPage, full,
                    cursor[c].since, cursor[c].id)
        /\ sync' = [sync EXCEPT ![c] = pass]
  <2> HIDE DEF full
  <2> QED
    BY <1>1, <1>2, AnswerIs
<1> QED
  BY <1>3

-----------------------------------------------------------------------------
(***************************************************************************)
(* Types.                                                                  *)
(***************************************************************************)
LEMMA NoPassIsPass == NoPass \in Pass
<1>1. {} \in Page
  BY FS_EmptySet, FeedAssumption DEF Page
<1>2. NoCursor \in Cursor
  BY DEF NoCursor, Cursor
<1>3. [p \in Posts |-> 0] \in [Posts -> Nat]
  OBVIOUS
<1> QED
  BY <1>1, <1>2, <1>3 DEF NoPass, Pass

LEMMA NextIsPass ==
  ASSUME NEW started \in Nat
  PROVE  [NoPass EXCEPT !.at = "next", !.started = started] \in Pass
  BY NoPassIsPass DEF NoPass, Pass

LEMMA TypeInit == Init => TypeOK
  BY NoPassIsPass, FeedAssumption
  DEF Init, TypeOK, NoRow, Row, NoWrite, Write, Changes, NoCursor, Cursor

LEMMA ChangedIsRow ==
  ASSUME NEW row \in Row, NEW change, NEW stamp \in Nat
  PROVE  Changed(row, change, stamp) \in Row
<1> DEFINE version == IF change = "share" THEN 1
                      ELSE IF change = "edit" /\ row.version < MaxVersion
                           THEN row.version + 1 ELSE row.version
           removed == IF change = "remove" THEN stamp ELSE row.removedAt
           touched == row.touched \/ (row.state = "removed" /\ change = "touch")
           state == IF change = "remove" \/ row.state = "removed" THEN "removed"
                    ELSE IF change \in {"share", "show"} THEN "visible"
                    ELSE IF change = "hide" THEN "hidden" ELSE row.state
<1>1. version \in Nat /\ removed \in Nat /\ touched \in BOOLEAN
      /\ state \in {"absent", "visible", "hidden", "removed", "pruned"}
  BY DEF Row
<1>2. Changed(row, change, stamp) =
        [row EXCEPT !.updatedAt = stamp, !.removedAt = removed, !.touched = touched,
                    !.stale = FALSE, !.version = version, !.state = state]
  BY DEF Changed
<1> HIDE DEF version, removed, touched, state
<1> QED
  BY <1>1, <1>2 DEF Row

LEMMA LaterIsRow ==
  ASSUME NEW row \in Row
  PROVE  [row EXCEPT !.version = @ + 1, !.stale = TRUE] \in Row
<1> DEFINE version == row.version + 1
<1>1. version \in Nat
  BY DEF Row
<1> HIDE DEF version
<1>2. [row EXCEPT !.version = version, !.stale = TRUE] \in Row
  BY <1>1 DEF Row
<1> QED
  BY <1>2 DEF version

LEMMA TypeKept == TypeOK /\ [Next]_vars => TypeOK'
<1> SUFFICES ASSUME TypeOK, [Next]_vars PROVE TypeOK'
  OBVIOUS
<1> USE DEF TypeOK
<1>1. ASSUME NEW w \in Writers, NEW p \in Posts, NEW change \in Requests,
             Stamp(w, p, change)
      PROVE  TypeOK'
  <2>1. [at |-> "stamped", post |-> p, change |-> change, stamp |-> clock] \in Write
    BY DEF Write, Changes
  <2> QED
    BY <1>1, <2>1 DEF Stamp, mirrorVars
<1>2. ASSUME NEW w \in Writers, NEW p \in Posts, DeleteImage(w, p) PROVE TypeOK'
  <2>1. [at |-> "deleted", post |-> p, change |-> "image", stamp |-> clock] \in Write
    BY DEF Write, Changes
  <2>2. post' \in [Posts -> Row]
    <3> DEFINE row == [post[p] EXCEPT !.version = @ + 1, !.stale = TRUE]
    <3>1. post[p] \in Row
      OBVIOUS
    <3>2. row \in Row
      BY <3>1, LaterIsRow
    <3>3. post' = [post EXCEPT ![p] = row]
      BY <1>2 DEF DeleteImage
    <3> HIDE DEF row
    <3> QED
      BY <3>2, <3>3
  <2> QED
    BY <1>2, <2>1, <2>2 DEF DeleteImage, mirrorVars
<1>3. ASSUME NEW w \in Writers, Commit(w) PROVE TypeOK'
  <2>1. write[w] \in Write /\ write[w].post \in Posts /\ NoWrite \in Write
    BY <1>3 DEF Commit, NoWrite, Write, Changes
  <2>2. post' \in [Posts -> Row]
    BY <1>3, <2>1, ChangedIsRow DEF Commit, Write
  <2>3. NoWrite.at = "idle"
    BY DEF NoWrite
  <2> QED
    BY <1>3, <2>1, <2>2, <2>3 DEF Commit, mirrorVars
<1>4. ASSUME NEW w \in Writers, WriteFails(w) \/ DeleteDies(w) PROVE TypeOK'
  <2>1. NoWrite \in Write /\ NoWrite.at = "idle"
    BY DEF NoWrite, Write, Changes
  <2> QED
    BY <1>4, <2>1 DEF WriteFails, DeleteDies, mirrorVars
<1>5. ASSUME NEW w \in Writers, TouchAfterDelete(w) PROVE TypeOK'
  BY <1>5 DEF TouchAfterDelete, mirrorVars, Write
<1>6. ASSUME NEW c \in Clubs, PassOpens(c) PROVE TypeOK'
  <2>1. sync' \in [Clubs -> Pass]
    <3> HIDE DEF TypeOK
    <3>1. PICK pass \in Pass : sync' = [sync EXCEPT ![c] = pass]
      BY <1>6, OpensWith
    <3> QED
      BY <3>1 DEF TypeOK
  <2>2. failures' \in Nat
    BY <1>6 DEF PassOpens, Reads, LoadsSetting
  <2> QED
    BY <1>6, <2>1, <2>2 DEF PassOpens
<1>7. ASSUME NEW c \in Clubs, PassContinues(c) PROVE TypeOK'
  <2>1. sync' \in [Clubs -> Pass]
    <3> HIDE DEF TypeOK
    <3>1. PICK pass \in Pass : sync' = [sync EXCEPT ![c] = pass]
      BY <1>7, ContinuesWith
    <3> QED
      BY <3>1 DEF TypeOK
  <2>2. failures' \in Nat
    BY <1>7 DEF PassContinues, Reads, LoadsSetting
  <2> QED
    BY <1>7, <2>1, <2>2 DEF PassContinues
<1>8. ASSUME NEW c \in Clubs, StampSync(c) PROVE TypeOK'
  <2>1. [sync[c] EXCEPT !.at = "answered"] \in Pass
    BY DEF Pass
  <2>2. sync' = [sync EXCEPT ![c] = [sync[c] EXCEPT !.at = "answered"]]
    BY <1>8 DEF StampSync
  <2>3. sync' \in [Clubs -> Pass]
    BY <2>1, <2>2
  <2> QED
    BY <1>8, <2>3 DEF StampSync
<1>9. ASSUME NEW c \in Clubs, Apply(c) PROVE TypeOK'
  <2>1. sync[c] \in Pass
    OBVIOUS
  <2>2. \A p \in Posts : sync[c].page[p] \in Nat /\ copy[c][p] \in Nat
    BY <2>1 DEF Pass
  <2>3. copy' \in [Clubs -> [Posts -> Nat]]
    BY <1>9, <2>2 DEF Apply
  <2>4. cursor' \in [Clubs -> Cursor]
    BY <1>9, <2>1 DEF Apply, Pass
  <2>5. sync' \in [Clubs -> Pass]
    <3>1. [NoPass EXCEPT !.at = "next", !.started = sync[c].started] \in Pass
      BY <2>1, NextIsPass DEF Pass
    <3> QED
      BY <1>9, <3>1, NoPassIsPass DEF Apply
  <2> QED
    BY <1>9, <2>3, <2>4, <2>5 DEF Apply
<1>10. ASSUME NEW c \in Clubs, Discard(c) PROVE TypeOK'
  <2>1. [NoPass EXCEPT !.at = "next", !.started = sync[c].started] \in Pass
    BY NextIsPass DEF Pass
  <2>2. NoCursor \in Cursor
    BY DEF NoCursor, Cursor
  <2> QED
    BY <1>10, <2>1, <2>2 DEF Discard
<1>11. ASSUME NEW c \in Clubs, PassFails(c) PROVE TypeOK'
  BY <1>11, NoPassIsPass DEF PassFails
<1>12. CASE SaveSettings
  BY <1>12 DEF SaveSettings, mirrorVars
<1>13. CASE Prune
  <2>1. \A row \in Row : Pruned(row) \in Row
    BY DEF Pruned, NoRow, Row
  <2>2. failures' \in Nat
    BY <1>13 DEF Prune, LoadsSetting
  <2> QED
    BY <1>13, <2>1, <2>2 DEF Prune
<1>14. CASE Tick
  BY <1>14 DEF Tick, mirrorVars
<1>15. CASE UNCHANGED vars
  BY <1>15 DEF vars
<1> QED
  BY <1>1, <1>2, <1>3, <1>4, <1>5, <1>6, <1>7, <1>8, <1>9, <1>10, <1>11, <1>12,
     <1>13, <1>14, <1>15 DEF Next, WriterNext, PassStep

\* Rows, writes in flight, cursors, copies and pages are what they should be, for
\* any posts, clubs, clocks and bounds.
THEOREM FeedTypeCorrect == Spec => []TypeOK
<1>1. TypeOK /\ [Next]_vars => TypeOK'
  BY TypeKept
<1> QED
  BY <1>1, TypeInit, PTL DEF Spec

-----------------------------------------------------------------------------
(***************************************************************************)
(* The clock.                                                              *)
(***************************************************************************)

\* An answer to a pass that is not late holds no position in the future.
LEMMA AnswerIsClocked ==
  ASSUME TypeOK, Clocked, NEW c \in Clubs, NEW pass \in Pass,
         NEW started \in Nat, NEW checks, NEW full, NEW since, NEW id,
         IsAnswer(pass, started, checks, full, since, id),
         started <= clock, clock <= started + PassLength,
         sync' = [sync EXCEPT ![c] = pass],
         UNCHANGED <<clock, post, write, cursor>>
  PROVE  Clocked'
<1>1. pass.started = started /\ pass.last.since <= clock
  <2>1. pass.last = NoCursor => pass.last.since <= clock
    BY DEF NoCursor, TypeOK
  <2> QED
    BY <2>1 DEF IsAnswer, Clocked
<1> QED
  BY <1>1 DEF Clocked, TypeOK

LEMMA ClockedInit == Init => Clocked
  BY FeedAssumption DEF Init, Clocked, NoRow, NoWrite, NoCursor, NoPass

LEMMA ClockedKept == TypeOK /\ Clocked /\ [Next]_vars => Clocked'
<1> SUFFICES ASSUME TypeOK, Clocked, [Next]_vars PROVE Clocked'
  OBVIOUS
<1>0. clock \in Nat /\ CommitLag \in Nat /\ PassLength \in Nat
  BY FeedAssumption DEF TypeOK
<1>1. ASSUME NEW w \in Writers, NEW p \in Posts, NEW change \in Requests,
             Stamp(w, p, change)
      PROVE  Clocked'
  BY <1>0, <1>1 DEF Stamp, mirrorVars, Clocked, TypeOK
<1>2. ASSUME NEW w \in Writers, NEW p \in Posts, DeleteImage(w, p) PROVE Clocked'
  <2>1. \A q \in Posts : post'[q].updatedAt = post[q].updatedAt
    BY <1>2 DEF DeleteImage, TypeOK, Row
  <2> QED
    BY <1>0, <1>2, <2>1 DEF DeleteImage, mirrorVars, Clocked, TypeOK
<1>3. ASSUME NEW w \in Writers, Commit(w) PROVE Clocked'
  <2>1. \A q \in Posts : \/ post'[q] = post[q]
                         \/ post'[q].updatedAt = write[w].stamp
    BY <1>3 DEF Commit, Changed, TypeOK, Row
  <2>2. write[w].stamp <= clock
    BY <1>3 DEF Commit, Clocked
  <2> QED
    BY <1>3, <2>1, <2>2 DEF Commit, mirrorVars, Clocked, TypeOK, NoWrite
<1>4. ASSUME NEW w \in Writers, WriteFails(w) \/ DeleteDies(w) PROVE Clocked'
  <2>1. ASSUME NEW v \in Writers PROVE write'[v] = write[v] \/ write'[v].at = "idle"
    BY <1>4 DEF WriteFails, DeleteDies, TypeOK, NoWrite
  <2>2. UNCHANGED <<clock, post, cursor, sync>>
    BY <1>4 DEF WriteFails, DeleteDies, mirrorVars
  <2> QED
    BY <2>1, <2>2 DEF Clocked
<1>5. ASSUME NEW w \in Writers, TouchAfterDelete(w) PROVE Clocked'
  BY <1>0, <1>5 DEF TouchAfterDelete, mirrorVars, Clocked, TypeOK, Write
<1>6. ASSUME NEW c \in Clubs, PassOpens(c) PROVE Clocked'
  <2>1. PICK pass \in Pass :
          /\ IsAnswer(pass, clock, TRUE, cursor[c] = NoCursor,
                      StepBack(cursor[c].since), None)
          /\ sync' = [sync EXCEPT ![c] = pass]
    BY <1>6, OpensWith
  <2> DEFINE full == cursor[c] = NoCursor
             checks == TRUE
  <2>2. IsAnswer(pass, clock, checks, full, StepBack(cursor[c].since), None)
    BY <2>1
  <2>3. UNCHANGED <<clock, post, write, cursor>>
    BY <1>6 DEF PassOpens
  <2>4. clock <= clock /\ clock <= clock + PassLength
    BY <1>0
  <2> HIDE DEF full, checks
  <2> QED
    BY <1>0, <2>1, <2>2, <2>3, <2>4, AnswerIsClocked
<1>7. ASSUME NEW c \in Clubs, PassContinues(c) PROVE Clocked'
  <2>1. PICK pass \in Pass :
          /\ IsAnswer(pass, sync[c].started, EveryPage, cursor[c] = NoCursor,
                      cursor[c].since, cursor[c].id)
          /\ sync' = [sync EXCEPT ![c] = pass]
    BY <1>7, ContinuesWith
  <2> DEFINE full == cursor[c] = NoCursor
  <2>2. IsAnswer(pass, sync[c].started, EveryPage, full,
                 cursor[c].since, cursor[c].id)
    BY <2>1
  <2>3. UNCHANGED <<clock, post, write, cursor>>
    BY <1>7 DEF PassContinues
  <2>4. /\ sync[c].started \in Nat
        /\ sync[c].started <= clock /\ clock <= sync[c].started + PassLength
    BY <1>7 DEF PassContinues, Clocked, TypeOK, Pass
  <2> HIDE DEF full
  <2> QED
    BY <2>1, <2>2, <2>3, <2>4, AnswerIsClocked
<1>8. ASSUME NEW c \in Clubs, StampSync(c) PROVE Clocked'
  BY <1>8 DEF StampSync, Clocked, TypeOK, Pass
<1>9. ASSUME NEW c \in Clubs, Apply(c) \/ Discard(c) PROVE Clocked'
  <2> DEFINE next == [NoPass EXCEPT !.at = "next", !.started = sync[c].started]
  <2>1. next.started = sync[c].started /\ next.last.since = 0 /\ NoPass.at = "idle"
        /\ NoCursor.since = 0
    BY DEF NoPass, NoCursor
  <2>2. sync'[c] \in {NoPass, next} /\ \A d \in Clubs \ {c} : sync'[d] = sync[d]
    BY <1>9 DEF Apply, Discard, TypeOK
  <2>3. \A d \in Clubs : cursor'[d] \in {cursor[d], NoCursor}
          \/ (d = c /\ cursor'[d] = sync[c].last)
    BY <1>9 DEF Apply, Discard, TypeOK
  <2>4. sync[c].at # "idle"
    BY <1>9 DEF Apply, Discard
  <2> HIDE DEF next
  <2>5. UNCHANGED <<clock, post, write>>
    BY <1>9 DEF Apply, Discard
  <2>6. \A d \in Clubs : cursor'[d].since <= clock
    BY <1>0, <2>1, <2>3, <2>4 DEF Clocked
  <2>7. ASSUME NEW d \in Clubs, sync'[d].at # "idle"
        PROVE  /\ sync'[d].started <= clock /\ clock <= sync'[d].started + PassLength
               /\ sync'[d].last.since <= clock
    BY <1>0, <2>1, <2>2, <2>4, <2>7 DEF Clocked
  <2> QED
    BY <2>5, <2>6, <2>7 DEF Clocked
<1>10. ASSUME NEW c \in Clubs, PassFails(c) PROVE Clocked'
  BY <1>10 DEF PassFails, Clocked, TypeOK, NoPass
<1>11. CASE SaveSettings
  BY <1>11 DEF SaveSettings, mirrorVars, Clocked
<1>12. CASE Prune
  <2>1. ASSUME NEW p \in Posts
        PROVE  post'[p] = post[p] \/ post'[p].updatedAt = 0
    BY <1>12 DEF Prune, Pruned, NoRow
  <2>2. UNCHANGED <<clock, write, cursor, sync>>
    BY <1>12 DEF Prune
  <2> QED
    BY <1>0, <2>1, <2>2 DEF Clocked
<1>13. CASE Tick
  <2>1. \A p \in Posts : post[p].updatedAt \in Nat
    BY DEF TypeOK, Row
  <2>2. \A w \in Writers : write[w].stamp \in Nat
    BY DEF TypeOK, Write
  <2>3. \A c \in Clubs : cursor[c].since \in Nat /\ sync[c].started \in Nat
                         /\ sync[c].last.since \in Nat
    BY DEF TypeOK, Cursor, Pass
  <2> QED
    BY <1>0, <1>13, <2>1, <2>2, <2>3 DEF Tick, mirrorVars, Clocked
<1>14. CASE UNCHANGED vars
  BY <1>14 DEF vars, Clocked
<1> QED
  BY <1>1, <1>2, <1>3, <1>4, <1>5, <1>6, <1>7, <1>8, <1>9, <1>10, <1>11, <1>12,
     <1>13, <1>14 DEF Next, WriterNext, PassStep
-----------------------------------------------------------------------------
(***************************************************************************)
(* Cursors.                                                                *)
(***************************************************************************)
LEMMA CursorsInit == Init => Cursors
  BY DEF Init, Cursors, Answering, NoPass

LEMMA CursorsKept == TypeOK /\ Cursors /\ [Next]_vars => Cursors'
<1> SUFFICES ASSUME TypeOK, Cursors, [Next]_vars PROVE Cursors'
  OBVIOUS
<1>1. ASSUME NEW c \in Clubs, PassOpens(c) \/ PassContinues(c) PROVE Cursors'
  <2>1. PICK pass \in Pass :
          /\ sync' = [sync EXCEPT ![c] = pass]
          /\ pass.last = NoCursor => pass.rows = {} /\ ~pass.more
    BY <1>1, OpensWith, ContinuesWith DEF IsAnswer
  <2>2. UNCHANGED <<cursor, copy>>
    BY <1>1 DEF PassOpens, PassContinues
  <2> QED
    BY <2>1, <2>2 DEF Cursors, Answering, TypeOK
<1>2. ASSUME NEW c \in Clubs, StampSync(c) PROVE Cursors'
  BY <1>2 DEF StampSync, Cursors, Answering, TypeOK, Pass
<1>3. ASSUME NEW c \in Clubs, Apply(c) PROVE Cursors'
  <2>1. /\ cursor' = [cursor EXCEPT ![c] = cursor'[c]]
        /\ copy' = [copy EXCEPT ![c] = copy'[c]]
        /\ sync' = [sync EXCEPT ![c] = sync'[c]]
        /\ ~Answering(c)'
    BY <1>3 DEF Apply, TypeOK, Answering, NoPass
  <2>2. ASSUME cursor'[c] = NoCursor, NEW p \in Posts PROVE copy'[c][p] = 0
    BY <1>3, <2>2 DEF Apply, TypeOK, Cursors, Answering
  <2> QED
    BY <2>1, <2>2 DEF Cursors, Answering, TypeOK
<1>4. ASSUME NEW c \in Clubs, Discard(c) PROVE Cursors'
  BY <1>4 DEF Discard, Cursors, Answering, TypeOK, NoPass
<1>5. ASSUME NEW c \in Clubs, PassFails(c) PROVE Cursors'
  BY <1>5 DEF PassFails, Cursors, Answering, TypeOK, NoPass
<1>6. CASE UNCHANGED <<cursor, copy, sync>>
  BY <1>6 DEF Cursors, Answering
<1> QED
  BY <1>1, <1>2, <1>3, <1>4, <1>5, <1>6
  DEF Next, WriterNext, PassStep, vars, mirrorVars, Stamp, DeleteImage, Commit,
      WriteFails, TouchAfterDelete, DeleteDies, SaveSettings, Prune, Tick

-----------------------------------------------------------------------------
(***************************************************************************)
(* What a mirror does not show yet it will ask for, if the overlap is      *)
(* longer than a write and a pass may last.                                *)
(***************************************************************************)
LEMMA SaysKept ==
  ASSUME NEW p \in Posts, NEW v, post'[p] = post[p], Says(p, v)
  PROVE  Says(p, v)'
  BY DEF Says, Exists, Serialized

LEMMA WriteKeepsFound ==
  ASSUME FeedInv, Overlap > CommitLag + PassLength,
         UNCHANGED <<cursor, copy, sync>>,
         \A p \in Posts :
           \/ ~Exists(p)'
           \/ /\ post'[p].updatedAt \in Nat
              /\ clock <= post'[p].updatedAt + CommitLag
           \/ /\ post'[p].updatedAt = post[p].updatedAt
              /\ \A v \in Nat : Says(p, v) => Says(p, v)'
  PROVE  Found'
<1> SUFFICES ASSUME NEW c \in Clubs, NEW p \in Posts
             PROVE  (FoundNext(c, p) /\ FoundOnward(c, p) /\ FoundAfter(c, p))'
  BY DEF Found
<1>1. /\ clock \in Nat /\ cursor[c].since \in Nat /\ sync[c].started \in Nat
      /\ cursor[c].since <= clock
      /\ sync[c].at # "idle" => sync[c].started <= clock
      /\ Overlap \in Nat /\ CommitLag \in Nat /\ PassLength \in Nat
  BY FeedAssumption DEF FeedInv, TypeOK, Clocked, Cursor, Pass
<1>2. copy[c][p] \in Nat /\ Applied(c, p) \in Nat /\ Applied(c, p)' = Applied(c, p)
  BY DEF FeedInv, TypeOK, Pass, Applied
<1>3. CASE ~Exists(p)'
  BY <1>3 DEF Says, FoundNext, FoundOnward, FoundAfter
<1>4. CASE /\ post'[p].updatedAt \in Nat
           /\ clock <= post'[p].updatedAt + CommitLag
  <2>1. post'[p].updatedAt > cursor[c].since - Overlap
    BY <1>1, <1>4
  <2>2. sync[c].at # "idle" => Recent(p, sync[c].started)'
    BY <1>1, <1>4 DEF Recent
  <2> QED
    BY <2>1, <2>2 DEF FoundNext, FoundOnward, FoundAfter, StepBack, Answering
<1>5. CASE /\ post'[p].updatedAt = post[p].updatedAt
           /\ \A v \in Nat : Says(p, v) => Says(p, v)'
  BY <1>2, <1>5 DEF FeedInv, Found, FoundNext, FoundOnward, FoundAfter, Recent,
     After, Answering
<1> QED
  BY <1>3, <1>4, <1>5

\* An answer, if a post it was not asked for needs none.
LEMMA AnswerKeepsFound ==
  ASSUME FeedInv, NEW c \in Clubs, NEW pass \in Pass,
         NEW started \in Nat, NEW checks, NEW full, NEW since, NEW id,
         IsAnswer(pass, started, checks, full, since, id),
         \A p \in Posts \ Asked(full, since, id) :
           Says(p, copy[c][p]) \/ Recent(p, started),
         sync' = [sync EXCEPT ![c] = pass],
         UNCHANGED <<post, write, cursor, copy>>
  PROVE  Found'
<1>1. ASSUME NEW d \in Clubs \ {c}, NEW p \in Posts
      PROVE  (FoundNext(d, p) /\ FoundOnward(d, p) /\ FoundAfter(d, p))'
  BY DEF FeedInv, TypeOK, Found, FoundNext, FoundOnward, FoundAfter, Says, Exists,
     Serialized, Applied, Answering, Recent, After
<1>2. ASSUME NEW p \in Posts
      PROVE  (FoundNext(c, p) /\ FoundOnward(c, p) /\ FoundAfter(c, p))'
  <2>1. sync'[c] = pass /\ pass.at = "read" /\ pass.started = started
    BY DEF IsAnswer, FeedInv, TypeOK
  <2>2. FoundNext(c, p)' /\ FoundOnward(c, p)'
    BY <2>1 DEF FeedInv, Found, FoundNext, FoundOnward, Says, Exists, Serialized
  <2>3. CASE p \in pass.rows
    <3>1. Applied(c, p)' = Serialized(p)
      BY <2>1, <2>3 DEF Applied, IsAnswer
    <3>2. Says(p, Applied(c, p))'
      BY <3>1 DEF Says, Exists, Serialized
    <3> QED
      BY <2>2, <3>2 DEF FoundAfter
  <2>4. CASE p \notin pass.rows /\ p \in Asked(full, since, id)
    <3>1. pass.more /\ After(p, pass.last.since, pass.last.id)
      BY <2>4 DEF IsAnswer
    <3>2. (sync[c].more /\ After(p, sync[c].last.since, sync[c].last.id))'
      BY <2>1, <3>1 DEF After
    <3> QED
      BY <2>2, <3>2 DEF FoundAfter
  <2>5. CASE p \notin pass.rows /\ p \notin Asked(full, since, id)
    <3>1. Applied(c, p)' = copy[c][p]
      BY <2>1, <2>5 DEF Applied
    <3>2. Says(p, copy[c][p]) \/ Recent(p, started)
      BY <2>5
    <3>3. Says(p, Applied(c, p))' \/ Recent(p, sync[c].started)'
      BY <2>1, <3>1, <3>2 DEF Says, Exists, Serialized, Recent
    <3> QED
      BY <2>2, <3>3 DEF FoundAfter
  <2> QED
    BY <2>2, <2>3, <2>4, <2>5
<1> QED
  BY <1>1, <1>2 DEF Found

\* A club with no cursor shows nothing, and is given whatever is visible.
LEMMA NotAskedFull ==
  ASSUME Cursors, NEW c \in Clubs, cursor[c] = NoCursor, NEW since, NEW id,
         NEW p \in Posts \ Asked(TRUE, since, id)
  PROVE  Says(p, copy[c][p])
  BY DEF Cursors, Asked, Says, Serialized
LEMMA FoundInit == Init => Found
  BY DEF Init, Found, FoundNext, FoundOnward, FoundAfter, Answering, NoPass

LEMMA StampKeepsFound ==
  ASSUME FeedInv, Overlap > CommitLag + PassLength,
         UNCHANGED <<post, cursor, copy, sync>>
  PROVE  Found'
<1>1. ASSUME NEW p \in Posts, NEW v \in Nat, Says(p, v) PROVE Says(p, v)'
  BY <1>1, SaysKept
<1> QED
  BY <1>1, WriteKeepsFound

LEMMA CommitKeepsFound ==
  ASSUME FeedInv, Overlap > CommitLag + PassLength, NEW w \in Writers, Commit(w)
  PROVE  Found'
<1> DEFINE p == write[w].post
<1>1. p \in Posts /\ write[w].stamp \in Nat /\ clock <= write[w].stamp + CommitLag
  BY DEF FeedInv, TypeOK, Clocked, Write, Commit
<1>2. post'[p].updatedAt = write[w].stamp
  BY <1>1 DEF FeedInv, TypeOK, Row, Commit, Changed
<1>3. ASSUME NEW q \in Posts \ {p} PROVE post'[q] = post[q]
  BY DEF FeedInv, TypeOK, Commit
<1>5. UNCHANGED <<cursor, copy, sync>>
  BY DEF Commit, mirrorVars
<1>6. ASSUME NEW q \in Posts \ {p}, NEW v \in Nat, Says(q, v) PROVE Says(q, v)'
  BY <1>3, <1>6, SaysKept
<1> HIDE DEF p
<1> QED
  BY <1>1, <1>2, <1>3, <1>5, <1>6, WriteKeepsFound DEF p

LEMMA DeleteKeepsFound ==
  ASSUME FeedInv, Overlap > CommitLag + PassLength,
         NEW w \in Writers, NEW p \in Posts, DeleteImage(w, p)
  PROVE  Found'
<1>1. post'[p].state = post[p].state /\ post'[p].updatedAt = post[p].updatedAt
      /\ post[p].version \in Nat /\ post'[p].version = post[p].version + 1
  BY DEF FeedInv, TypeOK, Row, DeleteImage
<1>2. ASSUME NEW q \in Posts \ {p} PROVE post'[q] = post[q]
  BY DEF FeedInv, TypeOK, DeleteImage
<1>3. post'[p].stale
  BY DEF FeedInv, TypeOK, Row, DeleteImage
<1>5. ASSUME NEW v \in Nat, Says(p, v) PROVE Says(p, v)'
  <2>1. post[p].state # "visible" => v = 0
    BY <1>5 DEF Says, Serialized, DeleteImage, Exists, Mutable
  <2> QED
    BY <1>1, <1>3, <2>1 DEF Says, Serialized
<1>6. ASSUME NEW q \in Posts \ {p}, NEW v \in Nat, Says(q, v) PROVE Says(q, v)'
  BY <1>2, <1>6, SaysKept
<1>7. UNCHANGED <<cursor, copy, sync>>
  BY DEF DeleteImage, mirrorVars
<1> QED
  BY <1>1, <1>2, <1>5, <1>6, <1>7, WriteKeepsFound

LEMMA PruneKeepsFound ==
  ASSUME FeedInv, Overlap > CommitLag + PassLength, Prune
  PROVE  Found'
<1>1. UNCHANGED <<cursor, copy, sync, write>>
  BY DEF Prune
<1>2. ASSUME NEW p \in Posts PROVE ~Exists(p)' \/ post'[p] = post[p]
  BY DEF Prune, Exists, Pruned, NoRow
<1>3. ASSUME NEW p \in Posts, NEW v \in Nat, post'[p] = post[p], Says(p, v)
      PROVE  Says(p, v)'
  BY <1>3, SaysKept
<1> QED
  BY <1>1, <1>2, <1>3, WriteKeepsFound

LEMMA OpenKeepsFound ==
  ASSUME FeedInv, NEW c \in Clubs, PassOpens(c)
  PROVE  Found'
<1>1. PICK pass \in Pass :
        /\ IsAnswer(pass, clock, TRUE, cursor[c] = NoCursor,
                    StepBack(cursor[c].since), None)
        /\ sync' = [sync EXCEPT ![c] = pass]
  BY OpensWith DEF FeedInv
<1> DEFINE full == cursor[c] = NoCursor
           checks == TRUE
           since == StepBack(cursor[c].since)
<1>2. clock \in Nat
  BY DEF FeedInv, TypeOK
<1>3. IsAnswer(pass, clock, checks, full, since, None)
  BY <1>1
<1>4. ASSUME NEW p \in Posts \ Asked(full, since, None)
      PROVE  Says(p, copy[c][p]) \/ Recent(p, clock)
  <2>1. CASE cursor[c] = NoCursor
    BY <2>1, NotAskedFull DEF FeedInv, Asked
  <2>2. CASE cursor[c] # NoCursor
    <3>1. Exists(p) => ~(post[p].updatedAt > since)
      BY <2>2 DEF Asked, After
    <3>2. Says(p, copy[c][p]) \/ post[p].updatedAt > since
      BY <2>2 DEF FeedInv, Found, FoundNext
    <3> QED
      BY <3>1, <3>2 DEF Says
  <2> QED
    BY <2>1, <2>2
<1>5. UNCHANGED <<post, write, cursor, copy>>
  BY DEF PassOpens
<1> HIDE DEF full, checks, since
<1> QED
  BY <1>1, <1>2, <1>3, <1>4, <1>5, AnswerKeepsFound

LEMMA ContinueKeepsFound ==
  ASSUME FeedInv, NEW c \in Clubs, PassContinues(c)
  PROVE  Found'
<1> DEFINE full == cursor[c] = NoCursor
           started == sync[c].started
<1>1. PICK pass \in Pass :
        /\ IsAnswer(pass, started, EveryPage, full, cursor[c].since, cursor[c].id)
        /\ sync' = [sync EXCEPT ![c] = pass]
  BY ContinuesWith DEF FeedInv
<1>2. started \in Nat
  BY DEF FeedInv, TypeOK, Pass
<1>3. ASSUME NEW p \in Posts \ Asked(full, cursor[c].since, cursor[c].id)
      PROVE  Says(p, copy[c][p]) \/ Recent(p, started)
  <2>1. CASE cursor[c] = NoCursor
    BY <2>1, NotAskedFull DEF FeedInv, Asked
  <2>2. CASE cursor[c] # NoCursor
    <3>1. Exists(p) => ~After(p, cursor[c].since, cursor[c].id)
      BY <2>2 DEF Asked
    <3>2. \/ Says(p, copy[c][p]) \/ Recent(p, started)
          \/ After(p, cursor[c].since, cursor[c].id)
      BY <2>2 DEF FeedInv, Found, FoundOnward, PassContinues
    <3> QED
      BY <3>1, <3>2 DEF Says
  <2> QED
    BY <2>1, <2>2
<1>4. UNCHANGED <<post, write, cursor, copy>>
  BY DEF PassContinues
<1> HIDE DEF full, started
<1> QED
  BY <1>1, <1>2, <1>3, <1>4, AnswerKeepsFound

LEMMA ApplyKeepsFound ==
  ASSUME FeedInv, Overlap > CommitLag + PassLength, NEW c \in Clubs, Apply(c)
  PROVE  Found'
<1>1. /\ cursor' = [cursor EXCEPT ![c] = cursor'[c]]
      /\ copy' = [copy EXCEPT ![c] = copy'[c]]
      /\ sync' = [sync EXCEPT ![c] = sync'[c]]
      /\ UNCHANGED <<post, write>>
  BY DEF Apply, FeedInv, TypeOK
<1>2. ASSUME NEW d \in Clubs \ {c}, NEW p \in Posts
      PROVE  (FoundNext(d, p) /\ FoundOnward(d, p) /\ FoundAfter(d, p))'
  BY <1>1 DEF FeedInv, TypeOK, Found, FoundNext, FoundOnward, FoundAfter, Says,
     Exists, Serialized, Applied, Answering, Recent, After
<1>3. ASSUME NEW p \in Posts
      PROVE  (FoundNext(c, p) /\ FoundOnward(c, p) /\ FoundAfter(c, p))'
  <2>1. /\ sync[c].at = "answered" /\ sync[c] \in Pass /\ post[p].updatedAt \in Nat
        /\ copy'[c][p] = Applied(c, p)
        /\ cursor'[c] = IF sync[c].last = NoCursor THEN cursor[c] ELSE sync[c].last
        /\ sync'[c].at = IF sync[c].more THEN "next" ELSE "idle"
        /\ sync[c].more => sync'[c].started = sync[c].started
    BY DEF Apply, FeedInv, TypeOK, Applied, NoPass, Row
  <2>2. \/ Says(p, Applied(c, p)) \/ Recent(p, sync[c].started)
        \/ sync[c].more /\ After(p, sync[c].last.since, sync[c].last.id)
    BY <2>1 DEF FeedInv, Found, FoundAfter, Answering
  <2>3. FoundAfter(c, p)'
    BY <2>1 DEF FoundAfter, Answering
  <2>4. CASE Says(p, Applied(c, p))
    <3>1. Says(p, copy[c][p])'
      BY <1>1, <2>1, <2>4 DEF Says, Exists, Serialized
    <3> QED
      BY <2>3, <3>1 DEF FoundNext, FoundOnward
  <2>5. CASE Recent(p, sync[c].started)
    <3>1. FoundOnward(c, p)'
      BY <1>1, <2>1, <2>5 DEF FoundOnward, Recent
    <3>2. /\ clock \in Nat /\ cursor'[c].since \in Nat /\ cursor'[c].since <= clock
          /\ clock <= sync[c].started + PassLength
      BY <2>1 DEF FeedInv, TypeOK, Clocked, Cursor, Pass
    <3>3. post[p].updatedAt > cursor'[c].since - Overlap
      <4>1. sync[c].started \in Nat
        BY <2>1 DEF Pass
      <4> QED
        BY <2>1, <2>5, <3>2, <4>1, FeedAssumption DEF Recent
    <3> QED
      BY <1>1, <2>3, <3>1, <3>3 DEF FoundNext, StepBack
  <2>6. CASE sync[c].more /\ After(p, sync[c].last.since, sync[c].last.id)
    <3>1. cursor'[c] = sync[c].last /\ sync[c].last.since \in Nat
      BY <2>1, <2>6 DEF FeedInv, Cursors, Answering, Pass, Cursor
    <3>2. FoundOnward(c, p)'
      BY <1>1, <2>6, <3>1 DEF FoundOnward, After
    <3>3. post[p].updatedAt >= cursor'[c].since
      BY <2>1, <2>6, <3>1 DEF After
    <3>4. Overlap \in Nat /\ Overlap > 0
      BY FeedAssumption
    <3>5. post[p].updatedAt > cursor'[c].since - Overlap
      BY <2>1, <3>1, <3>3, <3>4
    <3> QED
      BY <1>1, <2>3, <3>2, <3>5 DEF FoundNext, StepBack
  <2> QED
    BY <2>2, <2>4, <2>5, <2>6
<1> QED
  BY <1>2, <1>3 DEF Found

\* A club that starts over, or whose pass fails, or is answered.
LEMMA RestKeepsFound ==
  ASSUME FeedInv, NEW c \in Clubs, StampSync(c) \/ Discard(c) \/ PassFails(c)
  PROVE  Found'
<1>1. UNCHANGED <<post, write>>
  BY DEF StampSync, Discard, PassFails
<1>2. ASSUME NEW d \in Clubs \ {c}, NEW p \in Posts
      PROVE  (FoundNext(d, p) /\ FoundOnward(d, p) /\ FoundAfter(d, p))'
  <2>1. cursor'[d] = cursor[d] /\ copy'[d] = copy[d] /\ sync'[d] = sync[d]
    BY DEF StampSync, Discard, PassFails, FeedInv, TypeOK
  <2> QED
    BY <1>1, <2>1 DEF FeedInv, Found, FoundNext, FoundOnward, FoundAfter, Says,
       Exists, Serialized, Applied, Answering, Recent, After
<1>3. ASSUME NEW p \in Posts
      PROVE  (FoundNext(c, p) /\ FoundOnward(c, p) /\ FoundAfter(c, p))'
  <2>1. CASE StampSync(c)
    <3>1. /\ sync'[c] = [sync[c] EXCEPT !.at = "answered"] /\ sync[c] \in Pass
          /\ UNCHANGED <<cursor, copy>> /\ Answering(c)
      BY <2>1 DEF StampSync, FeedInv, TypeOK, Answering
    <3>2. /\ sync'[c].at = "answered" /\ sync'[c].started = sync[c].started
          /\ sync'[c].rows = sync[c].rows /\ sync'[c].page = sync[c].page
          /\ sync'[c].last = sync[c].last /\ sync'[c].more = sync[c].more
      BY <3>1 DEF Pass
    <3> QED
      BY <1>1, <3>1, <3>2 DEF FeedInv, Found, FoundNext, FoundOnward, FoundAfter,
         Says, Exists, Serialized, Applied, Answering, Recent, After
  <2>2. CASE Discard(c)
    BY <2>2 DEF Discard, FeedInv, TypeOK, FoundNext, FoundOnward, FoundAfter,
       Answering, NoPass
  <2>3. CASE PassFails(c)
    <3>1. sync'[c].at = "idle" /\ UNCHANGED <<cursor, copy>>
      BY <2>3 DEF PassFails, FeedInv, TypeOK, NoPass
    <3> QED
      BY <1>1, <3>1 DEF FeedInv, Found, FoundNext, FoundOnward, FoundAfter, Says,
         Exists, Serialized, Answering
  <2> QED
    BY <2>1, <2>2, <2>3
<1> QED
  BY <1>2, <1>3 DEF Found
LEMMA FoundKept ==
  ASSUME FeedInv, Overlap > CommitLag + PassLength, [Next]_vars
  PROVE  Found'
<1>1. ASSUME NEW w \in Writers, NEW p \in Posts, NEW change \in Requests,
             Stamp(w, p, change)
      PROVE  Found'
  BY <1>1, StampKeepsFound DEF Stamp, mirrorVars
<1>2. ASSUME NEW w \in Writers,
             WriteFails(w) \/ TouchAfterDelete(w) \/ DeleteDies(w)
      PROVE  Found'
  BY <1>2, StampKeepsFound DEF WriteFails, TouchAfterDelete, DeleteDies, mirrorVars
<1>3. CASE SaveSettings \/ Tick \/ UNCHANGED vars
  <2>1. UNCHANGED <<post, write, cursor, copy, sync>>
    BY <1>3 DEF SaveSettings, Tick, vars, mirrorVars
  <2> QED
    BY <2>1, StampKeepsFound
<1> QED
  BY <1>1, <1>2, <1>3, CommitKeepsFound, DeleteKeepsFound, PruneKeepsFound,
     OpenKeepsFound, ContinueKeepsFound, ApplyKeepsFound, RestKeepsFound
  DEF Next, WriterNext, PassStep

LEMMA FeedInductive ==
  ASSUME Overlap > CommitLag + PassLength
  PROVE  Spec => []FeedInv
<1>1. Init => FeedInv
  BY TypeInit, ClockedInit, CursorsInit, FoundInit DEF FeedInv
<1>2. FeedInv /\ [Next]_vars => FeedInv'
  BY TypeKept, ClockedKept, CursorsKept, FoundKept DEF FeedInv
<1> QED
  BY <1>1, <1>2, PTL DEF Spec

\* Between two passes, a post a club shows wrongly is one its next pass asks for,
\* provided the site steps back further than a write and a pass may last; only a
\* picture that was deleted without a touch of its post is passed by, until the
\* post is written again.
THEOREM MissNothing ==
  ASSUME Overlap > CommitLag + PassLength
  PROVE  Spec => []MirrorsMissNothing
<1>1. FeedInv => MirrorsMissNothing
  BY DEF FeedInv, Found, FoundNext, Says, MirrorsMissNothing, Settled
<1> QED
  BY <1>1, FeedInductive, PTL
-----------------------------------------------------------------------------
(***************************************************************************)
(* Stubs come to rest.                                                     *)
(***************************************************************************)
LEMMA ChangedIs ==
  ASSUME NEW row \in Row, NEW change, NEW stamp \in Nat
  PROVE  LET changed == Changed(row, change, stamp)
         IN  /\ changed.updatedAt = stamp
             /\ changed.removedAt = IF change = "remove" THEN stamp ELSE row.removedAt
             /\ changed.state = "removed" =>
                  change = "remove" \/ row.state = "removed"
             /\ row.state = "removed" => changed.state = "removed"
             /\ row.touched => changed.touched
             /\ row.state = "removed" /\ change = "touch" => changed.touched
             /\ row.state # "pruned" => changed.state # "pruned"
<1> DEFINE version == IF change = "share" THEN 1
                      ELSE IF change = "edit" /\ row.version < MaxVersion
                           THEN row.version + 1 ELSE row.version
           removed == IF change = "remove" THEN stamp ELSE row.removedAt
           touched == row.touched \/ (row.state = "removed" /\ change = "touch")
           state == IF change = "remove" \/ row.state = "removed" THEN "removed"
                    ELSE IF change \in {"share", "show"} THEN "visible"
                    ELSE IF change = "hide" THEN "hidden" ELSE row.state
<1>1. Changed(row, change, stamp) =
        [row EXCEPT !.updatedAt = stamp, !.removedAt = removed, !.touched = touched,
                    !.stale = FALSE, !.version = version, !.state = state]
  BY DEF Changed
<1> HIDE DEF version
<1> QED
  BY <1>1 DEF Row

LEMMA StubsSettleKept ==
  ASSUME TypeOK, Clocked, StubsSettle, [Next]_vars
  PROVE  StubsSettle'
<1>0. clock \in Nat /\ CommitLag \in Nat
  BY FeedAssumption DEF TypeOK
<1>a. \A p \in Posts : post[p] \in Row /\ post[p].updatedAt \in Nat
                       /\ post[p].removedAt \in Nat
  BY DEF TypeOK, Row
<1>b. \A w \in Writers : write[w] \in Write /\ write[w].stamp \in Nat
  BY DEF TypeOK, Write
<1>1. ASSUME NEW w \in Writers, NEW p \in Posts, NEW change \in Requests,
             Stamp(w, p, change)
      PROVE  StubsSettle'
  <2>1. (~Stub(p) \/ change = "touch") /\ UNCHANGED post
    BY <1>1, FeedAssumption DEF Stamp, Allowed, Stub, Mutable
  <2>2. ASSUME NEW v \in Writers
        PROVE  \/ write'[v] = write[v]
               \/ write'[v].post = p /\ write'[v].change = change
    BY <1>1 DEF Stamp, TypeOK
  <2> QED
    BY <2>1, <2>2 DEF StubsSettle, Stub
<1>2. ASSUME NEW w \in Writers, NEW p \in Posts, DeleteImage(w, p)
      PROVE  StubsSettle'
  <2>1. ~Stub(p) /\ ~Stub(p)'
    BY <1>2, <1>a DEF DeleteImage, Stub, Mutable, TypeOK, Row
  <2>2. ASSUME NEW q \in Posts \ {p} PROVE post'[q] = post[q]
    BY <1>2 DEF DeleteImage, TypeOK
  <2>3. ASSUME NEW v \in Writers PROVE write'[v] = write[v] \/ write'[v].post = p
    BY <1>2 DEF DeleteImage, TypeOK
  <2> QED
    BY <2>1, <2>2, <2>3 DEF StubsSettle, Stub
<1>3. ASSUME NEW w \in Writers, Commit(w) PROVE StubsSettle'
  <2>1. PICK p \in Posts : p = write[w].post
    BY <1>3 DEF Commit, TypeOK
  <2>2. write[w].stamp <= clock /\ clock <= write[w].stamp + CommitLag
    BY <1>3 DEF Commit, Clocked
  <2>3. ASSUME NEW q \in Posts \ {p} PROVE post'[q] = post[q]
    BY <1>3, <2>1 DEF Commit, TypeOK
  <2>4. post'[p] = Changed(post[p], write[w].change, write[w].stamp)
        /\ post[p] \in Row
    BY <1>3, <2>1 DEF Commit, TypeOK
  <2>5. ASSUME NEW v \in Writers PROVE write'[v] = write[v] \/ write'[v].at = "idle"
    BY <1>3 DEF Commit, TypeOK, NoWrite
  <2>6. /\ post'[p].updatedAt = write[w].stamp
        /\ IF write[w].change = "remove"
           THEN post'[p].removedAt = write[w].stamp
           ELSE /\ post'[p].removedAt = post[p].removedAt
                /\ Stub(p)' => Stub(p)
        /\ post[p].touched => post'[p].touched
        /\ Stub(p) /\ write[w].change = "touch" => post'[p].touched
    BY <2>4, ChangedIs, <1>b DEF Stub
  <2>7. ASSUME NEW v \in Writers, write[v].at # "idle"
        PROVE  write[v].stamp <= clock
    BY <2>7 DEF Clocked
  <2>8. CASE write[w].change = "remove"
    <3>1. post'[p].removedAt = write[w].stamp /\ post'[p].updatedAt = write[w].stamp
      BY <2>6, <2>8
    <3>2. ASSUME NEW v \in Writers, write'[v].at # "idle"
          PROVE  write'[v].stamp <= post'[p].removedAt + CommitLag
                 /\ write'[v].stamp <= post'[p].removedAt + 2 * CommitLag
      BY <1>0, <1>b, <2>2, <2>5, <2>7, <3>1, <3>2
    <3>3. post'[p].updatedAt <= post'[p].removedAt + 2 * CommitLag
      BY <1>0, <1>b, <3>1
    <3> QED
      BY <2>3, <2>5, <3>2, <3>3 DEF StubsSettle, Stub
  <2>9. CASE write[w].change # "remove"
    <3>1. ASSUME Stub(p)', ~post'[p].touched
          PROVE  post'[p].updatedAt <= post'[p].removedAt + 2 * CommitLag
      BY <1>3, <2>1, <2>6, <2>9, <3>1 DEF StubsSettle, Commit
    <3>2. ASSUME Stub(p)', NEW v \in Writers, write'[v].post = p,
                 write'[v].change # "touch"
          PROVE  /\ write'[v].at = "deleted" =>
                      write'[v].stamp <= post'[p].removedAt + CommitLag
                 /\ write'[v].at = "stamped" =>
                      write'[v].stamp <= post'[p].removedAt + 2 * CommitLag
      BY <2>1, <2>5, <2>6, <2>9, <3>2 DEF StubsSettle
    <3>3. ASSUME NEW q \in Posts \ {p}, Stub(q)'
          PROVE  /\ ~post'[q].touched =>
                      post'[q].updatedAt <= post'[q].removedAt + 2 * CommitLag
                 /\ \A v \in Writers : write'[v].post = q /\ write'[v].change # "touch" =>
                      /\ write'[v].at = "deleted" =>
                           write'[v].stamp <= post'[q].removedAt + CommitLag
                      /\ write'[v].at = "stamped" =>
                           write'[v].stamp <= post'[q].removedAt + 2 * CommitLag
      BY <2>3, <2>5, <3>3 DEF StubsSettle, Stub
    <3> QED
      BY <3>1, <3>2, <3>3 DEF StubsSettle
  <2> QED
    BY <2>8, <2>9
<1>4. ASSUME NEW w \in Writers, WriteFails(w) \/ DeleteDies(w) PROVE StubsSettle'
  <2>1. ASSUME NEW v \in Writers PROVE write'[v] = write[v] \/ write'[v].at = "idle"
    BY <1>4 DEF WriteFails, DeleteDies, TypeOK, NoWrite
  <2> QED
    BY <1>4, <2>1 DEF WriteFails, DeleteDies, StubsSettle, Stub
<1>5. ASSUME NEW w \in Writers, TouchAfterDelete(w) PROVE StubsSettle'
  <2>1. /\ write'[w].at = "stamped" /\ write'[w].post = write[w].post
        /\ write'[w].change = write[w].change
        /\ write'[w].stamp = clock /\ clock <= write[w].stamp + CommitLag
        /\ write[w].at = "deleted"
    BY <1>5, <1>b DEF TouchAfterDelete, TypeOK, Clocked, Write
  <2>2. ASSUME NEW v \in Writers \ {w} PROVE write'[v] = write[v]
    BY <1>5 DEF TouchAfterDelete, TypeOK
  <2>3. ASSUME NEW p \in Posts, Stub(p), write[w].post = p,
               write[w].change # "touch"
        PROVE  write'[w].stamp <= post[p].removedAt + 2 * CommitLag
    <3>1. write[w].stamp <= post[p].removedAt + CommitLag
      BY <2>1, <2>3 DEF StubsSettle
    <3> QED
      BY <1>0, <1>a, <1>b, <2>1, <3>1
  <2>4. UNCHANGED post
    BY <1>5 DEF TouchAfterDelete
  <2> QED
    BY <2>1, <2>2, <2>3, <2>4 DEF StubsSettle, Stub
<1>6. CASE Prune
  <2>1. \A p \in Posts : post'[p] = post[p] \/ ~Stub(p)'
    BY <1>6 DEF Prune, Pruned, NoRow, Stub
  <2> QED
    BY <1>6, <2>1 DEF Prune, StubsSettle, Stub
<1>7. CASE UNCHANGED <<post, write>>
  BY <1>7 DEF StubsSettle, Stub
<1> QED
  BY <1>1, <1>2, <1>3, <1>4, <1>5, <1>6, <1>7
  DEF Next, WriterNext, PassStep, vars, mirrorVars, PassOpens, PassContinues,
      StampSync, Apply, Discard, PassFails, SaveSettings, Tick

LEMMA AnswersKept ==
  ASSUME TypeOK, Clocked, Answers, [Next]_vars
  PROVE  Answers'
<1>1. ASSUME NEW c \in Clubs, NEW pass \in Pass, sync' = [sync EXCEPT ![c] = pass],
             pass.at \notin {"read", "answered"}
               \/ \E h \in Horizons : pass.horizon >= pass.started - h
      PROVE  Answers'
  BY <1>1 DEF Answers, Answering, TypeOK
<1>2. ASSUME NEW c \in Clubs, PassOpens(c) PROVE Answers'
  <2>1. PICK pass \in Pass :
          /\ sync' = [sync EXCEPT ![c] = pass]
          /\ pass.started = clock
          /\ \E h \in Horizons : pass.horizon = HorizonAt(clock, h)
    BY <1>2, OpensWith DEF IsAnswer
  <2>2. clock \in Nat /\ Horizons \subseteq Nat
    BY FeedAssumption DEF TypeOK
  <2>3. \E h \in Horizons : pass.horizon >= pass.started - h
    BY <2>1, <2>2 DEF HorizonAt
  <2> QED
    BY <1>1, <2>1, <2>3
<1>3. ASSUME NEW c \in Clubs, PassContinues(c) PROVE Answers'
  <2>1. PICK pass \in Pass :
          /\ sync' = [sync EXCEPT ![c] = pass]
          /\ pass.started = sync[c].started
          /\ \E h \in Horizons : pass.horizon = HorizonAt(clock, h)
    BY <1>3, ContinuesWith DEF IsAnswer
  <2>2. /\ clock \in Nat /\ Horizons \subseteq Nat
        /\ sync[c].started \in Nat /\ sync[c].started <= clock
    BY <1>3, FeedAssumption DEF TypeOK, Pass, Clocked, PassContinues
  <2>3. \E h \in Horizons : pass.horizon >= pass.started - h
    BY <2>1, <2>2 DEF HorizonAt
  <2> QED
    BY <1>1, <2>1, <2>3
<1>4. ASSUME NEW c \in Clubs, StampSync(c) PROVE Answers'
  BY <1>4 DEF StampSync, Answers, Answering, TypeOK, Pass
<1>5. ASSUME NEW c \in Clubs, Apply(c) \/ Discard(c) \/ PassFails(c) PROVE Answers'
  <2>1. /\ sync'[c].at \in {"next", "idle"}
        /\ \A d \in Clubs \ {c} : sync'[d] = sync[d]
    <3>1. CASE Apply(c)
      BY <3>1 DEF Apply, TypeOK, NoPass
    <3>2. CASE Discard(c)
      BY <3>2 DEF Discard, TypeOK, NoPass
    <3>3. CASE PassFails(c)
      BY <3>3 DEF PassFails, TypeOK, NoPass
    <3> QED
      BY <1>5, <3>1, <3>2, <3>3
  <2> QED
    BY <2>1 DEF Answers, Answering
<1>6. CASE UNCHANGED sync
  BY <1>6 DEF Answers, Answering
<1> QED
  BY <1>2, <1>3, <1>4, <1>5, <1>6
  DEF Next, WriterNext, PassStep, vars, mirrorVars, Stamp, DeleteImage, Commit,
      WriteFails, TouchAfterDelete, DeleteDies, SaveSettings, Prune, Tick
-----------------------------------------------------------------------------
(***************************************************************************)
(* The horizon catches up, if the margin is long enough.                   *)
(***************************************************************************)
MarginSuffices ==
    \A h, g \in Horizons :
        Margin >= 2 * PassLength + 3 * CommitLag + h - g

Kept(c, p) == Shown(c, p) /\ Missed(c, p)

LEMMA Numbers ==
  ASSUME TypeOK
  PROVE  /\ clock \in Nat /\ CommitLag \in Nat /\ PassLength \in Nat
         /\ Margin \in Nat /\ Horizons \subseteq Nat
         /\ \A p \in Posts : post[p].updatedAt \in Nat /\ post[p].removedAt \in Nat
         /\ \A c \in Clubs : /\ cursor[c].since \in Nat /\ sync[c].started \in Nat
                             /\ sync[c].last.since \in Nat /\ sync[c].horizon \in Int
  BY FeedAssumption DEF TypeOK, Row, Cursor, Pass

\* What a step does not touch stays as it was, and time only helps.
LEMMA FrameKept ==
  ASSUME TypeOK, NEW c \in Clubs, NEW p \in Posts,
         cursor'[c] = cursor[c], copy'[c] = copy[c], sync'[c] = sync[c],
         post'[p].state = post[p].state, post'[p].removedAt = post[p].removedAt,
         post[p].touched => post'[p].touched,
         clock' \in Nat, clock <= clock', Kept(c, p)
  PROVE  Kept(c, p)'
<1>1. Shown(c, p)'
  BY DEF Kept, Shown, Stub, Settles, OnPage, Answering, Checked, Will, Applied
<1>2. ASSUME NEW since \in Nat, TooOld(since, clock) PROVE TooOld(since, clock')
  BY <1>2, Numbers DEF TooOld, HorizonAt
<1>3. Missed(c, p)'
  <2>1. cursor[c].since \in Nat /\ sync[c].started + PassLength \in Nat
    BY Numbers
  <2>2. TooOld(cursor[c].since, clock) => TooOld(cursor[c].since, clock')
    BY <1>2, <2>1
  <2>3. TooOld(sync[c].started + PassLength, clock)
          => TooOld(sync[c].started + PassLength, clock')
    BY <1>2, <2>1
  <2>4. TooOld(cursor[c].since, clock') <=> TooOld(cursor[c].since, clock)'
    BY DEF TooOld, HorizonAt
  <2>5. TooOld(sync[c].started + PassLength, clock')
          <=> TooOld(sync[c].started + PassLength, clock)'
    BY DEF TooOld, HorizonAt
  <2> QED
    BY <2>2, <2>3, <2>4, <2>5
    DEF Kept, Missed, OnPage, Answering, Checked, Will, Applied, Outdated
<1> QED
  BY <1>1, <1>3 DEF Kept
LEMMA CommitKeepsHorizon ==
  ASSUME FeedInv, HorizonInv, NEW w \in Writers, Commit(w),
         NEW c \in Clubs, NEW p \in Posts
  PROVE  Kept(c, p)'
<1>1. /\ TypeOK /\ Clocked /\ Kept(c, p)
      /\ UNCHANGED <<clock, cursor, copy, sync>>
  BY DEF FeedInv, HorizonInv, Kept, Commit, mirrorVars
<1>2. clock \in Nat
  BY <1>1, Numbers
<1>3. CASE p # write[w].post
  <2>1. post'[p] = post[p]
    BY <1>1, <1>3 DEF Commit, TypeOK
  <2> QED
    BY <1>1, <1>2, <2>1, FrameKept
<1>4. CASE p = write[w].post
  <2>1. /\ post'[p] = Changed(post[p], write[w].change, write[w].stamp)
        /\ post[p] \in Row /\ write[w].stamp \in Nat /\ post[p].state # "pruned"
        /\ clock <= write[w].stamp + CommitLag
    BY <1>1, <1>4 DEF Commit, TypeOK, Clocked, Write
  <2>2. Missed(c, p)'
    BY <2>1, ChangedIs DEF Missed
  <2>3. CASE ~Stub(p)'
    BY <2>2, <2>3 DEF Kept, Shown
  <2>4. CASE Stub(p)' /\ write[w].change # "remove"
    <3>1. /\ post'[p].state = post[p].state
          /\ post'[p].removedAt = post[p].removedAt
          /\ post[p].touched => post'[p].touched
      BY <2>1, <2>4, ChangedIs DEF Stub
    <3> QED
      BY <1>1, <1>2, <3>1, FrameKept
  <2>5. CASE Stub(p)' /\ write[w].change = "remove"
    <3>1. post'[p].removedAt = write[w].stamp
      BY <2>1, <2>5, ChangedIs
    <3>2. clock <= post'[p].removedAt + 3 * CommitLag
          /\ clock <= post'[p].removedAt + 3 * CommitLag + PassLength
      BY <1>1, <2>1, <3>1, Numbers
    <3>3. cursor[c].since <= clock /\ (sync[c].at # "idle" => sync[c].started <= clock)
          /\ cursor[c].since \in Nat /\ sync[c].started \in Nat
          /\ post'[p].removedAt \in Nat
      BY <1>1, <2>1, <3>1, Numbers DEF Clocked
    <3>4. cursor[c].since <= post'[p].removedAt + 3 * CommitLag + PassLength
          /\ (sync[c].at # "idle" =>
                sync[c].started <= post'[p].removedAt + 3 * CommitLag)
      BY <1>1, <3>2, <3>3, Numbers
    <3>5. Shown(c, p)'
      BY <1>1, <3>4 DEF Shown, Settles, OnPage, Checked, Answering
    <3> QED
      BY <2>2, <3>5 DEF Kept
  <2> QED
    BY <2>3, <2>4, <2>5
<1> QED
  BY <1>3, <1>4

LEMMA PruneKeepsHorizon ==
  ASSUME FeedInv, HorizonInv, MarginSuffices, Prune,
         NEW c \in Clubs, NEW p \in Posts
  PROVE  Kept(c, p)'
<1>1. /\ TypeOK /\ Clocked /\ Kept(c, p)
      /\ UNCHANGED <<clock, cursor, copy, sync>>
  BY DEF FeedInv, HorizonInv, Kept, Prune
<1>2. PICK g \in Horizons : post' = [q \in Posts |->
        IF Prunable(q, g) THEN Pruned(post[q]) ELSE post[q]]
  BY DEF Prune
<1>3. CASE ~Prunable(p, g)
  <2>1. post'[p] = post[p] /\ clock \in Nat
    BY <1>1, <1>2, <1>3, Numbers
  <2> QED
    BY <1>1, <2>1, FrameKept
<1>4. CASE Prunable(p, g)
  <2>1. /\ post'[p].state = "pruned" /\ post'[p].touched = post[p].touched
        /\ Stub(p) /\ post[p].removedAt < clock - g
    BY <1>2, <1>4 DEF Pruned, NoRow, Prunable, Stub, HorizonAt
  <2>0. post[p].touched => Kept(c, p)'
    BY <2>1 DEF Kept, Shown, Missed, Stub
  <2> SUFFICES ASSUME ~post[p].touched PROVE Kept(c, p)'
    BY <2>0
  <2> DEFINE settled == Settles(p)
  <2>2. /\ settled \in Nat
        /\ \A h \in Horizons : /\ h \in Nat
                               /\ settled + 2 * PassLength < clock - h + Margin
    <3>1. settled = post[p].removedAt + 3 * CommitLag
      BY DEF Settles
    <3>2. settled \in Nat
      BY <1>1, <3>1, Numbers
    <3>3. ASSUME NEW h \in Horizons
          PROVE  h \in Nat /\ settled + 2 * PassLength < clock - h + Margin
      <4>1. Margin >= 2 * PassLength + 3 * CommitLag + h - g
        BY DEF MarginSuffices
      <4> QED
        BY <1>1, <2>1, <3>1, <4>1, Numbers
    <3> QED
      BY <3>2, <3>3
  <2>3. /\ copy[c][p] # 0 => cursor[c].since <= settled + PassLength
        /\ OnPage(c, p) => sync[c].started <= settled
        /\ Checked(c) /\ Will(c, p) # 0 =>
             \/ sync[c].started <= settled
             \/ \E h \in Horizons : sync[c].started + Margin <= settled + PassLength + h
    BY <1>1, <2>1 DEF Kept, Shown
  <2>4. sync[c].at # "idle" => clock <= sync[c].started + PassLength
    BY <1>1 DEF Clocked
  <2>5. ~Stub(p)'
    BY <2>1 DEF Stub
  <2> HIDE DEF settled
  <2>6. ASSUME copy[c][p] # 0 PROVE TooOld(cursor[c].since, clock)'
    <3>1. ASSUME NEW h \in Horizons PROVE cursor[c].since < clock - h + Margin
      BY <1>1, <2>2, <2>3, <2>6, Numbers
    <3> QED
      BY <1>1, <3>1 DEF TooOld, HorizonAt
  <2>7. ASSUME Answering(c), copy[c][p] # 0, sync[c].checks PROVE Outdated(c)
    <3>1. cursor[c] # NoCursor
      BY <2>7 DEF FeedInv, Cursors
    <3>2. PICK h \in Horizons : sync[c].horizon >= sync[c].started - h
      BY <2>7 DEF HorizonInv, Answers
    <3>3. clock <= sync[c].started + PassLength
      BY <2>4, <2>7 DEF Answering
    <3>4. cursor[c].since < sync[c].horizon + Margin
      BY <1>1, <2>2, <2>3, <2>7, <3>2, <3>3, Numbers
    <3> QED
      BY <2>7, <3>1, <3>4 DEF Outdated
  <2>8. ASSUME OnPage(c, p) \/ (Checked(c) /\ Will(c, p) # 0)
        PROVE  TooOld(sync[c].started + PassLength, clock)'
    <3>1. clock <= sync[c].started + PassLength
      BY <2>4, <2>8 DEF OnPage, Checked, Answering
    <3>2. sync[c].started <= settled
      <4>1. ASSUME NEW h \in Horizons,
                   sync[c].started + Margin <= settled + PassLength + h
            PROVE  FALSE
        BY <1>1, <2>2, <3>1, <4>1, Numbers
      <4> QED
        BY <2>3, <2>8, <4>1
    <3>3. ASSUME NEW h \in Horizons
          PROVE  sync[c].started + PassLength < clock - h + Margin
      BY <1>1, <2>2, <3>2, Numbers
    <3> QED
      BY <1>1, <3>3 DEF TooOld, HorizonAt
  <2>9. Missed(c, p)'
    BY <1>1, <2>6, <2>7, <2>8
    DEF Missed, OnPage, Answering, Checked, Will, Applied, Outdated
  <2> QED
    BY <2>5, <2>9 DEF Kept, Shown
<1> QED
  BY <1>3, <1>4
\* An answer holds no removed post, and its horizon is the moment's.
LEMMA AnswerKeepsHorizon ==
  ASSUME FeedInv, HorizonInv, NEW c \in Clubs, NEW p \in Posts, NEW pass \in Pass,
         NEW started \in Nat, NEW checks, NEW full, NEW since, NEW id,
         IsAnswer(pass, started, checks, full, since, id),
         sync' = [sync EXCEPT ![c] = pass],
         UNCHANGED <<clock, post, cursor, copy>>,
         checks \/ (sync[c].at = "next" /\ started = sync[c].started)
  PROVE  Kept(c, p)'
<1>1. TypeOK /\ Kept(c, p) /\ sync'[c] = pass
  BY DEF FeedInv, HorizonInv, Kept, TypeOK
<1>2. pass.at = "read" /\ pass.started = started /\ pass.checks = checks
  BY DEF IsAnswer
<1>3. Stub(p) \/ post[p].state = "pruned" =>
        (p \in pass.rows => pass.page[p] = 0)
  BY DEF IsAnswer, Stub, Serialized
<1>4. Stub(p) \/ post[p].state = "pruned" =>
        /\ ~OnPage(c, p)'
        /\ Will(c, p)' # 0 => copy[c][p] # 0
  BY <1>1, <1>2, <1>3 DEF OnPage, Will, Applied
<1>5. Checked(c)' =>
        Checked(c) /\ Will(c, p) = copy[c][p] /\ sync'[c].started = sync[c].started
  BY <1>1, <1>2 DEF Checked, Answering, Will
<1>6. Shown(c, p)'
  BY <1>1, <1>4, <1>5 DEF Kept, Shown, Stub, Settles
<1>7. ASSUME post[p].state = "pruned", ~post[p].touched, copy[c][p] # 0
      PROVE  Outdated(c)' \/ ~checks
  <2>1. TooOld(cursor[c].since, clock) /\ cursor[c] # NoCursor
    BY <1>1, <1>7 DEF Kept, Missed, FeedInv, Cursors
  <2>2. cursor[c].since < pass.horizon + Margin
    BY <2>1 DEF TooOld, IsAnswer
  <2> QED
    BY <1>1, <1>2, <2>1, <2>2 DEF Outdated
<1>8. Missed(c, p)'
  BY <1>1, <1>2, <1>4, <1>5, <1>7 DEF Kept, Missed, TooOld, HorizonAt
<1> QED
  BY <1>6, <1>8 DEF Kept

LEMMA ReadKeepsHorizon ==
  ASSUME FeedInv, HorizonInv, NEW c \in Clubs, NEW p \in Posts,
         PassOpens(c) \/ PassContinues(c)
  PROVE  Kept(c, p)'
<1>1. TypeOK /\ UNCHANGED <<clock, post, cursor, copy>>
  BY DEF FeedInv, PassOpens, PassContinues
<1> DEFINE full == cursor[c] = NoCursor
<1>2. CASE PassOpens(c)
  <2> DEFINE checks == TRUE
  <2>1. PICK pass \in Pass :
          /\ IsAnswer(pass, clock, checks, full, StepBack(cursor[c].since), None)
          /\ sync' = [sync EXCEPT ![c] = pass]
    BY <1>1, <1>2, OpensWith
  <2>2. clock \in Nat /\ checks
    BY <1>1, Numbers
  <2> HIDE DEF full, checks
  <2> QED
    BY <1>1, <2>1, <2>2, AnswerKeepsHorizon
<1>3. CASE PassContinues(c)
  <2> DEFINE started == sync[c].started
  <2>1. PICK pass \in Pass :
          /\ IsAnswer(pass, started, EveryPage, full, cursor[c].since, cursor[c].id)
          /\ sync' = [sync EXCEPT ![c] = pass]
    BY <1>1, <1>3, ContinuesWith
  <2>2. started \in Nat /\ sync[c].at = "next" /\ started = sync[c].started
    BY <1>1, <1>3, Numbers DEF PassContinues
  <2> HIDE DEF full, started
  <2> QED
    BY <1>1, <2>1, <2>2, AnswerKeepsHorizon
<1> QED
  BY <1>2, <1>3

LEMMA StampKeepsHorizon ==
  ASSUME FeedInv, HorizonInv, NEW c \in Clubs, NEW p \in Posts, StampSync(c)
  PROVE  Kept(c, p)'
<1>1. /\ TypeOK /\ Kept(c, p)
      /\ UNCHANGED <<clock, post, cursor, copy>>
      /\ sync[c].at = "read" /\ sync'[c] = [sync[c] EXCEPT !.at = "answered"]
      /\ sync[c] \in Pass
  BY DEF FeedInv, HorizonInv, Kept, StampSync, TypeOK
<1>2. /\ sync'[c].at = "answered" /\ sync'[c].started = sync[c].started
      /\ sync'[c].rows = sync[c].rows /\ sync'[c].page = sync[c].page
      /\ sync'[c].checks = sync[c].checks /\ sync'[c].horizon = sync[c].horizon
  BY <1>1 DEF Pass
<1>3. /\ Answering(c) /\ Answering(c)' /\ OnPage(c, p)' = OnPage(c, p)
      /\ Checked(c)' = Checked(c) /\ Will(c, p)' = Will(c, p)
      /\ Outdated(c)' = Outdated(c)
  BY <1>1, <1>2 DEF Answering, OnPage, Checked, Will, Applied, Outdated
<1>4. Shown(c, p)'
  BY <1>1, <1>2, <1>3 DEF Kept, Shown, Stub, Settles
<1>5. Missed(c, p)'
  BY <1>1, <1>2, <1>3 DEF Kept, Missed, TooOld, HorizonAt
<1> QED
  BY <1>4, <1>5 DEF Kept

LEMMA GiveUpKeepsHorizon ==
  ASSUME FeedInv, HorizonInv, NEW c \in Clubs, NEW p \in Posts,
         Discard(c) \/ PassFails(c)
  PROVE  Kept(c, p)'
<1>1. TypeOK /\ Kept(c, p) /\ UNCHANGED <<clock, post>>
  BY DEF FeedInv, HorizonInv, Kept, Discard, PassFails
<1>2. CASE Discard(c)
  <2>1. /\ copy'[c][p] = 0 /\ sync'[c].at = "next"
    BY <1>1, <1>2 DEF Discard, TypeOK, NoPass
  <2> QED
    BY <2>1 DEF Kept, Shown, Missed, OnPage, Will, Answering
<1>3. CASE PassFails(c)
  <2>1. sync'[c].at = "idle" /\ UNCHANGED <<cursor, copy>>
    BY <1>1, <1>3 DEF PassFails, TypeOK, NoPass
  <2>2. ~OnPage(c, p)' /\ ~Checked(c)' /\ ~Answering(c)'
    BY <2>1 DEF OnPage, Checked, Answering
  <2> QED
    BY <1>1, <2>1, <2>2 DEF Kept, Shown, Missed, Stub, Settles, TooOld, HorizonAt
<1> QED
  BY <1>2, <1>3

LEMMA ApplyKeepsHorizon ==
  ASSUME FeedInv, HorizonInv, NEW c \in Clubs, NEW p \in Posts, Apply(c)
  PROVE  Kept(c, p)'
<1>1. TypeOK /\ Clocked /\ Cursors /\ Kept(c, p) /\ UNCHANGED <<clock, post>>
  BY DEF FeedInv, HorizonInv, Kept, Apply
<1>2. /\ sync[c].at = "answered" /\ ~Outdated(c)
      /\ copy'[c][p] = Applied(c, p)
      /\ cursor'[c] = IF sync[c].last = NoCursor THEN cursor[c] ELSE sync[c].last
      /\ sync'[c].at = IF sync[c].more THEN "next" ELSE "idle"
      /\ sync[c].more => sync'[c].started = sync[c].started
  BY <1>1 DEF Apply, TypeOK, Applied, NoPass
<1>3. ~OnPage(c, p)' /\ ~Answering(c)' /\ (Checked(c)' => sync[c].more)
  BY <1>2 DEF OnPage, Answering, Checked
<1>4. Checked(c)' => Will(c, p)' = copy'[c][p]
  BY <1>3 DEF Checked, Will
<1>5. /\ cursor'[c].since \in Nat /\ cursor'[c].since <= clock
      /\ clock <= sync[c].started + PassLength
  BY <1>1, <1>2, Numbers DEF Clocked
<1>6. ~sync[c].checks => Checked(c) /\ Will(c, p) = Applied(c, p)
  BY <1>2 DEF Checked, Answering, Will
\* What the club will show is on the page, or it showed it already.
<1>7. Applied(c, p) # 0 => OnPage(c, p) \/ copy[c][p] # 0
  BY <1>2 DEF Applied, OnPage, Answering
<1>8. Shown(c, p)'
  <2> SUFFICES ASSUME Stub(p), ~post[p].touched, Applied(c, p) # 0
               PROVE  /\ cursor'[c].since <= Settles(p) + PassLength
                      /\ \/ sync[c].started <= Settles(p)
                         \/ \E h \in Horizons :
                              sync[c].started + Margin <= Settles(p) + PassLength + h
    BY <1>1, <1>2, <1>3, <1>4 DEF Shown, Stub, Settles
  <2>1. /\ copy[c][p] # 0 => cursor[c].since <= Settles(p) + PassLength
        /\ OnPage(c, p) => sync[c].started <= Settles(p)
        /\ Checked(c) /\ Will(c, p) # 0 =>
             \/ sync[c].started <= Settles(p)
             \/ \E h \in Horizons :
                  sync[c].started + Margin <= Settles(p) + PassLength + h
    BY <1>1 DEF Kept, Shown
  <2>2. Settles(p) \in Nat /\ post[p].updatedAt \in Nat
        /\ post[p].updatedAt + CommitLag <= Settles(p)
    <3>1. post[p].updatedAt <= post[p].removedAt + 2 * CommitLag
      BY DEF HorizonInv, StubsSettle
    <3> QED
      BY <1>1, <3>1, Numbers DEF Settles
  <2>3. \/ Recent(p, sync[c].started)
        \/ sync[c].more /\ After(p, sync[c].last.since, sync[c].last.id)
    <3>1. ~Says(p, Applied(c, p))
      BY DEF Says, Exists, Serialized, Stub
    <3> QED
      BY <1>2, <3>1 DEF FeedInv, Found, FoundAfter, Answering
  <2>4. cursor'[c].since <= Settles(p) + PassLength
    <3>1. CASE Recent(p, sync[c].started)
      BY <1>1, <1>5, <2>2, <3>1, Numbers DEF Recent
    <3>2. CASE sync[c].more /\ After(p, sync[c].last.since, sync[c].last.id)
      <4>1. cursor'[c] = sync[c].last
        BY <1>1, <1>2, <3>2 DEF Cursors, Answering
      <4>2. cursor'[c].since <= post[p].updatedAt
        BY <1>5, <2>2, <3>2, <4>1 DEF After
      <4> QED
        BY <1>1, <1>5, <2>2, <4>2, Numbers
    <3> QED
      BY <2>3, <3>1, <3>2
  <2>5. CASE ~sync[c].checks \/ OnPage(c, p)
    BY <1>6, <2>1, <2>4, <2>5
  <2>6. CASE sync[c].checks /\ ~OnPage(c, p)
    <3>1. copy[c][p] # 0 /\ cursor[c] # NoCursor
      BY <1>1, <1>7, <2>6 DEF Cursors
    <3>2. ~(cursor[c].since < sync[c].horizon + Margin)
      BY <1>2, <2>6, <3>1 DEF Outdated
    <3>3. PICK h \in Horizons : sync[c].horizon >= sync[c].started - h
      BY <1>2 DEF HorizonInv, Answers, Answering
    <3>4. sync[c].started + Margin <= Settles(p) + PassLength + h
      BY <1>1, <2>1, <2>2, <3>1, <3>2, <3>3, Numbers
    <3> QED
      BY <2>4, <3>4
  <2> QED
    BY <2>5, <2>6
<1>9. Missed(c, p)'
  <2> SUFFICES ASSUME post[p].state = "pruned", ~post[p].touched,
                      Applied(c, p) # 0
               PROVE  /\ TooOld(cursor'[c].since, clock)
                      /\ TooOld(sync[c].started + PassLength, clock)
    BY <1>1, <1>2, <1>3, <1>4 DEF Missed, TooOld, HorizonAt
  <2>1. TooOld(sync[c].started + PassLength, clock)
    <3>1. OnPage(c, p) \/ (Checked(c) /\ Will(c, p) # 0)
      BY <1>1, <1>2, <1>6, <1>7 DEF Kept, Missed, Answering
    <3> QED
      BY <1>1, <3>1 DEF Kept, Missed
  <2>2. TooOld(cursor'[c].since, clock)
    BY <1>1, <1>5, <2>1, Numbers DEF TooOld, HorizonAt
  <2> QED
    BY <2>1, <2>2
<1> QED
  BY <1>8, <1>9 DEF Kept
LEMMA HorizonInit == Init => HorizonInv
  BY DEF Init, HorizonInv, StubsSettle, Answers, Shown, Missed, Stub, Answering,
     NoRow, NoPass

LEMMA HorizonKept ==
  ASSUME FeedInv, HorizonInv, MarginSuffices, [Next]_vars
  PROVE  HorizonInv'
<1>1. TypeOK /\ Clocked /\ StubsSettle /\ Answers
      /\ \A c \in Clubs, p \in Posts : Kept(c, p)
  BY DEF FeedInv, HorizonInv, Kept
<1>2. StubsSettle' /\ Answers'
  BY <1>1, StubsSettleKept, AnswersKept
<1>3. clock \in Nat
  BY <1>1, Numbers
<1>4. ASSUME NEW c \in Clubs, NEW p \in Posts PROVE Kept(c, p)'
  <2>1. ASSUME NEW w \in Writers, NEW q \in Posts,
               DeleteImage(w, q) \/ \E change \in Requests : Stamp(w, q, change)
        PROVE  Kept(c, p)'
    <3>1. /\ UNCHANGED <<clock, cursor, copy, sync>>
          /\ post'[p].state = post[p].state /\ post'[p].removedAt = post[p].removedAt
          /\ post'[p].touched = post[p].touched
      BY <1>1, <2>1 DEF Stamp, DeleteImage, mirrorVars, TypeOK, Row
    <3> QED
      BY <1>1, <1>3, <3>1, FrameKept
  <2>2. ASSUME NEW w \in Writers,
               WriteFails(w) \/ TouchAfterDelete(w) \/ DeleteDies(w)
        PROVE  Kept(c, p)'
    <3>1. UNCHANGED <<clock, post, cursor, copy, sync>>
      BY <2>2 DEF WriteFails, TouchAfterDelete, DeleteDies, mirrorVars
    <3> QED
      BY <1>1, <1>3, <3>1, FrameKept
  <2>3. ASSUME NEW d \in Clubs,
               PassOpens(d) \/ PassStep(d) \/ PassFails(d)
        PROVE  Kept(c, p)'
    <3>1. CASE c = d
      BY <2>3, <3>1, ReadKeepsHorizon, StampKeepsHorizon, ApplyKeepsHorizon,
         GiveUpKeepsHorizon DEF PassStep
    <3>2. CASE c # d
      <4>1. UNCHANGED <<clock, post>>
            /\ cursor'[c] = cursor[c] /\ copy'[c] = copy[c] /\ sync'[c] = sync[c]
        BY <1>1, <2>3, <3>2 DEF PassStep, PassOpens, PassContinues, Reads, StampSync,
           Apply, Discard, PassFails, TypeOK
      <4> QED
        BY <1>1, <1>3, <4>1, FrameKept
    <3> QED
      BY <3>1, <3>2
  <2>4. CASE SaveSettings \/ Tick \/ UNCHANGED vars
    <3>1. UNCHANGED <<post, cursor, copy, sync>> /\ clock' \in Nat /\ clock <= clock'
      BY <1>3, <2>4 DEF SaveSettings, Tick, vars, mirrorVars
    <3> QED
      BY <1>1, <3>1, FrameKept
  <2>5. ASSUME NEW w \in Writers, Commit(w) PROVE Kept(c, p)'
    BY <2>5, CommitKeepsHorizon
  <2>6. ASSUME Prune PROVE Kept(c, p)'
    BY <2>6, PruneKeepsHorizon
  <2>7. ASSUME NEW w \in Writers, WriterNext(w) PROVE Kept(c, p)'
    BY <2>1, <2>2, <2>5, <2>7 DEF WriterNext
  <2> QED
    BY <2>3, <2>4, <2>6, <2>7 DEF Next
<1> QED
  BY <1>2, <1>4 DEF HorizonInv, Kept

\* A club that shows a post whose stub has been pruned has a cursor older than any
\* horizon it may be told, provided the site adds to the horizon twice what a pass
\* lasts, three times what a write lasts and what the settings differ by.  The one
\* exception is a post whose reports were dismissed when it was a stub already,
\* which the code allows and no margin makes up for.
THEOREM HorizonHolds ==
  ASSUME Overlap > CommitLag + PassLength, MarginSuffices
  PROVE  Spec => []HorizonCatchesUp
<1>1. Init => FeedInv /\ HorizonInv
  BY TypeInit, ClockedInit, CursorsInit, FoundInit, HorizonInit DEF FeedInv
<1>2. FeedInv /\ HorizonInv /\ [Next]_vars => (FeedInv /\ HorizonInv)'
  BY TypeKept, ClockedKept, CursorsKept, FoundKept, HorizonKept DEF FeedInv
<1>3. FeedInv /\ HorizonInv => HorizonCatchesUp
  BY DEF FeedInv, HorizonInv, Missed, TooOld, HorizonCatchesUp, Settled
<1> QED
  BY <1>1, <1>2, <1>3, PTL DEF Spec
=============================================================================
