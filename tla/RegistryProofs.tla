--------------------------- MODULE RegistryProofs ---------------------------
(***************************************************************************)
(* The registry as a whole, where everything that the runs take apart may  *)
(* overlap: any numbers of clubs, keys, lodges and requests in flight; and *)
(* the pull that keeps a club's copy of the lodges, for any lags.          *)
(***************************************************************************)
EXTENDS MCRegistry, FiniteSetTheorems, WellFoundedInduction, TLAPS

\* A club some administrator has approved.
Insider(c) == clubs[c].status \in {"APPROVED", "SUSPENDED"}

ClubsTyped ==
    /\ clubs \in [Clubs -> ClubState]
    /\ key \in [Keys -> KeyRow]
    /\ clubReq \in [ClubDesks -> ClubRequest]

LodgesTyped ==
    /\ lodge \in [Lodges -> LodgeRow]
    /\ lodgeReq \in [LodgeDesks -> LodgeRequest]

\* A save of a list adds lodges it was sent and drops lodges it was not, and
\* decides in this order.
Apart(q) ==
    /\ q.at = "current" => q.add \subseteq q.lodge
    /\ q.at \notin {"current", "assign"} => q.add = {}
    /\ q.at # "assign" => q.drop = {}
    /\ q.add \cap q.drop = {}

\* What a request about a lodge has decided is about one lodge, was right for
\* the row it read, claims no lodge that was never created, and is a request of
\* an administrator or of a club that was approved.
Sound(q) ==
    /\ q.at \in {"upload", "patch", "delete"} => \E l \in Lodges : q.lodge = {l}
    /\ q.at \in {"upload", "patch"} =>
         \E row \in LodgeRow :
           q.seen = {row} /\ ~SeasonsClash(Merged(row, q.edit))
    /\ q.at = "create" => Creatable(q.edit)
    /\ \A l \in q.add : lodge[l].at # "unused"
    /\ Apart(q)
    /\ q.club \in Clubs => Insider(q.club)

RowSound(l) ==
    /\ lodge[l].at = "unused" => lodge[l].owner = NoClub
    /\ lodge[l].owner \in Clubs => Insider(lodge[l].owner)
    /\ lodge[l].by \in Clubs => Insider(lodge[l].by)

LodgesSound ==
    /\ \A l \in Lodges : RowSound(l)
    /\ \A d \in LodgeDesks : Sound(lodgeReq[d])

ClubReqSound(q) ==
    q.at \in {"approved", "free", "put"} => Insider(q.club)

ClubsSound == \A d \in ClubDesks : ClubReqSound(clubReq[d])

RegistryInv == ClubsTyped /\ LodgesTyped /\ LodgesSound /\ ClubsSound

-----------------------------------------------------------------------------
(***************************************************************************)
(* Edits.                                                                  *)
(***************************************************************************)
LEMMA EditDomain ==
  ASSUME NEW e \in Edits
  PROVE  /\ DOMAIN e \subseteq {"name", "winter", "summer"}
         /\ "name" \in DOMAIN e => e["name"] \in Names
         /\ "winter" \in DOMAIN e => e["winter"] \in Season
         /\ "summer" \in DOMAIN e => e["summer"] \in Season
<1>1. PICK S \in SUBSET Columns : e \in [S -> Names \cup Season]
  BY DEF Edits
<1>2. \A f \in DOMAIN e : e[f] \in IF f = "name" THEN Names ELSE Season
  BY DEF Edits
<1> QED
  BY <1>1, <1>2 DEF Columns

LEMMA IsEdit ==
  ASSUME NEW S \in SUBSET Columns, NEW e \in [S -> Names \cup Season],
         \A f \in S : e[f] \in IF f = "name" THEN Names ELSE Season
  PROVE  e \in Edits
<1>1. e \in UNION {[T -> Names \cup Season] : T \in SUBSET Columns} /\ DOMAIN e = S
  OBVIOUS
<1> QED
  BY <1>1 DEF Edits

LEMMA NoEditFits == NoEdit \in Edits
<1>1. NoEdit \in [{} -> Names \cup Season] /\ {} \in SUBSET Columns
  BY DEF NoEdit
<1> QED
  BY <1>1, IsEdit

\* An edit changes what a lodge says and nothing else of it.
LEMMA MergedIsRow ==
  ASSUME NEW row \in LodgeRow, NEW e \in Edits
  PROVE  /\ Merged(row, e) \in LodgeRow
         /\ Merged(row, e).at = row.at
         /\ Merged(row, e).owner = row.owner
         /\ Merged(row, e).by = row.by
<1>1. DOMAIN row = {"at", "name", "owner", "winter", "summer", "by"}
  BY DEF LodgeRow
<1>2. /\ Merged(row, e).at = row.at
      /\ Merged(row, e).owner = row.owner
      /\ Merged(row, e).by = row.by
  BY <1>1, EditDomain DEF Merged
<1>3. /\ "name" \in DOMAIN e => e["name"] \in Names
      /\ "winter" \in DOMAIN e => e["winter"] \in Season
      /\ "summer" \in DOMAIN e => e["summer"] \in Season
  BY EditDomain
<1>4. /\ Merged(row, e).name \in Names
      /\ Merged(row, e).winter \in Season
      /\ Merged(row, e).summer \in Season
  BY <1>1, <1>3 DEF Merged, LodgeRow
<1>5. Merged(row, e) =
        [at |-> Merged(row, e).at, name |-> Merged(row, e).name,
         owner |-> Merged(row, e).owner, winter |-> Merged(row, e).winter,
         summer |-> Merged(row, e).summer, by |-> Merged(row, e).by]
  BY <1>1 DEF Merged
<1> QED
  BY <1>1, <1>2, <1>4, <1>5 DEF LodgeRow

\* What is written of an item is an edit, and leaves what the item would leave.
LEMMA WrittenIsEdit ==
  ASSUME NEW row \in LodgeRow, NEW item \in Items
  PROVE  Written(row, item) \in Edits
         /\ Merged(row, Written(row, item)) = Merged(row, item)
<1> DEFINE S == DOMAIN item \ (IF item.name = row.name THEN {"name"} ELSE {})
           e == [f \in S |-> item[f]]
<1>1. item \in Edits
  BY DEF Items
<1>2. /\ S \subseteq Columns
      /\ \A f \in S : item[f] \in IF f = "name" THEN Names ELSE Season
  BY <1>1, EditDomain DEF Columns
<1>3. e \in [S -> Names \cup Season]
  BY <1>2
<1>4. Written(row, item) = e
  BY DEF Written
<1>5. e \in Edits
  BY <1>2, <1>3, IsEdit
<1>6. ASSUME NEW f \in DOMAIN row
      PROVE  (IF f \in S THEN e[f] ELSE row[f])
               = (IF f \in DOMAIN item THEN item[f] ELSE row[f])
  OBVIOUS
<1>7. DOMAIN e = S
  OBVIOUS
<1> HIDE DEF S, e
<1>8. Merged(row, e) = Merged(row, item)
  BY <1>6, <1>7 DEF Merged
<1> QED
  BY <1>4, <1>5, <1>8

\* A lodge has the seasons it was created with.
LEMMA CreatedSeasons ==
  ASSUME NEW l \in Lodges, lodge[l] \in LodgeRow, NEW e \in Edits, Creatable(e)
  PROVE  ~SeasonsClash(Merged(Blank(l), e))
<1>1. /\ {"winter", "summer"} \subseteq DOMAIN Blank(l)
      /\ Blank(l).winter = "short" /\ Blank(l).summer = "short"
  BY DEF Blank, Unset, LodgeRow
<1>2. DOMAIN Unset = {"winter", "summer"} /\ Unset.winter = "short"
      /\ Unset.summer = "short"
  BY DEF Unset
<1>3. /\ Merged(Blank(l), e).winter = Merged(Unset, e).winter
      /\ Merged(Blank(l), e).summer = Merged(Unset, e).summer
  BY <1>1, <1>2 DEF Merged
<1> QED
  BY <1>3 DEF Creatable, SeasonsAfter, SeasonsClash

LEMMA IdleIsRequest ==
  /\ LodgeIdle \in LodgeRequest /\ Sound(LodgeIdle)
  /\ ClubIdle \in ClubRequest /\ ClubIdle.at = "idle"
<1>1. LodgeIdle \in LodgeRequest
  BY NoEditFits DEF LodgeIdle, LodgeRequest, Owners
<1>2. Sound(LodgeIdle)
  BY LodgeAssumption DEF LodgeIdle, Sound, Apart
<1>3. (CHOOSE c \in Clubs : TRUE) \in Clubs
  BY ClubAssumption
<1>4. ClubIdle \in ClubRequest /\ ClubIdle.at = "idle"
  BY <1>3, ClubAssumption DEF ClubIdle, ClubRequest
<1> QED
  BY <1>1, <1>2, <1>4

-----------------------------------------------------------------------------
(***************************************************************************)
(* The statements that write a lodge, one row at a time.                   *)
(***************************************************************************)
ClashExplained(d, l) ==
    (~SeasonsClash(lodge[l]) /\ SeasonsClash(lodge'[l])) =>
      SaveEnds(d, l) /\ lodgeReq[d].seen # {lodge[l]}

RowStep(d, l) ==
    /\ lodge'[l] \in LodgeRow
    /\ lodge[l].owner # NoClub => lodge'[l].owner \in {lodge[l].owner, NoClub}
    /\ lodge[l].at = "deleted" =>
         lodge'[l] = [lodge[l] EXCEPT !.owner = lodge'[l].owner]
    /\ ClashExplained(d, l)
    /\ lodge[l].at # "unused" => lodge'[l].at # "unused"
    /\ lodge'[l].at = "unused" => lodge'[l] = lodge[l]
    /\ lodge'[l].owner \in {lodge[l].owner, NoClub, lodgeReq[d].club}
    /\ lodge'[l].by \in {lodge[l].by, NoClub, lodgeReq[d].club}

LEMMA SameRow ==
  ASSUME LodgesTyped, NEW d \in LodgeDesks, NEW l \in Lodges, lodge'[l] = lodge[l]
  PROVE  RowStep(d, l)
<1>1. lodge[l] \in LodgeRow
  BY DEF LodgesTyped
<1>2. lodge[l] = [lodge[l] EXCEPT !.owner = lodge[l].owner]
  BY <1>1 DEF LodgeRow
<1> QED
  BY <1>1, <1>2 DEF RowStep, ClashExplained

\* An upload or an edit writes its lodge, if it is still live.
LEMMA SaveRows ==
  ASSUME LodgesTyped, NEW d \in LodgeDesks, Sound(lodgeReq[d]),
         UploadWrite(d) \/ PatchWrite(d)
  PROVE  \A x \in Lodges : RowStep(d, x)
<1> DEFINE q == lodgeReq[d]
<1>1. PICK l \in Lodges : q.lodge = {l}
  BY DEF Sound, UploadWrite, PatchWrite
<1>2. Subject(d) = l
  BY <1>1 DEF Subject
<1>3. q \in LodgeRequest /\ lodge[l] \in LodgeRow
  BY DEF LodgesTyped
<1>4. q.edit \in Edits /\ q.club \in Owners
  BY <1>3 DEF LodgeRequest
<1> DEFINE by == IF q.at = "upload" THEN q.club ELSE NoClub
           new == [Merged(lodge[l], q.edit) EXCEPT !.by = by]
<1>5. lodge' = IF Writable(l) THEN [lodge EXCEPT ![l] = new] ELSE lodge
  BY <1>2 DEF UploadWrite, PatchWrite
<1>6. lodgeReq' = [lodgeReq EXCEPT ![d] = LodgeIdle]
  BY DEF UploadWrite, PatchWrite, Answers
<1>7. CASE ~Writable(l)
  BY <1>5, <1>7, SameRow
<1>8. CASE Writable(l)
  <2>1. lodge' = [lodge EXCEPT ![l] = new]
    BY <1>5, <1>8
  <2>2. \A x \in Lodges \ {l} : lodge'[x] = lodge[x]
    BY <2>1 DEF LodgesTyped
  <2>3. lodge'[l] = new
    BY <2>1 DEF LodgesTyped
  <2>4. /\ Merged(lodge[l], q.edit) \in LodgeRow
        /\ Merged(lodge[l], q.edit).at = lodge[l].at
        /\ Merged(lodge[l], q.edit).owner = lodge[l].owner
    BY <1>3, <1>4, MergedIsRow
  <2>5. by \in Owners
    BY <1>4 DEF Owners
  <2>6. /\ new \in LodgeRow /\ new.at = lodge[l].at /\ new.owner = lodge[l].owner
        /\ new.by = by
        /\ SeasonsClash(new) <=> SeasonsClash(Merged(lodge[l], q.edit))
    BY <2>4, <2>5 DEF LodgeRow, SeasonsClash
  <2>7. lodge[l].at = "live"
    BY <1>8 DEF Writable
  <2>8. ClashExplained(d, l)
    <3>1. SaveEnds(d, l)
      BY <1>1, <1>6 DEF SaveEnds, LodgesTyped
    <3>2. SeasonsClash(new) => q.seen # {lodge[l]}
      <4>1. PICK row \in LodgeRow :
              q.seen = {row} /\ ~SeasonsClash(Merged(row, q.edit))
        BY DEF Sound, UploadWrite, PatchWrite
      <4>2. q.seen = {lodge[l]} => row = lodge[l]
        BY <4>1
      <4> QED
        BY <2>6, <4>1, <4>2
    <3> QED
      BY <2>3, <3>1, <3>2 DEF ClashExplained
  <2> HIDE DEF new
  <2>9. RowStep(d, l)
    BY <2>3, <2>6, <2>7, <2>8 DEF RowStep
  <2> QED
    BY <2>2, <2>9, SameRow
<1> QED
  BY <1>7, <1>8

LEMMA CreateRows ==
  ASSUME LodgesTyped, LodgesSound, NEW d \in LodgeDesks, Create(d)
  PROVE  \A x \in Lodges : RowStep(d, x)
<1> DEFINE q == lodgeReq[d]
<1>1. PICK l \in Lodges :
        /\ lodge[l].at = "unused"
        /\ lodge' = [lodge EXCEPT ![l] =
             [Merged(Blank(l), q.edit) EXCEPT
                !.at = "live", !.owner = q.club, !.by = q.club]]
  BY DEF Create
<1> DEFINE new == [Merged(Blank(l), q.edit) EXCEPT
                     !.at = "live", !.owner = q.club, !.by = q.club]
<1>2. q \in LodgeRequest /\ lodge[l] \in LodgeRow /\ q.at = "create"
  BY DEF LodgesTyped, Create
<1>3. q.edit \in Edits /\ Creatable(q.edit) /\ q.club \in Owners
  BY <1>2 DEF LodgeRequest, LodgesSound, Sound
<1>4. Blank(l) \in LodgeRow
  BY <1>2 DEF Blank, Unset, LodgeRow, Season
<1>5. /\ Merged(Blank(l), q.edit) \in LodgeRow
      /\ ~SeasonsClash(Merged(Blank(l), q.edit))
  BY <1>2, <1>3, <1>4, MergedIsRow, CreatedSeasons
<1>6. /\ new \in LodgeRow /\ new.at = "live" /\ new.owner = q.club
      /\ new.by = q.club /\ ~SeasonsClash(new)
  BY <1>3, <1>5 DEF LodgeRow, SeasonsClash
<1>7. lodge'[l] = new /\ \A x \in Lodges \ {l} : lodge'[x] = lodge[x]
  BY <1>1 DEF LodgesTyped
<1>8. lodge[l].owner = NoClub
  BY <1>1 DEF LodgesSound, RowSound
<1> HIDE DEF new
<1>9. RowStep(d, l)
  BY <1>1, <1>6, <1>7, <1>8 DEF RowStep, ClashExplained
<1> QED
  BY <1>7, <1>9, SameRow

LEMMA DeleteRows ==
  ASSUME LodgesTyped, NEW d \in LodgeDesks, Sound(lodgeReq[d]), DeleteWrite(d)
  PROVE  \A x \in Lodges : RowStep(d, x)
<1>1. PICK l \in Lodges : lodgeReq[d].lodge = {l}
  BY DEF Sound, DeleteWrite
<1>2. Subject(d) = l
  BY <1>1 DEF Subject
<1>3. lodge' = IF Writable(l) THEN [lodge EXCEPT ![l].at = "deleted"] ELSE lodge
  BY <1>2 DEF DeleteWrite
<1>4. CASE ~Writable(l)
  BY <1>3, <1>4, SameRow
<1>5. CASE Writable(l)
  <2>1. lodge[l].at = "live" /\ lodge[l] \in LodgeRow
    BY <1>5 DEF Writable, LodgesTyped
  <2>2. /\ lodge'[l] = [lodge[l] EXCEPT !.at = "deleted"]
        /\ \A x \in Lodges \ {l} : lodge'[x] = lodge[x]
    BY <1>3, <1>5 DEF LodgesTyped
  <2>3. /\ lodge'[l] \in LodgeRow /\ lodge'[l].at = "deleted"
        /\ lodge'[l].owner = lodge[l].owner /\ lodge'[l].by = lodge[l].by
        /\ SeasonsClash(lodge'[l]) <=> SeasonsClash(lodge[l])
    BY <2>1, <2>2 DEF LodgeRow, SeasonsClash
  <2>4. RowStep(d, l)
    BY <2>1, <2>3 DEF RowStep, ClashExplained
  <2> QED
    BY <2>2, <2>4, SameRow
<1> QED
  BY <1>4, <1>5

LEMMA AssignRows ==
  ASSUME LodgesTyped, LodgesSound, NEW d \in LodgeDesks, AssignWrite(d)
  PROVE  \A x \in Lodges : RowStep(d, x)
<1> SUFFICES ASSUME NEW l \in Lodges PROVE RowStep(d, l)
  OBVIOUS
<1> DEFINE c == lodgeReq[d].club
           add == lodgeReq[d].add
           dropped == {x \in lodgeReq[d].drop : lodge[x].owner = c}
<1>1. lodge' = IF Claimed(add) = add
               THEN [x \in Lodges |->
                       IF x \in add THEN [lodge[x] EXCEPT !.owner = c]
                       ELSE IF x \in dropped THEN [lodge[x] EXCEPT !.owner = NoClub]
                       ELSE lodge[x]]
               ELSE lodge
  BY DEF AssignWrite
<1>2. lodge[l] \in LodgeRow /\ c \in Owners
  BY DEF LodgesTyped, LodgeRequest
<1>3. CASE Claimed(add) # add \/ l \notin add \cup dropped
  <2>1. lodge'[l] = lodge[l]
    BY <1>1, <1>3
  <2> QED
    BY <2>1, SameRow
<1>4. CASE Claimed(add) = add /\ l \in add
  <2>1. lodge'[l] = [lodge[l] EXCEPT !.owner = c]
    BY <1>1, <1>4
  <2>2. lodge[l].owner = NoClub /\ lodge[l].at # "unused"
    BY <1>4 DEF Claimed, LodgesSound, Sound
  <2>3. /\ lodge'[l] \in LodgeRow /\ lodge'[l].at = lodge[l].at
        /\ lodge'[l].owner = c /\ lodge'[l].by = lodge[l].by
        /\ SeasonsClash(lodge'[l]) <=> SeasonsClash(lodge[l])
    BY <1>2, <2>1 DEF LodgeRow, SeasonsClash
  <2> QED
    BY <2>1, <2>2, <2>3 DEF RowStep, ClashExplained
<1>5. CASE Claimed(add) = add /\ l \notin add /\ l \in dropped
  <2>1. lodge'[l] = [lodge[l] EXCEPT !.owner = NoClub]
    BY <1>1, <1>5
  <2>2. /\ lodge'[l] \in LodgeRow /\ lodge'[l].at = lodge[l].at
        /\ lodge'[l].owner = NoClub /\ lodge'[l].by = lodge[l].by
        /\ SeasonsClash(lodge'[l]) <=> SeasonsClash(lodge[l])
    BY <1>2, <2>1 DEF LodgeRow, SeasonsClash, Owners
  <2>3. lodge[l].at = "unused" => lodge'[l] = lodge[l]
    BY <1>2, <2>1 DEF LodgesSound, RowSound, LodgeRow
  <2> QED
    BY <2>1, <2>2, <2>3 DEF RowStep, ClashExplained
<1> QED
  BY <1>3, <1>4, <1>5

-----------------------------------------------------------------------------
(***************************************************************************)
(* What a step may be: one of clubs, one that moves a request about a      *)
(* lodge, or one statement that writes lodges.                             *)
(***************************************************************************)
InsidersStay == \A c \in Clubs : Insider(c) => Insider(c)'

\* A club's step: its requests stay sound, and who was approved stays so.
ClubStep ==
    /\ UNCHANGED lodgeVars
    /\ ClubsTyped' /\ InsidersStay /\ ClubsSound'

\* A lodge request goes on to state q, and no row is written.
RequestStep ==
    /\ UNCHANGED <<lodge, clubs, key>>
    /\ ClubsTyped' /\ ClubsSound'
    /\ \E d \in LodgeDesks, q \in LodgeRequest :
         Sound(q) /\ lodgeReq' = [lodgeReq EXCEPT ![d] = q]

Writes(d) ==
    \/ UploadWrite(d)
    \/ PatchWrite(d)
    \/ Create(d)
    \/ DeleteWrite(d)
    \/ AssignWrite(d)

WriteStep ==
    /\ UNCHANGED clubVars
    /\ \E d \in LodgeDesks :
         /\ Writes(d)
         /\ lodgeReq' = [lodgeReq EXCEPT ![d] = LodgeIdle]
         /\ lodge' \in [Lodges -> LodgeRow]
         /\ \A l \in Lodges : RowStep(d, l)

LEMMA WritesAreSteps ==
  ASSUME RegistryInv, NEW d \in LodgeDesks, UNCHANGED clubVars, Writes(d)
  PROVE  WriteStep
<1>1. Sound(lodgeReq[d]) /\ LodgesTyped /\ LodgesSound
  BY DEF RegistryInv, LodgesSound
<1>2. \A l \in Lodges : RowStep(d, l)
  BY <1>1, SaveRows, CreateRows, DeleteRows, AssignRows DEF Writes
<1>3. lodgeReq' = [lodgeReq EXCEPT ![d] = LodgeIdle]
  BY DEF Writes, UploadWrite, PatchWrite, Create, DeleteWrite, AssignWrite, Answers
<1>4. lodge' \in [Lodges -> LodgeRow]
  <2>1. lodge' = [l \in Lodges |-> lodge'[l]]
    BY <1>1 DEF Writes, UploadWrite, PatchWrite, Create, DeleteWrite, AssignWrite,
       LodgesTyped
  <2>2. \A l \in Lodges : lodge'[l] \in LodgeRow
    BY <1>2 DEF RowStep
  <2> QED
    BY <2>1, <2>2
<1> QED
  BY <1>2, <1>3, <1>4 DEF WriteStep

-----------------------------------------------------------------------------
\* A request opened by `Decides`.
LEMMA DecidesIsStep ==
  ASSUME RegistryInv, NEW d \in LodgeDesks, NEW c \in Owners,
         NEW ls \in SUBSET Lodges, NEW e \in Edits,
         NEW at \in {"create", "upload", "patch", "delete", "wanted"},
         Decides(d, at, c, ls, e), c \in Clubs => Insider(c),
         UNCHANGED <<lodge, clubs, key>>, ClubsTyped', ClubsSound',
         at = "create" => Creatable(e),
         at \in {"upload", "patch", "delete"} => \E l \in Lodges : ls = {l},
         at \in {"upload", "patch"} =>
           \A l \in ls : ~SeasonsClash(Merged(lodge[l], e))
  PROVE  RequestStep
<1> DEFINE q == [at |-> at, club |-> c, lodge |-> ls, edit |-> e,
                  seen |-> Seen(at, ls), add |-> {}, drop |-> {}]
<1>1. /\ q.at = at /\ q.club = c /\ q.lodge = ls /\ q.edit = e
      /\ q.seen = Seen(at, ls) /\ q.add = {} /\ q.drop = {}
  OBVIOUS
<1>2. \A l \in Lodges : lodge[l] \in LodgeRow
  BY DEF RegistryInv, LodgesTyped
<1>3. Seen(at, ls) \in SUBSET LodgeRow
  BY <1>2 DEF Seen
<1>4. q \in LodgeRequest
  BY <1>1, <1>3 DEF LodgeRequest
<1>5. at \in {"upload", "patch"} =>
        \E row \in LodgeRow : q.seen = {row} /\ ~SeasonsClash(Merged(row, q.edit))
  BY <1>1, <1>2 DEF Seen
<1>6. lodgeReq' = [lodgeReq EXCEPT ![d] = q]
  BY DEF Decides
<1> HIDE DEF q
<1>7. Sound(q)
  BY <1>1, <1>5 DEF Sound, Apart
<1> QED
  BY <1>4, <1>6, <1>7 DEF RequestStep

LEMMA ClubsKept ==
  ASSUME RegistryInv, UNCHANGED clubVars
  PROVE  /\ UNCHANGED <<clubs, key>> /\ ClubsTyped' /\ ClubsSound'
         /\ InsidersStay
  BY DEF RegistryInv, clubVars, ClubsTyped, ClubsSound, ClubReqSound,
     InsidersStay, Insider

LEMMA AdmittedInside ==
  ASSUME RegistryInv, NEW k \in Keys, Admitted(k)
  PROVE  key[k].club \in Clubs /\ key[k].club \in Owners /\ Insider(key[k].club)
  BY DEF RegistryInv, ClubsTyped, KeyRow, Admitted, Insider, Owners

LEMMA UploadsAreSteps ==
  ASSUME RegistryInv, NEW d \in LodgeDesks, NEW k \in Keys,
         UploadLodge(d, k) \/ UploadNewLodge(d, k)
  PROVE  RequestStep
<1> DEFINE c == key[k].club
<1>1. Admitted(k) /\ UNCHANGED clubVars
  BY DEF UploadLodge, UploadNewLodge
<1>2. c \in Owners /\ Insider(c)
  BY <1>1, AdmittedInside
<1>3. UNCHANGED <<clubs, key>> /\ ClubsTyped' /\ ClubsSound'
  BY <1>1, ClubsKept
<1>4. CASE UploadById(d, c)
  <2>1. PICK l \in Live, item \in Items :
          /\ MayUpload(c, l, item)
          /\ Decides(d, "upload", c, {l}, Written(lodge[l], item))
    BY <1>4 DEF UploadById
  <2> DEFINE e == Written(lodge[l], item)
  <2>a. l \in Lodges /\ lodge[l] \in LodgeRow
        /\ ~SeasonsClash(Merged(lodge[l], item))
    BY <2>1 DEF Live, MayUpload, SeasonsAfter, RegistryInv, LodgesTyped
  <2>2. l \in Lodges /\ e \in Edits /\ ~SeasonsClash(Merged(lodge[l], e))
    BY <2>a, WrittenIsEdit
  <2>b. Decides(d, "upload", c, {l}, e)
    BY <2>1
  <2> HIDE DEF e
  <2>3. lodge' = lodge
    BY <1>4 DEF UploadById
  <2>4. /\ e \in Edits /\ {l} \in SUBSET Lodges
        /\ \E x \in Lodges : {l} = {x}
        /\ \A x \in {l} : ~SeasonsClash(Merged(lodge[x], e))
    BY <2>2
  <2> HIDE DEF c
  <2> QED
    BY <1>2, <1>3, <2>b, <2>3, <2>4, DecidesIsStep
<1>5. CASE UploadByName(d, c)
  <2>1. PICK l \in Live, item \in Items :
          /\ MayUpload(c, l, item)
          /\ Decides(d, "upload", c, {l}, Written(lodge[l], item))
    BY <1>5 DEF UploadByName
  <2> DEFINE e == Written(lodge[l], item)
  <2>a. l \in Lodges /\ lodge[l] \in LodgeRow
        /\ ~SeasonsClash(Merged(lodge[l], item))
    BY <2>1 DEF Live, MayUpload, SeasonsAfter, RegistryInv, LodgesTyped
  <2>2. l \in Lodges /\ e \in Edits /\ ~SeasonsClash(Merged(lodge[l], e))
    BY <2>a, WrittenIsEdit
  <2>b. Decides(d, "upload", c, {l}, e)
    BY <2>1
  <2> HIDE DEF e
  <2>3. lodge' = lodge
    BY <1>5 DEF UploadByName
  <2>4. /\ e \in Edits /\ {l} \in SUBSET Lodges
        /\ \E x \in Lodges : {l} = {x}
        /\ \A x \in {l} : ~SeasonsClash(Merged(lodge[x], e))
    BY <2>2
  <2> HIDE DEF c
  <2> QED
    BY <1>2, <1>3, <2>b, <2>3, <2>4, DecidesIsStep
<1>6. CASE UploadNew(d, c)
  <2>1. PICK e \in Items : Creatable(e) /\ Decides(d, "create", c, {}, e)
    BY <1>6 DEF UploadNew
  <2>2. e \in Edits
    BY DEF Items
  <2>3. lodge' = lodge
    BY <1>6 DEF UploadNew
  <2> QED
    BY <1>2, <1>3, <2>1, <2>2, <2>3, DecidesIsStep
<1> QED
  BY <1>4, <1>5, <1>6 DEF UploadLodge, UploadNewLodge

LEMMA ConsoleSteps ==
  ASSUME RegistryInv, NEW d \in LodgeDesks, UNCHANGED clubVars,
         AdminCreate(d) \/ PatchRead(d) \/ DeleteRead(d)
  PROVE  RequestStep
<1>1. UNCHANGED <<clubs, key>> /\ ClubsTyped' /\ ClubsSound'
  BY ClubsKept
<1>2. NoClub \in Owners /\ NoClub \notin Clubs
  BY LodgeAssumption DEF Owners
<1>3. CASE AdminCreate(d)
  <2>1. PICK e \in Items : Creatable(e) /\ Decides(d, "create", NoClub, {}, e)
    BY <1>3 DEF AdminCreate
  <2>2. e \in Edits
    BY DEF Items
  <2>3. lodge' = lodge
    BY <1>3 DEF AdminCreate
  <2> QED
    BY <1>1, <1>2, <2>1, <2>2, <2>3, DecidesIsStep
<1>4. CASE PatchRead(d)
  <2>1. PICK l \in Live, e \in Edits :
          /\ ~SeasonsClash(SeasonsAfter(lodge[l], e))
          /\ Decides(d, "patch", NoClub, {l}, e)
    BY <1>4 DEF PatchRead
  <2>2. l \in Lodges /\ ~SeasonsClash(Merged(lodge[l], e))
    BY <2>1 DEF Live, SeasonsAfter
  <2>3. lodge' = lodge
    BY <1>4 DEF PatchRead
  <2> QED
    BY <1>1, <1>2, <2>1, <2>2, <2>3, DecidesIsStep
<1>5. CASE DeleteRead(d)
  <2>1. PICK l \in Live : Decides(d, "delete", NoClub, {l}, NoEdit)
    BY <1>5 DEF DeleteRead
  <2>2. l \in Lodges
    BY DEF Live
  <2>3. lodge' = lodge
    BY <1>5 DEF DeleteRead
  <2> QED
    BY <1>1, <1>2, <2>1, <2>2, <2>3, NoEditFits, DecidesIsStep
<1> QED
  BY <1>3, <1>4, <1>5

LEMMA AnswersIsStep ==
  ASSUME RegistryInv, NEW d \in LodgeDesks, Answers(d), lodge' = lodge,
         UNCHANGED clubVars
  PROVE  RequestStep
  BY ClubsKept, IdleIsRequest DEF Answers, RequestStep

LEMMA AssignSteps ==
  ASSUME RegistryInv, NEW d \in LodgeDesks, UNCHANGED clubVars,
         AssignWanted(d) \/ AssignCurrent(d) \/ LodgeRequestFails(d)
  PROVE  RequestStep
<1> DEFINE q == lodgeReq[d]
<1>1. q \in LodgeRequest /\ Sound(q)
  BY DEF RegistryInv, LodgesTyped, LodgesSound
<1>2. UNCHANGED <<clubs, key>> /\ ClubsTyped' /\ ClubsSound'
  BY ClubsKept
<1>3. lodge' = lodge
  BY DEF AssignWanted, AssignCurrent, LodgeRequestFails
<1>4. CASE AssignWanted(d) /\ \A l \in q.lodge : Grantable(q.club, l)
  <2> DEFINE add == {l \in q.lodge : lodge[l].owner # q.club}
             new == [q EXCEPT !.at = "current", !.add = add]
  <2>1. lodgeReq' = [lodgeReq EXCEPT ![d] = new]
    BY <1>4 DEF AssignWanted, RegistryInv, LodgesTyped
  <2>2. add \in SUBSET Lodges /\ \A l \in add : lodge[l].at # "unused"
    BY <1>1, <1>4 DEF LodgeRequest, Grantable, Live
  <2>3. /\ new \in LodgeRequest /\ new.at = "current" /\ new.add = add
        /\ new.club = q.club /\ new.lodge = q.lodge /\ new.drop = q.drop
    BY <1>1, <2>2 DEF LodgeRequest
  <2>4. add \subseteq q.lodge /\ q.drop = {}
    BY <1>1, <1>4 DEF AssignWanted, Sound, Apart
  <2> HIDE DEF new, add
  <2>5. Apart(new)
    BY <2>3, <2>4 DEF Apart
  <2>6. Sound(new)
    BY <1>1, <2>2, <2>3, <2>5 DEF Sound
  <2> QED
    BY <1>2, <1>3, <2>1, <2>3, <2>6 DEF RequestStep
<1>5. CASE AssignWanted(d) /\ ~ \A l \in q.lodge : Grantable(q.club, l)
  BY <1>3, <1>5, AnswersIsStep DEF AssignWanted
<1>6. CASE AssignCurrent(d)
  <2> DEFINE drop == Dropped(q.club, q.lodge)
             new == [q EXCEPT !.at = "assign", !.drop = drop, !.lodge = {}]
  <2>1. lodgeReq' = [lodgeReq EXCEPT ![d] = new]
    BY <1>6 DEF AssignCurrent, RegistryInv, LodgesTyped
  <2>2. drop \in SUBSET Lodges
    BY DEF Dropped, OwnedBy, Live
  <2>3. /\ new \in LodgeRequest /\ new.at = "assign" /\ new.add = q.add
        /\ new.club = q.club /\ new.drop = drop
    BY <1>1, <2>2 DEF LodgeRequest
  <2>4. q.add \subseteq q.lodge /\ drop \cap q.lodge = {}
    BY <1>1, <1>6 DEF AssignCurrent, Sound, Apart, Dropped
  <2> HIDE DEF new, drop
  <2>5. Apart(new)
    BY <2>3, <2>4 DEF Apart
  <2>6. Sound(new)
    BY <1>1, <2>3, <2>5 DEF Sound
  <2> QED
    BY <1>2, <1>3, <2>1, <2>3, <2>6 DEF RequestStep
<1>7. CASE LodgeRequestFails(d)
  BY <1>3, <1>7, AnswersIsStep DEF LodgeRequestFails
<1> QED
  BY <1>4, <1>5, <1>6, <1>7
-----------------------------------------------------------------------------
(***************************************************************************)
(* The steps of clubs.                                                     *)
(***************************************************************************)
\* What a request goes on to holds of the clubs it leaves.
SoundAfter(r) ==
    r.at \in {"approved", "free", "put"} =>
      clubs'[r.club].status \in {"APPROVED", "SUSPENDED"}

LEMMA ClubsFollow ==
  ASSUME RegistryInv, NEW d \in ClubDesks, NEW r \in ClubRequest, Continues(d, r),
         clubs' \in [Clubs -> ClubState], key' \in [Keys -> KeyRow], InsidersStay,
         SoundAfter(r)
  PROVE  ClubsTyped' /\ ClubsSound'
<1>1. clubReq' = [clubReq EXCEPT ![d] = r] /\ clubReq \in [ClubDesks -> ClubRequest]
  BY DEF Continues, RegistryInv, ClubsTyped
<1>2. ClubsTyped'
  BY <1>1 DEF ClubsTyped
<1>3. ASSUME NEW x \in ClubDesks PROVE ClubReqSound(clubReq[x])'
  <2>1. CASE x = d
    BY <1>1, <2>1 DEF ClubReqSound, SoundAfter, Insider
  <2>2. CASE x # d
    <3>1. clubReq'[x] = clubReq[x] /\ clubReq[x].club \in Clubs
      BY <1>1, <2>2 DEF ClubRequest
    <3>2. ClubReqSound(clubReq[x])
      BY DEF RegistryInv, ClubsSound
    <3> QED
      BY <3>1, <3>2 DEF ClubReqSound, InsidersStay
  <2> QED
    BY <2>1, <2>2
<1> QED
  BY <1>2, <1>3 DEF ClubsSound

LEMMA ClubMoves ==
  ASSUME RegistryInv, NEW d \in ClubDesks, NEW r \in ClubRequest, Continues(d, r),
         clubs' \in [Clubs -> ClubState], key' \in [Keys -> KeyRow], InsidersStay,
         SoundAfter(r), UNCHANGED lodgeVars
  PROVE  ClubStep
  BY ClubsFollow DEF ClubStep

LEMMA RowsOfClubsMove ==
  ASSUME RegistryInv, UNCHANGED clubReq, clubs' \in [Clubs -> ClubState],
         key' \in [Keys -> KeyRow], InsidersStay, UNCHANGED lodgeVars
  PROVE  ClubStep
<1>1. ClubsTyped'
  BY DEF RegistryInv, ClubsTyped
<1>2. ASSUME NEW x \in ClubDesks PROVE ClubReqSound(clubReq[x])'
  <2>1. clubReq'[x] = clubReq[x] /\ clubReq[x].club \in Clubs
    BY DEF RegistryInv, ClubsTyped, ClubRequest
  <2>2. ClubReqSound(clubReq[x])
    BY DEF RegistryInv, ClubsSound
  <2> QED
    BY <2>1, <2>2 DEF ClubReqSound, InsidersStay
<1> QED
  BY <1>1, <1>2 DEF ClubStep, ClubsSound

\* The end of a request, whatever it has just written.
LEMMA ClubRequestEnds ==
  ASSUME RegistryInv, NEW d \in ClubDesks, ClubAnswers(d),
         clubs' \in [Clubs -> ClubState], key' \in [Keys -> KeyRow], InsidersStay,
         UNCHANGED lodgeVars
  PROVE  ClubStep
<1>1. SoundAfter(ClubIdle)
  BY IdleIsRequest DEF SoundAfter
<1> QED
  BY <1>1, IdleIsRequest, ClubMoves DEF ClubAnswers

LEMMA SameClubs ==
  ASSUME RegistryInv, UNCHANGED clubs
  PROVE  clubs' \in [Clubs -> ClubState] /\ InsidersStay
  BY DEF RegistryInv, ClubsTyped, InsidersStay, Insider

LEMMA SameKeys ==
  ASSUME RegistryInv, UNCHANGED key
  PROVE  key' \in [Keys -> KeyRow]
  BY DEF RegistryInv, ClubsTyped

LEMMA Minting ==
  ASSUME RegistryInv, NEW k \in Keys, NEW c \in Clubs,
         NEW source \in {"register", "admin"}, Mints(k, c, source)
  PROVE  key' \in [Keys -> KeyRow]
<1>1. [at |-> "live", club |-> c, source |-> source] \in KeyRow
  BY DEF KeyRow
<1>2. key' = [key EXCEPT ![k] = [at |-> "live", club |-> c, source |-> source]]
  BY DEF Mints
<1> QED
  BY <1>1, <1>2 DEF RegistryInv, ClubsTyped

LEMMA RegisterSteps ==
  ASSUME RegistryInv, NEW d \in ClubDesks,
         \/ \E c \in Clubs : RegisterFinds(d, c)
         \/ RegisterLodges(d) \/ RegisterCreate(d) \/ RegisterWelcome(d)
  PROVE  ClubStep
<1> DEFINE q == clubReq[d]
<1>0. q \in ClubRequest /\ q.club \in Clubs /\ ClubIdle \in ClubRequest
  BY IdleIsRequest DEF RegistryInv, ClubsTyped, ClubRequest
<1>1. CASE \E c \in Clubs : RegisterFinds(d, c)
  <2>1. PICK c \in Clubs, source \in {"web", "api"}, wanted \in SUBSET Lodges :
          Continues(d, [ClubIdle EXCEPT !.at = "lodges", !.club = c,
                          !.source = source, !.lodges = wanted])
    BY <1>1 DEF RegisterFinds
  <2> DEFINE r == [ClubIdle EXCEPT !.at = "lodges", !.club = c,
                      !.source = source, !.lodges = wanted]
  <2>2. r \in ClubRequest /\ r.at = "lodges"
    BY <1>0 DEF ClubRequest
  <2>3. UNCHANGED <<clubs, key, lodgeVars>>
    BY <1>1 DEF RegisterFinds
  <2> HIDE DEF r
  <2>4. SoundAfter(r)
    BY <2>2 DEF SoundAfter
  <2>5. Continues(d, r)
    BY <2>1 DEF r
  <2> QED
    BY <2>2, <2>3, <2>4, <2>5, SameClubs, SameKeys, ClubMoves
<1>2. CASE RegisterLodges(d)
  <2> DEFINE r == [q EXCEPT !.at = "create", !.lodges = @ \cap OwnedBy(NoClub)]
  <2>1. r \in ClubRequest /\ r.at = "create"
    BY <1>0 DEF ClubRequest
  <2>2. Continues(d, r) /\ UNCHANGED <<clubs, key, lodgeVars>>
    BY <1>2 DEF RegisterLodges
  <2> HIDE DEF r
  <2>3. SoundAfter(r)
    BY <2>1 DEF SoundAfter
  <2> QED
    BY <2>1, <2>2, <2>3, SameClubs, SameKeys, ClubMoves
<1>3. CASE RegisterCreate(d)
  <2> DEFINE c == q.club
             new == [status |-> "PENDING", wants |-> q.lodges, url |-> NoUrl,
                     secret |-> 1]
             r == [q EXCEPT !.at = "mint"]
  <2>1. new \in ClubState
    BY <1>0, ClubAssumption DEF ClubState, Statuses, ClubRequest
  <2>2. clubs' = IF clubs[c].status = "none" THEN [clubs EXCEPT ![c] = new]
                 ELSE clubs
    BY <1>3 DEF RegisterCreate
  <2>3. clubs \in [Clubs -> ClubState]
    BY DEF RegistryInv, ClubsTyped
  <2>4. clubs' \in [Clubs -> ClubState]
    BY <2>1, <2>2, <2>3
  <2>5. InsidersStay
    <3> SUFFICES ASSUME NEW x \in Clubs, Insider(x) PROVE clubs'[x] = clubs[x]
      BY DEF InsidersStay, Insider
    <3> QED
      BY <2>2, <2>3 DEF Insider
  <2>6. UNCHANGED <<key, lodgeVars>>
    BY <1>3 DEF RegisterCreate
  <2>7. r \in ClubRequest /\ r.at = "mint"
    BY <1>0 DEF ClubRequest
  <2>8. Continues(d, r) \/ ClubAnswers(d)
    BY <1>3 DEF RegisterCreate
  <2> HIDE DEF r
  <2>9. SoundAfter(r)
    BY <2>7 DEF SoundAfter
  <2> QED
    BY <2>4, <2>5, <2>6, <2>7, <2>8, <2>9, SameKeys, ClubMoves, ClubRequestEnds
<1>4. CASE RegisterWelcome(d)
  <2>1. key' \in [Keys -> KeyRow]
    BY <1>0, <1>4, SameKeys, Minting DEF RegisterWelcome
  <2>2. ClubAnswers(d) /\ UNCHANGED <<clubs, lodgeVars>>
    BY <1>4 DEF RegisterWelcome
  <2> QED
    BY <2>1, <2>2, SameClubs, ClubRequestEnds
<1> QED
  BY <1>1, <1>2, <1>3, <1>4

\* A move of the review: an approved club is at most suspended.
LEMMA Moving ==
  ASSUME RegistryInv, NEW c \in Clubs, NEW from \in Statuses, NEW to \in Statuses,
         MoveTo(c, from, to),
         from \in {"APPROVED", "SUSPENDED"} => to \in {"APPROVED", "SUSPENDED"}
  PROVE  clubs' \in [Clubs -> ClubState] /\ InsidersStay /\ clubs'[c].status = to
<1>1. clubs \in [Clubs -> ClubState]
  BY DEF RegistryInv, ClubsTyped
<1>2. clubs' = [clubs EXCEPT ![c] = [clubs[c] EXCEPT !.status = to]]
  BY <1>1 DEF MoveTo
<1> DEFINE new == [clubs[c] EXCEPT !.status = to]
<1>3. new \in ClubState /\ new.status = to
  BY <1>1 DEF ClubState
<1> HIDE DEF new
<1>4. clubs' = [clubs EXCEPT ![c] = new]
  BY <1>2 DEF new
<1>5. InsidersStay
  BY <1>1, <1>3, <1>4 DEF InsidersStay, Insider, MoveTo
<1> QED
  BY <1>1, <1>3, <1>4, <1>5

LEMMA ReviewSteps ==
  ASSUME RegistryInv,
         \/ \E d \in ClubDesks, c \in Clubs : Approve(d, c)
         \/ \E c \in Clubs : OtherMove(c)
         \/ \E d \in ClubDesks : ApprovedReads(d)
  PROVE  ClubStep
<1>1. CASE \E d \in ClubDesks, c \in Clubs : Approve(d, c)
  <2>1. PICK d \in ClubDesks, c \in Clubs : Approve(d, c)
    BY <1>1
  <2>2. clubs' \in [Clubs -> ClubState] /\ InsidersStay
        /\ clubs'[c].status = "APPROVED"
    BY <2>1, Moving DEF Approve, Statuses
  <2>3. UNCHANGED <<key, lodgeVars>>
    BY <2>1 DEF Approve
  <2> DEFINE r == [ClubIdle EXCEPT !.at = "approved", !.club = c]
  <2>4. r \in ClubRequest /\ r.club = c
    BY IdleIsRequest DEF ClubRequest
  <2>5. Continues(d, r) \/ UNCHANGED clubReq
    BY <2>1 DEF Approve
  <2> HIDE DEF r
  <2>6. SoundAfter(r)
    BY <2>2, <2>4 DEF SoundAfter
  <2> QED
    BY <2>2, <2>3, <2>4, <2>5, <2>6, SameKeys, ClubMoves, RowsOfClubsMove
<1>2. CASE \E c \in Clubs : OtherMove(c)
  <2>1. clubs' \in [Clubs -> ClubState] /\ InsidersStay
    BY <1>2, Moving DEF OtherMove, Statuses
  <2>2. UNCHANGED <<key, clubReq, lodgeVars>>
    BY <1>2 DEF OtherMove
  <2> QED
    BY <2>1, <2>2, SameKeys, RowsOfClubsMove
<1>3. CASE \E d \in ClubDesks : ApprovedReads(d)
  <2>1. PICK d \in ClubDesks : ApprovedReads(d)
    BY <1>3
  <2> DEFINE q == clubReq[d]
             free == {l \in clubs[q.club].wants : Grantable(q.club, l)}
             r == [q EXCEPT !.at = "free", !.lodges = free]
  <2>2. q \in ClubRequest /\ q.at = "approved" /\ Insider(q.club)
    BY <2>1 DEF ApprovedReads, RegistryInv, ClubsTyped, ClubsSound, ClubReqSound
  <2>3. free \in SUBSET Lodges
    BY DEF Grantable, Live
  <2>4. r \in ClubRequest /\ r.club = q.club
    BY <2>2, <2>3 DEF ClubRequest
  <2>5. /\ Continues(d, r) \/ ClubAnswers(d)
        /\ UNCHANGED <<clubs, key, lodgeVars>>
    BY <2>1 DEF ApprovedReads
  <2> HIDE DEF r, free
  <2>6. SoundAfter(r)
    BY <2>2, <2>4, <2>5 DEF SoundAfter, Insider
  <2> QED
    BY <2>4, <2>5, <2>6, SameClubs, SameKeys, ClubMoves, ClubRequestEnds
<1> QED
  BY <1>1, <1>2, <1>3

LEMMA KeySteps ==
  ASSUME RegistryInv,
         \/ \E d \in ClubDesks, c \in Clubs : IssueRead(d, c)
         \/ \E d \in ClubDesks : IssueCreate(d) \/ DeleteKey(d) \/ ClubRequestFails(d)
         \/ \E d \in ClubDesks, k \in Keys : DeleteKeyRead(d, k)
         \/ \E k \in Keys : Revoke(k)
  PROVE  ClubStep
<1>0. key \in [Keys -> KeyRow]
  BY DEF RegistryInv, ClubsTyped
<1>1. CASE \E d \in ClubDesks, c \in Clubs : IssueRead(d, c)
  <2>1. PICK d \in ClubDesks, c \in Clubs : IssueRead(d, c)
    BY <1>1
  <2> DEFINE r == [ClubIdle EXCEPT !.at = "issue", !.club = c]
  <2>2. r \in ClubRequest /\ r.at = "issue"
    BY IdleIsRequest DEF ClubRequest
  <2>3. Continues(d, r) /\ UNCHANGED <<clubs, key, lodgeVars>>
    BY <2>1 DEF IssueRead
  <2> HIDE DEF r
  <2>4. SoundAfter(r)
    BY <2>2 DEF SoundAfter
  <2> QED
    BY <2>2, <2>3, <2>4, SameClubs, SameKeys, ClubMoves
<1>2. CASE \E d \in ClubDesks : IssueCreate(d)
  <2>1. PICK d \in ClubDesks : IssueCreate(d)
    BY <1>2
  <2>2. clubReq[d].club \in Clubs
    BY DEF RegistryInv, ClubsTyped, ClubRequest
  <2>3. key' \in [Keys -> KeyRow]
    BY <2>1, <2>2, Minting DEF IssueCreate
  <2>4. ClubAnswers(d) /\ UNCHANGED <<clubs, lodgeVars>>
    BY <2>1 DEF IssueCreate
  <2> QED
    BY <2>3, <2>4, SameClubs, ClubRequestEnds
<1>3. CASE \E d \in ClubDesks : DeleteKey(d)
  <2>1. PICK d \in ClubDesks : DeleteKey(d)
    BY <1>3
  <2>2. \A k \in Keys : [key[k] EXCEPT !.at = "deleted"] \in KeyRow
    BY <1>0 DEF KeyRow
  <2>3. key' \in [Keys -> KeyRow]
    BY <1>0, <2>1, <2>2 DEF DeleteKey
  <2>4. ClubAnswers(d) /\ UNCHANGED <<clubs, lodgeVars>>
    BY <2>1 DEF DeleteKey
  <2> QED
    BY <2>3, <2>4, SameClubs, ClubRequestEnds
<1>4. CASE \E d \in ClubDesks : ClubRequestFails(d)
  BY <1>4, SameClubs, SameKeys, ClubRequestEnds DEF ClubRequestFails
<1>5. CASE \E d \in ClubDesks, k \in Keys : DeleteKeyRead(d, k)
  <2>1. PICK d \in ClubDesks, k \in Keys : DeleteKeyRead(d, k)
    BY <1>5
  <2> DEFINE r == [ClubIdle EXCEPT !.at = "destroy", !.key = {k}]
  <2>2. r \in ClubRequest /\ r.at = "destroy"
    BY IdleIsRequest DEF ClubRequest
  <2>3. Continues(d, r) /\ UNCHANGED <<clubs, key, lodgeVars>>
    BY <2>1 DEF DeleteKeyRead
  <2> HIDE DEF r
  <2>4. SoundAfter(r)
    BY <2>2 DEF SoundAfter
  <2> QED
    BY <2>2, <2>3, <2>4, SameClubs, SameKeys, ClubMoves
<1>6. CASE \E k \in Keys : Revoke(k)
  <2>1. PICK k \in Keys : Revoke(k)
    BY <1>6
  <2>2. [key[k] EXCEPT !.at = "revoked"] \in KeyRow
    BY <1>0 DEF KeyRow
  <2>3. key' = [key EXCEPT ![k] = [key[k] EXCEPT !.at = "revoked"]]
    BY <1>0, <2>1 DEF Revoke
  <2>4. key' \in [Keys -> KeyRow] /\ UNCHANGED <<clubs, clubReq, lodgeVars>>
    BY <1>0, <2>1, <2>2, <2>3 DEF Revoke
  <2> QED
    BY <2>4, SameClubs, RowsOfClubsMove
<1> QED
  BY <1>1, <1>2, <1>3, <1>4, <1>5, <1>6

LEMMA TargetSteps ==
  ASSUME RegistryInv,
         \/ \E d \in ClubDesks, k \in Keys : PutTargetRead(d, k)
         \/ \E d \in ClubDesks : PutTargetWrite(d)
         \/ \E k \in Keys : DeleteTarget(k)
  PROVE  ClubStep
<1>0. clubs \in [Clubs -> ClubState] /\ clubReq \in [ClubDesks -> ClubRequest]
  BY DEF RegistryInv, ClubsTyped
<1>1. CASE \E d \in ClubDesks, k \in Keys : PutTargetRead(d, k)
  <2>1. PICK d \in ClubDesks, k \in Keys : PutTargetRead(d, k)
    BY <1>1
  <2> DEFINE c == key[k].club
             up(u) == IF Rotates(clubs[c].url, u) THEN 1 ELSE 0
  <2>2. c \in Clubs /\ Insider(c) /\ clubs[c].secret \in 1..MaxSecret
    BY <1>0, <2>1, AdmittedInside DEF PutTargetRead, ClubState
  <2>3. PICK url \in Urls :
          /\ clubs[c].secret + up(url) <= MaxSecret
          /\ Continues(d, [ClubIdle EXCEPT !.at = "put", !.club = c, !.url = url,
                             !.secret = clubs[c].secret + up(url)])
    BY <2>1 DEF PutTargetRead
  <2> DEFINE next == clubs[c].secret + up(url)
             r == [ClubIdle EXCEPT !.at = "put", !.club = c, !.url = url,
                                   !.secret = next]
  <2>4. next \in 1..MaxSecret
    BY <2>2, <2>3, ClubAssumption
  <2>5. Continues(d, r)
    BY <2>3
  <2>6. r \in ClubRequest /\ r.club = c
    <3> HIDE DEF next, c
    <3> QED
      BY <2>2, <2>4, IdleIsRequest DEF ClubRequest
  <2>7. UNCHANGED <<clubs, key, lodgeVars>>
    BY <2>1 DEF PutTargetRead
  <2> HIDE DEF r, c
  <2>8. SoundAfter(r)
    BY <2>2, <2>6, <2>7 DEF SoundAfter, Insider
  <2> QED
    BY <2>5, <2>6, <2>7, <2>8, SameClubs, SameKeys, ClubMoves
<1>2. CASE \E d \in ClubDesks : PutTargetWrite(d)
  <2>1. PICK d \in ClubDesks : PutTargetWrite(d)
    BY <1>2
  <2> DEFINE q == clubReq[d]
             c == q.club
             new == [clubs[c] EXCEPT !.url = q.url, !.secret = q.secret]
  <2>2. c \in Clubs /\ q.url \in Urls \cup {NoUrl} /\ q.secret \in 1..MaxSecret
    BY <1>0 DEF ClubRequest
  <2>3. clubs' = [clubs EXCEPT ![c] = new]
    BY <1>0, <2>1, <2>2 DEF PutTargetWrite
  <2>4. new \in ClubState /\ new.status = clubs[c].status
    BY <1>0, <2>2 DEF ClubState
  <2>5. UNCHANGED <<key, lodgeVars>> /\ ClubAnswers(d)
    BY <2>1 DEF PutTargetWrite
  <2> HIDE DEF new
  <2>6. clubs' \in [Clubs -> ClubState] /\ InsidersStay
    BY <1>0, <2>2, <2>3, <2>4 DEF InsidersStay, Insider
  <2> QED
    BY <2>5, <2>6, SameKeys, ClubRequestEnds
<1>3. CASE \E k \in Keys : DeleteTarget(k)
  <2>1. PICK k \in Keys : DeleteTarget(k)
    BY <1>3
  <2> DEFINE c == key[k].club
             new == [clubs[c] EXCEPT !.url = NoUrl]
  <2>2. c \in Clubs
    BY <2>1, AdmittedInside DEF DeleteTarget
  <2>3. clubs' = [clubs EXCEPT ![c] = new]
    BY <1>0, <2>1, <2>2 DEF DeleteTarget
  <2>4. new \in ClubState /\ new.status = clubs[c].status
    BY <1>0, <2>2 DEF ClubState
  <2>5. UNCHANGED <<key, clubReq, lodgeVars>>
    BY <2>1 DEF DeleteTarget
  <2> HIDE DEF new
  <2>6. clubs' \in [Clubs -> ClubState] /\ InsidersStay
    BY <1>0, <2>2, <2>3, <2>4 DEF InsidersStay, Insider
  <2> QED
    BY <2>5, <2>6, SameKeys, RowsOfClubsMove
<1> QED
  BY <1>1, <1>2, <1>3

-----------------------------------------------------------------------------
(***************************************************************************)
(* Every step is one of the three kinds, and each keeps the invariant.     *)
(***************************************************************************)
LEMMA ListIsRequested ==
  ASSUME RegistryInv, NEW e \in LodgeDesks, NEW c \in Clubs,
         NEW wanted \in SUBSET Lodges, AssignBegin(e, c, wanted), Insider(c),
         UNCHANGED <<clubs, key>>, ClubsTyped', ClubsSound'
  PROVE  RequestStep
<1>1. Decides(e, "wanted", c, wanted, NoEdit) /\ lodge' = lodge
  BY DEF AssignBegin
<1>2. c \in Owners
  BY DEF Owners
<1> QED
  BY <1>1, <1>2, NoEditFits, DecidesIsStep

LEMMA ListSteps ==
  ASSUME RegistryInv,
         \/ \E d \in ClubDesks : ApprovedAssigns(d)
         \/ \E d \in LodgeDesks, c \in Clubs : SaveClubLodges(d, c)
  PROVE  RequestStep
<1>1. CASE \E d \in ClubDesks : ApprovedAssigns(d)
  <2>1. PICK d \in ClubDesks : ApprovedAssigns(d)
    BY <1>1
  <2> DEFINE q == clubReq[d]
  <2>2. PICK e \in LodgeDesks : AssignBegin(e, q.club, q.lodges)
    BY <2>1 DEF ApprovedAssigns
  <2>3. q \in ClubRequest /\ q.at = "free" /\ Insider(q.club)
    BY <2>1 DEF ApprovedAssigns, RegistryInv, ClubsTyped, ClubsSound, ClubReqSound
  <2>4. q.club \in Clubs /\ q.lodges \in SUBSET Lodges
    BY <2>3 DEF ClubRequest
  <2>5. UNCHANGED <<clubs, key>> /\ ClubAnswers(d)
    BY <2>1 DEF ApprovedAssigns
  <2>6. SoundAfter(ClubIdle)
    BY IdleIsRequest DEF SoundAfter
  <2>7. ClubsTyped' /\ ClubsSound'
    BY <2>5, <2>6, IdleIsRequest, SameClubs, SameKeys, ClubsFollow DEF ClubAnswers
  <2> HIDE DEF q
  <2> QED
    BY <2>2, <2>3, <2>4, <2>5, <2>7, ListIsRequested
<1>2. CASE \E d \in LodgeDesks, c \in Clubs : SaveClubLodges(d, c)
  <2>1. PICK d \in LodgeDesks, c \in Clubs : SaveClubLodges(d, c)
    BY <1>2
  <2>2. PICK wanted \in SUBSET Lodges : AssignBegin(d, c, wanted)
    BY <2>1 DEF SaveClubLodges
  <2>3. Insider(c) /\ UNCHANGED clubVars
    BY <2>1 DEF SaveClubLodges, Insider
  <2> QED
    BY <2>2, <2>3, ClubsKept, ListIsRequested
<1> QED
  BY <1>1, <1>2

LEMMA ContinuesIsStep ==
  ASSUME RegistryInv, NEW d \in LodgeDesks, LodgeContinues(d), UNCHANGED clubVars
  PROVE  RequestStep \/ WriteStep
  BY WritesAreSteps, AssignSteps DEF LodgeContinues, Writes

LEMMA NextIsStep ==
  ASSUME RegistryInv, RegistryNext
  PROVE  ClubStep \/ RequestStep \/ WriteStep
<1>1. CASE ClubNext
  BY <1>1, RegisterSteps, ReviewSteps, KeySteps, TargetSteps
  DEF ClubNext, RegistersOrReviews
<1>2. CASE OwnershipNext
  BY <1>2, ReviewSteps, ListSteps, UploadsAreSteps, ConsoleSteps, ContinuesIsStep
  DEF OwnershipNext
<1>3. CASE EditingNext
  BY <1>3, UploadsAreSteps, ConsoleSteps, ContinuesIsStep
  DEF EditingNext, ConsoleOpens
<1> QED
  BY <1>1, <1>2, <1>3 DEF RegistryNext

\* A decision that was sound stays so when no club loses its approval and no
\* lodge its existence.
LodgesStay == \A l \in Lodges : lodge[l].at # "unused" => lodge'[l].at # "unused"

LEMMA SoundStays ==
  ASSUME NEW q \in LodgeRequest, Sound(q), InsidersStay, LodgesStay
  PROVE  Sound(q)'
<1>1. q.add \subseteq Lodges
  BY DEF LodgeRequest
<1>2. \A l \in q.add : lodge'[l].at # "unused"
  BY <1>1 DEF Sound, LodgesStay
<1>3. q.club \in Clubs => Insider(q.club)'
  BY DEF Sound, InsidersStay
<1> QED
  BY <1>2, <1>3 DEF Sound, Apart

LEMMA ClubStepKeeps ==
  ASSUME RegistryInv, ClubStep
  PROVE  RegistryInv'
<1>1. lodge' = lodge /\ lodgeReq' = lodgeReq
  BY DEF ClubStep, lodgeVars
<1>2. LodgesTyped'
  BY <1>1 DEF RegistryInv, LodgesTyped
<1>3. ASSUME NEW l \in Lodges PROVE RowSound(l)'
  <2>1. RowSound(l)
    BY DEF RegistryInv, LodgesSound
  <2> QED
    BY <1>1, <2>1 DEF ClubStep, InsidersStay, RowSound
<1>4. ASSUME NEW d \in LodgeDesks PROVE Sound(lodgeReq[d])'
  <2>1. lodgeReq[d] \in LodgeRequest /\ Sound(lodgeReq[d])
    BY DEF RegistryInv, LodgesTyped, LodgesSound
  <2>2. LodgesStay /\ InsidersStay
    BY <1>1 DEF LodgesStay, ClubStep
  <2> QED
    BY <1>1, <2>1, <2>2, SoundStays
<1> QED
  BY <1>2, <1>3, <1>4 DEF RegistryInv, ClubStep, LodgesSound

LEMMA RequestStepKeeps ==
  ASSUME RegistryInv, RequestStep
  PROVE  RegistryInv'
<1>1. PICK d \in LodgeDesks, q \in LodgeRequest :
        Sound(q) /\ lodgeReq' = [lodgeReq EXCEPT ![d] = q]
  BY DEF RequestStep
<1>2. lodge' = lodge /\ clubs' = clubs
  BY DEF RequestStep
<1>3. LodgesStay /\ InsidersStay
  BY <1>2 DEF LodgesStay, InsidersStay, Insider
<1>4. LodgesTyped'
  BY <1>1, <1>2 DEF RegistryInv, LodgesTyped
<1>5. ASSUME NEW l \in Lodges PROVE RowSound(l)'
  <2>1. RowSound(l)
    BY DEF RegistryInv, LodgesSound
  <2> QED
    BY <1>2, <1>3, <2>1 DEF InsidersStay, RowSound
<1>6. ASSUME NEW e \in LodgeDesks PROVE Sound(lodgeReq[e])'
  <2>1. lodgeReq[e] \in LodgeRequest /\ Sound(lodgeReq[e])
    BY DEF RegistryInv, LodgesTyped, LodgesSound
  <2>2. lodgeReq'[e] = q \/ lodgeReq'[e] = lodgeReq[e]
    BY <1>1 DEF RegistryInv, LodgesTyped
  <2> QED
    BY <1>1, <1>3, <2>1, <2>2, SoundStays
<1> QED
  BY <1>4, <1>5, <1>6 DEF RegistryInv, RequestStep, LodgesSound

LEMMA WriteStepKeeps ==
  ASSUME RegistryInv, WriteStep
  PROVE  RegistryInv'
<1>1. PICK d \in LodgeDesks :
        /\ lodgeReq' = [lodgeReq EXCEPT ![d] = LodgeIdle]
        /\ lodge' \in [Lodges -> LodgeRow]
        /\ \A l \in Lodges : RowStep(d, l)
  BY DEF WriteStep
<1>2. ClubsTyped' /\ ClubsSound' /\ InsidersStay
  BY ClubsKept DEF WriteStep
<1>3. LodgesStay
  BY <1>1 DEF LodgesStay, RowStep
<1>4. LodgesTyped'
  BY <1>1, IdleIsRequest DEF RegistryInv, LodgesTyped
<1>5. ASSUME NEW l \in Lodges PROVE RowSound(l)'
  <2>1. RowSound(l) /\ RowStep(d, l) /\ Sound(lodgeReq[d])
    BY <1>1 DEF RegistryInv, LodgesSound
  <2>2. NoClub \notin Clubs
    BY LodgeAssumption
  <2>3. lodge'[l].owner \in Clubs => Insider(lodge'[l].owner)
    BY <2>1, <2>2 DEF RowSound, RowStep, Sound
  <2>4. lodge'[l].by \in Clubs => Insider(lodge'[l].by)
    BY <2>1, <2>2 DEF RowSound, RowStep, Sound
  <2>5. lodge'[l].at = "unused" => lodge'[l].owner = NoClub
    BY <2>1 DEF RowSound, RowStep
  <2> QED
    BY <1>2, <2>3, <2>4, <2>5 DEF InsidersStay, RowSound
<1>6. ASSUME NEW e \in LodgeDesks PROVE Sound(lodgeReq[e])'
  <2>1. lodgeReq[e] \in LodgeRequest /\ Sound(lodgeReq[e])
    BY DEF RegistryInv, LodgesTyped, LodgesSound
  <2>2. lodgeReq'[e] = LodgeIdle \/ lodgeReq'[e] = lodgeReq[e]
    BY <1>1 DEF RegistryInv, LodgesTyped
  <2> QED
    BY <1>2, <1>3, <2>1, <2>2, SoundStays, IdleIsRequest
<1> QED
  BY <1>2, <1>4, <1>5, <1>6 DEF RegistryInv, LodgesSound

registryVars == <<clubVars, lodgeVars>>

LEMMA Stutters ==
  ASSUME RegistryInv, UNCHANGED registryVars
  PROVE  ClubStep
  BY ClubsKept DEF registryVars, ClubStep

LEMMA InvHoldsInitially == RegistryInit => RegistryInv
<1> SUFFICES ASSUME RegistryInit PROVE RegistryInv
  OBVIOUS
<1>1. [status |-> "none", wants |-> {}, url |-> NoUrl, secret |-> 1] \in ClubState
  BY ClubAssumption DEF ClubState, Statuses
<1>2. ClubsTyped /\ ClubsSound
  BY <1>1, IdleIsRequest
  DEF RegistryInit, ClubsTyped, ClubsSound, ClubReqSound
<1>3. LodgesTyped
  BY IdleIsRequest DEF RegistryInit, LodgesTyped
<1>4. LodgesSound
  BY IdleIsRequest, LodgeAssumption DEF RegistryInit, LodgesSound, RowSound
<1> QED
  BY <1>2, <1>3, <1>4 DEF RegistryInv

LEMMA InvIsKept == RegistryInv /\ [RegistryNext]_registryVars => RegistryInv'
  BY NextIsStep, Stutters, ClubStepKeeps, RequestStepKeeps, WriteStepKeeps

\* The registry's inductive invariant: rows and requests are what the code can
\* hold, and every club that owns, described or is about to claim a lodge was
\* approved once.
THEOREM RegistryInductive == RegistrySpec => []RegistryInv
  BY InvHoldsInitially, InvIsKept, PTL DEF RegistrySpec, registryVars

LEMMA OutsidersOut == RegistryInv => OutsidersOwnNothing
  BY DEF RegistryInv, LodgesSound, RowSound, OutsidersOwnNothing, Insider

\* A club no administrator approved owns and describes no lodge.
THEOREM OutsidersStayOut == RegistrySpec => []OutsidersOwnNothing
  BY OutsidersOut, RegistryInductive, PTL

\* What each kind of step may do to a row.
LEMMA RowsStep ==
  ASSUME RegistryInv, [RegistryNext]_registryVars
  PROVE  lodge' = lodge \/ \E d \in LodgeDesks : \A l \in Lodges : RowStep(d, l)
  BY NextIsStep, Stutters DEF ClubStep, RequestStep, WriteStep, lodgeVars

\* Ownership passes through the centre, however saves of two lists overlap.
THEOREM HandoverThroughCentre == RegistrySpec => NoDirectHandover
<1>1. RegistryInv /\ [RegistryNext]_registryVars =>
        [\A l \in Lodges : lodge[l].owner # NoClub =>
           lodge'[l].owner \in {lodge[l].owner, NoClub}]_lodgeVars
  BY RowsStep DEF RowStep
<1> QED
  BY <1>1, RegistryInductive, PTL DEF RegistrySpec, NoDirectHandover, registryVars

\* What was deleted stays as it was, whatever was decided before.
THEOREM DeletedStays == RegistrySpec => DeletedIsFinal
<1>1. RegistryInv /\ [RegistryNext]_registryVars =>
        [\A l \in Lodges : lodge[l].at = "deleted" =>
           lodge'[l] = [lodge[l] EXCEPT !.owner = lodge'[l].owner]]_lodgeVars
  <2> SUFFICES ASSUME RegistryInv, [RegistryNext]_registryVars, NEW l \in Lodges,
                      lodge[l].at = "deleted"
               PROVE  lodge'[l] = [lodge[l] EXCEPT !.owner = lodge'[l].owner]
    OBVIOUS
  <2>1. lodge[l] \in LodgeRow
    BY DEF RegistryInv, LodgesTyped
  <2>2. lodge[l] = [lodge[l] EXCEPT !.owner = lodge[l].owner]
    BY <2>1 DEF LodgeRow
  <2>3. lodge' = lodge \/ \E d \in LodgeDesks : RowStep(d, l)
    BY RowsStep
  <2> QED
    BY <2>2, <2>3 DEF RowStep
<1> QED
  BY <1>1, RegistryInductive, PTL DEF RegistrySpec, DeletedIsFinal, registryVars

\* No save makes the seasons of a row it read share days.
THEOREM ClashNeedsTwo == RegistrySpec => ClashTakesTwo
<1>1. RegistryInv /\ [RegistryNext]_registryVars =>
        [\A l \in Lodges :
           (~SeasonsClash(lodge[l]) /\ SeasonsClash(lodge'[l])) =>
             \E d \in LodgeDesks :
               SaveEnds(d, l) /\ lodgeReq[d].seen # {lodge[l]}]_lodgeVars
  BY RowsStep DEF RowStep, ClashExplained
<1> QED
  BY <1>1, RegistryInductive, PTL DEF RegistrySpec, ClashTakesTwo, registryVars

-----------------------------------------------------------------------------
(***************************************************************************)
(* Titles.  What writes a row changes the title of one lodge, but for the  *)
(* save of a list; what writes none admits clubs at most.                  *)
(***************************************************************************)
KeepsTitles == [Titles!Next]_(Titles!titleVars)

LEMMA OneRowOfTitles ==
  ASSUME RegistryInv, NEW l \in Lodges, NEW row \in LodgeRow,
         lodge' = [lodge EXCEPT ![l] = row]
  PROVE  /\ Standing' = [Standing EXCEPT ![l] = row.at]
         /\ Holder' = [Holder EXCEPT ![l] = row.owner]
         /\ Credit' = [Credit EXCEPT ![l] = row.by]
         /\ Says' = [Says EXCEPT ![l] = Says'[l]]
<1>1. lodge \in [Lodges -> LodgeRow]
  BY DEF RegistryInv, LodgesTyped
<1>2. \A x \in Lodges : lodge'[x] = IF x = l THEN row ELSE lodge[x]
  BY <1>1
<1>3. \A x \in Lodges :
        /\ lodge'[x].at = IF x = l THEN row.at ELSE lodge[x].at
        /\ lodge'[x].owner = IF x = l THEN row.owner ELSE lodge[x].owner
        /\ lodge'[x].by = IF x = l THEN row.by ELSE lodge[x].by
  BY <1>2
<1>4. Standing' = [Standing EXCEPT ![l] = row.at]
  <2>1. Standing' = [x \in Lodges |-> IF x = l THEN row.at ELSE lodge[x].at]
    BY <1>3 DEF Standing
  <2> QED
    BY <2>1 DEF Standing
<1>5. Holder' = [Holder EXCEPT ![l] = row.owner]
  <2>1. Holder' = [x \in Lodges |-> IF x = l THEN row.owner ELSE lodge[x].owner]
    BY <1>3 DEF Holder
  <2> QED
    BY <2>1 DEF Holder
<1>6. Credit' = [Credit EXCEPT ![l] = row.by]
  <2>1. Credit' = [x \in Lodges |-> IF x = l THEN row.by ELSE lodge[x].by]
    BY <1>3 DEF Credit
  <2> QED
    BY <2>1 DEF Credit
<1>7. Says' = [Says EXCEPT ![l] = Says'[l]]
  <2>1. \A x \in Lodges \ {l} : Says'[x] = Says[x]
    BY <1>2 DEF Says
  <2>2. Says' = [x \in Lodges |-> Says'[x]]
    BY DEF Says
  <2>3. Says = [x \in Lodges |-> Says[x]]
    BY DEF Says
  <2> QED
    BY <2>1, <2>2, <2>3
<1> QED
  BY <1>4, <1>5, <1>6, <1>7

LEMMA SameApproved ==
  ASSUME UNCHANGED clubVars
  PROVE  Approved' = Approved
  BY DEF Approved, clubVars

LEMMA SameTitles ==
  ASSUME UNCHANGED <<lodge, clubs>>
  PROVE  KeepsTitles
<1>1. UNCHANGED <<Approved, Standing, Holder, Says, Credit>>
  BY DEF Approved, Standing, Holder, Says, Credit
<1> QED
  BY <1>1 DEF KeepsTitles, Titles!titleVars

\* Who a request is about may hold and describe.
LEMMA RequestIsParty ==
  ASSUME RegistryInv, NEW d \in LodgeDesks
  PROVE  lodgeReq[d].club \in Titles!Parties /\ NoClub \in Titles!Parties
<1>1. lodgeReq[d].club \in Clubs \cup {NoClub} /\ Sound(lodgeReq[d])
  BY DEF RegistryInv, LodgesTyped, LodgesSound, LodgeRequest, Owners
<1> QED
  BY <1>1 DEF Sound, Insider, Approved, Titles!Parties

\* An upload or an edit describes a live lodge.
LEMMA SaveDescribes ==
  ASSUME RegistryInv, NEW d \in LodgeDesks, UNCHANGED clubVars,
         UploadWrite(d) \/ PatchWrite(d)
  PROVE  KeepsTitles
<1> DEFINE q == lodgeReq[d]
<1>1. PICK l \in Lodges : q.lodge = {l}
  BY DEF UploadWrite, PatchWrite, RegistryInv, LodgesSound, Sound
<1>2. Subject(d) = l
  BY <1>1 DEF Subject
<1>3. lodge \in [Lodges -> LodgeRow] /\ q \in LodgeRequest
  BY DEF RegistryInv, LodgesTyped
<1> DEFINE by == IF q.at = "upload" THEN q.club ELSE NoClub
           row == [Merged(lodge[l], q.edit) EXCEPT !.by = by]
<1>4. lodge' = IF Writable(l) THEN [lodge EXCEPT ![l] = row] ELSE lodge
  BY <1>2 DEF UploadWrite, PatchWrite
<1>5. CASE ~Writable(l)
  BY <1>4, <1>5, SameTitles DEF clubVars
<1>6. CASE Writable(l)
  <2>1. q.edit \in Edits
    BY <1>3 DEF LodgeRequest
  <2>2. /\ Merged(lodge[l], q.edit) \in LodgeRow
        /\ Merged(lodge[l], q.edit).at = lodge[l].at
        /\ Merged(lodge[l], q.edit).owner = lodge[l].owner
    BY <1>3, <2>1, MergedIsRow
  <2>a. by \in Owners
    BY <1>3 DEF LodgeRequest, Owners
  <2>3. /\ row.at = lodge[l].at /\ row.owner = lodge[l].owner /\ row.by = by
        /\ row \in LodgeRow
    <3> HIDE DEF by, q
    <3> QED
      BY <1>3, <2>2, <2>a DEF LodgeRow
  <2>4. lodge[l].at = "live"
    BY <1>6 DEF Writable
  <2>5. lodge' = [lodge EXCEPT ![l] = row]
    BY <1>4, <1>6
  <2>6. by \in Titles!Parties
    BY RequestIsParty
  <2> HIDE DEF row, by
  <2>b. /\ Standing' = [Standing EXCEPT ![l] = row.at]
        /\ Holder' = [Holder EXCEPT ![l] = row.owner]
        /\ Credit' = [Credit EXCEPT ![l] = row.by]
        /\ Says' = [Says EXCEPT ![l] = Says'[l]]
    BY <2>3, <2>5, OneRowOfTitles
  <2>7. /\ Standing' = [Standing EXCEPT ![l] = lodge[l].at]
        /\ Holder' = [Holder EXCEPT ![l] = lodge[l].owner]
        /\ Credit' = [Credit EXCEPT ![l] = by]
        /\ Says' = [Says EXCEPT ![l] = Says'[l]]
    BY <2>3, <2>b
  <2>8. Standing' = Standing /\ Holder' = Holder /\ Standing[l] = "live"
    BY <2>4, <2>7 DEF Standing, Holder
  <2>9. Titles!Describe(l, by)
    BY <2>7, <2>8, SameApproved DEF Titles!Describe, Titles!Rewritten
  <2> QED
    BY <2>6, <2>9 DEF KeepsTitles, Titles!Next
<1> QED
  BY <1>5, <1>6

\* A create makes a lodge appear, its club's or the centre's.
LEMMA CreateAppears ==
  ASSUME RegistryInv, NEW d \in LodgeDesks, UNCHANGED clubVars, Create(d)
  PROVE  KeepsTitles
<1> DEFINE q == lodgeReq[d]
<1>1. PICK l \in Lodges :
        /\ lodge[l].at = "unused"
        /\ lodge' = [lodge EXCEPT ![l] =
             [Merged(Blank(l), q.edit) EXCEPT
                !.at = "live", !.owner = q.club, !.by = q.club]]
  BY DEF Create
<1> DEFINE row == [Merged(Blank(l), q.edit) EXCEPT
                     !.at = "live", !.owner = q.club, !.by = q.club]
<1>2. Blank(l) \in LodgeRow
  BY DEF RegistryInv, LodgesTyped, Blank, Unset, LodgeRow, Season
<1>3. Merged(Blank(l), q.edit) \in LodgeRow
  BY <1>2, MergedIsRow DEF RegistryInv, LodgesTyped, LodgeRequest
<1>a. q.club \in Owners
  BY DEF LodgeRequest, RegistryInv, LodgesTyped
<1>4. /\ row.at = "live" /\ row.owner = q.club /\ row.by = q.club
      /\ row \in LodgeRow
  <2> HIDE DEF q
  <2> QED
    BY <1>3, <1>a DEF LodgeRow
<1>5. lodge' = [lodge EXCEPT ![l] = row]
  BY <1>1
<1>6. q.club \in Titles!Parties
  BY RequestIsParty
<1> HIDE DEF row
<1>b. /\ Standing' = [Standing EXCEPT ![l] = row.at]
      /\ Holder' = [Holder EXCEPT ![l] = row.owner]
      /\ Credit' = [Credit EXCEPT ![l] = row.by]
      /\ Says' = [Says EXCEPT ![l] = Says'[l]]
  BY <1>4, <1>5, OneRowOfTitles
<1>7. /\ Standing' = [Standing EXCEPT ![l] = "live"]
      /\ Holder' = [Holder EXCEPT ![l] = q.club]
      /\ Credit' = [Credit EXCEPT ![l] = q.club]
      /\ Says' = [Says EXCEPT ![l] = Says'[l]]
  BY <1>4, <1>b
<1>8. Standing[l] = "unused"
  BY <1>1 DEF Standing
<1>9. Titles!Appear(l, q.club)
  BY <1>7, <1>8, SameApproved DEF Titles!Appear, Titles!Rewritten
<1> HIDE DEF q
<1> QED
  BY <1>6, <1>9 DEF KeepsTitles, Titles!Next

LEMMA DeleteDeletes ==
  ASSUME RegistryInv, NEW d \in LodgeDesks, UNCHANGED clubVars, DeleteWrite(d)
  PROVE  KeepsTitles
<1>1. PICK l \in Lodges : lodgeReq[d].lodge = {l}
  BY DEF DeleteWrite, RegistryInv, LodgesSound, Sound
<1>2. Subject(d) = l
  BY <1>1 DEF Subject
<1>3. lodge \in [Lodges -> LodgeRow]
  BY DEF RegistryInv, LodgesTyped
<1> DEFINE row == [lodge[l] EXCEPT !.at = "deleted"]
<1>4. lodge' = IF Writable(l) THEN [lodge EXCEPT ![l] = row] ELSE lodge
  BY <1>2, <1>3 DEF DeleteWrite
<1>5. CASE ~Writable(l)
  BY <1>4, <1>5, SameTitles DEF clubVars
<1>6. CASE Writable(l)
  <2>1. lodge' = [lodge EXCEPT ![l] = row] /\ lodge[l].at = "live"
    BY <1>4, <1>6 DEF Writable
  <2>2. /\ row.at = "deleted" /\ row.owner = lodge[l].owner
        /\ row.by = lodge[l].by /\ row.name = lodge[l].name
        /\ row.winter = lodge[l].winter /\ row.summer = lodge[l].summer
        /\ row \in LodgeRow
    BY <1>3 DEF LodgeRow
  <2> HIDE DEF row
  <2>3. Standing' = [Standing EXCEPT ![l] = "deleted"]
    BY <2>1, <2>2, OneRowOfTitles
  <2>4. \A x \in Lodges : lodge'[x] = IF x = l THEN row ELSE lodge[x]
    BY <1>3, <2>1
  <2>5. Holder' = Holder /\ Credit' = Credit /\ Says' = Says
    BY <2>2, <2>4 DEF Holder, Credit, Says
  <2>6. Standing[l] = "live"
    BY <2>1 DEF Standing
  <2>7. Titles!Delete(l)
    BY <2>3, <2>5, <2>6, SameApproved DEF Titles!Delete
  <2> QED
    BY <2>7 DEF KeepsTitles, Titles!Next
<1> QED
  BY <1>5, <1>6

\* A save of a list moves lodges of its club, or of nobody.
LEMMA AssignReassigns ==
  ASSUME RegistryInv, NEW d \in LodgeDesks, UNCHANGED clubVars, AssignWrite(d)
  PROVE  KeepsTitles
<1> DEFINE c == lodgeReq[d].club
           add == lodgeReq[d].add
           dropped == {l \in lodgeReq[d].drop : lodge[l].owner = c}
<1>1. lodge \in [Lodges -> LodgeRow] /\ lodgeReq[d] \in LodgeRequest
  BY DEF RegistryInv, LodgesTyped
<1>2. add \subseteq Lodges /\ dropped \subseteq Lodges /\ c \in Clubs \cup {NoClub}
  BY <1>1 DEF LodgeRequest, Owners
<1>3. \A l \in add : lodge[l].at # "unused"
  BY DEF RegistryInv, LodgesSound, Sound
<1>4. lodge' = IF Claimed(add) = add
               THEN [l \in Lodges |->
                       IF l \in add THEN [lodge[l] EXCEPT !.owner = c]
                       ELSE IF l \in dropped
                            THEN [lodge[l] EXCEPT !.owner = NoClub]
                       ELSE lodge[l]]
               ELSE lodge
  BY DEF AssignWrite
<1>5. CASE Claimed(add) # add
  BY <1>4, <1>5, SameTitles DEF clubVars
<1>6. CASE Claimed(add) = add
  <2>1. \A l \in add : lodge[l].owner = NoClub
    BY <1>6 DEF Claimed
  <2>2. \A l \in dropped : lodge[l].owner = c
    OBVIOUS
  <2> DEFINE to(l) == IF l \in add THEN c
                      ELSE IF l \in dropped THEN NoClub ELSE lodge[l].owner
  <2>3. \A l \in Lodges :
          /\ lodge'[l].owner = to(l)
          /\ lodge'[l].at = lodge[l].at /\ lodge'[l].by = lodge[l].by
          /\ lodge'[l].name = lodge[l].name
          /\ lodge'[l].winter = lodge[l].winter
          /\ lodge'[l].summer = lodge[l].summer
    <3> SUFFICES ASSUME NEW l \in Lodges
                 PROVE  /\ lodge'[l].owner = to(l)
                        /\ lodge'[l].at = lodge[l].at /\ lodge'[l].by = lodge[l].by
                        /\ lodge'[l].name = lodge[l].name
                        /\ lodge'[l].winter = lodge[l].winter
                        /\ lodge'[l].summer = lodge[l].summer
      OBVIOUS
    <3>1. lodge'[l] = IF l \in add THEN [lodge[l] EXCEPT !.owner = c]
                      ELSE IF l \in dropped THEN [lodge[l] EXCEPT !.owner = NoClub]
                      ELSE lodge[l]
      BY <1>4, <1>6
    <3>2. lodge[l] \in LodgeRow
      BY <1>1
    <3> HIDE DEF c, add, dropped
    <3> QED
      BY <3>1, <3>2 DEF LodgeRow
  <2>5. Standing' = Standing /\ Credit' = Credit /\ Says' = Says
    BY <2>3 DEF Standing, Credit, Says
  <2> HIDE DEF add
  <2>4. CASE c = NoClub
    <3>1. \A l \in Lodges : lodge'[l].owner = lodge[l].owner
      BY <1>2, <2>1, <2>2, <2>3, <2>4
    <3>2. Holder' = Holder
      BY <3>1 DEF Holder
    <3> QED
      BY <2>5, <3>2, SameApproved DEF KeepsTitles, Titles!titleVars
  <2>6. CASE c \in Clubs
    <3>1. c \in Approved
      BY <2>6 DEF RegistryInv, LodgesSound, Sound, Insider, Approved
    <3>2. Holder' = [l \in Lodges |-> IF l \in add THEN c
                                      ELSE IF l \in dropped THEN NoClub ELSE Holder[l]]
      BY <2>3 DEF Holder
    <3>3. /\ \A l \in add : Standing[l] # "unused" /\ Holder[l] = NoClub
          /\ \A l \in dropped : Holder[l] = c
      BY <1>2, <1>3, <2>1, <2>2 DEF Standing, Holder
    <3> HIDE DEF c
    <3>4. Titles!Reassign(c, add, dropped)
      BY <2>5, <3>2, <3>3, SameApproved DEF Titles!Reassign
    <3> QED
      BY <1>2, <3>1, <3>4 DEF KeepsTitles, Titles!Next
  <2> QED
    BY <1>2, <2>4, <2>6
<1> QED
  BY <1>5, <1>6

LEMMA EveryStepKeepsTitles ==
  RegistryInv /\ [RegistryNext]_registryVars => KeepsTitles
<1> SUFFICES ASSUME RegistryInv, [RegistryNext]_registryVars PROVE KeepsTitles
  OBVIOUS
<1>1. CASE ClubStep
  <2>1. Approved \subseteq Approved' /\ Approved' \in SUBSET Clubs
    BY <1>1 DEF ClubStep, InsidersStay, Insider, Approved
  <2>2. UNCHANGED <<Standing, Holder, Says, Credit>>
    BY <1>1 DEF ClubStep, lodgeVars, Standing, Holder, Says, Credit
  <2>3. Approved' = Approved \cup Approved'
    BY <2>1
  <2>4. Titles!Admit(Approved')
    BY <2>2, <2>3 DEF Titles!Admit
  <2> QED
    BY <2>1, <2>4 DEF KeepsTitles, Titles!Next
<1>2. CASE RequestStep
  BY <1>2, SameTitles DEF RequestStep
<1>3. CASE WriteStep
  BY <1>3, SaveDescribes, CreateAppears, DeleteDeletes, AssignReassigns
  DEF WriteStep, Writes
<1> QED
  BY <1>1, <1>2, <1>3, NextIsStep, Stutters

LEMMA TitlesBegin ==
  ASSUME RegistryInv, \A l \in Lodges : lodge[l].at # "deleted"
  PROVE  Titles!Init
<1>1. \A l \in Lodges :
        /\ lodge[l].at \in {"unused", "live"} /\ RowSound(l)
        /\ lodge[l].owner \in Clubs \cup {NoClub}
        /\ lodge[l].by \in Clubs \cup {NoClub}
  BY DEF RegistryInv, LodgesTyped, LodgeRow, LodgesSound, Owners
<1>2. \A l \in Lodges :
        /\ lodge[l].owner \in Titles!Parties /\ lodge[l].by \in Titles!Parties
        /\ lodge[l].at = "unused" => lodge[l].owner = NoClub
  BY <1>1 DEF RowSound, Insider, Approved, Titles!Parties
<1>3. Approved \subseteq Clubs
  BY DEF Approved
<1>4. Standing \in [Lodges -> {"unused", "live"}]
  BY <1>1 DEF Standing
<1>5. Holder \in [Lodges -> Titles!Parties] /\ Credit \in [Lodges -> Titles!Parties]
  BY <1>2 DEF Holder, Credit
<1>6. \A l \in Lodges : Standing[l] = "unused" => Holder[l] = NoClub
  BY <1>2 DEF Standing, Holder
<1> QED
  BY <1>3, <1>4, <1>5, <1>6 DEF Titles!Init

\* The registry keeps titles as LodgeTitles says, whatever overlaps: a claim is
\* from the centre and by a club that was approved, one save moves lodges of one
\* club, and a deleted lodge keeps what it said.
THEOREM RegistryKeepsTitles == RegistrySpec => TitlesAreKept
<1>1. RegistryInit => Titles!Init
  <2> SUFFICES ASSUME RegistryInit PROVE Titles!Init
    OBVIOUS
  <2>1. \A l \in Lodges : lodge[l].at # "deleted"
    BY DEF RegistryInit
  <2> QED
    BY <2>1, InvHoldsInitially, TitlesBegin
<1>2. RegistryInv /\ [RegistryNext]_registryVars => [Titles!Next]_(Titles!titleVars)
  BY EveryStepKeepsTitles DEF KeepsTitles
<1> QED
  BY <1>1, <1>2, RegistryInductive, PTL
  DEF RegistrySpec, registryVars, TitlesAreKept, Titles!Spec

-----------------------------------------------------------------------------
(***************************************************************************)
(* The signing secrets: generations only grow, and the newest one is of    *)
(* the destination the club has, or will have when a PUT in flight ends.   *)
(***************************************************************************)
Putting(d, c) == clubReq[d].at = "put" /\ clubReq[d].club = c

OlderOrSame(t, url, secret) == t[3] < secret \/ (t[3] = secret /\ t[2] = url)

\* The generations a club has used are not beyond its row's.
UsedByRow(t) ==
    /\ clubs[t[1]].status # "none"
    /\ t[3] <= clubs[t[1]].secret
    /\ clubs[t[1]].url = NoUrl \/ OlderOrSame(t, clubs[t[1]].url, clubs[t[1]].secret)

PutIsFresh(d) ==
    clubReq[d].at = "put" =>
      /\ clubReq[d].url \in Urls
      /\ clubs[clubReq[d].club].status # "none"
      /\ \A t \in destined : t[1] = clubReq[d].club =>
           OlderOrSame(t, clubReq[d].url, clubReq[d].secret)

OnePutEach ==
    \A d, e \in ClubDesks, c \in Clubs : Putting(d, c) /\ Putting(e, c) => d = e

\* The destination a club has was registered with the secret it has.
Registered(c) ==
    clubs[c].url # NoUrl => <<c, clubs[c].url, clubs[c].secret>> \in destined

SecretsInv ==
    /\ destined \subseteq Clubs \X Urls \X (1..MaxSecret)
    /\ SecretIsOneDestinations
    /\ \A t \in destined : UsedByRow(t)
    /\ \A d \in ClubDesks : PutIsFresh(d)
    /\ OnePutEach
    /\ \A c \in Clubs : Registered(c)

\* A step that registers no destination: no generation moves, a destination at
\* most goes, and a PUT that is in flight was.
Calm ==
    /\ destined' = destined
    /\ \A c \in Clubs :
         /\ clubs[c].status # "none" =>
              /\ clubs'[c].status # "none"
              /\ clubs'[c].secret = clubs[c].secret
              /\ clubs'[c].url \in {clubs[c].url, NoUrl}
         /\ clubs[c].status = "none" =>
              clubs'[c] = clubs[c] \/ clubs'[c].url = NoUrl
    /\ \A d \in ClubDesks : clubReq'[d].at = "put" => clubReq'[d] = clubReq[d]

LEMMA CalmKeeps ==
  ASSUME RegistryInv, SecretsInv, Calm
  PROVE  SecretsInv'
<1>1. destined' = destined /\ destined \subseteq Clubs \X Urls \X (1..MaxSecret)
  BY DEF Calm, SecretsInv
<1>2. SecretIsOneDestinations'
  BY <1>1 DEF SecretsInv, SecretIsOneDestinations
<1>3. ASSUME NEW t \in destined PROVE UsedByRow(t)'
  <2>1. t[1] \in Clubs /\ UsedByRow(t)
    BY <1>1 DEF SecretsInv
  <2> QED
    BY <2>1 DEF Calm, UsedByRow, OlderOrSame
<1>4. ASSUME NEW d \in ClubDesks PROVE PutIsFresh(d)'
  <2>1. PutIsFresh(d) /\ clubReq[d].club \in Clubs
    BY DEF SecretsInv, RegistryInv, ClubsTyped, ClubRequest
  <2> QED
    BY <1>1, <2>1 DEF Calm, PutIsFresh, OlderOrSame
<1>5. OnePutEach'
  BY DEF SecretsInv, Calm, OnePutEach, Putting
<1>6. ASSUME NEW c \in Clubs PROVE Registered(c)'
  BY <1>1 DEF SecretsInv, Calm, Registered
<1> QED
  BY <1>1, <1>2, <1>3, <1>4, <1>5, <1>6 DEF SecretsInv

LEMMA SameRowsCalm ==
  ASSUME RegistryInv, UNCHANGED <<clubs, destined>>,
         \A d \in ClubDesks : clubReq'[d].at = "put" => clubReq'[d] = clubReq[d]
  PROVE  Calm
  BY DEF Calm

\* A request that goes on to anything but a PUT.
LEMMA OtherRequestsCalm ==
  ASSUME RegistryInv, NEW d \in ClubDesks, NEW r \in ClubRequest, Continues(d, r),
         r.at # "put"
  PROVE  \A e \in ClubDesks : clubReq'[e].at = "put" => clubReq'[e] = clubReq[e]
  BY DEF RegistryInv, ClubsTyped, Continues

\* What a desk's request may go on to.
GoesOn(d) ==
    \/ UNCHANGED clubReq
    \/ \E r \in ClubRequest :
         Continues(d, r) /\ r.at # "put" /\ (r.at = "mint" => RegisterCreate(d))

LEMMA RequestsGoOn ==
  ASSUME RegistryInv, NEW d \in ClubDesks,
         \/ \E c \in Clubs : RegisterFinds(d, c) \/ Approve(d, c) \/ IssueRead(d, c)
         \/ RegisterLodges(d) \/ RegisterCreate(d) \/ RegisterWelcome(d)
         \/ ApprovedReads(d) \/ ApprovedAssigns(d) \/ IssueCreate(d)
         \/ \E k \in Keys : DeleteKeyRead(d, k)
         \/ DeleteKey(d) \/ ClubRequestFails(d)
  PROVE  GoesOn(d)
<1> DEFINE q == clubReq[d]
<1>1. q \in ClubRequest /\ ClubIdle \in ClubRequest
  BY IdleIsRequest DEF RegistryInv, ClubsTyped
<1>2. CASE \E c \in Clubs : RegisterFinds(d, c)
  <2>1. PICK c \in Clubs, source \in {"web", "api"}, wanted \in SUBSET Lodges :
          Continues(d, [ClubIdle EXCEPT !.at = "lodges", !.club = c,
                          !.source = source, !.lodges = wanted])
    BY <1>2 DEF RegisterFinds
  <2> DEFINE r == [ClubIdle EXCEPT !.at = "lodges", !.club = c,
                      !.source = source, !.lodges = wanted]
  <2>2. r \in ClubRequest /\ r.at = "lodges" /\ Continues(d, r)
    BY <1>1, <2>1 DEF ClubRequest
  <2> HIDE DEF r
  <2> QED
    BY <2>2 DEF GoesOn
<1>3. CASE RegisterLodges(d)
  <2> DEFINE r == [q EXCEPT !.at = "create", !.lodges = @ \cap OwnedBy(NoClub)]
  <2>1. r \in ClubRequest /\ r.at = "create"
    BY <1>1 DEF ClubRequest
  <2>2. Continues(d, r)
    BY <1>3 DEF RegisterLodges
  <2> HIDE DEF r
  <2> QED
    BY <2>1, <2>2 DEF GoesOn
<1>4. CASE RegisterCreate(d)
  <2> DEFINE r == [q EXCEPT !.at = "mint"]
  <2>1. r \in ClubRequest /\ r.at = "mint"
    BY <1>1 DEF ClubRequest
  <2>2. Continues(d, r) \/ ClubAnswers(d)
    BY <1>4 DEF RegisterCreate
  <2> HIDE DEF r
  <2> QED
    BY <1>1, <1>4, <2>1, <2>2 DEF GoesOn, ClubAnswers, ClubIdle
<1>5. CASE \E c \in Clubs : Approve(d, c)
  <2>0. PICK c \in Clubs : Approve(d, c)
    BY <1>5
  <2> DEFINE r == [ClubIdle EXCEPT !.at = "approved", !.club = c]
  <2>1. r \in ClubRequest /\ r.at = "approved"
    BY <1>1 DEF ClubRequest
  <2>2. Continues(d, r) \/ UNCHANGED clubReq
    BY <2>0 DEF Approve
  <2> HIDE DEF r
  <2> QED
    BY <2>1, <2>2 DEF GoesOn
<1>6. CASE ApprovedReads(d)
  <2> DEFINE free == {l \in clubs[q.club].wants : Grantable(q.club, l)}
             r == [q EXCEPT !.at = "free", !.lodges = free]
  <2>1. free \in SUBSET Lodges
    BY DEF Grantable, Live
  <2>2. r \in ClubRequest /\ r.at = "free"
    BY <1>1, <2>1 DEF ClubRequest
  <2>3. Continues(d, r) \/ ClubAnswers(d)
    BY <1>6 DEF ApprovedReads
  <2> HIDE DEF r
  <2> QED
    BY <1>1, <2>2, <2>3 DEF GoesOn, ClubAnswers, ClubIdle
<1>7. CASE \E c \in Clubs : IssueRead(d, c)
  <2>0. PICK c \in Clubs : IssueRead(d, c)
    BY <1>7
  <2> DEFINE r == [ClubIdle EXCEPT !.at = "issue", !.club = c]
  <2>1. r \in ClubRequest /\ r.at = "issue"
    BY <1>1 DEF ClubRequest
  <2>2. Continues(d, r)
    BY <2>0 DEF IssueRead
  <2> HIDE DEF r
  <2> QED
    BY <2>1, <2>2 DEF GoesOn
<1>8. CASE \E k \in Keys : DeleteKeyRead(d, k)
  <2>0. PICK k \in Keys : DeleteKeyRead(d, k)
    BY <1>8
  <2> DEFINE r == [ClubIdle EXCEPT !.at = "destroy", !.key = {k}]
  <2>1. r \in ClubRequest /\ r.at = "destroy"
    BY <1>1 DEF ClubRequest
  <2>2. Continues(d, r)
    BY <2>0 DEF DeleteKeyRead
  <2> HIDE DEF r
  <2> QED
    BY <2>1, <2>2 DEF GoesOn
<1>9. CASE RegisterWelcome(d) \/ ApprovedAssigns(d) \/ IssueCreate(d)
           \/ DeleteKey(d) \/ ClubRequestFails(d)
  BY <1>1, <1>9
  DEF GoesOn, ClubIdle, ClubAnswers, RegisterWelcome, ApprovedAssigns,
      IssueCreate, DeleteKey, ClubRequestFails
<1> QED
  BY <1>2, <1>3, <1>4, <1>5, <1>6, <1>7, <1>8, <1>9

LEMMA CalmRequests ==
  ASSUME RegistryInv, NEW d \in ClubDesks, GoesOn(d)
  PROVE  \A e \in ClubDesks : clubReq'[e].at = "put" => clubReq'[e] = clubReq[e]
  BY OtherRequestsCalm DEF GoesOn

\* The review and the withdrawal of a destination move one club's row.
LEMMA RowsCalm ==
  ASSUME RegistryInv, destined' = destined,
         \A d \in ClubDesks : clubReq'[d].at = "put" => clubReq'[d] = clubReq[d],
         NEW c \in Clubs, NEW row, clubs' = [clubs EXCEPT ![c] = row],
         clubs[c].status # "none" =>
           /\ row.status # "none" /\ row.secret = clubs[c].secret
           /\ row.url \in {clubs[c].url, NoUrl},
         clubs[c].status = "none" => row.url = NoUrl \/ row = clubs[c]
  PROVE  Calm
  BY DEF Calm, RegistryInv, ClubsTyped

LEMMA MoveCalm ==
  ASSUME RegistryInv, destined' = destined,
         \A d \in ClubDesks : clubReq'[d].at = "put" => clubReq'[d] = clubReq[d],
         NEW c \in Clubs, NEW from \in Statuses \ {"none"},
         NEW to \in Statuses \ {"none"},
         MoveTo(c, from, to)
  PROVE  Calm
<1>1. clubs \in [Clubs -> ClubState]
  BY DEF RegistryInv, ClubsTyped
<1> DEFINE row == [clubs[c] EXCEPT !.status = to]
<1>2. clubs' = [clubs EXCEPT ![c] = row]
  BY <1>1 DEF MoveTo
<1>3. row.status = to /\ row.secret = clubs[c].secret /\ row.url = clubs[c].url
  BY <1>1 DEF ClubState
<1>4. clubs[c].status # "none"
  BY DEF MoveTo
<1> HIDE DEF row
<1> QED
  BY <1>2, <1>3, <1>4, RowsCalm

LEMMA CalmSteps ==
  ASSUME RegistryInv,
         \/ \E d \in ClubDesks :
              \/ \E c \in Clubs : RegisterFinds(d, c) \/ Approve(d, c) \/ IssueRead(d, c)
              \/ RegisterLodges(d) \/ RegisterCreate(d) \/ RegisterWelcome(d)
              \/ ApprovedReads(d) \/ ApprovedAssigns(d) \/ IssueCreate(d)
              \/ \E k \in Keys : DeleteKeyRead(d, k)
              \/ DeleteKey(d) \/ ClubRequestFails(d)
         \/ \E c \in Clubs : OtherMove(c)
         \/ \E k \in Keys : Revoke(k) \/ DeleteTarget(k)
         \/ UNCHANGED clubVars
  PROVE  Calm
<1>0. clubs \in [Clubs -> ClubState]
  BY DEF RegistryInv, ClubsTyped
<1>1. ASSUME NEW d \in ClubDesks, \E c \in Clubs : Approve(d, c)
      PROVE  Calm
  <2>1. PICK c \in Clubs : Approve(d, c)
    BY <1>1
  <2>2. MoveTo(c, "PENDING", "APPROVED") /\ destined' = destined
    BY <2>1 DEF Approve
  <2>3. \A e \in ClubDesks : clubReq'[e].at = "put" => clubReq'[e] = clubReq[e]
    BY <1>1, RequestsGoOn, CalmRequests
  <2> QED
    BY <2>2, <2>3, MoveCalm DEF Statuses
<1>2. ASSUME NEW d \in ClubDesks, RegisterCreate(d)
      PROVE  Calm
  <2> DEFINE c == clubReq[d].club
             new == [status |-> "PENDING", wants |-> clubReq[d].lodges,
                     url |-> NoUrl, secret |-> 1]
  <2>1. c \in Clubs
    BY DEF RegistryInv, ClubsTyped, ClubRequest
  <2>2. \A e \in ClubDesks : clubReq'[e].at = "put" => clubReq'[e] = clubReq[e]
    BY <1>2, RequestsGoOn, CalmRequests
  <2>3. /\ clubs' = IF clubs[c].status = "none" THEN [clubs EXCEPT ![c] = new]
                    ELSE clubs
        /\ destined' = destined
    BY <1>2 DEF RegisterCreate
  <2>4. new.url = NoUrl
    OBVIOUS
  <2> HIDE DEF new
  <2> QED
    BY <2>1, <2>2, <2>3, <2>4, RowsCalm, SameRowsCalm
<1>3. ASSUME NEW d \in ClubDesks,
             \/ \E c \in Clubs : RegisterFinds(d, c) \/ IssueRead(d, c)
             \/ RegisterLodges(d) \/ RegisterWelcome(d)
             \/ ApprovedReads(d) \/ ApprovedAssigns(d) \/ IssueCreate(d)
             \/ \E k \in Keys : DeleteKeyRead(d, k)
             \/ DeleteKey(d) \/ ClubRequestFails(d)
      PROVE  Calm
  <2>1. UNCHANGED <<clubs, destined>>
    BY <1>3
    DEF RegisterFinds, IssueRead, RegisterLodges, RegisterWelcome, ApprovedReads,
        ApprovedAssigns, IssueCreate, DeleteKeyRead, DeleteKey, ClubRequestFails
  <2>2. \A e \in ClubDesks : clubReq'[e].at = "put" => clubReq'[e] = clubReq[e]
    BY <1>3, RequestsGoOn, CalmRequests
  <2> QED
    BY <2>1, <2>2, SameRowsCalm
<1>4. ASSUME NEW c \in Clubs, OtherMove(c)
      PROVE  Calm
  <2>1. UNCHANGED <<clubReq, destined>>
    BY <1>4 DEF OtherMove
  <2> QED
    BY <1>4, <2>1, MoveCalm DEF OtherMove, Statuses
<1>5. ASSUME NEW k \in Keys, DeleteTarget(k)
      PROVE  Calm
  <2> DEFINE c == key[k].club
             row == [clubs[c] EXCEPT !.url = NoUrl]
  <2>1. c \in Clubs
    BY <1>5, AdmittedInside DEF DeleteTarget
  <2>2. clubs' = [clubs EXCEPT ![c] = row] /\ UNCHANGED <<clubReq, destined>>
    BY <1>0, <1>5, <2>1 DEF DeleteTarget
  <2>3. /\ row.status = clubs[c].status /\ row.secret = clubs[c].secret
        /\ row.url = NoUrl
    BY <1>0, <2>1 DEF ClubState
  <2> HIDE DEF row
  <2> QED
    BY <2>1, <2>2, <2>3, RowsCalm
<1>6. ASSUME NEW k \in Keys, Revoke(k)
      PROVE  Calm
  BY <1>6, SameRowsCalm DEF Revoke
<1>7. ASSUME UNCHANGED clubVars
      PROVE  Calm
  BY <1>7, SameRowsCalm DEF clubVars
<1> QED
  BY <1>1, <1>2, <1>3, <1>4, <1>5, <1>6, <1>7

\* PUT takes the next generation for another destination and keeps it for the
\* same one.
LEMMA PutReadKeeps ==
  ASSUME RegistryInv, SecretsInv, NEW d \in ClubDesks, NEW k \in Keys,
         OnePut(k), PutTargetRead(d, k)
  PROVE  SecretsInv'
<1> DEFINE c == key[k].club
           up(u) == IF Rotates(clubs[c].url, u) THEN 1 ELSE 0
<1>1. PICK url \in Urls :
        /\ clubs[c].secret + up(url) <= MaxSecret
        /\ Continues(d, [ClubIdle EXCEPT !.at = "put", !.club = c, !.url = url,
                           !.secret = clubs[c].secret + up(url)])
  BY DEF PutTargetRead
<1>2. /\ c \in Clubs /\ clubs[c].status = "APPROVED"
      /\ clubs[c].secret \in 1..MaxSecret
  BY AdmittedInside DEF PutTargetRead, Admitted, RegistryInv, ClubsTyped, ClubState
<1>3. UNCHANGED <<clubs, destined>>
  BY DEF PutTargetRead
<1> DEFINE next == clubs[c].secret + up(url)
           r == [ClubIdle EXCEPT !.at = "put", !.club = c, !.url = url,
                                 !.secret = next]
<1>4. next \in 1..MaxSecret
  BY <1>1, <1>2, ClubAssumption
<1>5. r.at = "put" /\ r.club = c /\ r.url = url /\ r.secret = next
  <2> HIDE DEF next, c
  <2> QED
    BY IdleIsRequest DEF ClubRequest
<1>6. clubReq' = [clubReq EXCEPT ![d] = r] /\ clubReq \in [ClubDesks -> ClubRequest]
  BY <1>1 DEF Continues, RegistryInv, ClubsTyped
<1> HIDE DEF r
<1>7. ASSUME NEW t \in destined, t[1] = c
      PROVE  OlderOrSame(t, url, next)
  <2>1. UsedByRow(t) /\ t[3] \in 1..MaxSecret
    BY DEF SecretsInv
  <2>2. CASE clubs[c].url # url
    BY <1>2, <1>7, <2>1, <2>2, ClubAssumption DEF UsedByRow, OlderOrSame, Rotates
  <2>3. CASE clubs[c].url = url
    <3>1. next = clubs[c].secret /\ url # NoUrl
      BY <1>2, <2>3, ClubAssumption DEF Rotates
    <3> QED
      BY <1>7, <2>1, <2>3, <3>1 DEF UsedByRow
  <2> QED
    BY <2>2, <2>3
<1> HIDE DEF next, c
<1>8. ASSUME NEW e \in ClubDesks PROVE PutIsFresh(e)'
  <2>1. CASE e = d
    BY <1>2, <1>3, <1>5, <1>6, <1>7, <2>1 DEF PutIsFresh, OlderOrSame
  <2>2. CASE e # d
    <3>1. clubReq'[e] = clubReq[e]
      BY <1>6, <2>2
    <3>2. PutIsFresh(e)
      BY DEF SecretsInv
    <3> QED
      BY <1>3, <3>1, <3>2 DEF PutIsFresh, OlderOrSame
  <2> QED
    BY <2>1, <2>2
<1>9. OnePutEach'
  <2>1. \A e \in ClubDesks : ~Putting(e, c)
    BY DEF OnePut, Putting, c
  <2>2. \A e \in ClubDesks : e # d => clubReq'[e] = clubReq[e]
    BY <1>6
  <2> QED
    BY <1>5, <1>6, <2>1, <2>2 DEF SecretsInv, OnePutEach, Putting
<1>10. \A t \in destined' : UsedByRow(t)'
  BY <1>3 DEF SecretsInv, UsedByRow, OlderOrSame
<1>11. \A b \in Clubs : Registered(b)'
  BY <1>3 DEF SecretsInv, Registered
<1> QED
  BY <1>3, <1>8, <1>9, <1>10, <1>11 DEF SecretsInv, SecretIsOneDestinations

LEMMA PutWriteKeeps ==
  ASSUME RegistryInv, SecretsInv, NEW d \in ClubDesks, PutTargetWrite(d)
  PROVE  SecretsInv'
<1> DEFINE q == clubReq[d]
           c == q.club
           new == [clubs[c] EXCEPT !.url = q.url, !.secret = q.secret]
           added == <<c, q.url, q.secret>>
<1>1. /\ clubs \in [Clubs -> ClubState] /\ clubReq \in [ClubDesks -> ClubRequest]
      /\ c \in Clubs /\ q.secret \in 1..MaxSecret
  BY DEF RegistryInv, ClubsTyped, ClubRequest
<1>2. q.at = "put" /\ PutIsFresh(d)
  BY DEF PutTargetWrite, SecretsInv
<1>3. q.url \in Urls /\ q.url # NoUrl /\ clubs[c].status # "none"
  BY <1>2, ClubAssumption DEF PutIsFresh
<1>4. clubs' = [clubs EXCEPT ![c] = new]
  BY <1>1 DEF PutTargetWrite
<1>5. new.status = clubs[c].status /\ new.url = q.url /\ new.secret = q.secret
  BY <1>1 DEF ClubState
<1>6. destined' = destined \cup {added}
  BY DEF PutTargetWrite
<1>7. clubReq' = [clubReq EXCEPT ![d] = ClubIdle]
  BY DEF PutTargetWrite, ClubAnswers, Continues
<1>8. \A t \in destined : t[1] = c => OlderOrSame(t, q.url, q.secret)
  BY <1>2 DEF PutIsFresh
<1>9. added[1] = c /\ added[2] = q.url /\ added[3] = q.secret
  OBVIOUS
<1>10. \A t \in destined : t[1] \in Clubs /\ t[3] \in 1..MaxSecret
  BY DEF SecretsInv
<1> HIDE DEF new, added
<1>11. SecretIsOneDestinations'
  <2> SUFFICES ASSUME NEW a \in destined', NEW b \in destined', a[1] = b[1],
                      a[3] = b[3]
               PROVE  a[2] = b[2]
    BY DEF SecretIsOneDestinations
  <2>1. CASE a \in destined /\ b \in destined
    BY <2>1 DEF SecretsInv, SecretIsOneDestinations
  <2>2. CASE a \in destined /\ b = added
    BY <1>1, <1>8, <1>9, <1>10, <2>2 DEF OlderOrSame
  <2>3. CASE b \in destined /\ a = added
    BY <1>1, <1>8, <1>9, <1>10, <2>3 DEF OlderOrSame
  <2> QED
    BY <1>6, <2>1, <2>2, <2>3
<1>12. ASSUME NEW t \in destined' PROVE UsedByRow(t)'
  <2>1. CASE t = added
    BY <1>1, <1>3, <1>4, <1>5, <1>9, <2>1 DEF UsedByRow, OlderOrSame
  <2>2. CASE t \in destined /\ t[1] = c
    BY <1>1, <1>3, <1>4, <1>5, <1>8, <1>10, <2>2 DEF UsedByRow, OlderOrSame
  <2>3. CASE t \in destined /\ t[1] # c
    <3>1. clubs'[t[1]] = clubs[t[1]] /\ UsedByRow(t)
      BY <1>1, <1>4, <1>10, <2>3 DEF SecretsInv
    <3> QED
      BY <3>1 DEF UsedByRow, OlderOrSame
  <2> QED
    BY <1>6, <2>1, <2>2, <2>3
<1>13. ASSUME NEW e \in ClubDesks PROVE PutIsFresh(e)'
  <2>1. CASE e = d \/ clubReq[e].at # "put"
    BY <1>1, <1>7, <2>1, IdleIsRequest DEF PutIsFresh
  <2>2. CASE e # d /\ clubReq[e].at = "put"
    <3>1. clubReq[e].club # c /\ clubReq[e].club \in Clubs
      BY <1>1, <1>2, <2>2 DEF SecretsInv, OnePutEach, Putting, ClubRequest
    <3>2. /\ clubReq'[e] = clubReq[e]
          /\ clubs'[clubReq[e].club] = clubs[clubReq[e].club]
      BY <1>1, <1>4, <1>7, <2>2, <3>1
    <3>3. PutIsFresh(e)
      BY DEF SecretsInv
    <3> QED
      BY <1>6, <1>9, <3>1, <3>2, <3>3 DEF PutIsFresh, OlderOrSame
  <2> QED
    BY <2>1, <2>2
<1>14. OnePutEach'
  BY <1>1, <1>7, IdleIsRequest DEF SecretsInv, OnePutEach, Putting
<1>15. destined' \subseteq Clubs \X Urls \X (1..MaxSecret)
  BY <1>1, <1>3, <1>6 DEF SecretsInv, added
<1>16. ASSUME NEW b \in Clubs PROVE Registered(b)'
  <2>1. CASE b = c
    BY <1>1, <1>4, <1>5, <1>6, <2>1 DEF Registered, added
  <2>2. CASE b # c
    BY <1>1, <1>4, <1>6, <2>2 DEF SecretsInv, Registered
  <2> QED
    BY <2>1, <2>2
<1> QED
  BY <1>11, <1>12, <1>13, <1>14, <1>15, <1>16 DEF SecretsInv

LEMMA SecretsKept ==
  RegistryInv /\ SecretsInv /\ [RegistryNext]_registryVars => SecretsInv'
<1> SUFFICES ASSUME RegistryInv, SecretsInv, [RegistryNext]_registryVars
             PROVE  SecretsInv'
  OBVIOUS
<1>1. CASE ClubNext
  BY <1>1, CalmSteps, CalmKeeps, PutReadKeeps, PutWriteKeeps
  DEF ClubNext, RegistersOrReviews
<1>2. CASE OwnershipNext
  <2>1. \/ \E d \in ClubDesks, c \in Clubs : Approve(d, c)
        \/ \E d \in ClubDesks : ApprovedReads(d) \/ ApprovedAssigns(d)
        \/ UNCHANGED clubVars
    BY <1>2 DEF OwnershipNext, UploadNewLodge, SaveClubLodges
  <2> QED
    BY <2>1, CalmSteps, CalmKeeps
<1>3. CASE EditingNext
  BY <1>3, CalmSteps, CalmKeeps DEF EditingNext, UploadLodge, UploadNewLodge
<1>4. CASE UNCHANGED registryVars
  BY <1>4, CalmSteps, CalmKeeps DEF registryVars
<1> QED
  BY <1>1, <1>2, <1>3, <1>4 DEF RegistryNext

LEMMA SecretsBegin == RegistryInit => SecretsInv
  BY IdleIsRequest
  DEF RegistryInit, SecretsInv, SecretIsOneDestinations, PutIsFresh, OnePutEach,
      Putting, Registered

\* One destination, one secret: where a club's site waits for the answer to its
\* PUT, a generation that signed for one destination signs for no other.
THEOREM SecretsAreOfOne == RegistrySpec => []SecretIsOneDestinations
<1>1. SecretsInv => SecretIsOneDestinations
  BY DEF SecretsInv
<1> QED
  BY <1>1, SecretsBegin, SecretsKept, RegistryInductive, PTL DEF RegistrySpec, registryVars
-----------------------------------------------------------------------------
(***************************************************************************)
(* The welcome: one registration of a club wins, and until it has minted   *)
(* and mailed, nothing has.                                                *)
(***************************************************************************)
Welcomers(c) == {d \in ClubDesks : clubReq[d].at = "mint" /\ clubReq[d].club = c}

WelcomedOnce(c) ==
    /\ \A k, j \in FirstKeys(c) : k = j
    /\ \A d, e \in Welcomers(c) : d = e
    /\ Welcomers(c) # {} \/ clubs[c].status = "none" =>
         FirstKeys(c) = {} /\ welcomed[c] = 0
    /\ clubs[c].status = "none" => Welcomers(c) = {}

WelcomeInv ==
    /\ welcomed \in [Clubs -> {0, 1}]
    /\ \A c \in Clubs : WelcomedOnce(c)

\* Steps that create no club and welcome none.
NoneLeaves == \A c \in Clubs : clubs[c].status # "none" => clubs'[c].status # "none"

NoWelcomer ==
    \A d \in ClubDesks : clubReq'[d].at = "mint" => clubReq'[d] = clubReq[d]

IsFirst(k) == key[k].at # "unused" /\ key[k].source = "register"

NoFirstKey ==
    \A k \in Keys : IsFirst(k)' => IsFirst(k) /\ key'[k].club = key[k].club

LEMMA NobodyWelcomed ==
  ASSUME WelcomeInv, NoneLeaves, NoWelcomer, NoFirstKey, UNCHANGED welcomed
  PROVE  WelcomeInv'
<1> SUFFICES ASSUME NEW c \in Clubs PROVE WelcomedOnce(c)'
  BY DEF WelcomeInv
<1>1. FirstKeys(c)' \subseteq FirstKeys(c)
  BY DEF NoFirstKey, IsFirst, FirstKeys
<1>2. Welcomers(c)' \subseteq Welcomers(c)
  BY DEF NoWelcomer, Welcomers
<1>3. WelcomedOnce(c)
  BY DEF WelcomeInv
<1> QED
  BY <1>1, <1>2, <1>3 DEF WelcomedOnce, NoneLeaves

LEMMA SameKeysNoFirst ==
  ASSUME UNCHANGED key
  PROVE  NoFirstKey
  BY DEF NoFirstKey, IsFirst

\* Keys that an administrator issues, revokes or deletes.
LEMMA KeyStepsNoFirst ==
  ASSUME RegistryInv,
         \/ \E d \in ClubDesks : IssueCreate(d) \/ DeleteKey(d)
         \/ \E k \in Keys : Revoke(k)
  PROVE  NoFirstKey
<1>1. key \in [Keys -> KeyRow]
  BY DEF RegistryInv, ClubsTyped
<1>2. CASE \E d \in ClubDesks : IssueCreate(d)
  <2>1. PICK d \in ClubDesks, k \in Keys :
          key' = [key EXCEPT ![k] = [at |-> "live", club |-> clubReq[d].club,
                                     source |-> "admin"]]
    BY <1>2 DEF IssueCreate, Mints
  <2> QED
    BY <1>1, <2>1 DEF NoFirstKey, IsFirst
<1>3. CASE \E d \in ClubDesks : DeleteKey(d)
  <2>1. PICK d \in ClubDesks :
          key' = [k \in Keys |->
                    IF k \in clubReq[d].key /\ key[k].at = "revoked"
                    THEN [key[k] EXCEPT !.at = "deleted"] ELSE key[k]]
    BY <1>3 DEF DeleteKey
  <2> SUFFICES ASSUME NEW k \in Keys, IsFirst(k)'
               PROVE  IsFirst(k) /\ key'[k].club = key[k].club
    BY DEF NoFirstKey
  <2>2. key[k] \in KeyRow
    BY <1>1
  <2>3. /\ key'[k].club = key[k].club /\ key'[k].source = key[k].source
        /\ key'[k].at = key[k].at \/ key[k].at = "revoked"
    BY <2>1, <2>2 DEF KeyRow
  <2> QED
    BY <2>3 DEF IsFirst
<1>4. CASE \E k \in Keys : Revoke(k)
  <2>1. PICK j \in Keys :
          key[j].at = "live" /\ key' = [key EXCEPT ![j].at = "revoked"]
    BY <1>4 DEF Revoke
  <2> SUFFICES ASSUME NEW k \in Keys, IsFirst(k)'
               PROVE  IsFirst(k) /\ key'[k].club = key[k].club
    BY DEF NoFirstKey
  <2>2. key[k] \in KeyRow
    BY <1>1
  <2>3. /\ key'[k].club = key[k].club /\ key'[k].source = key[k].source
        /\ key'[k].at = key[k].at \/ key[k].at = "live"
    BY <1>1, <2>1, <2>2 DEF KeyRow
  <2> QED
    BY <2>3 DEF IsFirst
<1> QED
  BY <1>2, <1>3, <1>4

LEMMA GoesOnNoWelcomer ==
  ASSUME RegistryInv, NEW d \in ClubDesks, GoesOn(d), ~RegisterCreate(d)
  PROVE  NoWelcomer
  BY DEF GoesOn, NoWelcomer, Continues, RegistryInv, ClubsTyped

LEMMA CalmNoneLeaves ==
  ASSUME Calm
  PROVE  NoneLeaves
  BY DEF Calm, NoneLeaves
LEMMA PutWelcomesNobody ==
  ASSUME RegistryInv, NEW d \in ClubDesks, PutTargetWrite(d)
  PROVE  NoneLeaves
<1> DEFINE r == clubReq[d]
           row == [clubs[r.club] EXCEPT !.url = r.url, !.secret = r.secret]
<1>1. r.club \in Clubs /\ clubs \in [Clubs -> ClubState]
  BY DEF RegistryInv, ClubsTyped, ClubRequest
<1>2. clubs' = [clubs EXCEPT ![r.club].url = r.url, ![r.club].secret = r.secret]
  BY DEF PutTargetWrite
<1>3. clubs' = [clubs EXCEPT ![r.club] = row]
  BY <1>1, <1>2
<1>4. row.status = clubs[r.club].status
  BY <1>1 DEF ClubState
<1> HIDE DEF row
<1> QED
  BY <1>1, <1>3, <1>4 DEF NoneLeaves

LEMMA PutReadWelcomesNobody ==
  ASSUME RegistryInv, NEW d \in ClubDesks, NEW k \in Keys, PutTargetRead(d, k)
  PROVE  NoWelcomer
<1>1. PICK c, url, next :
        clubReq' = [clubReq EXCEPT ![d] =
          [ClubIdle EXCEPT !.at = "put", !.club = c, !.url = url, !.secret = next]]
  BY DEF PutTargetRead, Continues
<1>2. [ClubIdle EXCEPT !.at = "put", !.club = c, !.url = url,
         !.secret = next].at = "put"
  BY DEF ClubIdle
<1> QED
  BY <1>1, <1>2 DEF NoWelcomer, RegistryInv, ClubsTyped

\* The code decides: who finds the club there already welcomes nobody.
LEMMA CreateWelcomes ==
  ASSUME RegistryInv, WelcomeInv, NEW d \in ClubDesks, RegisterCreate(d)
  PROVE  WelcomeInv'
<1> DEFINE c == clubReq[d].club
           r == [clubReq[d] EXCEPT !.at = "mint"]
<1>1. /\ c \in Clubs /\ clubReq[d] \in ClubRequest
      /\ clubs \in [Clubs -> ClubState] /\ clubReq \in [ClubDesks -> ClubRequest]
  BY DEF RegistryInv, ClubsTyped, ClubRequest
<1>2. UNCHANGED <<key, welcomed>>
  BY DEF RegisterCreate
<1>3. NoFirstKey
  BY <1>2, SameKeysNoFirst
<1>4. CASE ~Created(d)
  <2>1. UNCHANGED clubs /\ clubReq' = [clubReq EXCEPT ![d] = ClubIdle]
    BY <1>4 DEF RegisterCreate, Created, ClubAnswers, Continues
  <2>2. NoneLeaves /\ NoWelcomer
    BY <1>1, <2>1 DEF NoneLeaves, NoWelcomer, ClubIdle
  <2> QED
    BY <1>2, <1>3, <2>2, NobodyWelcomed
<1>5. CASE Created(d)
  <2> DEFINE new == [status |-> "PENDING", wants |-> clubReq[d].lodges,
                     url |-> NoUrl, secret |-> 1]
  <2>1. /\ clubs[c].status = "none" /\ clubs' = [clubs EXCEPT ![c] = new]
        /\ clubReq' = [clubReq EXCEPT ![d] = r]
    BY <1>5 DEF RegisterCreate, Created, Continues
  <2>2. r.at = "mint" /\ r.club = c
    BY <1>1 DEF ClubRequest
  <2>3. new.status = "PENDING"
    OBVIOUS
  <2> HIDE DEF r, new
  <2> SUFFICES ASSUME NEW b \in Clubs PROVE WelcomedOnce(b)'
    BY <1>2 DEF WelcomeInv
  <2>4. FirstKeys(b)' = FirstKeys(b)
    BY <1>2 DEF FirstKeys
  <2>5. WelcomedOnce(b)
    BY DEF WelcomeInv
  <2>6. Welcomers(b)' \subseteq Welcomers(b) \cup {d}
    BY <1>1, <2>1 DEF Welcomers
  <2>7. CASE b = c
    BY <1>2, <2>1, <2>3, <2>4, <2>5, <2>6, <2>7, <1>1 DEF WelcomedOnce
  <2>8. CASE b # c
    <3>1. Welcomers(b)' \subseteq Welcomers(b)
      BY <1>1, <2>1, <2>2, <2>8 DEF Welcomers
    <3> QED
      BY <1>1, <1>2, <2>1, <2>4, <2>5, <2>8, <3>1 DEF WelcomedOnce
  <2> QED
    BY <2>7, <2>8
<1> QED
  BY <1>4, <1>5

\* The winner's welcome is the club's first and only one.
LEMMA WelcomeWelcomes ==
  ASSUME RegistryInv, WelcomeInv, NEW d \in ClubDesks, RegisterWelcome(d)
  PROVE  WelcomeInv'
<1> DEFINE c == clubReq[d].club
<1>1. /\ c \in Clubs /\ clubs \in [Clubs -> ClubState]
      /\ clubReq \in [ClubDesks -> ClubRequest] /\ key \in [Keys -> KeyRow]
      /\ welcomed \in [Clubs -> {0, 1}]
  BY DEF RegistryInv, ClubsTyped, ClubRequest, WelcomeInv
<1>2. /\ UNCHANGED clubs /\ clubReq' = [clubReq EXCEPT ![d] = ClubIdle]
      /\ clubReq[d].at = "mint"
  BY DEF RegisterWelcome, ClubAnswers, Continues
<1>3. /\ d \in Welcomers(c) /\ FirstKeys(c) = {} /\ welcomed[c] = 0
      /\ clubs[c].status # "none" /\ Welcomers(c) \subseteq {d}
  BY <1>1, <1>2 DEF Welcomers, WelcomeInv, WelcomedOnce
<1>4. PICK sent \in {0, 1} : welcomed' = [welcomed EXCEPT ![c] = @ + sent]
  BY DEF RegisterWelcome
<1>5. welcomed' \in [Clubs -> {0, 1}]
  BY <1>1, <1>3, <1>4
<1>6. \/ UNCHANGED key
      \/ \E k \in Keys :
           key' = [key EXCEPT ![k] = [at |-> "live", club |-> c,
                                      source |-> "register"]]
  BY DEF RegisterWelcome, Mints
<1> SUFFICES ASSUME NEW b \in Clubs PROVE WelcomedOnce(b)'
  BY <1>5 DEF WelcomeInv
<1>7. Welcomers(b)' \subseteq Welcomers(b) \ {d}
  BY <1>1, <1>2 DEF Welcomers, ClubIdle
<1>8. WelcomedOnce(b)
  BY DEF WelcomeInv
<1>9. CASE b = c
  <2>1. \A k, j \in FirstKeys(b)' : k = j
    BY <1>1, <1>3, <1>6, <1>9 DEF FirstKeys
  <2>2. Welcomers(b)' = {}
    BY <1>3, <1>7, <1>9
  <2> QED
    BY <1>2, <1>3, <1>9, <2>1, <2>2 DEF WelcomedOnce
<1>10. CASE b # c
  <2>1. FirstKeys(b)' \subseteq FirstKeys(b)
    BY <1>1, <1>6, <1>10 DEF FirstKeys
  <2>2. welcomed'[b] = welcomed[b]
    BY <1>1, <1>4, <1>10
  <2> QED
    BY <1>2, <1>7, <1>8, <2>1, <2>2 DEF WelcomedOnce
<1> QED
  BY <1>9, <1>10
LEMMA WelcomeKept ==
  RegistryInv /\ WelcomeInv /\ [RegistryNext]_registryVars => WelcomeInv'
<1> SUFFICES ASSUME RegistryInv, WelcomeInv, [RegistryNext]_registryVars
             PROVE  WelcomeInv'
  OBVIOUS
<1>1. ASSUME NEW d \in ClubDesks, RegisterCreate(d) \/ RegisterWelcome(d)
      PROVE  WelcomeInv'
  BY <1>1, CreateWelcomes, WelcomeWelcomes
<1>2. ASSUME NEW d \in ClubDesks, ~RegisterCreate(d), ~RegisterWelcome(d),
             \/ RegistersOrReviews(d)
             \/ ApprovedReads(d) \/ ApprovedAssigns(d)
      PROVE  WelcomeInv'
  <2>1. CASE \E k \in Keys : PutTargetRead(d, k)
    <3>1. UNCHANGED <<clubs, key, welcomed>>
      BY <2>1 DEF PutTargetRead
    <3>2. NoneLeaves
      BY <3>1 DEF NoneLeaves
    <3> QED
      BY <2>1, <3>1, <3>2, PutReadWelcomesNobody, SameKeysNoFirst, NobodyWelcomed
  <2>2. CASE PutTargetWrite(d)
    <3>1. UNCHANGED <<key, welcomed>>
      BY <2>2 DEF PutTargetWrite
    <3>2. clubReq' = [clubReq EXCEPT ![d] = ClubIdle]
      BY <2>2 DEF PutTargetWrite, ClubAnswers, Continues
    <3>3. NoWelcomer
      BY <3>2 DEF NoWelcomer, ClubIdle, RegistryInv, ClubsTyped
    <3> QED
      BY <2>2, <3>1, <3>3, PutWelcomesNobody, SameKeysNoFirst, NobodyWelcomed
  <2>3. CASE \/ \E c \in Clubs : RegisterFinds(d, c) \/ Approve(d, c)
                                  \/ IssueRead(d, c)
             \/ RegisterLodges(d)
             \/ ApprovedReads(d) \/ ApprovedAssigns(d) \/ IssueCreate(d)
             \/ \E k \in Keys : DeleteKeyRead(d, k)
             \/ DeleteKey(d) \/ ClubRequestFails(d)
    <3>1. GoesOn(d)
      BY <2>3, RequestsGoOn
    <3>2. Calm
      BY <2>3, CalmSteps
    <3>3. UNCHANGED welcomed
      BY <2>3
      DEF RegisterFinds, Approve, IssueRead, RegisterLodges, ApprovedReads,
          ApprovedAssigns, IssueCreate, DeleteKeyRead, DeleteKey, ClubRequestFails
    <3>4. UNCHANGED key \/ IssueCreate(d) \/ DeleteKey(d)
      BY <2>3
      DEF RegisterFinds, Approve, IssueRead, RegisterLodges, ApprovedReads,
          ApprovedAssigns, DeleteKeyRead, ClubRequestFails
    <3>5. NoFirstKey
      BY <3>4, SameKeysNoFirst, KeyStepsNoFirst
    <3> QED
      BY <1>2, <3>1, <3>2, <3>3, <3>5, GoesOnNoWelcomer, CalmNoneLeaves,
         NobodyWelcomed
  <2> QED
    BY <1>2, <2>1, <2>2, <2>3 DEF RegistersOrReviews
<1>3. ASSUME \/ \E c \in Clubs : OtherMove(c)
             \/ \E k \in Keys : Revoke(k) \/ DeleteTarget(k)
             \/ UNCHANGED clubVars
      PROVE  WelcomeInv'
  <2>1. NoneLeaves
    BY <1>3, CalmSteps, CalmNoneLeaves
  <2>2. UNCHANGED <<clubReq, welcomed>>
    BY <1>3 DEF OtherMove, Revoke, DeleteTarget, clubVars
  <2>3. UNCHANGED key \/ \E k \in Keys : Revoke(k)
    BY <1>3 DEF OtherMove, DeleteTarget, clubVars
  <2>4. NoWelcomer
    BY <2>2 DEF NoWelcomer
  <2>5. NoFirstKey
    BY <2>3, SameKeysNoFirst, KeyStepsNoFirst
  <2> QED
    BY <2>1, <2>2, <2>4, <2>5, NobodyWelcomed
<1>4. CASE ClubNext
  BY <1>1, <1>2, <1>3, <1>4 DEF ClubNext
<1>5. CASE OwnershipNext
  <2>1. \/ \E d \in ClubDesks :
             \/ \E c \in Clubs : Approve(d, c)
             \/ ApprovedReads(d) \/ ApprovedAssigns(d)
        \/ UNCHANGED clubVars
    BY <1>5 DEF OwnershipNext, UploadNewLodge, SaveClubLodges
  <2> QED
    BY <1>1, <1>2, <1>3, <2>1 DEF RegistersOrReviews
<1>6. CASE EditingNext
  BY <1>3, <1>6 DEF EditingNext, UploadLodge, UploadNewLodge
<1>7. CASE UNCHANGED registryVars
  BY <1>3, <1>7 DEF registryVars
<1> QED
  BY <1>4, <1>5, <1>6, <1>7 DEF RegistryNext

LEMMA WelcomeBegins == RegistryInit => WelcomeInv
  BY DEF RegistryInit, WelcomeInv, WelcomedOnce, Welcomers, FirstKeys, ClubIdle

LEMMA OneIsWelcomed == WelcomeInv => OneWelcome
<1> SUFFICES ASSUME WelcomeInv, NEW c \in Clubs
             PROVE  /\ Cardinality(FirstKeys(c)) + Cardinality(
                         {d \in ClubDesks :
                            clubReq[d].at = "mint" /\ clubReq[d].club = c
                            /\ clubReq[d].source = "web"}) <= 1
                    /\ welcomed[c] <= 1
  BY DEF OneWelcome
<1> DEFINE web == {d \in ClubDesks : clubReq[d].at = "mint" /\ clubReq[d].club = c
                                     /\ clubReq[d].source = "web"}
           first == FirstKeys(c)
<1>1. WelcomedOnce(c) /\ welcomed[c] \in {0, 1} /\ web \subseteq Welcomers(c)
  BY DEF WelcomeInv, Welcomers
<1>2. \/ web = {} /\ first = {}
      \/ web = {} /\ \E k \in first : first = {k}
      \/ first = {} /\ \E d \in web : web = {d}
  BY <1>1 DEF WelcomedOnce
<1> HIDE DEF web, first
<1>3. Cardinality(first) + Cardinality(web) <= 1
  <2>1. /\ first = {} => Cardinality(first) = 0
        /\ web = {} => Cardinality(web) = 0
    BY FS_EmptySet
  <2>2. /\ (\E k \in first : first = {k}) => Cardinality(first) = 1
        /\ (\E d \in web : web = {d}) => Cardinality(web) = 1
    BY FS_Singleton
  <2> QED
    BY <1>2, <2>1, <2>2
<1> QED
  BY <1>1, <1>3 DEF web, first

\* However many submissions of one code overlap, and wherever they die, the club
\* is handed at most one first key and announced at most once (registerClub).
THEOREM WelcomedAtMostOnce == RegistrySpec => []OneWelcome
  BY WelcomeBegins, OneIsWelcomed, WelcomeKept, RegistryInductive, PTL
  DEF RegistrySpec, registryVars

-----------------------------------------------------------------------------
(***************************************************************************)
(* What the three invariants say of the types.                             *)
(***************************************************************************)
LEMMA LodgesAreTyped == RegistryInv => LodgeTypeOK
<1> SUFFICES ASSUME RegistryInv PROVE LodgeTypeOK
  OBVIOUS
<1>1. ASSUME NEW d \in LodgeDesks, lodgeReq[d].at \in {"upload", "patch", "delete"}
      PROVE  Cardinality(lodgeReq[d].lodge) = 1
  <2>1. PICK l \in Lodges : lodgeReq[d].lodge = {l}
    BY <1>1 DEF RegistryInv, LodgesSound, Sound
  <2> QED
    BY <2>1, FS_Singleton
<1>2. \A d \in LodgeDesks : lodgeReq[d].add \cap lodgeReq[d].drop = {}
  BY DEF RegistryInv, LodgesSound, Sound, Apart
<1> QED
  BY <1>1, <1>2 DEF RegistryInv, LodgesTyped, LodgeTypeOK

LEMMA ClubsAreTyped == RegistryInv /\ SecretsInv /\ WelcomeInv => ClubTypeOK
<1> SUFFICES ASSUME RegistryInv, SecretsInv, WelcomeInv PROVE ClubTypeOK
  OBVIOUS
<1>1. Cardinality(ClubDesks) \in Nat /\ Cardinality(ClubDesks) # 0
  BY ClubAssumption, FS_CardinalityType, FS_EmptySet
<1>2. {0, 1} \subseteq 0..Cardinality(ClubDesks)
  BY <1>1
<1>3. welcomed \in [Clubs -> 0..Cardinality(ClubDesks)]
  BY <1>2 DEF WelcomeInv
<1> QED
  BY <1>3 DEF RegistryInv, ClubsTyped, SecretsInv, Registered, ClubTypeOK

\* Rows and requests are what the code can hold, however requests overlap; a
\* save of a list never adds what it drops; and the destination a club has was
\* registered with the secret it has.
THEOREM RegistryTypeCorrect == RegistrySpec => [](LodgeTypeOK /\ ClubTypeOK)
  BY LodgesAreTyped, ClubsAreTyped, SecretsBegin, SecretsKept, WelcomeBegins,
     WelcomeKept, RegistryInductive, PTL
  DEF RegistrySpec, registryVars
-----------------------------------------------------------------------------
(***************************************************************************)
(* The pull.  Nothing is stamped in the future, no write is later than its *)
(* lag and no pull longer than its.                                        *)
(***************************************************************************)
PullClock ==
    /\ \A p \in Pens : pen[p].at # "idle" =>
         /\ pen[p].stamp # Never /\ now <= pen[p].stamp + WriteLag
         /\ \E e \in Entries : pen[p].entry = {e}
    /\ \A p \in Pens : pen[p].read <= now
    /\ \A e \in Entries : entry[e].updated <= now /\ entry[e].deleted <= now
    /\ site.cursor <= now
    /\ IF pull.at = "idle" THEN pull = PullIdle
       ELSE /\ pull.began <= now /\ now <= pull.began + PullLag
            /\ pull.since = Since(site.cursor)

\* What the statements of a pull have read was so: a lodge is read once and has
\* changed since if at all, and one that was read as deleted is.
ReadRight ==
    /\ \A l \in pull.lodges : l[2] <= entry[l[1]].rev /\ l[3] <= now
    /\ \A l, m \in pull.lodges : l[1] = m[1] => l = m
    /\ \A d \in pull.deleted : entry[d[1]].deleted # Never /\ d[2] <= now

StampOf(e) == IF Alive(e) THEN entry[e].updated ELSE entry[e].deleted

StaleIsRecent ==
    \A e \in Entries : StaleAt(e) => StampOf(e) > Since(site.cursor)

\* A stamp that any cursor of this pull leaves within the overlap.
OfThisPull(t) == t # Never /\ pull.began + PullLag < t + PullOverlap

\* What the site will show of a lodge once it has merged what was read so far.
Told(e) ==
    IF Alive(e)
    THEN \/ \E l \in pull.lodges : l[1] = e /\ l[2] = entry[e].rev
         \/ /\ \A l \in pull.lodges : l[1] # e
            /\ site.shows[e] = entry[e].rev
    ELSE site.shows[e] = Hidden \/ \E d \in pull.deleted : d[1] = e

ReadOf(e) == IF Alive(e) THEN "lodges" ELSE "deleted"

\* Once its statement is through, a lodge is told right or changed during the pull.
Heard ==
    pull.at = "reading" =>
      \A e \in Entries :
        Exists(e) /\ ReadOf(e) \notin pull.due => OfThisPull(StampOf(e)) \/ Told(e)

PullInv ==
    /\ PullTypeOK
    /\ PullClock
    /\ ReadRight
    /\ StaleIsRecent
    /\ Heard

-----------------------------------------------------------------------------
LEMMA PullConstants ==
  /\ PullOverlap \in Nat /\ WriteLag \in Nat /\ PullLag \in Nat
  /\ PullTime \in Nat \ {0} /\ MaxChanges \in Nat \ {0}
  BY PullAssumption

LEMMA PullStarts == PullInit => PullInv
<1> SUFFICES ASSUME PullInit PROVE PullInv
  OBVIOUS
<1>1. /\ now = 1 /\ pull = PullIdle /\ site.cursor = 0
      /\ \A e \in Entries : /\ entry[e].rev = 0 /\ entry[e].updated = 0
                            /\ entry[e].deleted = 0 /\ site.shows[e] = 0
      /\ \A p \in Pens : pen[p].at = "idle" /\ pen[p].read = 0
  BY DEF PullInit, Never, PenIdle
<1>2. PullTypeOK
  <2>1. /\ entry \in [Entries -> EntryRow]
        /\ pen \in [Pens -> PenState]
    BY PullConstants DEF PullInit, EntryRow, PenState, PenIdle, Times, Never
  <2>2. /\ PullIdle \in PullState
        /\ site \in [cursor : Times, shows : [Entries -> 0..Hidden]]
    BY PullConstants DEF PullInit, PullState, PullIdle, Times, Never, Hidden
  <2>3. now \in 1..PullTime /\ Hidden # 0
    BY <1>1, PullConstants DEF Hidden
  <2> QED
    BY <1>1, <2>1, <2>2, <2>3, PullConstants DEF PullTypeOK
<1>3. PullClock
  BY <1>1, PullConstants DEF PullClock, PullIdle
<1>4. ReadRight /\ Heard
  BY <1>1 DEF ReadRight, Heard, PullIdle
<1>5. StaleIsRecent
  BY <1>1 DEF StaleIsRecent, StaleAt, Alive, Exists
<1> QED
  BY <1>2, <1>3, <1>4, <1>5 DEF PullInv

\* The steps of the writers.
LEMMA StampsKeeps ==
  ASSUME PullInv, NEW p \in Pens, NEW e \in Entries, NEW at \in {"edit", "delete"},
         NEW read \in Times, read <= now, Stamps(p, at, e, read)
  PROVE  PullInv'
<1> DEFINE new == [at |-> at, entry |-> {e}, stamp |-> now, read |-> read]
<1>1. /\ pen' = [pen EXCEPT ![p] = new] /\ UNCHANGED <<now, entry, pull, site>>
  BY DEF Stamps
<1>2. now \in 1..PullTime /\ pen \in [Pens -> PenState]
  BY DEF PullInv, PullTypeOK
<1>3. /\ new \in PenState /\ new.stamp = now /\ new.entry = {e} /\ new.read = read
  BY <1>2 DEF PenState, Times
<1> HIDE DEF new
<1>4. pen' \in [Pens -> PenState]
      /\ \A q \in Pens : pen'[q] = IF q = p THEN new ELSE pen[q]
  BY <1>1, <1>2, <1>3
<1>5. PullTypeOK'
  BY <1>1, <1>2, <1>3, <1>4 DEF PullInv, PullTypeOK
<1>6. PullClock'
  BY <1>1, <1>2, <1>3, <1>4, PullConstants DEF PullInv, PullClock, Never
<1>7. ReadRight' /\ StaleIsRecent' /\ Heard'
  BY <1>1 DEF PullInv, ReadRight, StaleIsRecent, StampOf, StaleAt, Alive, Exists,
     Heard, ReadOf, OfThisPull, Told
<1> QED
  BY <1>5, <1>6, <1>7 DEF PullInv
LEMMA CommitKeeps ==
  ASSUME PullInv, PullOverlap > WriteLag + PullLag, NEW p \in Pens, WriteCommits(p)
  PROVE  PullInv'
<1>1. /\ now \in 1..PullTime /\ pen \in [Pens -> PenState]
      /\ entry \in [Entries -> EntryRow] /\ pull \in PullState
      /\ site \in [cursor : Times, shows : [Entries -> 0..Hidden]]
      /\ UNCHANGED <<now, pull, site>>
  BY DEF PullInv, PullTypeOK, WriteCommits
<1>2. /\ pen' \in [Pens -> PenState]
      /\ \A q \in Pens : pen'[q] = IF q = p THEN PenIdle ELSE pen[q]
      /\ PenIdle.at = "idle" /\ PenIdle.read = 0
  BY <1>1, PullConstants DEF WriteCommits, PenIdle, PenState, Times, Never
<1>3. PICK e \in Entries : pen[p].entry = {e}
  BY DEF PullInv, PullClock, WriteCommits
<1>4. e = CHOOSE x \in Entries : pen[p].entry = {x}
  BY <1>3
<1>5. pen[p].stamp \in Nat /\ pen[p].read \in Times /\ pen[p].stamp \in Times
  BY <1>1, PullConstants DEF PenState, Times
<1>6. /\ pen[p].stamp # Never /\ pen[p].stamp <= now
      /\ now <= pen[p].stamp + WriteLag /\ pen[p].read <= now
  BY DEF PullInv, PullTypeOK, PullClock, WriteCommits
<1>7. PICK row \in EntryRow :
        /\ \/ row = entry[e]
           \/ /\ entry[e].deleted = Never /\ row.rev = entry[e].rev + 1
              /\ row.updated = pen[p].stamp /\ row.deleted = Never
           \/ /\ entry[e].deleted = Never /\ row.rev = entry[e].rev
              /\ row.updated = pen[p].read /\ row.deleted = pen[p].stamp
        /\ entry' = [entry EXCEPT ![e] = row]
  <2>1. CASE UNCHANGED entry
    BY <1>1, <2>1
  <2>2. ASSUME entry[e].deleted = Never, entry[e].rev # MaxChanges,
               NEW amenitiesOnly \in BOOLEAN,
               entry' = [entry EXCEPT
                           ![e].rev = @ + 1,
                           ![e].updated = UpdatedAfter(p, e, amenitiesOnly)]
        PROVE  \E row \in EntryRow :
                 /\ row.rev = entry[e].rev + 1
                 /\ row.updated = pen[p].stamp /\ row.deleted = Never
                 /\ entry' = [entry EXCEPT ![e] = row]
    <3> DEFINE row == [entry[e] EXCEPT !.rev = @ + 1, !.updated = pen[p].stamp]
    <3>1. entry' = [entry EXCEPT ![e] = row]
      BY <2>2 DEF UpdatedAfter
    <3>2. entry[e] \in EntryRow /\ entry[e].rev + 1 \in 0..MaxChanges
      <4>1. entry[e] \in EntryRow /\ entry[e].rev # MaxChanges
        BY <1>1, <2>2, Zenon
      <4> HIDE <2>2
      <4>2. entry[e].rev \in 0..MaxChanges
        BY <4>1 DEF EntryRow
      <4> QED
        BY <4>1, <4>2, PullConstants
    <3>3. /\ row \in EntryRow /\ row.rev = entry[e].rev + 1
          /\ row.updated = pen[p].stamp /\ row.deleted = Never
      BY <1>5, <2>2, <3>2 DEF EntryRow
    <3> QED
      BY <3>1, <3>3
  <2>3. ASSUME entry' = [entry EXCEPT ![e].deleted = pen[p].stamp,
                                      ![e].updated = pen[p].read]
        PROVE  \E row \in EntryRow :
                 /\ row.rev = entry[e].rev
                 /\ row.updated = pen[p].read /\ row.deleted = pen[p].stamp
                 /\ entry' = [entry EXCEPT ![e] = row]
    <3> DEFINE row == [entry[e] EXCEPT !.deleted = pen[p].stamp,
                                       !.updated = pen[p].read]
    <3>1. entry' = [entry EXCEPT ![e] = row]
      BY <2>3
    <3>2. /\ row \in EntryRow /\ row.rev = entry[e].rev
          /\ row.updated = pen[p].read /\ row.deleted = pen[p].stamp
      BY <1>1, <1>5 DEF EntryRow
    <3> QED
      BY <3>1, <3>2
  <2>4. \/ UNCHANGED entry
        \/ /\ entry[e].deleted = Never /\ entry[e].rev # MaxChanges
           /\ \/ \E amenitiesOnly \in BOOLEAN :
                   entry' = [entry EXCEPT
                           ![e].rev = @ + 1,
                           ![e].updated = UpdatedAfter(p, e, amenitiesOnly)]
              \/ entry' = [entry EXCEPT ![e].deleted = pen[p].stamp,
                                        ![e].updated = pen[p].read]
    BY <1>4 DEF WriteCommits
  <2> QED
    BY <2>1, <2>2, <2>3, <2>4
<1>8. /\ entry' \in [Entries -> EntryRow]
      /\ \A f \in Entries : entry'[f] = IF f = e THEN row ELSE entry[f]
  BY <1>1, <1>7
<1>9. row.rev \in Nat /\ entry[e].rev \in Nat /\ entry[e].rev <= row.rev
  BY <1>1, <1>7, PullConstants DEF EntryRow
<1>10. PullTypeOK'
  <2>1. \A f \in Entries : site.shows[f] = Hidden => entry'[f].deleted # Never
    BY <1>6, <1>7, <1>8 DEF PullInv, PullTypeOK
  <2>2. \A f \in Entries : site.shows[f] # Hidden => site.shows[f] <= entry'[f].rev
    <3>1. site.shows[e] # Hidden => site.shows[e] <= row.rev
      <4>1. site.shows[e] \in Nat
        BY <1>1, PullConstants DEF Hidden
      <4> QED
        BY <1>9, <4>1 DEF PullInv, PullTypeOK
    <3> QED
      BY <1>8, <3>1 DEF PullInv, PullTypeOK
  <2> QED
    BY <1>1, <1>2, <1>8, <2>1, <2>2 DEF PullInv, PullTypeOK
<1>11. PullClock'
  <2>1. row.updated <= now /\ row.deleted <= now
    BY <1>1, <1>6, <1>7 DEF PullInv, PullClock, Never
  <2>2. \A f \in Entries : entry'[f].updated <= now /\ entry'[f].deleted <= now
    BY <1>8, <2>1 DEF PullInv, PullClock
  <2>3. \A q \in Pens : pen'[q].read <= now
    BY <1>1, <1>2 DEF PullInv, PullClock
  <2> QED
    BY <1>1, <1>2, <2>2, <2>3 DEF PullInv, PullClock
<1>12. ReadRight'
  <2>1. \A l \in pull.lodges : l[1] \in Entries /\ l[2] \in Nat
    BY <1>1, PullConstants DEF PullState
  <2>2. \A d \in pull.deleted : d[1] \in Entries
    BY <1>1 DEF PullState
  <2>3. ASSUME NEW l \in pull.lodges PROVE l[2] <= entry'[l[1]].rev
    <3>1. CASE l[1] = e
      BY <1>8, <1>9, <2>1, <3>1 DEF PullInv, ReadRight
    <3>2. CASE l[1] # e
      BY <1>8, <2>1, <3>2 DEF PullInv, ReadRight
    <3> QED
      BY <3>1, <3>2
  <2>4. ASSUME NEW d \in pull.deleted PROVE entry'[d[1]].deleted # Never
    BY <1>6, <1>7, <1>8, <2>2 DEF PullInv, ReadRight
  <2> QED
    BY <1>1, <2>3, <2>4 DEF PullInv, ReadRight
\* A row that is written is stamped within the write's lag.
<1>13. ASSUME row # entry[e]
       PROVE  StampOf(e)' = pen[p].stamp
  <2>1. entry'[e] = row
    BY <1>8
  <2> QED
    BY <1>6, <1>7, <1>9, <1>13, <2>1 DEF StampOf, Alive, Exists
<1>14. ASSUME NEW f \in Entries, f # e \/ row = entry[e]
       PROVE  /\ entry'[f] = entry[f] /\ StampOf(f)' = StampOf(f)
              /\ (StaleAt(f)' <=> StaleAt(f)) /\ (Told(f)' <=> Told(f))
              /\ (Exists(f)' <=> Exists(f)) /\ ReadOf(f)' = ReadOf(f)
  <2>1. entry'[f] = entry[f]
    BY <1>8, <1>14
  <2> QED
    BY <1>1, <2>1 DEF StampOf, StaleAt, Told, ReadOf, Alive, Exists
<1>15. site.cursor \in Nat /\ site.cursor <= now
  BY <1>1, PullConstants DEF PullInv, PullClock, Times
<1>16. pen[p].stamp > Since(site.cursor)
  BY <1>1, <1>5, <1>6, <1>15, PullConstants DEF Since, Never
<1>17. pull.at = "reading" => OfThisPull(pen[p].stamp)
  <2>1. pull.at = "reading" => pull.began \in Nat /\ pull.began <= now
    BY <1>1, PullConstants DEF PullInv, PullClock, PullState, Times
  <2> QED
    BY <1>1, <1>5, <1>6, <2>1, PullConstants DEF OfThisPull
<1>18. StaleIsRecent'
  <2> SUFFICES ASSUME NEW f \in Entries, StaleAt(f)'
               PROVE  StampOf(f)' > Since(site.cursor)
    BY <1>1 DEF StaleIsRecent
  <2>1. CASE f # e \/ row = entry[e]
    BY <1>14, <2>1 DEF PullInv, StaleIsRecent
  <2>2. CASE f = e /\ row # entry[e]
    BY <1>13, <1>16, <2>2
  <2> QED
    BY <2>1, <2>2
<1>19. Heard'
  <2> SUFFICES ASSUME pull.at = "reading", NEW f \in Entries, Exists(f)',
                      ReadOf(f)' \notin pull.due
               PROVE  OfThisPull(StampOf(f))' \/ Told(f)'
    BY <1>1 DEF Heard
  <2>1. CASE f # e \/ row = entry[e]
    BY <1>1, <1>14, <2>1 DEF PullInv, Heard, OfThisPull
  <2>2. CASE f = e /\ row # entry[e]
    BY <1>1, <1>13, <1>17, <2>2 DEF OfThisPull
  <2> QED
    BY <2>1, <2>2
<1> QED
  BY <1>10, <1>11, <1>12, <1>18, <1>19 DEF PullInv
\* The steps of the pull.
LEMMA IdlePull ==
  /\ PullIdle \in PullState
  /\ PullIdle.at = "idle" /\ PullIdle.lodges = {} /\ PullIdle.deleted = {}
  BY PullConstants DEF PullIdle, PullState, Times, Never

LEMMA BeginsKeeps ==
  ASSUME PullInv, PullBegins
  PROVE  PullInv'
<1> DEFINE new == [PullIdle EXCEPT !.at = "reading", !.since = Since(site.cursor),
                                   !.began = now, !.due = {"lodges", "deleted"}]
<1>1. /\ now \in 1..PullTime
      /\ site \in [cursor : Times, shows : [Entries -> 0..Hidden]]
      /\ pull' = new /\ UNCHANGED <<now, entry, pen, site>>
  BY DEF PullInv, PullTypeOK, PullBegins
<1>2. now \in Times /\ Since(site.cursor) \in Times
  BY <1>1, PullConstants DEF Times, Since, Never
<1>3. /\ new \in PullState /\ new.at = "reading" /\ new.began = now
      /\ new.since = Since(site.cursor) /\ new.lodges = {} /\ new.deleted = {}
      /\ new.due = {"lodges", "deleted"}
  BY <1>2 DEF PullIdle, PullState, Never
<1> HIDE DEF new
<1>4. PullTypeOK'
  BY <1>1, <1>3 DEF PullInv, PullTypeOK
<1>5. PullClock'
  BY <1>1, <1>3, PullConstants DEF PullInv, PullClock
<1>6. ReadRight' /\ StaleIsRecent'
  BY <1>1, <1>3
  DEF PullInv, ReadRight, StaleIsRecent, StampOf, StaleAt, Alive, Exists
<1>7. Heard'
  BY <1>1, <1>3 DEF Heard, ReadOf, Alive
<1> QED
  BY <1>4, <1>5, <1>6, <1>7 DEF PullInv

\* A statement of a pull under way: what it reads was so, and tells what is stale.
LEMMA ReadsKeep ==
  ASSUME PullInv, ReadLodges \/ ReadDeleted
  PROVE  PullInv'
<1>1. /\ now \in 1..PullTime /\ entry \in [Entries -> EntryRow] /\ pull \in PullState
      /\ site \in [cursor : Times, shows : [Entries -> 0..Hidden]]
      /\ UNCHANGED <<now, entry, pen, site>>
  BY DEF PullInv, PullTypeOK, ReadLodges, ReadDeleted
<1>2. pull.at = "reading" /\ pull.since = Since(site.cursor)
  <2>1. pull.due # {}
    BY DEF ReadLodges, ReadDeleted
  <2>2. PullIdle.due = {}
    BY DEF PullIdle
  <2> QED
    BY <1>1, <2>1, <2>2 DEF PullInv, PullClock, PullState
<1>3. PICK lodges, deleted, due :
        /\ pull' = [pull EXCEPT !.lodges = lodges, !.deleted = deleted, !.due = due]
        /\ \/ /\ lodges = {<<e, entry[e].rev, entry[e].updated>> :
                       e \in {x \in Entries :
                                Alive(x) /\ entry[x].updated > pull.since}}
              /\ deleted = pull.deleted /\ due = pull.due \ {"lodges"}
           \/ /\ deleted = {<<e, entry[e].deleted>> :
                        e \in {x \in Entries : entry[x].deleted > pull.since}}
              /\ lodges = pull.lodges /\ due = pull.due \ {"deleted"}
  <2>1. CASE ReadLodges
    <3> DEFINE read == {<<e, entry[e].rev, entry[e].updated>> :
                       e \in {x \in Entries :
                                Alive(x) /\ entry[x].updated > pull.since}}
    <3>1. pull' = [pull EXCEPT !.lodges = read, !.due = pull.due \ {"lodges"}]
      BY <2>1 DEF ReadLodges
    <3> HIDE DEF read
    <3>2. pull' = [pull EXCEPT !.lodges = read, !.deleted = pull.deleted,
                               !.due = pull.due \ {"lodges"}]
      BY <1>1, <3>1 DEF PullState
    <3> QED
      BY <3>2 DEF read
  <2>2. CASE ReadDeleted
    <3> DEFINE read == {<<e, entry[e].deleted>> :
                        e \in {x \in Entries : entry[x].deleted > pull.since}}
    <3>1. pull' = [pull EXCEPT !.deleted = read, !.due = pull.due \ {"deleted"}]
      BY <2>2 DEF ReadDeleted
    <3> HIDE DEF read
    <3>2. pull' = [pull EXCEPT !.lodges = pull.lodges, !.deleted = read,
                               !.due = pull.due \ {"deleted"}]
      BY <1>1, <3>1 DEF PullState
    <3> QED
      BY <3>2 DEF read
  <2> QED
    BY <2>1, <2>2
<1>4. \A e \in Entries : /\ entry[e].rev \in 0..MaxChanges
                         /\ entry[e].updated \in Times /\ entry[e].deleted \in Times
  BY <1>1 DEF EntryRow
<1>5. /\ lodges \in SUBSET (Entries \X (1..MaxChanges) \X Times)
      /\ \A l \in lodges : l[2] <= entry[l[1]].rev /\ l[3] <= now
      /\ \A l, m \in lodges : l[1] = m[1] => l = m
  <2>1. CASE lodges = pull.lodges
    BY <1>1, <2>1 DEF PullInv, ReadRight, PullState
  <2>2. CASE lodges = {<<e, entry[e].rev, entry[e].updated>> :
                       e \in {x \in Entries :
                                Alive(x) /\ entry[x].updated > pull.since}}
    <3>1. ASSUME NEW l \in lodges
          PROVE  /\ l[1] \in Entries /\ Alive(l[1])
                 /\ l = <<l[1], entry[l[1]].rev, entry[l[1]].updated>>
      BY <2>2, <3>1
    <3>2. ASSUME NEW l \in lodges
          PROVE  /\ l \in Entries \X (1..MaxChanges) \X Times
                 /\ l[2] <= entry[l[1]].rev /\ l[3] <= now
      <4>1. /\ l[2] = entry[l[1]].rev /\ l[3] = entry[l[1]].updated
            /\ entry[l[1]].rev \in 1..MaxChanges
        BY <1>4, <3>1, PullConstants DEF Alive, Exists
      <4> QED
        BY <1>4, <3>1, <4>1 DEF PullInv, PullClock
    <3> QED
      BY <3>1, <3>2
  <2> QED
    BY <1>3, <2>1, <2>2
<1>6. /\ deleted \in SUBSET (Entries \X Times)
      /\ \A d \in deleted : entry[d[1]].deleted # Never /\ d[2] <= now
  <2>1. CASE deleted = pull.deleted
    BY <1>1, <2>1 DEF PullInv, ReadRight, PullState
  <2>2. CASE deleted = {<<e, entry[e].deleted>> :
                        e \in {x \in Entries : entry[x].deleted > pull.since}}
    <3>1. pull.since \in Times
      BY <1>1 DEF PullState
    <3>2. ASSUME NEW d \in deleted
          PROVE  /\ d \in Entries \X Times
                 /\ entry[d[1]].deleted # Never /\ d[2] <= now
      <4>1. /\ d[1] \in Entries /\ d = <<d[1], entry[d[1]].deleted>>
            /\ entry[d[1]].deleted > pull.since
        BY <2>2, <3>2
      <4> QED
        BY <1>4, <3>1, <4>1, PullConstants DEF PullInv, PullClock, Times, Never
    <3> QED
      BY <3>2
  <2> QED
    BY <1>3, <2>1, <2>2
<1>7. due \in SUBSET {"lodges", "deleted"}
  BY <1>1, <1>3 DEF PullState
<1>8. /\ pull' \in PullState /\ pull'.at = "reading"
      /\ pull'.since = pull.since /\ pull'.began = pull.began
      /\ pull'.lodges = lodges /\ pull'.deleted = deleted /\ pull'.due = due
  BY <1>1, <1>2, <1>3, <1>5, <1>6, <1>7 DEF PullState
<1>9. PullTypeOK'
  BY <1>1, <1>8 DEF PullInv, PullTypeOK
<1>10. PullClock'
  BY <1>1, <1>2, <1>8 DEF PullInv, PullClock
<1>11. ReadRight'
  BY <1>1, <1>5, <1>6, <1>8 DEF ReadRight
<1>12. StaleIsRecent'
  BY <1>1 DEF PullInv, StaleIsRecent, StampOf, StaleAt, Alive, Exists
<1>13. Heard'
  <2> SUFFICES ASSUME NEW e \in Entries, Exists(e), ReadOf(e) \notin due
               PROVE  OfThisPull(StampOf(e))' \/ Told(e)'
    BY <1>1, <1>8 DEF Heard, Exists, ReadOf, Alive
  <2>1. /\ OfThisPull(StampOf(e))' <=> OfThisPull(StampOf(e))
        /\ Alive(e)' <=> Alive(e)
    BY <1>1, <1>8 DEF OfThisPull, StampOf, Alive, Exists
  <2>2. ~StaleAt(e) \/ StampOf(e) > pull.since
    BY <1>2 DEF PullInv, StaleIsRecent
  <2>3. CASE /\ ReadOf(e) \notin pull.due
             /\ IF Alive(e) THEN lodges = pull.lodges ELSE deleted = pull.deleted
    <3>1. OfThisPull(StampOf(e)) \/ Told(e)
      BY <1>2, <2>3 DEF PullInv, Heard
    <3> QED
      BY <1>1, <1>8, <2>1, <2>3, <3>1 DEF Told
  <2>4. CASE Alive(e) /\ lodges = {<<x, entry[x].rev, entry[x].updated>> :
                       x \in {y \in Entries :
                                Alive(y) /\ entry[y].updated > pull.since}}
    <3>1. CASE entry[e].updated > pull.since
      <4>1. <<e, entry[e].rev, entry[e].updated>> \in lodges
        BY <2>4, <3>1
      <4>2. \E l \in lodges : l[1] = e /\ l[2] = entry[e].rev
        BY <4>1
      <4> QED
        BY <1>1, <1>8, <2>1, <2>4, <4>2 DEF Told
    <3>2. CASE ~(entry[e].updated > pull.since)
      <4>1. site.shows[e] = entry[e].rev
        BY <2>2, <2>4, <3>2 DEF StaleAt, StampOf
      <4>2. \A l \in lodges : l[1] # e
        BY <2>4, <3>2
      <4> QED
        BY <1>1, <1>8, <2>1, <2>4, <4>1, <4>2 DEF Told
    <3> QED
      BY <3>1, <3>2
  <2>5. CASE ~Alive(e) /\ deleted = {<<x, entry[x].deleted>> :
                        x \in {y \in Entries : entry[y].deleted > pull.since}}
    <3>1. CASE entry[e].deleted > pull.since
      <4>1. <<e, entry[e].deleted>> \in deleted
        BY <2>5, <3>1
      <4>2. \E d \in deleted : d[1] = e
        BY <4>1
      <4> QED
        BY <1>1, <1>8, <2>1, <2>5, <4>2 DEF Told
    <3>2. CASE ~(entry[e].deleted > pull.since)
      <4>1. site.shows[e] = Hidden
        BY <2>2, <2>5, <3>2 DEF StaleAt, StampOf
      <4> QED
        BY <1>1, <1>8, <2>1, <2>5, <4>1 DEF Told
    <3> QED
      BY <3>1, <3>2
  <2> QED
    BY <1>3, <2>3, <2>4, <2>5 DEF ReadOf
<1> QED
  BY <1>9, <1>10, <1>11, <1>12, <1>13 DEF PullInv
\* A finite set of instants that is not empty has a newest.
LEMMA Newest ==
  ASSUME NEW R \in SUBSET Times, R # {}
  PROVE  \E t \in R : \A u \in R : u <= t
<1> DEFINE Later == OpToRel(<, Nat)
           Before == {PullTime - t : t \in R}
<1>1. \A t \in R : t \in Nat /\ t <= PullTime /\ PullTime - t \in Nat
  BY PullConstants DEF Times
<1>2. Before \subseteq Nat /\ Before # {}
  BY <1>1
<1> HIDE DEF Before
<1>3. \E n \in Before : \A m \in Before : ~(<<m, n>> \in Later)
  BY <1>2, WFMin, NatLessThanWellFounded, Zenon
<1>4. \A m, n \in Nat : m < n => <<m, n>> \in Later
  BY DEF OpToRel
<1> HIDE DEF Later
<1>5. PICK t \in R : \A m \in Before : ~(<<m, PullTime - t>> \in Later)
  BY <1>3 DEF Before
<1>6. ASSUME NEW u \in R PROVE u <= t
  <2>1. PullTime - u \in Before
    BY DEF Before
  <2>2. ~(PullTime - u < PullTime - t)
    BY <1>1, <1>4, <1>5, <2>1
  <2> QED
    BY <1>1, <2>2, PullConstants
<1> QED
  BY <1>6

LEMMA CursorIs ==
  ASSUME PullInv
  PROVE  PullCursor \in Times /\ PullCursor <= now
<1>1. /\ pull \in PullState /\ site.cursor \in Times
  BY DEF PullInv, PullTypeOK
<1>2. Reported \in SUBSET Times /\ \A t \in Reported : t <= now
  BY <1>1 DEF Reported, PullState, PullInv, ReadRight
<1>3. CASE Reported = {}
  BY <1>1, <1>3 DEF PullCursor, PullInv, PullClock
<1>4. CASE Reported # {}
  <2>1. \E t \in Reported : \A u \in Reported : u <= t
    BY <1>2, <1>4, Newest
  <2>2. PullCursor \in Reported
    BY <1>4, <2>1 DEF PullCursor
  <2> QED
    BY <1>2, <2>2
<1> QED
  BY <1>3, <1>4

LEMMA AnswersKeeps ==
  ASSUME PullInv, PullAnswers
  PROVE  PullInv'
<1>1. /\ now \in 1..PullTime /\ entry \in [Entries -> EntryRow] /\ pull \in PullState
      /\ site \in [cursor : Times, shows : [Entries -> 0..Hidden]]
      /\ UNCHANGED <<now, entry, pen>>
      /\ pull' = PullIdle /\ pull.at = "reading" /\ pull.due = {}
  BY DEF PullInv, PullTypeOK, PullAnswers
<1> DEFINE told(e) == \E d \in pull.deleted : d[1] = e
           lodgeOf(e) == CHOOSE l \in pull.lodges : l[1] = e
           cursor == PullCursor
           shows == [e \in Entries |->
             IF site.shows[e] = Hidden \/ told(e) THEN Hidden
             ELSE IF \E l \in pull.lodges : l[1] = e THEN lodgeOf(e)[2]
             ELSE site.shows[e]]
<1>2. site' = [cursor |-> cursor, shows |-> shows]
  BY DEF PullAnswers
<1>3. \A e \in Entries : (\E l \in pull.lodges : l[1] = e) =>
        lodgeOf(e) \in pull.lodges /\ lodgeOf(e)[1] = e
  OBVIOUS
<1>4. \A l \in pull.lodges : /\ l[1] \in Entries /\ l[2] \in 1..MaxChanges
                             /\ l[2] <= entry[l[1]].rev
  BY <1>1 DEF PullState, PullInv, ReadRight
<1>5. \A e \in Entries : told(e) => entry[e].deleted # Never
  BY DEF PullInv, ReadRight
<1>6. Hidden = MaxChanges + 1 /\ MaxChanges \in Nat
  BY PullConstants DEF Hidden
<1> HIDE DEF told, lodgeOf, cursor, shows
<1>7. cursor \in Times /\ cursor <= now
  BY CursorIs DEF cursor
<1>8. ASSUME NEW e \in Entries
      PROVE  /\ shows[e] \in 0..Hidden
             /\ shows[e] = IF site.shows[e] = Hidden \/ told(e) THEN Hidden
                           ELSE IF \E l \in pull.lodges : l[1] = e THEN lodgeOf(e)[2]
                           ELSE site.shows[e]
             /\ shows[e] = Hidden => entry[e].deleted # Never
             /\ shows[e] # Hidden => shows[e] <= entry[e].rev
  <2>1. shows[e] = IF site.shows[e] = Hidden \/ told(e) THEN Hidden
                   ELSE IF \E l \in pull.lodges : l[1] = e THEN lodgeOf(e)[2]
                   ELSE site.shows[e]
    BY DEF shows
  <2>2. /\ site.shows[e] \in 0..Hidden
        /\ site.shows[e] = Hidden => entry[e].deleted # Never
        /\ site.shows[e] # Hidden => site.shows[e] <= entry[e].rev
    BY <1>1 DEF PullInv, PullTypeOK
  <2>3. CASE site.shows[e] = Hidden \/ told(e)
    BY <1>5, <1>6, <2>1, <2>2, <2>3
  <2>4. CASE ~(site.shows[e] = Hidden \/ told(e)) /\ \E l \in pull.lodges : l[1] = e
    <3>1. shows[e] = lodgeOf(e)[2]
      BY <2>1, <2>4
    <3>2. lodgeOf(e)[2] \in 1..MaxChanges /\ lodgeOf(e)[2] <= entry[e].rev
      BY <1>3, <1>4, <2>4
    <3> QED
      BY <1>6, <2>1, <3>1, <3>2
  <2>5. CASE ~(site.shows[e] = Hidden \/ told(e)) /\ ~\E l \in pull.lodges : l[1] = e
    BY <2>1, <2>2, <2>5
  <2> QED
    BY <2>3, <2>4, <2>5
<1>9. shows \in [Entries -> 0..Hidden]
  <2>1. shows = [e \in Entries |-> shows[e]]
    BY DEF shows
  <2> QED
    BY <1>8, <2>1
<1>10. /\ site'.cursor = cursor /\ site'.shows = shows
       /\ site' \in [cursor : Times, shows : [Entries -> 0..Hidden]]
  BY <1>2, <1>7, <1>9
<1>11. PullTypeOK'
  BY <1>1, <1>8, <1>10, IdlePull DEF PullInv, PullTypeOK
<1>12. PullClock'
  BY <1>1, <1>7, <1>10, IdlePull DEF PullInv, PullClock
<1>13. ReadRight' /\ Heard'
  BY <1>1, IdlePull DEF ReadRight, Heard
<1>14. StaleIsRecent'
  <2> SUFFICES ASSUME NEW e \in Entries, StaleAt(e)'
               PROVE  StampOf(e) > Since(cursor)
    BY <1>1, <1>10 DEF StaleIsRecent, StampOf, Alive, Exists
  <2>1. Exists(e) /\ IF Alive(e) THEN shows[e] # entry[e].rev ELSE shows[e] # Hidden
    BY <1>1, <1>10 DEF StaleAt, Alive, Exists
  <2>2. OfThisPull(StampOf(e)) \/ Told(e)
    BY <1>1, <2>1 DEF PullInv, Heard
  <2>3. ~Told(e)
    <3>1. ASSUME Alive(e), Told(e) PROVE shows[e] = entry[e].rev
      <4>1. ~told(e) /\ site.shows[e] # Hidden
        BY <1>5, <3>1 DEF Alive, PullInv, PullTypeOK
      <4>2. ASSUME NEW l \in pull.lodges, l[1] = e, l[2] = entry[e].rev
            PROVE  shows[e] = entry[e].rev
        <5>1. lodgeOf(e) = l
          BY <1>3, <4>2 DEF PullInv, ReadRight
        <5> QED
          BY <1>8, <4>1, <4>2, <5>1
      <4>3. (\A l \in pull.lodges : l[1] # e) => shows[e] = site.shows[e]
        BY <1>8, <4>1
      <4> QED
        BY <3>1, <4>2, <4>3 DEF Told
    <3>2. ASSUME ~Alive(e), Told(e) PROVE shows[e] = Hidden
      BY <1>8, <3>2 DEF Told, told
    <3> QED
      BY <2>1, <3>1, <3>2
  <2>4. StampOf(e) \in Nat
    BY <1>1 DEF StampOf, EntryRow, Times
  <2>5. pull.began \in Nat /\ now <= pull.began + PullLag
    BY <1>1 DEF PullInv, PullClock, PullState, Times
  <2>6. now \in Nat /\ cursor \in Nat
    BY <1>1, <1>7 DEF Times
  <2> QED
    BY <1>7, <2>2, <2>3, <2>4, <2>5, <2>6, PullConstants DEF OfThisPull, Since, Never
<1> QED
  BY <1>11, <1>12, <1>13, <1>14 DEF PullInv

LEMMA LostKeeps ==
  ASSUME PullInv, PullLost
  PROVE  PullInv'
<1>1. pull' = PullIdle /\ UNCHANGED <<now, entry, pen, site>>
  BY DEF PullLost
<1>2. PullTypeOK'
  BY <1>1, IdlePull DEF PullInv, PullTypeOK
<1>3. PullClock'
  BY <1>1, IdlePull DEF PullInv, PullClock
<1>4. ReadRight' /\ StaleIsRecent' /\ Heard'
  BY <1>1, IdlePull
  DEF PullInv, ReadRight, StaleIsRecent, StampOf, StaleAt, Alive, Exists, Heard
<1> QED
  BY <1>2, <1>3, <1>4 DEF PullInv

LEMMA TickKeeps ==
  ASSUME PullInv, PullTick
  PROVE  PullInv'
<1>1. /\ now' = now + 1 /\ UNCHANGED <<entry, pen, pull, site>> /\ now < PullTime
      /\ \A p \in Pens : pen[p].at # "idle" => now < pen[p].stamp + WriteLag
      /\ pull.at # "idle" => now < pull.began + PullLag
  BY DEF PullTick
<1>2. /\ now \in 1..PullTime /\ entry \in [Entries -> EntryRow]
      /\ pen \in [Pens -> PenState] /\ pull \in PullState
      /\ site \in [cursor : Times, shows : [Entries -> 0..Hidden]]
  BY DEF PullInv, PullTypeOK
<1>3. /\ \A p \in Pens : pen[p].stamp \in Nat /\ pen[p].read \in Nat
      /\ \A e \in Entries : entry[e].updated \in Nat /\ entry[e].deleted \in Nat
      /\ site.cursor \in Nat /\ pull.began \in Nat
  BY <1>2 DEF PenState, EntryRow, PullState, Times
<1>4. \A n \in Nat : n <= now => n <= now'
  BY <1>1, <1>2
<1>5. now' \in 1..PullTime
  BY <1>1, <1>2, PullConstants
<1>6. PullTypeOK'
  BY <1>1, <1>2, <1>3, <1>4, <1>5 DEF PullInv, PullTypeOK
<1>7. PullClock'
  <2>1. \A p \in Pens : pen[p].at # "idle" => now' <= pen[p].stamp + WriteLag
    BY <1>1, <1>2, <1>3, PullConstants
  <2>2. pull.at # "idle" => now' <= pull.began + PullLag
    BY <1>1, <1>2, <1>3, PullConstants
  <2> QED
    BY <1>1, <1>3, <1>4, <2>1, <2>2 DEF PullInv, PullClock
<1>8. ReadRight'
  <2>1. /\ \A l \in pull.lodges : l[3] \in Nat
        /\ \A d \in pull.deleted : d[2] \in Nat
    BY <1>2 DEF PullState, Times
  <2> QED
    BY <1>1, <1>4, <2>1 DEF PullInv, ReadRight
<1>9. StaleIsRecent' /\ Heard'
  BY <1>1 DEF PullInv, StaleIsRecent, StampOf, StaleAt, Alive, Exists, Heard, ReadOf,
     OfThisPull, Told
<1> QED
  BY <1>6, <1>7, <1>8, <1>9 DEF PullInv

LEMMA PullKept ==
  ASSUME PullOverlap > WriteLag + PullLag
  PROVE  PullInv /\ [PullNext]_pullVars => PullInv'
<1> SUFFICES ASSUME PullInv, [PullNext]_pullVars PROVE PullInv'
  OBVIOUS
<1>1. CASE UNCHANGED pullVars
  <2>1. UNCHANGED <<now, entry, pen, pull, site>>
    BY <1>1 DEF pullVars
  <2>2. PullTypeOK'
    BY <2>1 DEF PullInv, PullTypeOK
  <2>3. PullClock'
    BY <2>1 DEF PullInv, PullClock
  <2>4. ReadRight' /\ StaleIsRecent' /\ Heard'
    BY <2>1 DEF PullInv, ReadRight, StaleIsRecent, StampOf, StaleAt, Alive, Exists,
       Heard, ReadOf, OfThisPull, Told
  <2> QED
    BY <2>2, <2>3, <2>4 DEF PullInv
<1>2. ASSUME NEW p \in Pens, NEW e \in Entries,
             EditStamps(p, e) \/ DeleteStamps(p, e)
      PROVE  PullInv'
  <2>1. /\ entry[e].updated \in Times /\ Never \in Times
        /\ entry[e].updated <= now /\ Never <= now
    BY PullConstants DEF PullInv, PullTypeOK, PullClock, EntryRow, Times, Never
  <2>2. CASE EditStamps(p, e)
    BY <2>1, <2>2, StampsKeeps DEF EditStamps
  <2>3. CASE DeleteStamps(p, e)
    BY <2>1, <2>3, StampsKeeps DEF DeleteStamps
  <2> QED
    BY <1>2, <2>2, <2>3
<1> QED
  BY <1>1, <1>2, CommitKeeps, BeginsKeeps, ReadsKeep, AnswersKeeps, LostKeeps,
     TickKeeps
  DEF PullNext, PullStep

LEMMA ToldInTime == PullInv => PullMissesNothing
  BY DEF PullInv, StaleIsRecent, StampOf, PullMissesNothing

\* A pull begins and ends while the registry changes, and what the club has not
\* been told of a lodge the next pull reports, if the overlap is longer than a
\* write's lag and a pull's together (the booking site's overlap, which
\* otherLodgePullCursor leaves to it).
THEOREM NextPullReports ==
  ASSUME PullOverlap > WriteLag + PullLag
  PROVE  PullSpec => []PullMissesNothing
  BY PullKept, PullStarts, ToldInTime, PTL DEF PullSpec

-----------------------------------------------------------------------------
(***************************************************************************)
(* The parts, each from where its behaviours begin.  Every step of a part  *)
(* is one of the registry or of the pull, so the invariants hold of them.  *)
(***************************************************************************)
PartsInv == RegistryInv /\ SecretsInv /\ WelcomeInv /\ PullInv

\* A club's row and a lodge's as the parts begin with them.
BegunClub(status, wants) ==
    [status |-> status, wants |-> wants, url |-> NoUrl, secret |-> 1]

BegunLodge(at, owner) ==
    [at |-> at, name |-> "n1", owner |-> owner, winter |-> "short",
     summer |-> "short", by |-> NoClub]

LEMMA PartsBegin == Init => PartsInv
<1> SUFFICES ASSUME Init PROVE RegistryInv /\ SecretsInv /\ WelcomeInv
  BY PullStarts DEF Init, PartsInv
<1>1. /\ clubReq = [d \in ClubDesks |-> ClubIdle]
      /\ lodgeReq = [d \in LodgeDesks |-> LodgeIdle]
      /\ welcomed = [c \in Clubs |-> 0] /\ destined = {}
      /\ BeginClubs \/ BeginOwnership \/ BeginEditing
  BY DEF Init
<1>2. clubs \in [Clubs -> ClubState] /\ \A c \in Clubs : clubs[c].url = NoUrl
  <2>1. \A c \in Clubs : \E status \in Statuses, wants \in SUBSET Lodges :
          clubs[c] = BegunClub(status, wants)
    BY <1>1, PartsAssumption
    DEF BeginClubs, BeginOwnership, BeginEditing, Statuses, BegunClub
  <2>2. clubs = [c \in Clubs |-> clubs[c]]
    BY <1>1 DEF BeginClubs, BeginOwnership, BeginEditing
  <2>3. ASSUME NEW c \in Clubs
        PROVE  clubs[c] \in ClubState /\ clubs[c].url = NoUrl
    <3>1. PICK status \in Statuses, wants \in SUBSET Lodges :
            clubs[c] = BegunClub(status, wants)
      BY <2>1
    <3>2. BegunClub(status, wants) \in ClubState
      BY ClubAssumption DEF BegunClub, ClubState
    <3>3. BegunClub(status, wants).url = NoUrl
      BY DEF BegunClub
    <3> QED
      BY <3>1, <3>2, <3>3
  <2> QED
    BY <2>2, <2>3
<1>3. key \in [Keys -> KeyRow]
  BY <1>1, PartsAssumption
  DEF BeginClubs, BeginOwnership, BeginEditing, KeysAreHeld, KeyRow
<1>4. /\ lodge \in [Lodges -> LodgeRow]
      /\ \A l \in Lodges : RowSound(l)
  <2>1. ASSUME NEW l \in Lodges
        PROVE  \E at \in {"unused", "live"}, owner \in {NoClub, c1} :
                 /\ lodge[l] = BegunLodge(at, owner)
                 /\ owner # NoClub => at = "live" /\ BeginEditing
    <3>1. CASE BeginClubs
      <4>1. lodge[l] = BegunLodge("live", NoClub)
        BY <3>1 DEF BeginClubs, BegunLodge
      <4> QED
        BY <4>1
    <3>2. CASE BeginOwnership
      <4>1. lodge[l] = BegunLodge(IF l = l1 THEN "live" ELSE "unused", NoClub)
        BY <3>2 DEF BeginOwnership, BegunLodge
      <4> QED
        BY <4>1
    <3>3. CASE BeginEditing
      <4>1. lodge[l] = BegunLodge(IF l = l1 THEN "live" ELSE "unused",
                                  IF l = l1 THEN c1 ELSE NoClub)
        BY <3>3 DEF BeginEditing, BegunLodge
      <4> QED
        BY <3>3, <4>1
    <3> QED
      BY <1>1, <3>1, <3>2, <3>3
  <2>2. lodge = [l \in Lodges |-> lodge[l]]
    BY <1>1 DEF BeginClubs, BeginOwnership, BeginEditing
  <2>3. ASSUME NEW l \in Lodges
        PROVE  lodge[l] \in LodgeRow /\ RowSound(l)
    <3>1. PICK at \in {"unused", "live"}, owner \in {NoClub, c1} :
            /\ lodge[l] = BegunLodge(at, owner)
            /\ owner # NoClub => at = "live" /\ BeginEditing
      BY <2>1
    <3>2. BegunLodge(at, owner) \in LodgeRow
      BY PartsAssumption DEF BegunLodge, LodgeRow, Owners, Season
    <3>3. /\ lodge[l].at = at /\ lodge[l].owner = owner
          /\ lodge[l].by = NoClub
      BY <3>1 DEF BegunLodge
    <3>4. BeginEditing => Insider(c1)
      BY PartsAssumption DEF BeginEditing, Insider
    <3> QED
      BY <3>1, <3>2, <3>3, <3>4, LodgeAssumption DEF RowSound
  <2> QED
    BY <2>2, <2>3
<1>5. RegistryInv
  BY <1>1, <1>2, <1>3, <1>4, IdleIsRequest
  DEF RegistryInv, ClubsTyped, LodgesTyped, LodgesSound, ClubsSound, ClubReqSound
<1>6. SecretsInv
  BY <1>1, <1>2, IdleIsRequest
  DEF SecretsInv, SecretIsOneDestinations, PutIsFresh, OnePutEach, Putting,
      Registered
<1>7. WelcomeInv
  <2> SUFFICES ASSUME NEW c \in Clubs PROVE WelcomedOnce(c)
    BY <1>1 DEF WelcomeInv
  <2>1. Welcomers(c) = {} /\ welcomed[c] = 0
    BY <1>1, IdleIsRequest DEF Welcomers
  <2>2. CASE BeginClubs
    <3>1. FirstKeys(c) = {}
      BY <2>2 DEF BeginClubs, FirstKeys
    <3> QED
      BY <2>1, <3>1 DEF WelcomedOnce
  <2>3. CASE BeginOwnership \/ BeginEditing
    <3>1. KeysAreHeld /\ clubs[c].status # "none"
      BY <2>3 DEF BeginOwnership, BeginEditing
    <3>2. \A k \in FirstKeys(c) : k = IF c = c1 THEN k1 ELSE k2
      BY <3>1, PartsAssumption DEF KeysAreHeld, FirstKeys
    <3> QED
      BY <2>1, <3>1, <3>2 DEF WelcomedOnce
  <2> QED
    BY <1>1, <2>2, <2>3
<1> QED
  BY <1>5, <1>6, <1>7

LEMMA RegistryStands ==
  ASSUME RegistryInv, SecretsInv, WelcomeInv, [RegistryNext]_registryVars
  PROVE  RegistryInv' /\ SecretsInv' /\ WelcomeInv'
  BY InvIsKept, SecretsKept, WelcomeKept

LEMMA PartsKept ==
  ASSUME PullOverlap > WriteLag + PullLag
  PROVE  PartsInv /\ [Next]_vars => PartsInv'
<1> SUFFICES ASSUME PartsInv, [Next]_vars PROVE PartsInv'
  OBVIOUS
<1>1. [RegistryNext]_registryVars /\ [PullNext]_pullVars
  BY DEF Next, RegistryNext, registryVars, vars
<1> QED
  BY <1>1, RegistryStands, PullKept DEF PartsInv

\* What the parts' variables hold is what the code can hold, from each part's
\* beginning: of the pull, that no write is stamped in the future and no lodge
\* is shown as it never was (overlap as in NextPullReports).
THEOREM PartsAreTyped ==
  ASSUME PullOverlap > WriteLag + PullLag
  PROVE  Spec => []TypesOK
<1>1. PartsInv => TypesOK
  BY LodgesAreTyped, ClubsAreTyped DEF PartsInv, PullInv, TypesOK
<1> QED
  BY <1>1, PartsBegin, PartsKept, PTL DEF Spec

\* The parts keep the registry's promises too, from where they begin: a club with
\* a key and a lodge, one that waits, one that was suspended.
THEOREM PartsAreSafe ==
  ASSUME PullOverlap > WriteLag + PullLag
  PROVE  Spec => [](OneWelcome /\ SecretIsOneDestinations /\ OutsidersOwnNothing
                    /\ PullMissesNothing)
<1>1. PartsInv => OneWelcome /\ SecretIsOneDestinations /\ OutsidersOwnNothing
                 /\ PullMissesNothing
  BY OneIsWelcomed, OutsidersOut, ToldInTime DEF PartsInv, SecretsInv
<1> QED
  BY <1>1, PartsBegin, PartsKept, PTL DEF Spec

\* The parts keep titles as LodgeTitles says, the pull by leaving them alone.
THEOREM PartsKeepTitles == Spec => TitlesAreKept
<1>1. Init => RegistryInv /\ Titles!Init
  <2> SUFFICES ASSUME Init PROVE RegistryInv /\ Titles!Init
    OBVIOUS
  <2>1. RegistryInv
    BY PartsBegin DEF PartsInv
  <2>2. \A l \in Lodges : lodge[l].at # "deleted"
    BY DEF Init, BeginClubs, BeginOwnership, BeginEditing
  <2> QED
    BY <2>1, <2>2, TitlesBegin
<1>2. [Next]_vars => [RegistryNext]_registryVars
  BY DEF Next, RegistryNext, registryVars, vars
<1>3. RegistryInv /\ [Next]_vars =>
        RegistryInv' /\ [Titles!Next]_(Titles!titleVars)
  BY <1>2, InvIsKept, EveryStepKeepsTitles DEF KeepsTitles
<1> QED
  BY <1>1, <1>3, PTL DEF Spec, TitlesAreKept, Titles!Spec
=============================================================================
