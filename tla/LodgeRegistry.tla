--------------------------- MODULE LodgeRegistry ---------------------------
(***************************************************************************)
(* The lodge registry: the table every club contributes to, and the        *)
(* statements its handlers run against it.  A club's upload creates or     *)
(* changes lodges by id or by its own name; an administrator creates,      *)
(* edits and deletes them; a save of a club's list moves ownership.        *)
(*                                                                         *)
(* Every handler reads, decides on what it read, and writes in a later     *)
(* statement; `lodgeReq` is what a request in flight has decided.  Who may *)
(* call is the business of ClubLifecycle, which composes this module.      *)
(*                                                                         *)
(* A lodge's columns are cut down to its name and the two season columns   *)
(* whose pair is checked before a save; what stands for all the others is  *)
(* in LodgePull, where only whether a row changed matters.                 *)
(***************************************************************************)
EXTENDS Naturals, FiniteSets

CONSTANTS
    Lodges,      \* lodge ids, used or still to be used
    Clubs,       \* clubs that may own lodges
    NoClub,      \* central ownership
    Names,       \* lodge names
    LodgeDesks   \* requests that may be in flight

ASSUME LodgeAssumption == NoClub \notin Clubs

VARIABLES
    lodge,       \* other_lodges, by id
    lodgeReq     \* what each request has read and decided

lodgeVars == <<lodge, lodgeReq>>

-----------------------------------------------------------------------------
Season == {"short", "long"}
Owners == Clubs \cup {NoClub}

LodgeRow ==
    [at : {"unused", "live", "deleted"}, name : Names, owner : Owners,
     winter : Season, summer : Season, by : Owners]

Live == {l \in Lodges : lodge[l].at = "live"}
OwnedBy(c) == {l \in Live : lodge[l].owner = c}

Columns == {"name", "winter", "summer"}

\* The columns a save carries: an absent one is left alone.
Edits ==
    {e \in UNION {[S -> Names \cup Season] : S \in SUBSET Columns} :
       \A f \in DOMAIN e : e[f] \in IF f = "name" THEN Names ELSE Season}

NoEdit == [f \in {} |-> "short"]

\* An item of an upload, and a lodge to create, always carry a name.
Items == {e \in Edits : "name" \in DOMAIN e}

Merged(row, edit) ==
    [f \in DOMAIN row |-> IF f \in DOMAIN edit THEN edit[f] ELSE row[f]]

\* A name is written where it is a new one.
Written(row, item) ==
    [f \in DOMAIN item \ (IF item.name = row.name THEN {"name"} ELSE {}) |-> item[f]]

\* A lodge no one has described yet: both seasons unset, hence short.
Unset == [winter |-> "short", summer |-> "short"]

Blank(l) == [lodge[l] EXCEPT !.winter = Unset.winter, !.summer = Unset.summer]

\* seasonDatesProblem(seasonDatesAfter(stored, incoming)): the seasons a save
\* would leave.  Long seasons share days.
SeasonsClash(row) == row.winter = "long" /\ row.summer = "long"
SeasonsSent(row, edit) ==                                     \* mutant
    Merged([row EXCEPT !.winter = "short", !.summer = "short"], edit)

SeasonsAfter(row, edit) == Merged(row, edit)

LodgeRequest ==
    [at : {"idle", "create", "upload", "patch", "delete", "wanted", "current",
           "assign"},
     club : Owners, lodge : SUBSET Lodges, edit : Edits,
     seen : SUBSET LodgeRow, add : SUBSET Lodges, drop : SUBSET Lodges]

LodgeIdle ==
    [at |-> "idle", club |-> NoClub, lodge |-> {}, edit |-> NoEdit,
     seen |-> {}, add |-> {}, drop |-> {}]

LodgeTypeOK ==
    /\ lodge \in [Lodges -> LodgeRow]
    /\ lodgeReq \in [LodgeDesks -> LodgeRequest]
    /\ \A d \in LodgeDesks :
         /\ lodgeReq[d].at \in {"upload", "patch", "delete"} =>
              Cardinality(lodgeReq[d].lodge) = 1
         /\ lodgeReq[d].add \cap lodgeReq[d].drop = {}

-----------------------------------------------------------------------------
LodgeFree(d) == lodgeReq[d] = LodgeIdle

\* What a save of a lodge was decided on: the row as it was read.
Seen(at, ls) == IF at \in {"upload", "patch"} THEN {lodge[l] : l \in ls} ELSE {}

Decides(d, at, c, ls, e) ==
    lodgeReq' = [lodgeReq EXCEPT ![d] =
        [at |-> at, club |-> c, lodge |-> ls, edit |-> e, seen |-> Seen(at, ls),
         add |-> {}, drop |-> {}]]

Answers(d) == lodgeReq' = [lodgeReq EXCEPT ![d] = LodgeIdle]

\* The lodge the request is about.
Subject(d) == CHOOSE l \in Lodges : lodgeReq[d].lodge = {l}

(***************************************************************************)
(* The upload of one item.  An item that quotes an id is matched by it;    *)
(* one that does not is matched by name among the club's own lodges.       *)
(* Items that are skipped (deleted, unknown, ambiguous, owned by others,   *)
(* clashing seasons) or change nothing leave no trace.                     *)
(***************************************************************************)
\* ownLodgeByName: the one live own lodge of the name.
OwnByName(c, n) == {l \in OwnedBy(c) : lodge[l].name = n}

\* None live, and none deleted either.
UnknownName(c, n) ==
    ~ \E l \in Lodges : lodge[l].at # "unused" /\ lodge[l].owner = c
                        /\ lodge[l].name = n

MayUpload(c, l, e) ==
    /\ lodge[l].owner = c
    /\ ~SeasonsClash(SeasonsAfter(lodge[l], e))
    /\ Merged(lodge[l], e) # lodge[l]

UploadById(d, c) ==
    /\ LodgeFree(d)
    /\ \E l \in Live, item \in Items :
         /\ MayUpload(c, l, item)
         /\ Decides(d, "upload", c, {l}, Written(lodge[l], item))
    /\ UNCHANGED lodge

UploadByName(d, c) ==
    /\ LodgeFree(d)
    /\ \E l \in Live, item \in Items :
         /\ OwnByName(c, item.name) = {l}
         /\ MayUpload(c, l, item)
         /\ Decides(d, "upload", c, {l}, Written(lodge[l], item))
    /\ UNCHANGED lodge

\* Its seasons are the ones it is created with.
Creatable(item) == ~SeasonsClash(SeasonsAfter(Unset, item))

UploadNew(d, c) ==
    /\ LodgeFree(d)
    /\ \E item \in Items :
         /\ UnknownName(c, item.name)
         /\ Creatable(item)
         /\ Decides(d, "create", c, {}, item)
    /\ UNCHANGED lodge

\* The update names the id and that the lodge is live; the owner was checked
\* on the row read before.
WritableAnyhow(l) == lodge[l].at # "unused"                   \* mutant

Writable(l) == lodge[l].at = "live"

UploadWrite(d) ==
    /\ lodgeReq[d].at = "upload"
    /\ LET l == Subject(d) IN
         lodge' = IF Writable(l)
                  THEN [lodge EXCEPT ![l] =
                          [Merged(@, lodgeReq[d].edit) EXCEPT
                             !.by = lodgeReq[d].club]]
                  ELSE lodge
    /\ Answers(d)

\* A create of a club is owned by it; one of an administrator by nobody.
Create(d) ==
    /\ lodgeReq[d].at = "create"
    /\ \E l \in Lodges :
         /\ lodge[l].at = "unused"
         /\ lodge' = [lodge EXCEPT ![l] =
              [Merged(Blank(l), lodgeReq[d].edit) EXCEPT
                 !.at = "live", !.owner = lodgeReq[d].club,
                 !.by = lodgeReq[d].club]]
    /\ Answers(d)

(***************************************************************************)
(* The console: create, edit, delete.                                      *)
(***************************************************************************)
\* A new name another live lodge has must be confirmed (allowSimilarName).
LooksAlike(n, except) == \E l \in Live \ except : lodge[l].name = n

NameAllowed(e, except, allowSimilarName) ==
    "name" \in DOMAIN e =>
      \/ allowSimilarName
      \/ \E l \in except : lodge[l].name = e.name
      \/ ~LooksAlike(e.name, except)

AdminCreate(d) ==
    /\ LodgeFree(d)
    /\ \E item \in Items, allowSimilarName \in BOOLEAN :
         /\ Creatable(item)
         /\ NameAllowed(item, {}, allowSimilarName)
         /\ Decides(d, "create", NoClub, {}, item)
    /\ UNCHANGED lodge

PatchRead(d) ==
    /\ LodgeFree(d)
    /\ \E l \in Live, e \in Edits, allowSimilarName \in BOOLEAN :
         /\ ~SeasonsClash(SeasonsAfter(lodge[l], e))
         /\ NameAllowed(e, {l}, allowSimilarName)
         /\ Decides(d, "patch", NoClub, {l}, e)
    /\ UNCHANGED lodge

\* An administrator's edit takes the credit from the club (adminProvenance).
PatchWrite(d) ==
    /\ lodgeReq[d].at = "patch"
    /\ LET l == Subject(d) IN
         lodge' = IF Writable(l)
                  THEN [lodge EXCEPT ![l] =
                          [Merged(@, lodgeReq[d].edit) EXCEPT !.by = NoClub]]
                  ELSE lodge
    /\ Answers(d)

DeleteRead(d) ==
    /\ LodgeFree(d)
    /\ \E l \in Live : Decides(d, "delete", NoClub, {l}, NoEdit)
    /\ UNCHANGED lodge

\* A logical delete: the row stays, and is never live again.
DeleteWrite(d) ==
    /\ lodgeReq[d].at = "delete"
    /\ LET l == Subject(d) IN
         lodge' = IF Writable(l) THEN [lodge EXCEPT ![l].at = "deleted"]
                  ELSE lodge
    /\ Answers(d)

(***************************************************************************)
(* assignClubLodges: a club's complete list, in one READ COMMITTED         *)
(* transaction of two reads and two guarded updates.  The updates and the  *)
(* commit are one step: the rows they match stay locked in between.        *)
(***************************************************************************)
AssignBegin(d, c, wanted) ==
    /\ LodgeFree(d)
    /\ Decides(d, "wanted", c, wanted, NoEdit)
    /\ UNCHANGED lodge

\* A wanted lodge that is gone or another club's ends it.
Grantable(c, l) == l \in Live /\ lodge[l].owner \in {c, NoClub}

AssignWanted(d) ==
    /\ lodgeReq[d].at = "wanted"
    /\ LET c == lodgeReq[d].club
           wanted == lodgeReq[d].lodge IN
         IF \A l \in wanted : Grantable(c, l)
         THEN lodgeReq' = [lodgeReq EXCEPT
                ![d].at = "current",
                ![d].add = {l \in wanted : lodge[l].owner # c}]
         ELSE Answers(d)
    /\ UNCHANGED lodge

DroppedAll(c, wanted) == OwnedBy(c)                           \* mutant

Dropped(c, wanted) == OwnedBy(c) \ wanted

AssignCurrent(d) ==
    /\ lodgeReq[d].at = "current"
    /\ lodgeReq' = [lodgeReq EXCEPT
         ![d].at = "assign",
         ![d].drop = Dropped(lodgeReq[d].club, lodgeReq[d].lodge),
         ![d].lodge = {}]
    /\ UNCHANGED lodge

\* The WHERE of the claim: still unowned.  Neither update asks again whether
\* the lodge is live.
ClaimedAnyhow(S) == S                                         \* mutant

Claimed(S) == {l \in S : lodge[l].owner = NoClub}

AssignWrite(d) ==
    /\ lodgeReq[d].at = "assign"
    /\ LET c == lodgeReq[d].club
           add == lodgeReq[d].add
           dropped == {l \in lodgeReq[d].drop : lodge[l].owner = c} IN
         lodge' = IF Claimed(add) = add
                  THEN [l \in Lodges |->
                          IF l \in add THEN [lodge[l] EXCEPT !.owner = c]
                          ELSE IF l \in dropped
                               THEN [lodge[l] EXCEPT !.owner = NoClub]
                          ELSE lodge[l]]
                  ELSE lodge
    /\ Answers(d)

\* A statement fails, a transaction is chosen as a deadlock's victim, or the
\* process stops: what was not committed never happens.
LodgeRequestFails(d) ==
    /\ ~LodgeFree(d)
    /\ Answers(d)
    /\ UNCHANGED lodge

-----------------------------------------------------------------------------
\* The statements of the requests in flight.
LodgeContinues(d) ==
    \/ UploadWrite(d)
    \/ Create(d)
    \/ PatchWrite(d)
    \/ DeleteWrite(d)
    \/ AssignWanted(d)
    \/ AssignCurrent(d)
    \/ AssignWrite(d)
    \/ LodgeRequestFails(d)

\* What an administrator may open at any time.
ConsoleOpens(d) ==
    \/ AdminCreate(d)
    \/ PatchRead(d)
    \/ DeleteRead(d)

-----------------------------------------------------------------------------
(***************************************************************************)
(* Properties                                                              *)
(***************************************************************************)

\* A lodge passes from one club to another only through central ownership:
\* however saves of two clubs' lists, approvals and uploads overlap, no claim
\* takes a lodge another club holds (the guarded updates of assignClubLodges).
NoDirectHandover ==
    [][\A l \in Lodges :
         lodge[l].owner # NoClub => lodge'[l].owner \in {lodge[l].owner, NoClub}
      ]_lodgeVars

\* A deleted lodge keeps what it said and stays deleted, for the bookings that
\* cite it, whatever edits were decided before the delete landed.
DeletedIsFinal ==
    [][\A l \in Lodges :
         lodge[l].at = "deleted" =>
           lodge'[l] = [lodge[l] EXCEPT !.owner = lodge'[l].owner]
      ]_lodgeVars

\* The two seasons of a lodge share days only when its row changed between the
\* read and the write of the save that made them: a save on its own, whatever
\* columns it carries, is checked against the columns it leaves alone
\* (seasonDatesAfter).
SaveEnds(d, l) == lodgeReq[d].lodge = {l} /\ lodgeReq'[d] = LodgeIdle

ClashTakesTwo ==
    [][\A l \in Lodges :
         (~SeasonsClash(lodge[l]) /\ SeasonsClash(lodge'[l])) =>
           \E d \in LodgeDesks : SaveEnds(d, l) /\ lodgeReq[d].seen # {lodge[l]}
      ]_lodgeVars
=============================================================================
