--------------------------- MODULE ClubLifecycle ---------------------------
(***************************************************************************)
(* A club's life on the server: it registers (and, on the web form, is     *)
(* handed its first key), an administrator approves, rejects, suspends and *)
(* re-approves it, keys are issued, revoked and deleted, and it registers  *)
(* where it wants posts pushed.  Composed with LodgeRegistry: a request    *)
(* that a key admits may upload lodges, and the first approval assigns the *)
(* lodges the club asked for.                                              *)
(*                                                                         *)
(* A club is its unique code.  The key itself, its hash and its scopes,    *)
(* and the signing secret (derived from club and version) are left out.    *)
(***************************************************************************)
EXTENDS LodgeRegistry

CONSTANTS
    Keys,        \* ids of API keys
    Urls,        \* push destinations
    NoUrl,       \* no destination registered
    ClubDesks,   \* requests about clubs that may be in flight
    MaxSecret    \* bound on the generations of a push secret

ASSUME ClubAssumption ==
    /\ Clubs # {} /\ NoUrl \notin Urls /\ MaxSecret \in Nat \ {0}
    /\ ClubDesks # {} /\ IsFiniteSet(ClubDesks)

VARIABLES
    clubs,       \* Club, by code
    key,         \* ApiToken, by id
    clubReq,     \* what each request has read and decided
    welcomed,    \* new-club mails sent, by club
    destined     \* every destination a club registered, with its secret

clubVars == <<clubs, key, clubReq, welcomed, destined>>

-----------------------------------------------------------------------------
Statuses == {"none", "PENDING", "APPROVED", "REJECTED", "SUSPENDED"}

ClubState ==
    [status : Statuses, wants : SUBSET Lodges, url : Urls \cup {NoUrl},
     secret : 1..MaxSecret]

KeyRow ==
    [at : {"unused", "live", "revoked", "deleted"}, club : Clubs,
     source : {"register", "admin"}]

ClubRequest ==
    [at : {"idle", "lodges", "create", "mint", "issue", "approved", "free",
           "destroy", "put"},
     club : Clubs, source : {"web", "api"}, lodges : SUBSET Lodges,
     key : SUBSET Keys, url : Urls \cup {NoUrl}, secret : 1..MaxSecret]

ClubFree(d) == clubReq[d].at = "idle"

\* A request that has ended keeps nothing.
ClubIdle ==
    [at |-> "idle", club |-> CHOOSE c \in Clubs : TRUE, source |-> "api",
     lodges |-> {}, key |-> {}, url |-> NoUrl, secret |-> 1]

ClubTypeOK ==
    /\ clubs \in [Clubs -> ClubState]
    /\ key \in [Keys -> KeyRow]
    /\ clubReq \in [ClubDesks -> ClubRequest]
    /\ welcomed \in [Clubs -> 0..Cardinality(ClubDesks)]
    /\ destined \subseteq Clubs \X Urls \X (1..MaxSecret)
    /\ \A c \in Clubs : clubs[c].url # NoUrl =>
         <<c, clubs[c].url, clubs[c].secret>> \in destined

Continues(d, r) == clubReq' = [clubReq EXCEPT ![d] = r]
ClubAnswers(d) == Continues(d, ClubIdle)

-----------------------------------------------------------------------------
(***************************************************************************)
(* Registration.  A code that is taken gets the answer of an existing      *)
(* club: nothing is created, no key is minted, no mail is sent.            *)
(***************************************************************************)
RegisterFinds(d, c) ==
    /\ ClubFree(d)
    /\ clubs[c].status = "none"
    /\ \E source \in {"web", "api"} :
         \E wanted \in IF source = "web" THEN SUBSET Lodges ELSE {{}} :
           Continues(d, [ClubIdle EXCEPT !.at = "lodges", !.club = c,
                           !.source = source, !.lodges = wanted])
    /\ UNCHANGED <<clubs, key, welcomed, destined, lodgeVars>>

\* Only lodges that are live and free are asked for.
RegisterLodges(d) ==
    /\ clubReq[d].at = "lodges"
    /\ Continues(d, [clubReq[d] EXCEPT !.at = "create",
                       !.lodges = @ \cap OwnedBy(NoClub)])
    /\ UNCHANGED <<clubs, key, welcomed, destined, lodgeVars>>

\* The unique code decides who created the club; the loser of the race
\* returns the winner's club, not created.
CreatedAnyhow(d) == TRUE                                      \* mutant

Created(d) == clubs[clubReq[d].club].status = "none"

RegisterCreate(d) ==
    /\ clubReq[d].at = "create"
    /\ LET c == clubReq[d].club IN
         /\ clubs' = IF clubs[c].status = "none"
                     THEN [clubs EXCEPT ![c] =
                            [status |-> "PENDING", wants |-> clubReq[d].lodges,
                             url |-> NoUrl, secret |-> 1]]
                     ELSE clubs
         /\ IF Created(d)
            THEN Continues(d, [clubReq[d] EXCEPT !.at = "mint"])
            ELSE ClubAnswers(d)
    /\ UNCHANGED <<key, welcomed, destined, lodgeVars>>

Mints(k, c, source) ==
    key' = [key EXCEPT ![k] = [at |-> "live", club |-> c, source |-> source]]

\* The first key, from the form only, and the mail to the administrators,
\* which may fail without anyone knowing.
RegisterWelcome(d) ==
    /\ clubReq[d].at = "mint"
    /\ LET c == clubReq[d].club IN
         /\ IF clubReq[d].source = "web"
            THEN \E k \in Keys : key[k].at = "unused" /\ Mints(k, c, "register")
            ELSE UNCHANGED key
         /\ \E sent \in {0, 1} :
              welcomed' = [welcomed EXCEPT ![c] = @ + sent]
    /\ ClubAnswers(d)
    /\ UNCHANGED <<clubs, destined, lodgeVars>>

-----------------------------------------------------------------------------
(***************************************************************************)
(* The review: four moves, each from one status, tested by the update      *)
(* itself.  The first approval goes on to assign the requested lodges.     *)
(***************************************************************************)
MoveTo(c, from, to) ==
    /\ clubs[c].status = from
    /\ clubs' = [clubs EXCEPT ![c].status = to]

Approve(d, c) ==
    /\ ClubFree(d)
    /\ MoveTo(c, "PENDING", "APPROVED")
    /\ IF clubs[c].wants # {}
       THEN Continues(d, [ClubIdle EXCEPT !.at = "approved", !.club = c])
       ELSE UNCHANGED clubReq
    /\ UNCHANGED <<key, welcomed, destined, lodgeVars>>

OtherMove(c) ==
    /\ \/ MoveTo(c, "PENDING", "REJECTED")
       \/ MoveTo(c, "APPROVED", "SUSPENDED")
       \/ MoveTo(c, "SUSPENDED", "APPROVED")
    /\ UNCHANGED <<key, clubReq, welcomed, destined, lodgeVars>>

\* assignRequestedLodgesOnApproval: of the requested lodges, those that are
\* live and free (or already the club's).
ApprovedReads(d) ==
    /\ clubReq[d].at = "approved"
    /\ LET c == clubReq[d].club
           free == {l \in clubs[c].wants : Grantable(c, l)} IN
         IF free = {} THEN ClubAnswers(d)
         ELSE Continues(d, [clubReq[d] EXCEPT !.at = "free", !.lodges = free])
    /\ UNCHANGED <<clubs, key, welcomed, destined, lodgeVars>>

\* They become the club's whole list, as a save of its list would make them.
ApprovedAssigns(d) ==
    /\ clubReq[d].at = "free"
    /\ \E e \in LodgeDesks :
         AssignBegin(e, clubReq[d].club, clubReq[d].lodges)
    /\ ClubAnswers(d)
    /\ UNCHANGED <<clubs, key, welcomed, destined>>

-----------------------------------------------------------------------------
(***************************************************************************)
(* Keys.                                                                   *)
(***************************************************************************)
IssueRead(d, c) ==
    /\ ClubFree(d)
    /\ clubs[c].status = "APPROVED"
    /\ Continues(d, [ClubIdle EXCEPT !.at = "issue", !.club = c])
    /\ UNCHANGED <<clubs, key, welcomed, destined, lodgeVars>>

IssueCreate(d) ==
    /\ clubReq[d].at = "issue"
    /\ \E k \in Keys :
         key[k].at = "unused" /\ Mints(k, clubReq[d].club, "admin")
    /\ ClubAnswers(d)
    /\ UNCHANGED <<clubs, welcomed, destined, lodgeVars>>

Revoke(k) ==
    /\ key[k].at = "live"
    /\ key' = [key EXCEPT ![k].at = "revoked"]
    /\ UNCHANGED <<clubs, clubReq, welcomed, destined, lodgeVars>>

DeleteKeyRead(d, k) ==
    /\ ClubFree(d)
    /\ key[k].at = "revoked"
    /\ Continues(d, [ClubIdle EXCEPT !.at = "destroy", !.key = {k}])
    /\ UNCHANGED <<clubs, key, welcomed, destined, lodgeVars>>

DeleteKey(d) ==
    /\ clubReq[d].at = "destroy"
    /\ key' = [k \in Keys |->
         IF k \in clubReq[d].key /\ key[k].at = "revoked"
         THEN [key[k] EXCEPT !.at = "deleted"] ELSE key[k]]
    /\ ClubAnswers(d)
    /\ UNCHANGED <<clubs, welcomed, destined, lodgeVars>>

\* authenticateApiRequest: a live key of an approved club.
AdmittedByKey(k) == key[k].at = "live"                        \* mutant

Admitted(k) ==
    /\ key[k].at = "live"
    /\ clubs[key[k].club].status = "APPROVED"

-----------------------------------------------------------------------------
(***************************************************************************)
(* What an admitted request does: upload a lodge, or set or clear the      *)
(* push destination.                                                       *)
(***************************************************************************)
UploadLodge(d, k) ==
    /\ Admitted(k)
    /\ UploadById(d, key[k].club) \/ UploadByName(d, key[k].club)
    /\ UNCHANGED clubVars

UploadNewLodge(d, k) ==
    /\ Admitted(k)
    /\ UploadNew(d, key[k].club)
    /\ UNCHANGED clubVars

\* PUT reads the destination and the generation of its secret, and writes
\* both in a later statement.  A change of destination rotates the secret.
RotatesFrom(before, url) == before # NoUrl /\ before # url     \* mutant

Rotates(before, url) == before # url

PutTargetRead(d, k) ==
    /\ ClubFree(d)
    /\ Admitted(k)
    /\ LET c == key[k].club IN
         \E url \in Urls :
           LET next == clubs[c].secret
                       + IF Rotates(clubs[c].url, url) THEN 1 ELSE 0 IN
             /\ next <= MaxSecret
             /\ Continues(d, [ClubIdle EXCEPT !.at = "put", !.club = c,
                                !.url = url, !.secret = next])
    /\ UNCHANGED <<clubs, key, welcomed, destined, lodgeVars>>

PutTargetWrite(d) ==
    /\ clubReq[d].at = "put"
    /\ LET r == clubReq[d] IN
         /\ clubs' = [clubs EXCEPT ![r.club].url = r.url,
                                   ![r.club].secret = r.secret]
         /\ destined' = destined \cup {<<r.club, r.url, r.secret>>}
    /\ ClubAnswers(d)
    /\ UNCHANGED <<key, welcomed, lodgeVars>>

\* The destination goes; the generation stays.
DeleteTarget(k) ==
    /\ Admitted(k)
    /\ clubs' = [clubs EXCEPT ![key[k].club].url = NoUrl]
    /\ UNCHANGED <<key, clubReq, welcomed, destined, lodgeVars>>

\* PUT of the club's lodges: its status is read before the transaction.
SaveClubLodges(d, c) ==
    /\ clubs[c].status = "APPROVED"
    /\ \E wanted \in SUBSET Lodges : AssignBegin(d, c, wanted)
    /\ UNCHANGED clubVars

\* A request about a club fails or dies between two statements.
ClubRequestFails(d) ==
    /\ ~ClubFree(d)
    /\ ClubAnswers(d)
    /\ UNCHANGED <<clubs, key, welcomed, destined, lodgeVars>>

-----------------------------------------------------------------------------
\* One PUT of a club at a time: its site waits for the answer.
OnePut(k) ==
    \A d \in ClubDesks :
      ~(clubReq[d].at = "put" /\ clubReq[d].club = key[k].club)

RegistersOrReviews(d) ==
    \/ \E c \in Clubs : RegisterFinds(d, c) \/ Approve(d, c) \/ IssueRead(d, c)
    \/ RegisterLodges(d)
    \/ RegisterCreate(d)
    \/ RegisterWelcome(d)
    \/ IssueCreate(d)
    \/ \E k \in Keys : DeleteKeyRead(d, k)
    \/ DeleteKey(d)
    \/ \E k \in Keys : OnePut(k) /\ PutTargetRead(d, k)
    \/ PutTargetWrite(d)
    \/ ClubRequestFails(d)

ClubNext ==
    \/ \E d \in ClubDesks : RegistersOrReviews(d)
    \/ \E c \in Clubs : OtherMove(c)
    \/ \E k \in Keys : Revoke(k) \/ DeleteTarget(k)

\* Who owns which lodge: saves of lists, first approvals, creates, deletes.
OwnershipNext ==
    \/ \E d \in ClubDesks, c \in Clubs : Approve(d, c)
    \/ \E d \in ClubDesks : ApprovedReads(d) \/ ApprovedAssigns(d)
    \/ \E d \in LodgeDesks :
         \/ \E k \in Keys : UploadNewLodge(d, k)
         \/ \E c \in Clubs : SaveClubLodges(d, c)
         \/ (DeleteRead(d) \/ LodgeContinues(d)) /\ UNCHANGED clubVars

\* What a lodge says: uploads, edits, creates, deletes.
EditingNext ==
    \E d \in LodgeDesks :
      \/ \E k \in Keys : UploadLodge(d, k) \/ UploadNewLodge(d, k)
      \/ (ConsoleOpens(d) \/ LodgeContinues(d)) /\ UNCHANGED clubVars

\* A server without clubs, whose lodges nobody owns or has described.
RegistryInit ==
    /\ clubs = [c \in Clubs |->
         [status |-> "none", wants |-> {}, url |-> NoUrl, secret |-> 1]]
    /\ key \in [Keys -> {k \in KeyRow : k.at = "unused"}]
    /\ clubReq = [d \in ClubDesks |-> ClubIdle]
    /\ welcomed = [c \in Clubs |-> 0]
    /\ destined = {}
    /\ lodge \in [Lodges ->
         {r \in LodgeRow : r.at # "deleted" /\ r.owner = NoClub /\ r.by = NoClub}]
    /\ lodgeReq = [d \in LodgeDesks |-> LodgeIdle]

RegistryNext == ClubNext \/ OwnershipNext \/ EditingNext

RegistrySpec == RegistryInit /\ [][RegistryNext]_<<clubVars, lodgeVars>>

-----------------------------------------------------------------------------
(***************************************************************************)
(* Properties                                                              *)
(***************************************************************************)

\* However two submissions of one code overlap and die, a club is handed at
\* most one first key and announced at most once: knowing a club's code never
\* mints a key for it (registerClub's unique-code race).
FirstKeys(c) ==
    {k \in Keys : key[k].at # "unused" /\ key[k].club = c
                  /\ key[k].source = "register"}

OneWelcome ==
    \A c \in Clubs :
      /\ Cardinality(FirstKeys(c)) + Cardinality(
           {d \in ClubDesks : clubReq[d].at = "mint" /\ clubReq[d].club = c
                              /\ clubReq[d].source = "web"}) <= 1
      /\ welcomed[c] <= 1

\* A signing secret a club used for one destination is never used for another,
\* through any sequence of registrations, withdrawals and suspensions, as long
\* as its site has one registration in flight (push-target PUT).
SecretIsOneDestinations ==
    \A a, b \in destined : a[1] = b[1] /\ a[3] = b[3] => a[2] = b[2]

\* A club no administrator ever approved owns no lodge and no lodge says what
\* it uploaded, though it has held a key since it registered.
OutsidersOwnNothing ==
    \A c \in Clubs :
      clubs[c].status \in {"none", "PENDING", "REJECTED"} =>
        \A l \in Lodges : lodge[l].owner # c /\ lodge[l].by # c

\* The registry as LodgeTitles sees it.
Approved == {c \in Clubs : clubs[c].status \in {"APPROVED", "SUSPENDED"}}
Standing == [l \in Lodges |-> lodge[l].at]
Holder == [l \in Lodges |-> lodge[l].owner]
Says == [l \in Lodges |-> <<lodge[l].name, lodge[l].winter, lodge[l].summer>>]
Credit == [l \in Lodges |-> lodge[l].by]

Titles == INSTANCE LodgeTitles
    WITH admitted <- Approved, standing <- Standing, holder <- Holder,
         says <- Says, credit <- Credit

\* However saves of lists, approvals, uploads, edits and deletes overlap, the
\* registry keeps titles as LodgeTitles says: a lodge is claimed only from the
\* centre and only by a club that was approved, one save moves lodges of one
\* club, and a deleted lodge keeps what it said for the bookings that cite it.
TitlesAreKept == Titles!Spec
=============================================================================
