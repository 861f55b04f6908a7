---------------------------- MODULE ImageLibrary ----------------------------
(***************************************************************************)
(* The image library: pictures and logos an administrator uploads, the     *)
(* files behind them, and the lodges that show them.  An upload writes the *)
(* file and then the row; a delete checks who uses the picture, deletes    *)
(* the row (the database clears the lodges that point at it) and then the  *)
(* file; a lodge's save checks the pictures it chose and then writes.      *)
(*                                                                         *)
(* Decoding and resizing are a library's; a file that is no picture is     *)
(* rejected before anything is written.  Names and sizes are left out.     *)
(***************************************************************************)
EXTENDS Naturals

CONSTANTS
    Pictures,    \* stored pictures, by the id of row and file
    Huts,        \* lodges that show pictures
    ImageDesks   \* requests that may be in flight

VARIABLES
    picture,     \* Image rows, by id
    onDisk,      \* the files under UPLOADS_DIR
    hut,         \* lodges: live or deleted, and what they show
    handling,    \* what each request has read and decided
    unseen       \* by lodge, the deletes that checked before it chose

imageVars == <<picture, onDisk, hut, handling, unseen>>

-----------------------------------------------------------------------------
ImageKinds == {"IMAGE", "LOGO"}

PictureRow == {"never", "gone"} \cup ImageKinds

Stored == {i \in Pictures : picture[i] \in ImageKinds}

Shown == [live : BOOLEAN, image : SUBSET Pictures, logo : SUBSET Pictures]

Handling ==
    [at : {"idle", "row", "undo", "delete", "unlink", "save", "serve"},
     kind : ImageKinds, picture : SUBSET Pictures, hut : SUBSET Huts]

AtRest == [at |-> "idle", kind |-> "IMAGE", picture |-> {}, hut |-> {}]

\* The lodge's field of a kind: a picture or nothing.
Field(kind) == IF kind = "IMAGE" THEN "image" ELSE "logo"

ImageTypeOK ==
    /\ picture \in [Pictures -> PictureRow]
    /\ onDisk \subseteq Pictures
    /\ hut \in [Huts -> Shown]
    /\ handling \in [ImageDesks -> Handling]
    /\ unseen \in [Huts -> SUBSET ImageDesks]

ImageInit ==
    /\ picture = [i \in Pictures |-> "never"]
    /\ onDisk = {}
    /\ hut = [h \in Huts |-> [live |-> TRUE, image |-> {}, logo |-> {}]]
    /\ handling = [d \in ImageDesks |-> AtRest]
    /\ unseen = [h \in Huts |-> {}]

Goes(d, state) == handling' = [handling EXCEPT ![d] = state]
Rests(d) == Goes(d, AtRest)

-----------------------------------------------------------------------------
\* POST: the file under a fresh random name, then its row.
UploadFile(d) ==
    /\ handling[d] = AtRest
    /\ \E i \in Pictures, kind \in ImageKinds :
         /\ picture[i] = "never" /\ i \notin onDisk
         /\ onDisk' = onDisk \cup {i}
         /\ Goes(d, [AtRest EXCEPT !.at = "row", !.kind = kind, !.picture = {i}])
    /\ UNCHANGED <<picture, hut, unseen>>

UploadRow(d) ==
    /\ handling[d].at = "row"
    /\ \/ /\ picture' = [i \in Pictures |->
               IF i \in handling[d].picture THEN handling[d].kind
               ELSE picture[i]]
          /\ Rests(d)
       \/ /\ Goes(d, [handling[d] EXCEPT !.at = "undo"])
          /\ UNCHANGED picture
    /\ UNCHANGED <<onDisk, hut, unseen>>

\* The create failed: the file goes too, if it can be removed.
UploadUndone(d) ==
    /\ handling[d].at = "undo"
    /\ onDisk' \in {onDisk, onDisk \ handling[d].picture}
    /\ picture' = [i \in Pictures |->
         IF i \in handling[d].picture THEN "gone" ELSE picture[i]]
    /\ Rests(d)
    /\ UNCHANGED <<hut, unseen>>

UsedAsImage(i) == {h \in Huts : hut[h].live /\ i \in hut[h].image} \* mutant

-----------------------------------------------------------------------------
\* usedBy: the live lodges that show it, as picture or as logo.
UsedBy(i) == {h \in Huts : hut[h].live /\ i \in hut[h].image \cup hut[h].logo}

DeleteChecks(d) ==
    /\ handling[d] = AtRest
    /\ \E i \in Stored :
         /\ UsedBy(i) = {}
         /\ Goes(d, [AtRest EXCEPT !.at = "delete", !.picture = {i}])
    /\ UNCHANGED <<picture, onDisk, hut, unseen>>

\* The row goes and the lodges that point at it show nothing (SetNull); a row
\* that is gone already ends the request.
Cleared(S) ==
    [h \in Huts |-> [hut[h] EXCEPT !.image = @ \ S, !.logo = @ \ S]]

DeleteRow(d) ==
    /\ handling[d].at = "delete"
    /\ IF handling[d].picture \subseteq Stored
       THEN /\ picture' = [i \in Pictures |->
                 IF i \in handling[d].picture THEN "gone" ELSE picture[i]]
            /\ hut' = Cleared(handling[d].picture)
            /\ Goes(d, [handling[d] EXCEPT !.at = "unlink"])
       ELSE /\ Rests(d)
            /\ UNCHANGED <<picture, hut>>
    /\ unseen' = [h \in Huts |-> unseen[h] \ {d}]
    /\ UNCHANGED onDisk

\* The file goes, if it can be removed.
DeleteFile(d) ==
    /\ handling[d].at = "unlink"
    /\ onDisk' \in {onDisk, onDisk \ handling[d].picture}
    /\ Rests(d)
    /\ UNCHANGED <<picture, hut, unseen>>

MayShowAny(i, kind) == i \in Stored                           \* mutant

-----------------------------------------------------------------------------
\* validateLodgePictures: it exists and is of the kind the field takes.
MayShow(i, kind) == picture[i] = kind

ChoosePicture(d) ==
    /\ handling[d] = AtRest
    /\ \E h \in Huts, i \in Pictures, kind \in ImageKinds :
         /\ hut[h].live /\ MayShow(i, kind)
         /\ Goes(d, [at |-> "save", kind |-> kind, picture |-> {i},
                     hut |-> {h}])
    /\ UNCHANGED <<picture, onDisk, hut, unseen>>

\* The save connects the picture: none there, no save (P2025).
SavePicture(d) ==
    /\ handling[d].at = "save"
    /\ LET i == handling[d].picture
           checked == {e \in ImageDesks : handling[e].at = "delete"} IN
         IF i \subseteq Stored
         THEN /\ hut' = [h \in Huts |->
                   IF h \in handling[d].hut /\ hut[h].live
                   THEN [hut[h] EXCEPT ![Field(handling[d].kind)] = i]
                   ELSE hut[h]]
              /\ unseen' = [h \in Huts |->
                   IF h \in handling[d].hut THEN checked ELSE unseen[h]]
         ELSE UNCHANGED <<hut, unseen>>
    /\ Rests(d)
    /\ UNCHANGED <<picture, onDisk>>

\* A save that chooses none; a lodge deleted, which keeps what it points at.
ClearPicture(h, kind) ==
    /\ hut[h].live
    /\ hut' = [hut EXCEPT ![h][Field(kind)] = {}]
    /\ UNCHANGED <<picture, onDisk, handling, unseen>>

DeleteHut(h) ==
    /\ hut[h].live
    /\ hut' = [hut EXCEPT ![h].live = FALSE]
    /\ UNCHANGED <<picture, onDisk, handling, unseen>>

-----------------------------------------------------------------------------
\* GET of the public file: the row, then the file.
ServeRow(d) ==
    /\ handling[d] = AtRest
    /\ \E i \in Stored : Goes(d, [AtRest EXCEPT !.at = "serve", !.picture = {i}])
    /\ UNCHANGED <<picture, onDisk, hut, unseen>>

ServeFile(d) ==
    /\ handling[d].at = "serve"
    /\ Rests(d)
    /\ UNCHANGED <<picture, onDisk, hut, unseen>>

\* The process stops between two steps of a request.
ImageCrash(d) ==
    /\ handling[d] # AtRest
    /\ Rests(d)
    /\ unseen' = [h \in Huts |-> unseen[h] \ {d}]
    /\ UNCHANGED <<picture, onDisk, hut>>

-----------------------------------------------------------------------------
ImageNext ==
    \/ \E d \in ImageDesks :
         \/ UploadFile(d) \/ UploadRow(d) \/ UploadUndone(d)
         \/ DeleteChecks(d) \/ DeleteRow(d) \/ DeleteFile(d)
         \/ ChoosePicture(d) \/ SavePicture(d)
         \/ ServeRow(d) \/ ServeFile(d) \/ ImageCrash(d)
    \/ \E h \in Huts, kind \in ImageKinds : ClearPicture(h, kind)
    \/ \E h \in Huts : DeleteHut(h)

ImageSpec == ImageInit /\ [][ImageNext]_imageVars

-----------------------------------------------------------------------------
(***************************************************************************)
(* Properties                                                              *)
(***************************************************************************)

\* Every row of the library has its file, and whatever a lodge shows is in the
\* library and of the kind its field takes: through failed uploads, deletes of
\* what was just chosen and crashes between a row and its file, which all leave
\* "the harmless direction", a file without a row.
ShownPicturesServe ==
    /\ Stored \subseteq onDisk
    /\ \A h \in Huts, kind \in ImageKinds :
         \A i \in hut[h][Field(kind)] : picture[i] = kind

\* A delete takes a picture from a live lodge only if the lodge chose it after
\* the delete had looked for its users.
NoneTakenUnseen ==
    [][\A h \in Huts, d \in ImageDesks :
         /\ handling[d].at = "delete" /\ handling'[d].at = "unlink"
         /\ hut[h].live /\ hut'[h] # hut[h]
         => d \in unseen[h]]_imageVars
=============================================================================
