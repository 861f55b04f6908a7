------------------------- MODULE ImageLibraryProofs -------------------------
(***************************************************************************)
(* The image library, for any numbers of pictures, lodges and requests in  *)
(* flight.                                                                 *)
(***************************************************************************)
EXTENDS ImageLibrary, TLAPS

\* A picture that is being uploaded has a file, and no row nor another upload.
Uploading(d) == handling[d].at \in {"row", "undo"}

UploadsApart ==
    \A d \in ImageDesks :
      Uploading(d) =>
        /\ \A i \in handling[d].picture : picture[i] = "never" /\ i \in onDisk
        /\ \A e \in ImageDesks \ {d} :
             Uploading(e) => handling[d].picture \cap handling[e].picture = {}

\* The file that is removed has lost its row; the picture a save chose is still of
\* its kind, if it is there at all.
Decided ==
    \A d \in ImageDesks :
      /\ handling[d].at = "unlink" =>
           \A i \in handling[d].picture : picture[i] = "gone"
      /\ handling[d].at = "save" =>
           \A i \in handling[d].picture : picture[i] \in {handling[d].kind, "gone"}

\* A delete has looked at every live lodge that shows its picture, or the lodge
\* chose it since.
Looked ==
    \A d \in ImageDesks, h \in Huts :
      handling[d].at = "delete" /\ hut[h].live
      /\ handling[d].picture \cap (hut[h].image \cup hut[h].logo) # {}
        => d \in unseen[h]

ImageInv ==
    /\ ImageTypeOK
    /\ UploadsApart
    /\ Decided
    /\ Looked
    /\ ShownPicturesServe

-----------------------------------------------------------------------------
LEMMA AtRestIs ==
  /\ AtRest \in Handling
  /\ AtRest.at = "idle" /\ AtRest.picture = {}
  BY DEF AtRest, Handling, ImageKinds

\* One request moves on, the others stay where they are.
LEMMA GoesIs ==
  ASSUME ImageTypeOK, NEW d \in ImageDesks, NEW state \in Handling, Goes(d, state)
  PROVE  /\ handling' \in [ImageDesks -> Handling]
         /\ handling'[d] = state
         /\ \A e \in ImageDesks \ {d} : handling'[e] = handling[e]
  BY DEF ImageTypeOK, Goes

\* One field of a lodge is written.
LEMMA FieldSet ==
  ASSUME NEW r \in Shown, NEW kind \in ImageKinds, NEW S \in SUBSET Pictures
  PROVE  LET new == [r EXCEPT ![Field(kind)] = S]
         IN  /\ new \in Shown /\ new.live = r.live
             /\ new.image = IF kind = "IMAGE" THEN S ELSE r.image
             /\ new.logo = IF kind = "LOGO" THEN S ELSE r.logo
<1>1. CASE kind = "IMAGE"
  BY <1>1 DEF Shown, Field
<1>2. CASE kind = "LOGO"
  BY <1>2 DEF Shown, Field
<1> QED
  BY <1>1, <1>2 DEF ImageKinds

\* What a lodge shows, field by field.
OfItsKind ==
    \A h \in Huts : /\ \A i \in hut[h].image : picture[i] = "IMAGE"
                  /\ \A i \in hut[h].logo : picture[i] = "LOGO"

LEMMA ServeIs ==
  /\ ShownPicturesServe <=> Stored \subseteq onDisk /\ OfItsKind
  /\ ShownPicturesServe' <=> Stored' \subseteq onDisk' /\ OfItsKind'
<1> DEFINE byField(x, y) ==
      \A h \in Huts, kind \in ImageKinds : \A i \in x[h][Field(kind)] : y[i] = kind
<1>1. \A x, y :
        byField(x, y) <=> \A h \in Huts : /\ \A i \in x[h].image : y[i] = "IMAGE"
                                       /\ \A i \in x[h].logo : y[i] = "LOGO"
  BY DEF Field, ImageKinds
<1>2. /\ byField(hut, picture) <=> OfItsKind
      /\ byField(hut', picture') <=> OfItsKind'
  BY <1>1 DEF OfItsKind
<1> QED
  BY <1>2 DEF ShownPicturesServe

LEMMA ImageInit0 == ImageInit => ImageInv
<1> SUFFICES ASSUME ImageInit PROVE ImageInv
  OBVIOUS
<1>1. ImageTypeOK
  BY AtRestIs DEF ImageInit, ImageTypeOK, PictureRow, Shown
<1>2. UploadsApart /\ Decided /\ Looked
  BY AtRestIs DEF ImageInit, UploadsApart, Uploading, Decided, Looked
<1>3. ShownPicturesServe
  BY DEF ImageInit, ShownPicturesServe, Stored, Field, ImageKinds
<1> QED
  BY <1>1, <1>2, <1>3 DEF ImageInv
-----------------------------------------------------------------------------
\* A step that only decides: what the request holds from then on is right.
LEMMA Decides ==
  ASSUME ImageInv, NEW d \in ImageDesks, NEW state \in Handling, Goes(d, state),
         UNCHANGED <<picture, onDisk, hut>>,
         unseen' \in [Huts -> SUBSET ImageDesks],
         \A h \in Huts : unseen[h] \ {d} \subseteq unseen'[h],
         state.at \in {"row", "undo"} =>
           Uploading(d) /\ state.picture = handling[d].picture,
         state.at = "unlink" => \A i \in state.picture : picture[i] = "gone",
         state.at = "save" =>
           \A i \in state.picture : picture[i] \in {state.kind, "gone"},
         state.at = "delete" =>
           \A h \in Huts :
             hut[h].live => state.picture \cap (hut[h].image \cup hut[h].logo) = {}
  PROVE  ImageInv'
<1>1. /\ handling' \in [ImageDesks -> Handling]
      /\ handling'[d] = state
      /\ \A e \in ImageDesks \ {d} : handling'[e] = handling[e]
  BY GoesIs DEF ImageInv
<1>2. ImageTypeOK'
  BY <1>1 DEF ImageInv, ImageTypeOK
<1>3. UploadsApart'
  BY <1>1 DEF ImageInv, UploadsApart, Uploading
<1>4. Decided'
  BY <1>1 DEF ImageInv, Decided
<1>5. Looked'
  BY <1>1 DEF ImageInv, Looked
<1>6. ShownPicturesServe'
  BY DEF ImageInv, ShownPicturesServe, Stored
<1> QED
  BY <1>2, <1>3, <1>4, <1>5, <1>6 DEF ImageInv

LEMMA UploadFileKeeps ==
  ASSUME ImageInv, NEW d \in ImageDesks, UploadFile(d)
  PROVE  ImageInv'
<1>1. PICK i \in Pictures, kind \in ImageKinds :
        /\ picture[i] = "never" /\ i \notin onDisk
        /\ onDisk' = onDisk \cup {i}
        /\ Goes(d, [AtRest EXCEPT !.at = "row", !.kind = kind, !.picture = {i}])
  BY DEF UploadFile
<1> DEFINE state == [AtRest EXCEPT !.at = "row", !.kind = kind, !.picture = {i}]
<1>2. /\ state \in Handling /\ state.at = "row" /\ state.picture = {i}
      /\ Goes(d, state)
  BY <1>1 DEF AtRest, Handling
<1> HIDE DEF state
<1>3. /\ handling' \in [ImageDesks -> Handling]
      /\ handling'[d] = state
      /\ \A e \in ImageDesks \ {d} : handling'[e] = handling[e]
  BY <1>2, GoesIs DEF ImageInv
<1>4. UNCHANGED <<picture, hut, unseen>>
  BY DEF UploadFile
<1>5. ImageTypeOK'
  BY <1>1, <1>3, <1>4 DEF ImageInv, ImageTypeOK
<1>6. UploadsApart'
  BY <1>1, <1>2, <1>3, <1>4 DEF ImageInv, UploadsApart, Uploading
<1>7. Decided'
  BY <1>2, <1>3, <1>4 DEF ImageInv, Decided
<1>8. Looked'
  BY <1>2, <1>3, <1>4 DEF ImageInv, Looked
<1>9. ShownPicturesServe'
  BY <1>1, <1>4 DEF ImageInv, ShownPicturesServe, Stored
<1> QED
  BY <1>5, <1>6, <1>7, <1>8, <1>9 DEF ImageInv

LEMMA UploadRowKeeps ==
  ASSUME ImageInv, NEW d \in ImageDesks, UploadRow(d)
  PROVE  ImageInv'
<1> DEFINE S == handling[d].picture
           kind == handling[d].kind
<1>1. /\ handling[d] \in Handling /\ S \subseteq Pictures /\ kind \in ImageKinds
      /\ Uploading(d) /\ UNCHANGED <<onDisk, hut, unseen>>
  BY DEF ImageInv, ImageTypeOK, Handling, UploadRow, Uploading
<1>2. ASSUME Goes(d, [handling[d] EXCEPT !.at = "undo"]), UNCHANGED picture
      PROVE  ImageInv'
  <2> DEFINE state == [handling[d] EXCEPT !.at = "undo"]
  <2>1. state \in Handling /\ state.at = "undo" /\ state.picture = S
    BY <1>1 DEF Handling
  <2> HIDE DEF state
  <2>2. unseen' \in [Huts -> SUBSET ImageDesks]
    BY <1>1 DEF ImageInv, ImageTypeOK
  <2> QED
    BY <1>1, <1>2, <2>1, <2>2, Decides DEF state
<1>3. ASSUME picture' = [i \in Pictures |-> IF i \in S THEN kind ELSE picture[i]],
             Rests(d)
      PROVE  ImageInv'
  <2>1. /\ handling' \in [ImageDesks -> Handling]
        /\ handling'[d] = AtRest
        /\ \A e \in ImageDesks \ {d} : handling'[e] = handling[e]
    BY <1>3, GoesIs, AtRestIs DEF ImageInv, Rests
  <2>2. \A i \in S : picture[i] = "never" /\ i \in onDisk
    BY <1>1 DEF ImageInv, UploadsApart
  <2>3. \A i \in Pictures : picture[i] # "never" => picture'[i] = picture[i]
    BY <1>3, <2>2
  <2> HIDE DEF S, kind
  <2>4. ImageTypeOK'
    BY <1>1, <1>3, <2>1 DEF ImageInv, ImageTypeOK, PictureRow
  <2>5. UploadsApart'
    <3> SUFFICES ASSUME NEW e \in ImageDesks, Uploading(e)'
                 PROVE  /\ \A i \in handling'[e].picture :
                             picture'[i] = "never" /\ i \in onDisk'
                        /\ \A f \in ImageDesks \ {e} :
                             Uploading(f)' =>
                               handling'[e].picture \cap handling'[f].picture = {}
      BY DEF UploadsApart
    <3>1. e # d /\ handling'[e] = handling[e] /\ Uploading(e)
      BY <2>1, AtRestIs DEF Uploading
    <3>2. handling[e].picture \cap S = {}
      BY <1>1, <3>1 DEF ImageInv, UploadsApart, S
    <3>3. \A i \in handling[e].picture : i \in Pictures /\ picture'[i] = picture[i]
      BY <1>3, <3>2 DEF ImageInv, ImageTypeOK, Handling
    <3> QED
      BY <1>1, <2>1, <3>1, <3>3, AtRestIs DEF ImageInv, UploadsApart, Uploading
  <2>6. Decided'
    <3>1. \A e \in ImageDesks : handling[e].picture \subseteq Pictures
      BY DEF ImageInv, ImageTypeOK, Handling
    <3> QED
      <4>1. ASSUME NEW e \in ImageDesks, handling'[e].at \in {"unlink", "save"}
            PROVE  /\ handling'[e] = handling[e] /\ handling[e].kind \in ImageKinds
                   /\ \A i \in handling[e].picture :
                        i \in Pictures /\ picture'[i] = picture[i]
        <5>1. handling'[e] = handling[e] /\ handling[e] \in Handling
          BY <2>1, <4>1, AtRestIs DEF ImageInv, ImageTypeOK
        <5>2. \A i \in handling[e].picture : picture[i] # "never"
          BY <4>1, <5>1 DEF ImageInv, Decided, Handling, ImageKinds
        <5> QED
          BY <2>3, <3>1, <5>1, <5>2 DEF Handling
      <4> QED
        BY <4>1 DEF ImageInv, Decided
  <2>7. Looked'
    BY <1>1, <2>1, AtRestIs DEF ImageInv, Looked
  <2>8. ShownPicturesServe'
    <3>1. \A h \in Huts : hut[h].image \cup hut[h].logo \subseteq Pictures
      BY DEF ImageInv, ImageTypeOK, Shown
    <3>2. Stored' \subseteq onDisk'
      BY <1>1, <1>3, <2>2 DEF ImageInv, ShownPicturesServe, Stored
    <3>3. OfItsKind
      BY ServeIs DEF ImageInv
    <3>4. OfItsKind'
      BY <1>1, <2>3, <3>1, <3>3 DEF OfItsKind
    <3> QED
      BY <3>2, <3>4, ServeIs
  <2> QED
    BY <2>4, <2>5, <2>6, <2>7, <2>8 DEF ImageInv
<1> QED
  BY <1>2, <1>3 DEF UploadRow
\* A request that ends: what is left to show of the others.
LEMMA HandlingEnds ==
  ASSUME ImageInv, NEW d \in ImageDesks, Rests(d)
  PROVE  /\ handling' \in [ImageDesks -> Handling]
         /\ \A e \in ImageDesks :
              handling'[e].at # "idle" => e # d /\ handling'[e] = handling[e]
         /\ \A e \in ImageDesks : Uploading(e)' =>
              e # d /\ Uploading(e) /\ handling'[e] = handling[e]
<1>1. /\ handling' \in [ImageDesks -> Handling]
      /\ handling'[d] = AtRest
      /\ \A e \in ImageDesks \ {d} : handling'[e] = handling[e]
  BY GoesIs, AtRestIs DEF ImageInv, Rests
<1> QED
  BY <1>1, AtRestIs DEF Uploading

LEMMA UndoneKeeps ==
  ASSUME ImageInv, NEW d \in ImageDesks, UploadUndone(d)
  PROVE  ImageInv'
<1> DEFINE S == handling[d].picture
<1>1. /\ S \subseteq Pictures /\ Uploading(d) /\ Rests(d) /\ UNCHANGED <<hut, unseen>>
      /\ picture' = [i \in Pictures |-> IF i \in S THEN "gone" ELSE picture[i]]
      /\ onDisk' \in {onDisk, onDisk \ S}
  BY DEF ImageInv, ImageTypeOK, Handling, UploadUndone, Uploading
<1>2. \A i \in S : picture[i] = "never"
  BY <1>1 DEF ImageInv, UploadsApart
<1>3. \A e \in ImageDesks \ {d} : Uploading(e) => handling[e].picture \cap S = {}
  BY <1>1 DEF ImageInv, UploadsApart
<1>4. \A e \in ImageDesks : handling[e] \in Handling
  BY DEF ImageInv, ImageTypeOK
<1> HIDE DEF S
<1>5. \A i \in Pictures : picture[i] # "never" => picture'[i] = picture[i]
  BY <1>1, <1>2
<1>6. ImageTypeOK'
  BY <1>1, HandlingEnds DEF ImageInv, ImageTypeOK, PictureRow
<1>7. UploadsApart'
  <2>1. ASSUME NEW e \in ImageDesks, Uploading(e)', NEW i \in handling'[e].picture
        PROVE  picture'[i] = "never" /\ i \in onDisk'
    <3>1. e # d /\ Uploading(e) /\ handling'[e] = handling[e]
      BY <1>1, <2>1, HandlingEnds
    <3>2. i \in Pictures /\ i \notin S /\ picture[i] = "never" /\ i \in onDisk
      BY <1>3, <1>4, <2>1, <3>1 DEF ImageInv, UploadsApart, Handling
    <3> QED
      BY <1>1, <3>2
  <2>2. ASSUME NEW e \in ImageDesks, Uploading(e)',
               NEW f \in ImageDesks \ {e}, Uploading(f)'
        PROVE  handling'[e].picture \cap handling'[f].picture = {}
    BY <1>1, <2>2, HandlingEnds DEF ImageInv, UploadsApart
  <2> QED
    BY <2>1, <2>2 DEF UploadsApart
<1>8. Decided'
  <2>1. ASSUME NEW e \in ImageDesks, handling'[e].at \in {"unlink", "save"}
        PROVE  /\ handling'[e] = handling[e]
               /\ \A i \in handling[e].picture : picture'[i] = picture[i]
    <3>1. handling'[e] = handling[e]
      BY <1>1, <2>1, HandlingEnds
    <3>2. \A i \in handling[e].picture : picture[i] # "never"
      BY <1>4, <2>1, <3>1 DEF ImageInv, Decided, Handling, ImageKinds
    <3> QED
      BY <1>4, <1>5, <3>1, <3>2 DEF Handling
  <2> QED
    BY <2>1 DEF ImageInv, Decided
<1>9. Looked'
  BY <1>1, HandlingEnds DEF ImageInv, Looked
<1>10. ShownPicturesServe'
  <2>1. \A h \in Huts : hut[h].image \cup hut[h].logo \subseteq Pictures
    BY DEF ImageInv, ImageTypeOK, Shown
  <2>2. OfItsKind'
    BY <1>1, <1>5, <2>1, ServeIs DEF ImageInv, OfItsKind
  <2>3. Stored' \subseteq onDisk'
    BY <1>1, <1>2, ServeIs DEF ImageInv, Stored, ImageKinds
  <2> QED
    BY <2>2, <2>3, ServeIs
<1> QED
  BY <1>6, <1>7, <1>8, <1>9, <1>10 DEF ImageInv

LEMMA DeleteRowKeeps ==
  ASSUME ImageInv, NEW d \in ImageDesks, DeleteRow(d)
  PROVE  ImageInv'
<1> DEFINE S == handling[d].picture
<1>1. /\ handling[d] \in Handling /\ S \subseteq Pictures /\ UNCHANGED onDisk
      /\ handling[d].at = "delete"
      /\ unseen' = [h \in Huts |-> unseen[h] \ {d}]
      /\ unseen' \in [Huts -> SUBSET ImageDesks]
  BY DEF ImageInv, ImageTypeOK, Handling, DeleteRow
<1>2. ASSUME Rests(d), UNCHANGED <<picture, hut>> PROVE ImageInv'
  BY <1>1, <1>2, Decides, AtRestIs DEF Rests
<1>3. ASSUME S \subseteq Stored,
             picture' = [i \in Pictures |-> IF i \in S THEN "gone" ELSE picture[i]],
             hut' = Cleared(S),
             Goes(d, [handling[d] EXCEPT !.at = "unlink"])
      PROVE  ImageInv'
  <2> DEFINE state == [handling[d] EXCEPT !.at = "unlink"]
  <2>1. state \in Handling /\ state.at = "unlink" /\ state.picture = S
    BY <1>1 DEF Handling
  <2>2. Goes(d, state)
    BY <1>3
  <2> HIDE DEF state, S
  <2>3. /\ handling' \in [ImageDesks -> Handling]
        /\ handling'[d] = state
        /\ \A e \in ImageDesks \ {d} : handling'[e] = handling[e]
    BY <2>1, <2>2, GoesIs DEF ImageInv
  <2>4. \A i \in S : picture[i] \in ImageKinds
    BY <1>3 DEF Stored
  <2>5. \A e \in ImageDesks : handling[e] \in Handling
    BY DEF ImageInv, ImageTypeOK
  <2>6. ASSUME NEW h \in Huts
        PROVE  /\ hut'[h] \in Shown /\ hut'[h].live = hut[h].live
               /\ hut'[h].image = hut[h].image \ S
               /\ hut'[h].logo = hut[h].logo \ S
    <3>1. hut'[h] = [hut[h] EXCEPT !.image = @ \ S, !.logo = @ \ S]
      BY <1>3 DEF Cleared
    <3>2. hut[h] \in Shown
      BY DEF ImageInv, ImageTypeOK
    <3> QED
      BY <3>1, <3>2 DEF Shown
  <2>7. hut' \in [Huts -> Shown]
    BY <1>3, <2>6 DEF Cleared
  <2>8. ImageTypeOK'
    BY <1>1, <1>3, <2>3, <2>7 DEF ImageInv, ImageTypeOK, PictureRow
  <2>9. UploadsApart'
    <3>1. ASSUME NEW e \in ImageDesks, Uploading(e)'
          PROVE  e # d /\ Uploading(e) /\ handling'[e] = handling[e]
      BY <2>1, <2>3, <3>1 DEF Uploading
    <3>2. ASSUME NEW e \in ImageDesks, Uploading(e), NEW i \in handling[e].picture
          PROVE  i \in Pictures /\ i \notin S /\ picture[i] = "never" /\ i \in onDisk
      BY <2>4, <2>5, <3>2 DEF ImageInv, UploadsApart, Handling, ImageKinds
    <3> QED
      BY <1>1, <1>3, <3>1, <3>2 DEF ImageInv, UploadsApart
  <2>10. Decided'
    <3>1. \A i \in S : picture'[i] = "gone"
      BY <1>1, <1>3 DEF S
    <3>2. \A i \in Pictures : picture'[i] = picture[i] \/ picture'[i] = "gone"
      BY <1>3
    <3> QED
      BY <2>1, <2>3, <2>5, <3>1, <3>2 DEF ImageInv, Decided, Handling
  <2>11. Looked'
    BY <1>1, <2>1, <2>3, <2>6 DEF ImageInv, Looked
  <2>12. ShownPicturesServe'
    <3>1. \A h \in Huts : hut[h].image \cup hut[h].logo \subseteq Pictures
      BY DEF ImageInv, ImageTypeOK, Shown
    <3>2. OfItsKind'
      BY <1>3, <2>6, <3>1, ServeIs DEF ImageInv, OfItsKind
    <3>3. Stored' \subseteq onDisk'
      BY <1>1, <1>3, ServeIs DEF ImageInv, Stored, ImageKinds
    <3> QED
      BY <3>2, <3>3, ServeIs
  <2> QED
    BY <2>8, <2>9, <2>10, <2>11, <2>12 DEF ImageInv
<1> QED
  BY <1>2, <1>3 DEF DeleteRow

LEMMA DeleteFileKeeps ==
  ASSUME ImageInv, NEW d \in ImageDesks, DeleteFile(d)
  PROVE  ImageInv'
<1> DEFINE S == handling[d].picture
<1>1. /\ Rests(d) /\ UNCHANGED <<picture, hut, unseen>>
      /\ onDisk' \in {onDisk, onDisk \ S} /\ handling[d].at = "unlink"
  BY DEF DeleteFile
<1>2. \A i \in S : picture[i] = "gone"
  BY <1>1 DEF ImageInv, Decided
<1> HIDE DEF S
<1>3. ImageTypeOK'
  BY <1>1, HandlingEnds DEF ImageInv, ImageTypeOK
<1>4. UploadsApart'
  BY <1>1, <1>2, HandlingEnds DEF ImageInv, UploadsApart
<1>5. Decided'
  BY <1>1, HandlingEnds DEF ImageInv, Decided
<1>6. Looked'
  BY <1>1, HandlingEnds DEF ImageInv, Looked
<1>7. ShownPicturesServe'
  BY <1>1, <1>2, ServeIs DEF ImageInv, Stored, OfItsKind, ImageKinds
<1> QED
  BY <1>3, <1>4, <1>5, <1>6, <1>7 DEF ImageInv

\* A step that only changes what lodges show.
LEMMA HutsKeep ==
  ASSUME ImageInv, UNCHANGED <<picture, onDisk>>,
         hut' \in [Huts -> Shown], unseen' \in [Huts -> SUBSET ImageDesks],
         handling' \in [ImageDesks -> Handling],
         \A e \in ImageDesks : handling'[e].at # "idle" => handling'[e] = handling[e],
         \A h \in Huts :
           \/ /\ hut'[h].live => hut[h].live
              /\ hut'[h].image \subseteq hut[h].image
              /\ hut'[h].logo \subseteq hut[h].logo
              /\ unseen[h] \subseteq unseen'[h]
           \/ \A e \in ImageDesks : handling[e].at = "delete" => e \in unseen'[h],
         OfItsKind'
  PROVE  ImageInv'
<1>1. \A e \in ImageDesks : Uploading(e)' => Uploading(e) /\ handling'[e] = handling[e]
  BY DEF Uploading
<1>2. ImageTypeOK'
  BY DEF ImageInv, ImageTypeOK
<1>3. UploadsApart'
  BY <1>1 DEF ImageInv, UploadsApart
<1>4. Decided'
  BY DEF ImageInv, Decided
<1>5. Looked'
  <2> SUFFICES ASSUME NEW e \in ImageDesks, NEW h \in Huts,
                      handling'[e].at = "delete", hut'[h].live,
                      handling'[e].picture \cap (hut'[h].image \cup hut'[h].logo) # {}
               PROVE  e \in unseen'[h]
    BY DEF Looked
  <2>1. handling'[e] = handling[e]
    OBVIOUS
  <2> QED
    BY <2>1 DEF ImageInv, Looked
<1>6. ShownPicturesServe'
  BY ServeIs DEF ImageInv, Stored
<1> QED
  BY <1>2, <1>3, <1>4, <1>5, <1>6 DEF ImageInv
LEMMA SaveKeeps ==
  ASSUME ImageInv, NEW d \in ImageDesks, SavePicture(d)
  PROVE  ImageInv'
<1> DEFINE S == handling[d].picture
           kind == handling[d].kind
           checked == {e \in ImageDesks : handling[e].at = "delete"}
<1>1. /\ handling[d] \in Handling /\ S \subseteq Pictures /\ kind \in ImageKinds
      /\ handling[d].at = "save" /\ Rests(d) /\ UNCHANGED <<picture, onDisk>>
  BY DEF ImageInv, ImageTypeOK, Handling, SavePicture
<1>2. /\ handling' \in [ImageDesks -> Handling]
      /\ \A e \in ImageDesks :
           handling'[e].at # "idle" => handling'[e] = handling[e]
  BY <1>1, HandlingEnds
<1>3. hut \in [Huts -> Shown] /\ unseen \in [Huts -> SUBSET ImageDesks] /\ OfItsKind
  BY ServeIs DEF ImageInv, ImageTypeOK
<1>4. ASSUME UNCHANGED <<hut, unseen>> PROVE ImageInv'
  <2>1. OfItsKind'
    BY <1>1, <1>3, <1>4 DEF OfItsKind
  <2> QED
    BY <1>1, <1>2, <1>3, <1>4, <2>1, HutsKeep
<1>5. ASSUME S \subseteq Stored,
             hut' = [h \in Huts |->
               IF h \in handling[d].hut /\ hut[h].live
               THEN [hut[h] EXCEPT ![Field(kind)] = S] ELSE hut[h]],
             unseen' = [h \in Huts |->
               IF h \in handling[d].hut THEN checked ELSE unseen[h]]
      PROVE  ImageInv'
  <2>1. \A i \in S : picture[i] = kind
    BY <1>1, <1>5 DEF ImageInv, Decided, Stored, ImageKinds
  <2> HIDE DEF S, kind
  <2>2. ASSUME NEW h \in Huts, h \in handling[d].hut, hut[h].live
        PROVE  /\ hut'[h] \in Shown
               /\ hut'[h].image = IF kind = "IMAGE" THEN S ELSE hut[h].image
               /\ hut'[h].logo = IF kind = "LOGO" THEN S ELSE hut[h].logo
    <3>1. hut'[h] = [hut[h] EXCEPT ![Field(kind)] = S] /\ hut[h] \in Shown
      BY <1>3, <1>5, <2>2
    <3> QED
      BY <1>1, <3>1, FieldSet
  <2>3. ASSUME NEW h \in Huts, ~(h \in handling[d].hut /\ hut[h].live)
        PROVE  hut'[h] = hut[h] /\ hut[h] \in Shown
    BY <1>3, <1>5, <2>3
  <2>4. hut' \in [Huts -> Shown]
    <3>1. \A h \in Huts : hut'[h] \in Shown
      BY <2>2, <2>3
    <3>2. hut' = [h \in Huts |-> hut'[h]]
      BY <1>5
    <3> HIDE <1>5
    <3> QED
      BY <3>1, <3>2
  <2>5. unseen' \in [Huts -> SUBSET ImageDesks]
    BY <1>3, <1>5
  <2>6. OfItsKind'
    BY <1>1, <1>3, <2>1, <2>2, <2>3 DEF OfItsKind
  <2>7. ASSUME NEW h \in Huts
        PROVE  \/ /\ hut'[h].live => hut[h].live
                  /\ hut'[h].image \subseteq hut[h].image
                  /\ hut'[h].logo \subseteq hut[h].logo
                  /\ unseen[h] \subseteq unseen'[h]
               \/ \A e \in ImageDesks : handling[e].at = "delete" => e \in unseen'[h]
    <3>1. CASE h \in handling[d].hut
      BY <1>5, <3>1
    <3>2. CASE h \notin handling[d].hut
      BY <1>5, <2>3, <3>2
    <3> QED
      BY <3>1, <3>2
  <2> QED
    BY <1>1, <1>2, <2>4, <2>5, <2>6, <2>7, HutsKeep
<1> QED
  BY <1>4, <1>5 DEF SavePicture

LEMMA HutStepKeeps ==
  ASSUME ImageInv, NEW h \in Huts,
         DeleteHut(h) \/ \E kind \in ImageKinds : ClearPicture(h, kind)
  PROVE  ImageInv'
<1>1. /\ UNCHANGED <<picture, onDisk, handling, unseen>>
      /\ hut \in [Huts -> Shown] /\ unseen \in [Huts -> SUBSET ImageDesks]
      /\ handling \in [ImageDesks -> Handling] /\ OfItsKind
  BY ServeIs DEF ImageInv, ImageTypeOK, DeleteHut, ClearPicture
<1>2. /\ hut'[h] \in Shown /\ (hut'[h].live => hut[h].live)
      /\ hut'[h].image \subseteq hut[h].image /\ hut'[h].logo \subseteq hut[h].logo
  <2>1. CASE DeleteHut(h)
    <3>1. hut'[h] = [hut[h] EXCEPT !.live = FALSE] /\ hut[h] \in Shown
      BY <1>1, <2>1 DEF DeleteHut
    <3> QED
      BY <3>1 DEF Shown
  <2>2. ASSUME NEW kind \in ImageKinds, ClearPicture(h, kind)
        PROVE  /\ hut'[h] \in Shown /\ (hut'[h].live => hut[h].live)
               /\ hut'[h].image \subseteq hut[h].image
               /\ hut'[h].logo \subseteq hut[h].logo
    <3> DEFINE new == [hut[h] EXCEPT ![Field(kind)] = {}]
    <3>1. hut'[h] = new /\ hut[h] \in Shown
      BY <1>1, <2>2 DEF ClearPicture
    <3>2. /\ new \in Shown /\ new.live = hut[h].live
          /\ new.image = IF kind = "IMAGE" THEN {} ELSE hut[h].image
          /\ new.logo = IF kind = "LOGO" THEN {} ELSE hut[h].logo
      BY <3>1, FieldSet
    <3> HIDE DEF new
    <3> QED
      BY <3>1, <3>2
  <2> QED
    BY <2>1, <2>2
<1>3. \E r : hut' = [hut EXCEPT ![h] = r]
  <2>1. CASE DeleteHut(h)
    <3>1. hut' = [hut EXCEPT ![h] = [hut[h] EXCEPT !.live = FALSE]]
      BY <2>1 DEF DeleteHut
    <3> QED
      BY <3>1
  <2>2. ASSUME NEW kind \in ImageKinds, ClearPicture(h, kind)
        PROVE  \E r : hut' = [hut EXCEPT ![h] = r]
    <3>1. hut' = [hut EXCEPT ![h] = [hut[h] EXCEPT ![Field(kind)] = {}]]
      BY <2>2 DEF ClearPicture
    <3> QED
      BY <3>1
  <2> QED
    BY <2>1, <2>2
<1>4. hut' \in [Huts -> Shown] /\ \A g \in Huts \ {h} : hut'[g] = hut[g]
  BY <1>1, <1>2, <1>3
<1>5. OfItsKind'
  BY <1>1, <1>2, <1>4 DEF OfItsKind
<1> QED
  BY <1>1, <1>2, <1>4, <1>5, HutsKeep

\* The steps that only decide.
LEMMA DecisionsKeep ==
  ASSUME ImageInv, NEW d \in ImageDesks,
         DeleteChecks(d) \/ ChoosePicture(d) \/ ServeRow(d) \/ ServeFile(d)
           \/ ImageCrash(d)
  PROVE  ImageInv'
<1>a. unseen \in [Huts -> SUBSET ImageDesks]
  BY DEF ImageInv, ImageTypeOK
<1>1. ASSUME DeleteChecks(d) PROVE ImageInv'
  <2>1. PICK i \in Stored :
          UsedBy(i) = {} /\ Goes(d, [AtRest EXCEPT !.at = "delete", !.picture = {i}])
    BY <1>1 DEF DeleteChecks
  <2> DEFINE state == [AtRest EXCEPT !.at = "delete", !.picture = {i}]
  <2>2. state \in Handling /\ state.at = "delete" /\ state.picture = {i}
    BY DEF AtRest, Handling, ImageKinds, Stored
  <2>3. \A h \in Huts : hut[h].live => i \notin hut[h].image \cup hut[h].logo
    BY <2>1 DEF UsedBy
  <2>4. UNCHANGED <<picture, onDisk, hut, unseen>>
    BY <1>1 DEF DeleteChecks
  <2> HIDE DEF state
  <2>5. \A h \in Huts :
          hut[h].live => state.picture \cap (hut[h].image \cup hut[h].logo) = {}
    BY <2>2, <2>3
  <2> QED
    BY <1>a, <2>1, <2>2, <2>4, <2>5, Decides DEF state
<1>2. ASSUME ChoosePicture(d) PROVE ImageInv'
  <2>1. PICK h \in Huts, i \in Pictures, kind \in ImageKinds :
          /\ MayShow(i, kind)
          /\ Goes(d, [at |-> "save", kind |-> kind, picture |-> {i}, hut |-> {h}])
    BY <1>2 DEF ChoosePicture
  <2> DEFINE state == [at |-> "save", kind |-> kind, picture |-> {i}, hut |-> {h}]
  <2>2. /\ state \in Handling /\ state.at = "save" /\ state.picture = {i}
        /\ state.kind = kind
    BY DEF Handling
  <2>3. picture[i] = kind
    BY <2>1 DEF MayShow
  <2>4. UNCHANGED <<picture, onDisk, hut, unseen>>
    BY <1>2 DEF ChoosePicture
  <2> HIDE DEF state
  <2>5. \A j \in state.picture : picture[j] \in {state.kind, "gone"}
    BY <2>2, <2>3
  <2> QED
    BY <1>a, <2>1, <2>2, <2>4, <2>5, Decides DEF state
<1>3. ASSUME ServeRow(d) PROVE ImageInv'
  <2>1. PICK i \in Stored : Goes(d, [AtRest EXCEPT !.at = "serve", !.picture = {i}])
    BY <1>3 DEF ServeRow
  <2> DEFINE state == [AtRest EXCEPT !.at = "serve", !.picture = {i}]
  <2>2. state \in Handling /\ state.at = "serve"
    BY DEF AtRest, Handling, ImageKinds, Stored
  <2>3. UNCHANGED <<picture, onDisk, hut, unseen>>
    BY <1>3 DEF ServeRow
  <2> HIDE DEF state
  <2> QED
    BY <1>a, <2>1, <2>2, <2>3, Decides DEF state
<1>4. ASSUME ServeFile(d) \/ ImageCrash(d) PROVE ImageInv'
  <2>1. /\ Goes(d, AtRest) /\ UNCHANGED <<picture, onDisk, hut>>
        /\ \/ UNCHANGED unseen
           \/ unseen' = [h \in Huts |-> unseen[h] \ {d}]
    BY <1>4 DEF ServeFile, ImageCrash, Rests
  <2>2. /\ unseen' \in [Huts -> SUBSET ImageDesks]
        /\ \A h \in Huts : unseen[h] \ {d} \subseteq unseen'[h]
    BY <1>a, <2>1
  <2> QED
    BY <2>1, <2>2, Decides, AtRestIs
<1> QED
  BY <1>1, <1>2, <1>3, <1>4

LEMMA ImageInvKept == ImageInv /\ [ImageNext]_imageVars => ImageInv'
<1> SUFFICES ASSUME ImageInv, [ImageNext]_imageVars PROVE ImageInv'
  OBVIOUS
<1>1. CASE UNCHANGED imageVars
  <2>1. UNCHANGED <<picture, onDisk, hut, handling, unseen>>
    BY <1>1 DEF imageVars
  <2>2. /\ hut \in [Huts -> Shown] /\ unseen \in [Huts -> SUBSET ImageDesks]
        /\ handling \in [ImageDesks -> Handling] /\ OfItsKind
    BY ServeIs DEF ImageInv, ImageTypeOK
  <2>3. OfItsKind'
    BY <2>1, <2>2 DEF OfItsKind
  <2> QED
    BY <2>1, <2>2, <2>3, HutsKeep
<1>2. ASSUME NEW d \in ImageDesks,
             \/ UploadFile(d) \/ UploadRow(d) \/ UploadUndone(d)
             \/ DeleteChecks(d) \/ DeleteRow(d) \/ DeleteFile(d)
             \/ ChoosePicture(d) \/ SavePicture(d)
             \/ ServeRow(d) \/ ServeFile(d) \/ ImageCrash(d)
      PROVE  ImageInv'
  BY <1>2, UploadFileKeeps, UploadRowKeeps, UndoneKeeps, DeleteRowKeeps,
     DeleteFileKeeps, SaveKeeps, DecisionsKeep
<1>3. ASSUME NEW h \in Huts,
             DeleteHut(h) \/ \E kind \in ImageKinds : ClearPicture(h, kind)
      PROVE  ImageInv'
  BY <1>3, HutStepKeeps
<1> QED
  BY <1>1, <1>2, <1>3 DEF ImageNext

LEMMA ImageInductive == ImageSpec => []ImageInv
  BY ImageInit0, ImageInvKept, PTL DEF ImageSpec

-----------------------------------------------------------------------------
\* Every row of the library has its file and a lodge shows only pictures that are
\* there and of their field's kind, through failed uploads, deletes that overlap
\* saves, and crashes (uploads are written file first, deletes row first).
THEOREM LibraryServes == ImageSpec => []ShownPicturesServe
<1>1. ImageInv => ShownPicturesServe
  BY DEF ImageInv
<1> QED
  BY <1>1, ImageInductive, PTL

\* A delete that checked who uses a picture takes it from a live lodge only if the
\* lodge chose it since the check (the image DELETE's usedBy).
THEOREM TakenOnlyUnseen == ImageSpec => NoneTakenUnseen
<1> DEFINE Taken ==
      \A h \in Huts, d \in ImageDesks :
         /\ handling[d].at = "delete" /\ handling'[d].at = "unlink"
         /\ hut[h].live /\ hut'[h] # hut[h]
         => d \in unseen[h]
<1>1. ImageInv /\ [ImageNext]_imageVars => [Taken]_imageVars
  <2> SUFFICES ASSUME ImageInv, ImageNext, NEW h \in Huts, NEW d \in ImageDesks,
                      handling[d].at = "delete", handling'[d].at = "unlink",
                      hut[h].live, hut'[h] # hut[h]
               PROVE  d \in unseen[h]
    OBVIOUS
  <2>1. DeleteRow(d)
    <3>1. handling \in [ImageDesks -> Handling]
      BY DEF ImageInv, ImageTypeOK
    <3>2. ASSUME NEW e \in ImageDesks, NEW state, Goes(e, state), e # d PROVE FALSE
      BY <3>1, <3>2 DEF Goes
    <3>3. PICK e \in ImageDesks :
            \/ UploadFile(e) \/ UploadRow(e) \/ UploadUndone(e)
            \/ DeleteChecks(e) \/ DeleteRow(e) \/ DeleteFile(e)
            \/ ChoosePicture(e) \/ SavePicture(e)
            \/ ServeRow(e) \/ ServeFile(e) \/ ImageCrash(e)
      BY DEF ImageNext, ClearPicture, DeleteHut
    <3>4. \E state : Goes(e, state)
      BY <3>3, Zenon
      DEF UploadFile, UploadRow, UploadUndone, DeleteChecks, DeleteRow, DeleteFile,
          ChoosePicture, SavePicture, ServeRow, ServeFile, ImageCrash, Rests
    <3>5. e = d
      BY <3>2, <3>4
    <3>6. handling[d] # AtRest
      BY AtRestIs
    <3>7. ~ImageCrash(d)
      <4>1. ImageCrash(d) => handling'[d] = AtRest
        BY <3>1 DEF ImageCrash, Rests, Goes
      <4> QED
        BY <4>1, AtRestIs
    <3> QED
      BY <3>3, <3>5, <3>6, <3>7
      DEF UploadFile, UploadRow, UploadUndone, DeleteChecks, DeleteFile,
          ChoosePicture, SavePicture, ServeRow, ServeFile
  <2>2. hut' = Cleared(handling[d].picture)
    <3>1. ~Rests(d)
      <4>1. Rests(d) => handling'[d] = AtRest
        BY DEF Rests, Goes, ImageInv, ImageTypeOK
      <4> QED
        BY <4>1, AtRestIs
    <3> QED
      BY <2>1, <3>1 DEF DeleteRow
  <2>3. handling[d].picture \cap (hut[h].image \cup hut[h].logo) # {}
    <3> DEFINE S == handling[d].picture
    <3>1. hut'[h] = [hut[h] EXCEPT !.image = @ \ S, !.logo = @ \ S]
      BY <2>2 DEF Cleared
    <3>2. hut[h] \in Shown
      BY DEF ImageInv, ImageTypeOK
    <3> HIDE DEF S
    <3>3. ASSUME S \cap (hut[h].image \cup hut[h].logo) = {} PROVE FALSE
      <4>1. hut[h].image \ S = hut[h].image /\ hut[h].logo \ S = hut[h].logo
        BY <3>3
      <4>2. hut'[h] = [hut[h] EXCEPT !.image = hut[h].image, !.logo = hut[h].logo]
        BY <3>1, <4>1
      <4> QED
        BY <3>2, <4>2 DEF Shown
    <3> QED
      BY <3>3 DEF S
  <2> QED
    BY <2>3 DEF ImageInv, Looked
<1> QED
  BY <1>1, ImageInductive, PTL DEF ImageSpec, NoneTakenUnseen
=============================================================================
