------------------------------ MODULE Profiles ------------------------------
(***************************************************************************)
(* The row of the business whose catalog is in the code: its profile with  *)
(* the photos of the menu, and its brand voice.  Owners replace the        *)
(* photos, register or upload one and set the voice                        *)
(* (api/admin_console.py); every message of the business repairs the row   *)
(* from the code (ensure_hazina_business), in the transaction of its turn. *)
(*                                                                         *)
(* The profile is one JSON column: whoever changes a key reads all of it   *)
(* and writes all of it back, if it differs from what was read.            *)
(***************************************************************************)
EXTENDS Integers, FiniteSets

CONSTANTS
    Owners,         \* owners with a request under way
    Messengers,     \* customers with a turn under way
    Canonical,      \* photo keys the code insists on
    Extra,          \* photo keys it knows nothing of
    MaxProfileActs  \* BOUND: requests and turns

ASSUME ProfilesAssumption == MaxProfileActs \in Nat /\ Canonical \cap Extra = {}

VARIABLES
    shop,           \* the committed row
    hand,           \* per owner and turn, what it has read and will write
    profileActs

profileVars == <<shop, hand, profileActs>>

Keys == Canonical \cup Extra

Photos == [Keys -> {"none", "code", "staff"}]
Shop   == [photos : Photos, voice : {"code", "staff"}]

(* replace stands for PUT of the photos and of the whole profile.          *)
Edits == [verb : {"register", "upload"}, key : Keys] \cup
         [verb : {"replace"}, keys : SUBSET Keys] \cup [verb : {"voice", "repair"}]

Task == [edit : Edits, stage : {"uploading", "ready", "held"}, read : Shop]
Idle == [stage |-> "idle"]

ProfilesInit ==
    /\ shop = [photos |-> [k \in Keys |-> IF k \in Canonical THEN "code" ELSE "none"],
               voice |-> "code"]
    /\ hand = [h \in Owners \cup Messengers |-> Idle]
    /\ profileActs = 0

-----------------------------------------------------------------------------
\* A new photo starts the map afresh.
EditedAfresh(edit, read) ==
    CASE edit.verb \in {"register", "upload"} ->
            [read EXCEPT !.photos = [k \in Keys |-> IF k = edit.key THEN "staff" ELSE "none"]]
      [] edit.verb = "replace" ->
            [read EXCEPT !.photos = [k \in Keys |-> IF k \in edit.keys THEN "staff" ELSE "none"]]
      [] edit.verb = "voice" -> [read EXCEPT !.voice = "staff"]
      [] edit.verb = "repair" ->
            [photos |-> [k \in Keys |-> IF k \in Canonical THEN "code" ELSE read.photos[k]],
             voice  |-> "code"]

(* The row as a request or a turn wants it.                                *)
EditedShop(edit, read) ==
    CASE edit.verb \in {"register", "upload"} -> [read EXCEPT !.photos[edit.key] = "staff"]
      [] edit.verb = "replace" ->
            [read EXCEPT !.photos = [k \in Keys |-> IF k \in edit.keys THEN "staff" ELSE "none"]]
      [] edit.verb = "voice" -> [read EXCEPT !.voice = "staff"]
      [] edit.verb = "repair" ->
            [photos |-> [k \in Keys |-> IF k \in Canonical THEN "code" ELSE read.photos[k]],
             voice  |-> "code"]

(* Only columns whose value differs from the one read are written.         *)
Saved(task) ==
    LET next == EditedShop(task.edit, task.read)
    IN  [column \in DOMAIN shop |->
            IF next[column] = task.read[column] THEN shop[column] ELSE next[column]]

Reads(h, edit) ==
    /\ hand[h] = Idle
    /\ profileActs < MaxProfileActs /\ profileActs' = profileActs + 1
    /\ hand' = [hand EXCEPT ![h] =
                   [edit |-> edit, read |-> shop,
                    stage |-> IF edit.verb = "upload" THEN "uploading" ELSE "ready"]]
    /\ UNCHANGED shop

OwnerReads(h, edit) == edit.verb # "repair" /\ Reads(h, edit)
TurnReads(h)        == Reads(h, [verb |-> "repair"])

(* The row was read with the request's access check; the upload to R2      *)
(* takes its time, and may fail.                                           *)
UploadEnds(h) ==
    /\ hand[h].stage = "uploading"
    /\ \E stored \in BOOLEAN :
          hand' = [hand EXCEPT ![h] = IF stored THEN [@ EXCEPT !.stage = "ready"] ELSE Idle]
    /\ UNCHANGED <<shop, profileActs>>

RowFree == \A h \in Messengers : hand[h].stage # "held"

OwnerSaves(h) ==
    /\ hand[h].stage = "ready"
    /\ RowFree
    /\ shop' = Saved(hand[h])
    /\ hand' = [hand EXCEPT ![h] = Idle]
    /\ UNCHANGED profileActs

(* The flush; the row is the turn's until it ends, if it changes at all.   *)
TurnFlushes(h) ==
    /\ hand[h].stage = "ready"
    /\ Saved(hand[h]) = shop \/ RowFree
    /\ hand' = [hand EXCEPT ![h] = IF Saved(hand[h]) = shop THEN Idle
                                   ELSE [@ EXCEPT !.stage = "held"]]
    /\ UNCHANGED <<shop, profileActs>>

TurnSaves(h) ==
    /\ hand[h].stage = "held"
    /\ shop' = Saved(hand[h])
    /\ hand' = [hand EXCEPT ![h] = Idle]
    /\ UNCHANGED profileActs

TurnGivesUp(h) ==
    /\ hand[h].stage \in {"ready", "held"}
    /\ hand' = [hand EXCEPT ![h] = Idle]
    /\ UNCHANGED <<shop, profileActs>>

ProfilesNext ==
    \/ \E h \in Owners : \/ \E edit \in Edits : OwnerReads(h, edit)
                         \/ UploadEnds(h) \/ OwnerSaves(h)
    \/ \E h \in Messengers : TurnReads(h) \/ TurnFlushes(h) \/ TurnSaves(h) \/ TurnGivesUp(h)

ProfilesSpec == ProfilesInit /\ [][ProfilesNext]_profileVars

-----------------------------------------------------------------------------
ProfilesTypeOK ==
    /\ shop \in Shop
    /\ hand \in [Owners \cup Messengers -> Task \cup {Idle}]
    /\ profileActs \in 0..MaxProfileActs

(* A photo an owner has given stays until an owner replaces all of them    *)
(* or, under a key the code insists on, the next message comes: other      *)
(* uploads, the repair of the row and edits of the voice keep it, unless   *)
(* the profile they write back was read before the photo was there.        *)
Lost(k) == shop.photos[k] = "staff" /\ shop'.photos[k] # "staff"

Excused(h, k) ==
    /\ hand'[h] = Idle /\ hand[h] # Idle
    /\ \/ hand[h].edit.verb = "replace"
       \/ hand[h].edit.verb = "repair" /\ k \in Canonical
       \/ hand[h].read.photos # shop.photos

PhotosStay ==
    [][\A k \in Keys : Lost(k) => \E h \in Owners \cup Messengers : Excused(h, k)]_profileVars
=============================================================================
