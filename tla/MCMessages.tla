----------------------------- MODULE MCMessages -----------------------------
(* What a message leaves in the tables and in the bucket, two requests at a time.  Each behaviour
   is of one of two parts, which share nothing: one message, its sender and a moderator; or the
   files of two messages, of two users who share stickers and of a group photo.  Stored objects
   are taken in order, so they are not symmetric. *)
EXTENDS Messages, TLC

CONSTANTS
  Owners, Places, Posts, Attachments, Stickers, Pictures, MaxMishaps    \* of the files

VARIABLES
  part,
  rows, bucket, used, message, attached, sticker, collection, picture, works, begun, mishaps,
  pending, discarded, failed, mingled

files == <<rows, bucket, used, message, attached, sticker, collection, picture, works, begun,
           mishaps, pending, discarded, failed, mingled>>

Files == INSTANCE StoredFiles WITH
  Users <- Owners, Messages <- Posts, requests <- works, started <- begun, crossed <- mingled

PartsInit == Init /\ Files!Init /\ part \in {"text", "files"}

PartsNext ==
  /\ UNCHANGED part
  /\ \/ part = "text" /\ Next /\ UNCHANGED files
     \/ part = "files" /\ Files!Next /\ UNCHANGED vars

PartsSpec == PartsInit /\ [][PartsNext]_<<vars, files, part>>

(* Rows, files and references keep their types. *)
FilesTypeOK == Files!TypeOK

(* What refers to a file finds it, and no file is left that nothing refers to (StoredFiles). *)
FilesMatchReferences == Files!FilesMatchReferences

(* Nobody loses a sticker or a picture to another's request but in the named cases (StoredFiles). *)
LossesAreNamed == Files!LossesAreNamed

symmetry == Permutations(Bodies) \cup Permutations(Emojis) \cup Permutations(Owners)
=============================================================================
