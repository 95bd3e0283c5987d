---------------------------- MODULE StoredFiles ----------------------------
(***************************************************************************)
(* The files of messages, stickers, wallpapers and group photos: a row in     *)
(* storage_objects, a file in MinIO, and the rows that refer to it            *)
(* (services/storage, sticker, wallpaper, conversation and message).          *)
(*                                                                         *)
(* A request is the list of the statements it has still to run, with an await *)
(* between any two.  Any of them may fail, or be the last before a crash, and *)
(* nothing is rolled back.                                                    *)
(*                                                                         *)
(* Abstracted: the contents (all stickers are uploads of the same artwork, so *)
(* of one hash), thumbnails, presigned URLs and packs, and who may write      *)
(* where (module Membership).  A message has at most one attachment.          *)
(***************************************************************************)
EXTENDS Naturals, Sequences, FiniteSets

CONSTANTS
  Users,
  Places,       \* what has one picture: a wallpaper of a user, the photo of a group
  Messages,
  Attachments, Stickers, Pictures,   \* storage objects, by use
  Slots,                             \* requests in flight at once
  MaxRequests, MaxMishaps,           \* bounds: requests of the run, statements that fail
  Nothing

Objects == Attachments \cup Stickers \cup Pictures

VARIABLES
  rows,        \* storage_objects
  bucket,      \* files in MinIO
  used,        \* objects that have been uploaded
  message,     \* message[m]: none, sent, deleted
  attached,    \* message_attachments: <<m, o>>
  sticker,     \* sticker[m]: metadata.sticker.object_id
  collection,  \* user_stickers: <<u, o>>
  picture,     \* picture[p]: storage_object_id of a wallpaper, avatar_object_id of a group
  requests,    \* requests[s]: see Idle
  started, mishaps,
  pending,     \* uploads of a picker that has neither saved nor discarded them
  discarded,   \* history: objects that a client asked DELETE /storage to remove
  failed,      \* history: objects of a request that failed half-way
  crossed      \* history: objects that two requests were at work on at once

storage == <<rows, bucket, used>>
references == <<message, attached, sticker, collection, picture>>
clients == <<pending, discarded>>
vars == <<storage, references, clients, requests, started, mishaps, failed, crossed>>

(* A request: the statements it has still to run, the user, message or place it is for,
   the object it is at work on and the one that it replaces. *)
Idle == [todo |-> <<>>, for |-> Nothing, obj |-> Nothing, old |-> Nothing]

Upload == <<"put", "insert">>
Remove == <<"find", "unlink", "deleteRow">>
DeleteIfUnreferenced == <<"count">> \o Remove
Kinds == [send |-> Upload \o <<"post", "attach">>,
          forward |-> <<"post", "attach">>,
          delete |-> <<"exclusive">>,
          upload |-> <<"hash">>,
          save |-> <<"find", "add">>,
          remove |-> <<"leave">> \o DeleteIfUnreferenced,
          pick |-> Upload,
          wallpaper |-> <<"look", "write">>,
          avatar |-> <<"look">> \o Upload \o <<"write">>,
          clear |-> <<"look", "write">>,
          discard |-> Remove]

TypeOK ==
  /\ rows \subseteq used /\ bucket \subseteq used /\ used \subseteq Objects
  /\ message \in [Messages -> {"none", "sent", "deleted"}]
  /\ attached \subseteq Messages \X (Attachments \cap rows)
  /\ sticker \in [Messages -> Stickers \cup {Nothing}]
  /\ collection \subseteq Users \X (Stickers \cap rows)
  /\ picture \in [Places -> (Pictures \cap rows) \cup {Nothing}]
  /\ \A s \in Slots :
       /\ requests[s].for \in Users \cup Places \cup Messages \cup {Nothing}
       /\ {requests[s].obj, requests[s].old} \subseteq Objects \cup {Nothing}
  /\ started \in 0..MaxRequests /\ mishaps \in 0..MaxMishaps
  /\ failed \cup crossed \cup pending \cup discarded \subseteq Objects

Init ==
  /\ rows = {} /\ bucket = {} /\ used = {} /\ attached = {} /\ collection = {}
  /\ message = [m \in Messages |-> "none"] /\ sticker = [m \in Messages |-> Nothing]
  /\ picture = [p \in Places |-> Nothing]
  /\ requests = [s \in Slots |-> Idle] /\ started = 0 /\ mishaps = 0
  /\ pending = {} /\ discarded = {} /\ failed = {} /\ crossed = {}

-----------------------------------------------------------------------------
Busy(s) == requests[s].todo # <<>>
Of(r) == {r.obj, r.old} \ {Nothing}

(* The objects that two requests at once have in hand, or change a place to or from. *)
Crossing(q, r) == IF q.for = r.for /\ r.for \in Places THEN Of(q) \cup Of(r) ELSE Of(q) \cap Of(r)

(* The request of slot s goes on as r. *)
Continue(s, r) ==
  /\ requests' = [requests EXCEPT ![s] = IF r.todo = <<>> THEN Idle ELSE r]
  /\ crossed' = crossed \cup UNION {Crossing(requests[t], r) : t \in Slots \ {s}}

Start(s, kind, for, obj) ==
  /\ ~Busy(s) /\ s = (CHOOSE t \in Slots : ~Busy(t))
  /\ started < MaxRequests /\ started' = started + 1
  /\ Continue(s, [Idle EXCEPT !.todo = Kinds[kind], !.for = for, !.obj = obj])
  /\ UNCHANGED <<storage, references, mishaps, failed>>

Begin(s, kind, for, obj) == Start(s, kind, for, obj) /\ UNCHANGED clients

Unsent(m) == message[m] = "none" /\ \A s \in Slots : requests[s].for # m
Attached(m) == {o \in Attachments : <<m, o>> \in attached}

(* The client uploads the file and then sends the message. *)
SendFile(s, m) == Unsent(m) /\ Begin(s, "send", m, Nothing)

(* forward copies a message, deleted or not, and reads what is attached to it first. *)
Forward(s, from, m) ==
  /\ Unsent(m) /\ message[from] # "none"
  /\ \E o \in Attached(from) : Begin(s, "forward", m, o)

Delete(s, m) == message[m] = "sent" /\ Begin(s, "delete", m, Nothing)

UploadSticker(s, u) == Begin(s, "upload", u, Nothing)
SaveReceived(s, u, m) ==
  message[m] = "sent" /\ sticker[m] # Nothing /\ Begin(s, "save", u, sticker[m])
RemoveSticker(s, u, o) == <<u, o>> \in collection /\ Begin(s, "remove", u, o)

(* The picker uploads an image at once.  Closed during the upload, or when the wallpaper is
   removed with an image that is not saved, it forgets it: nobody discards it then. *)
PickWallpaper(s, p) == Begin(s, "pick", p, Nothing)

UpsertWallpaper(s, p) ==
  \E o \in pending \cup ({picture[p]} \ {Nothing}) :
    /\ Start(s, "wallpaper", p, o)
    /\ pending' = pending \ {o} /\ UNCHANGED discarded

(* DELETE /storage/:objectId, of whatever object: the picker asks it for the upload that it
   discards, also while that is being saved. *)
Discard(s, o) ==
  /\ o \in used /\ Start(s, "discard", Nothing, o)
  /\ pending' = pending \ {o} /\ discarded' = discarded \cup {o}

UploadAvatar(s, p) == Begin(s, "avatar", p, Nothing)
RemovePicture(s, p) == Begin(s, "clear", p, Nothing)

(* A sticker travels in the metadata of the message: one statement, and no attachment. *)
SendSticker(u, m) ==
  /\ Unsent(m) /\ message' = [message EXCEPT ![m] = "sent"]
  /\ \E o \in Stickers : <<u, o>> \in collection /\ sticker' = [sticker EXCEPT ![m] = o]
  /\ UNCHANGED <<storage, attached, collection, picture, clients, requests, started, mishaps,
                 failed, crossed>>

-----------------------------------------------------------------------------
(* Slot s runs statement name, after which it has `then` to run. *)
Run(s, name, then) ==
  Busy(s) /\ Head(requests[s].todo) = name /\ Continue(s, [requests[s] EXCEPT !.todo = then])
Rest(s) == Tail(requests[s].todo)
counters == <<started, mishaps, failed>>

(* What a statement that finds a foreign key broken leaves behind. *)
Refused(s, name) == Run(s, name, <<>>) /\ UNCHANGED <<storage, references>>

Put(s) ==
  LET class == IF requests[s].for \in Messages THEN Attachments
               ELSE IF requests[s].for \in Users THEN Stickers ELSE Pictures
      o == CHOOSE x \in class : x \notin used
  IN
  /\ Busy(s) /\ Head(requests[s].todo) = "put" /\ class \ used # {}
  /\ used' = used \cup {o} /\ bucket' = bucket \cup {o}
  /\ Continue(s, [requests[s] EXCEPT !.todo = Rest(s), !.obj = o])
  /\ UNCHANGED <<rows, references>>

Insert(s) ==
  /\ Run(s, "insert", Rest(s)) /\ rows' = rows \cup {requests[s].obj}
  /\ pending' = IF Rest(s) = <<>> THEN pending \cup {requests[s].obj} ELSE pending
  /\ UNCHANGED <<bucket, used, references, discarded>>

Post(s) ==
  /\ Run(s, "post", Rest(s)) /\ message' = [message EXCEPT ![requests[s].for] = "sent"]
  /\ UNCHANGED <<storage, attached, sticker, collection, picture>>

AddAttachment(s) ==
  LET r == requests[s] IN
  IF r.obj \in rows
  THEN /\ Run(s, "attach", Rest(s)) /\ attached' = attached \cup {<<r.for, r.obj>>}
       /\ UNCHANGED <<storage, message, sticker, collection, picture>>
  ELSE Refused(s, "attach")

(* The objects of a message that this deletion removes from MinIO: those that no other
   message has. *)
FindExclusive(s, objs) ==
  /\ Busy(s) /\ Head(requests[s].todo) = "exclusive"
  /\ IF objs = {} THEN Continue(s, [requests[s] EXCEPT !.todo = <<"vacate">>])
     ELSE \E o \in objs :
            Continue(s, [requests[s] EXCEPT !.todo = <<"unlink", "detach", "vacate">>, !.obj = o])
  /\ UNCHANGED <<storage, references>>

(* Shared or not. *)
AdjuntosSinContar(s) == FindExclusive(s, Attached(requests[s].for))

GetAttachmentObjects(s) ==
  FindExclusive(s, {o \in Attached(requests[s].for) : Cardinality({m \in Messages : o \in Attached(m)}) = 1})

Unlink(s) ==
  /\ Run(s, "unlink", Rest(s)) /\ bucket' = bucket \ {requests[s].obj}
  /\ UNCHANGED <<rows, used, references>>

(* deleteAttachments deletes the attachments and then the objects attached: none any more. *)
DeleteAttachments(s) ==
  /\ Run(s, "detach", Rest(s)) /\ attached' = {a \in attached : a[1] # requests[s].for}
  /\ UNCHANGED <<storage, message, sticker, collection, picture>>

SoftDelete(s) ==
  /\ Run(s, "vacate", Rest(s)) /\ message' = [message EXCEPT ![requests[s].for] = "deleted"]
  /\ UNCHANGED <<storage, attached, sticker, collection, picture>>

(* A sticker already stored is not uploaded again. *)
FindByHash(s) ==
  /\ Busy(s) /\ Head(requests[s].todo) = "hash"
  /\ IF Stickers \cap rows = {} THEN Continue(s, [requests[s] EXCEPT !.todo = Upload \o <<"add">>])
     ELSE \E o \in Stickers \cap rows : Continue(s, [requests[s] EXCEPT !.todo = <<"add">>, !.obj = o])
  /\ UNCHANGED <<storage, references>>

Add(s, found) ==
  LET r == requests[s] IN
  IF found
  THEN /\ Run(s, "add", Rest(s)) /\ collection' = collection \cup {<<r.for, r.obj>>}
       /\ UNCHANGED <<storage, message, attached, sticker, picture>>
  ELSE Refused(s, "add")

(* user_stickers without its foreign key. *)
AddEntrySinClave(s) == Add(s, TRUE)

AddEntry(s) == Add(s, requests[s].obj \in rows)

DeleteEntry(s) ==
  LET entry == <<requests[s].for, requests[s].obj>> IN
  /\ Run(s, "leave", IF entry \in collection THEN Rest(s) ELSE <<>>)
  /\ collection' = collection \ {entry}
  /\ UNCHANGED <<storage, message, attached, sticker, picture>>

(* countReferences *)
Query(s, name, goesOn) ==
  /\ Run(s, name, IF goesOn THEN Rest(s) ELSE <<>>)
  /\ UNCHANGED <<storage, references>>

InCollections(o) == \E u \in Users : <<u, o>> \in collection
InPictures(o) == \E p \in Places : picture[p] = o
InMessages(o) == \E m \in Messages : o \in Attached(m)

(* The collections of the others are not counted. *)
ContarSinStickers(s) == LET o == requests[s].obj IN Query(s, "count", ~InPictures(o) /\ ~InMessages(o))

CountReferences(s) ==
  LET o == requests[s].obj IN
  Query(s, "count", ~InCollections(o) /\ ~InPictures(o) /\ ~InMessages(o))

FindById(s) == Query(s, "find", requests[s].obj \in rows)

(* The foreign keys: collections lose the entry, places the picture, and a row that is
   attached to a message stays. *)
DeleteRow(s) ==
  LET o == requests[s].obj IN
  IF InMessages(o) THEN Refused(s, "deleteRow") ELSE
  /\ Run(s, "deleteRow", Rest(s)) /\ rows' = rows \ {o}
  /\ collection' = {e \in collection : e[2] # o}
  /\ picture' = [p \in Places |-> IF picture[p] = o THEN Nothing ELSE picture[p]]
  /\ UNCHANGED <<bucket, used, message, attached, sticker>>

(* findOne, or findById of the conversation: the picture that will be replaced. *)
Look(s) ==
  LET r == requests[s] IN
  /\ Busy(s) /\ Head(r.todo) = "look"
  /\ Continue(s, [r EXCEPT !.todo = Tail(r.todo), !.old = picture[r.for]])
  /\ UNCHANGED <<storage, references>>

(* upsert, deleteOne or updateAvatar, and the object replaced is removed if nothing else
   refers to it. *)
Replace(s, next) ==
  LET r == requests[s] IN
  /\ Busy(s) /\ Head(r.todo) = "write"
  /\ IF r.obj \in rows \cup {Nothing}
     THEN /\ picture' = [picture EXCEPT ![r.for] = r.obj]
          /\ Continue(s, [r EXCEPT !.todo = next, !.obj = r.old, !.old = Nothing])
     ELSE picture' = picture /\ Continue(s, Idle)
  /\ UNCHANGED <<storage, message, attached, sticker, collection>>

WritePicture(s) ==
  Replace(s, IF requests[s].old \in {Nothing, requests[s].obj} THEN <<>> ELSE DeleteIfUnreferenced)

(* A statement fails, or the instance stops; a deletion goes on without MinIO. *)
Fail(s) ==
  /\ Busy(s) /\ mishaps < MaxMishaps /\ mishaps' = mishaps + 1
  /\ failed' = failed \cup Of(requests[s])
  /\ \/ Continue(s, Idle)
     \/ Rest(s) = <<"detach", "vacate">> /\ Continue(s, [requests[s] EXCEPT !.todo = Rest(s)])
  /\ UNCHANGED <<storage, references, clients, started>>

Arrive(s) ==
  \/ \E m \in Messages : SendFile(s, m) \/ Delete(s, m) \/ \E n \in Messages : Forward(s, n, m)
  \/ \E u \in Users : \/ UploadSticker(s, u)
                      \/ \E m \in Messages : SaveReceived(s, u, m)
                      \/ \E o \in Stickers : RemoveSticker(s, u, o)
  \/ \E p \in Places :
       PickWallpaper(s, p) \/ UpsertWallpaper(s, p) \/ UploadAvatar(s, p) \/ RemovePicture(s, p)
  \/ \E o \in Objects : Discard(s, o)

Statement(s) ==
  \/ Put(s) \/ Post(s) \/ AddAttachment(s) \/ GetAttachmentObjects(s) \/ Unlink(s)
  \/ DeleteAttachments(s) \/ SoftDelete(s) \/ FindByHash(s) \/ AddEntry(s) \/ DeleteEntry(s)
  \/ CountReferences(s) \/ FindById(s) \/ DeleteRow(s) \/ Look(s) \/ WritePicture(s)

Next ==
  \/ \E s \in Slots :
       \/ Arrive(s) \/ Fail(s)
       \/ (Statement(s) /\ UNCHANGED <<counters, clients>>) \/ (Insert(s) /\ UNCHANGED counters)
  \/ \E u \in Users, m \in Messages : SendSticker(u, m)

Spec == Init /\ [][Next]_vars

-----------------------------------------------------------------------------
(* A request has removed the file of the object and not yet the rows. *)
Removing(o) ==
  \E s \in Slots : /\ requests[s].obj = o
                   /\ requests[s].todo \in {<<"deleteRow">>, <<"detach", "vacate">>}

(* A message keeps the file of its attachment when a message it shares it with is deleted -
   unless it was being forwarded at that moment, the deletion failed, or a client asked for
   the removal of the object itself, which looks at no reference. *)
AttachmentsKeepTheirFiles ==
  \A o \in Attachments :
    InMessages(o) => o \in bucket \cup crossed \cup failed \cup discarded \/ Removing(o)

(* Whatever crosses the removal of an object, what collections, wallpapers and group photos
   show has its file: a reference added too late goes with the row. *)
PicturesKeepTheirFiles ==
  \A o \in Stickers \cup Pictures :
    (InCollections(o) \/ InPictures(o)) => o \in bucket \cup failed \/ Removing(o)

ReferencesKeepTheirFiles == AttachmentsKeepTheirFiles /\ PicturesKeepTheirFiles

(* When nothing is going on, every file belongs to something, or is an upload that its
   picker still has or has forgotten, or two requests crossed over it, or one failed. *)
NoFileIsForgotten ==
  (\A s \in Slots : ~Busy(s)) =>
    \A o \in bucket : InMessages(o) \/ InCollections(o) \/ InPictures(o)
                       \/ o \in pending \cup crossed \cup failed

(* The bucket has the files that something counted refers to, and in the end no others. *)
FilesMatchReferences == ReferencesKeepTheirFiles /\ NoFileIsForgotten

(* A collection loses a sticker, and a place its picture, by a request of its own; by another
   only when the reference was added during a removal, or when the client asked DELETE
   /storage for the object, which looks neither at owners nor at references.  A sticker that was
   sent loses its file in these cases too, and when the last collection drops it, since
   countReferences does not look at messages: never while somebody has it. *)
LossesAreNamed ==
  [][/\ \A e \in collection \ collection' :
          \/ e[2] \in crossed \cup discarded
          \/ \E s \in Slots : requests[s].for = e[1] /\ requests[s].obj = e[2]
     /\ \A p \in Places : picture[p] # picture'[p] =>
          \/ picture[p] \in crossed \cup discarded
          \/ \E s \in Slots : requests[s].for = p
     /\ \A m \in Messages : sticker[m] \in bucket \ bucket' =>
          sticker[m] \in crossed \cup discarded \/ ~InCollections(sticker[m])]_vars
=============================================================================
