-------------------------- MODULE ConversationPage --------------------------
(***************************************************************************)
(* The composer of a chat (pages/ConversationPage) and the drafts behind it   *)
(* (message.service, draft.repository).                                       *)
(*                                                                         *)
(* The page stays mounted from chat to chat, and what a handler does after an *)
(* await it does to the chat that is open by then.  Requests overtake each    *)
(* other.                                                                     *)
(*                                                                         *)
(* Abstracted: what a text says (each one is a value that tells where and for *)
(* what it was written), mentions, files, stickers, panels, pins and scroll;  *)
(* the windows to edit (module Messages) and who may write (Membership).      *)
(***************************************************************************)
EXTENDS Naturals, FiniteSets

CONSTANTS
  Convs,
  Handlers,      \* sends and edits that may wait for their answer at once
  MaxTexts,      \* bound: texts that the user writes
  MaxTurns,      \* bound: changes of page, sends, edits and failures, all together
  MaxWrites,     \* bound: requests that write drafts, in flight at once
  None

VARIABLES
  drafts,        \* the database: the draft of the user in each chat
  chat,          \* conversationId; None when another page is on
  input, editing, replyTo,   \* what is being written, and the chat of the message it answers
  ready,         \* draftReadyRef
  timer,         \* what draftSaveTimerRef will save; None when it is not running
  loading,       \* getDraft of the chat: what of it is under way, and what it read
  writes,        \* saveDraft and deleteDraft under way
  handlers,      \* handlers[h]: see Rested
  texts, turns,
  wrote,         \* history: what the user last wrote in each chat and has not sent
  left,          \* history: chats left before what was written in them was saved
  lost           \* history: chats where another of the races of the page has happened

composer == <<input, editing, replyTo, ready, timer, loading>>
bounds == <<texts, turns>>
vars == <<drafts, chat, composer, writes, handlers, bounds, wrote, lost, left>>

(* Where a text was written, and which it is: 0 is that of a message that is being edited. *)
Empty == [chat |-> None, n |-> 0]
Texts == {Empty} \cup [chat : Convs, n : 0..MaxTexts]
NotLoading == [stage |-> "none", text |-> Empty]

(* handleSend, or programar of the window to schedule, waiting for its answer: what it took from
   the composer, in which chat, in answer to a message of which one, and whether the page that
   began it is still mounted. *)
Rested == [kind |-> "none", chat |-> None, text |-> Empty, reply |-> None, mounted |-> FALSE]

TypeOK ==
  /\ drafts \in [Convs -> Texts] /\ wrote \in [Convs -> Texts]
  /\ lost \cup left \subseteq Convs
  /\ {chat, replyTo} \subseteq Convs \cup {None} /\ input \in Texts
  /\ {editing, ready} \subseteq BOOLEAN /\ timer \in Texts \cup {None}
  /\ loading \in [stage : {"none", "asked", "read"}, text : Texts]
  /\ chat = None => input = Empty /\ timer = None /\ loading = NotLoading /\ ~editing
  /\ writes \subseteq [id : 1..MaxWrites, chat : Convs, text : Texts]
  /\ \A h \in Handlers : handlers[h].kind \in {"none", "send", "edit", "schedule"}
  /\ texts \in 0..MaxTexts /\ turns \in 0..MaxTurns

Init ==
  /\ drafts = [c \in Convs |-> Empty] /\ wrote = drafts /\ lost = {} /\ left = {}
  /\ chat = None /\ input = Empty /\ editing = FALSE /\ replyTo = None
  /\ ready = FALSE /\ timer = None /\ loading = NotLoading /\ writes = {}
  /\ handlers = [h \in Handlers |-> Rested] /\ texts = 0 /\ turns = 0

-----------------------------------------------------------------------------
Turn == turns < MaxTurns /\ turns' = turns + 1 /\ UNCHANGED texts
Writing(c) == \E w \in writes : w.chat = c
Waiting(c) == \E h \in Handlers : handlers[h].chat = c
Id == CHOOSE i \in 1..MaxWrites : \A w \in writes : w.id # i

(* The effect of a change of text, chat or edit: the save that was pending gives way to one of
   what there is now, unless the draft is not here yet or a message is being edited. *)
Autosave(text, edit, loaded) == timer' = IF loaded /\ ~edit THEN text ELSE None

(* A request about the draft of c: two at once may be served in any order. *)
Request(c, text) ==
  /\ Cardinality(writes) < MaxWrites
  /\ writes' = writes \cup {[id |-> Id, chat |-> c, text |-> text]}

(* The page of a chat comes: an empty composer, until its draft does. *)
Open(c) ==
  /\ chat # c /\ Turn /\ chat' = c
  /\ input' = Empty /\ replyTo' = None /\ editing' = FALSE
  /\ ready' = FALSE /\ loading' = [NotLoading EXCEPT !.stage = "asked"] /\ timer' = None
  /\ left' = (IF timer # None THEN left \cup {chat} ELSE left)
  /\ UNCHANGED <<drafts, writes, handlers, wrote, lost>>

(* The page is unmounted: its timer, if it runs, is stopped. *)
Leave ==
  /\ chat # None /\ Turn /\ chat' = None /\ input' = Empty /\ replyTo' = None /\ editing' = FALSE
  /\ ready' = FALSE /\ timer' = None /\ loading' = NotLoading
  /\ left' = (IF timer # None THEN left \cup {chat} ELSE left)
  /\ handlers' = [h \in Handlers |-> [handlers[h] EXCEPT !.mounted = FALSE]]
  /\ UNCHANGED <<drafts, writes, wrote, lost>>

(* The server reads the draft ... *)
GetDraft ==
  /\ loading.stage = "asked" /\ loading' = [stage |-> "read", text |-> drafts[chat]]
  /\ lost' = (IF Writing(chat) THEN lost \cup {chat} ELSE lost)
  /\ UNCHANGED <<drafts, chat, input, editing, replyTo, ready, timer, writes, handlers, bounds, wrote, left>>

(* ... and it takes the place of what the composer had, if there is one. *)
DraftLoaded ==
  /\ loading.stage = "read" /\ loading' = NotLoading /\ ready' = TRUE
  /\ IF loading.text \in {Empty, input} THEN UNCHANGED <<input, timer>>
     ELSE input' = loading.text /\ Autosave(loading.text, editing, TRUE)
  /\ UNCHANGED <<drafts, chat, editing, replyTo, writes, handlers, bounds, wrote, lost, left>>

DraftFails ==
  /\ loading # NotLoading /\ Turn /\ loading' = NotLoading /\ ready' = TRUE
  /\ UNCHANGED <<drafts, chat, input, editing, replyTo, timer, writes, handlers, wrote, lost, left>>

-----------------------------------------------------------------------------
(* The user writes, or empties the composer. *)
Write(text) ==
  /\ input' = text /\ Autosave(text, editing, ready)
  /\ IF editing THEN UNCHANGED <<wrote, lost, left>>
     ELSE /\ wrote' = [wrote EXCEPT ![chat] = text] /\ left' = left \ {chat}
          /\ lost' = (IF ~ready THEN lost \cup {chat}
                      ELSE IF Writing(chat) \/ Waiting(chat) THEN lost ELSE lost \ {chat})
  /\ UNCHANGED <<drafts, chat, editing, replyTo, ready, loading, writes, handlers>>

Type ==
  /\ chat # None /\ texts < MaxTexts /\ texts' = texts + 1 /\ UNCHANGED turns
  /\ Write([chat |-> chat, n |-> texts + 1])

Erase == chat # None /\ input # Empty /\ Turn /\ Write(Empty)

(* Nothing is being edited any more, and the text of the edit stays: it may become a draft. *)
EndEdit ==
  /\ editing' = FALSE
  /\ (IF editing THEN Autosave(input, FALSE, ready) ELSE UNCHANGED timer)
  /\ lost' = (IF editing THEN lost \cup {chat} ELSE lost)

Reply ==
  /\ chat # None /\ replyTo = None /\ Turn /\ replyTo' = chat /\ EndEdit
  /\ UNCHANGED <<drafts, chat, input, ready, loading, writes, handlers, wrote, left>>

(* The text of the message takes the place of what was being written. *)
HandleEdit ==
  /\ chat # None /\ ~editing /\ Turn /\ editing' = TRUE /\ replyTo' = None /\ timer' = None
  /\ input' = [chat |-> chat, n |-> 0]
  /\ lost' = (IF wrote[chat] # Empty \/ timer # None THEN lost \cup {chat} ELSE lost)
  /\ UNCHANGED <<drafts, chat, ready, loading, writes, handlers, wrote, left>>

CancelAction ==
  /\ chat # None /\ (editing \/ replyTo # None) /\ Turn /\ replyTo' = None /\ editing' = FALSE
  /\ input' = Empty /\ Autosave(Empty, FALSE, ready) /\ wrote' = [wrote EXCEPT ![chat] = Empty]
  /\ lost' = (IF ready THEN lost ELSE lost \cup {chat})
  /\ UNCHANGED <<drafts, chat, ready, loading, writes, handlers, left>>

(* The save is asked for. *)
TimerFires ==
  /\ timer # None /\ timer' = None /\ Request(chat, timer)
  /\ lost' = (IF Writing(chat) THEN lost \cup {chat} ELSE lost)
  /\ UNCHANGED <<drafts, chat, input, editing, replyTo, ready, loading, handlers, bounds, wrote, left>>

(* saveDraft or deleteDraft. *)
SaveDraft(w) ==
  /\ drafts' = [drafts EXCEPT ![w.chat] = w.text] /\ writes' = writes \ {w}
  /\ UNCHANGED <<chat, composer, handlers, bounds, wrote, lost, left>>

SaveFails(w) ==
  /\ Turn /\ writes' = writes \ {w} /\ lost' = lost \cup {w.chat}
  /\ UNCHANGED <<drafts, chat, composer, handlers, wrote, left>>

-----------------------------------------------------------------------------
(* handleSend too late to edit the message. *)
EditExpired ==
  /\ editing /\ input # Empty /\ Turn /\ EndEdit
  /\ UNCHANGED <<drafts, chat, input, replyTo, ready, loading, writes, handlers, wrote, left>>

(* handleSend: what is written goes; the composer keeps it until the answer. *)
HandleSend(h) ==
  /\ chat # None /\ input # Empty /\ handlers[h].kind = "none" /\ Turn
  /\ handlers' = [handlers EXCEPT ![h] =
       [kind |-> IF editing THEN "edit" ELSE "send", chat |-> chat, text |-> input,
        reply |-> IF editing THEN None ELSE replyTo, mounted |-> TRUE]]
  /\ UNCHANGED <<drafts, chat, composer, writes, wrote, lost, left>>

(* The window to schedule sends what the composer has, reworded or not, later on: one at a time. *)
Programar(h) ==
  /\ chat # None /\ handlers[h].kind = "none" /\ Turn
  /\ \A g \in Handlers : handlers[g].kind = "schedule" => ~handlers[g].mounted
  /\ handlers' = [handlers EXCEPT ![h] =
       [kind |-> "schedule", chat |-> chat, text |-> input, reply |-> None, mounted |-> TRUE]]
  /\ UNCHANGED <<drafts, chat, composer, writes, wrote, lost, left>>

(* Whether the answer wipes out what the user has not sent, or crosses the draft on its way in. *)
Wipes(r) ==
  \/ chat # None /\ r.mounted /\ (timer # None \/ input # Empty) /\ (chat # r.chat \/ input # r.text)
  \/ chat # None /\ chat = r.chat /\ (loading # NotLoading \/ (~r.mounted /\ input # Empty))

(* The answer empties the composer of the chat that is open now, which answers or edits nothing
   any more, and the draft of the chat it was sent from goes.  onScheduled leaves the reply and
   the edit as they are. *)
Answer(h, deletes) ==
  LET r == handlers[h]
      sent == r.kind = "send"
      gone == r.kind # "edit"
  IN
  /\ r.kind # "none" /\ handlers' = [handlers EXCEPT ![h] = Rested]
  /\ IF r.mounted
     THEN /\ input' = Empty /\ editing' = (editing /\ gone)
          /\ replyTo' = IF sent THEN None ELSE replyTo
          /\ IF input # Empty \/ editing' # editing THEN Autosave(Empty, editing', ready)
             ELSE timer' = IF sent THEN None ELSE timer
     ELSE UNCHANGED <<input, replyTo, editing, timer>>
  /\ IF gone /\ deletes THEN Request(r.chat, Empty) ELSE UNCHANGED writes
  /\ wrote' = IF gone /\ wrote[r.chat] = r.text THEN [wrote EXCEPT ![r.chat] = Empty] ELSE wrote
  /\ lost' = lost \cup (IF gone /\ (Writing(r.chat) \/ wrote[r.chat] # r.text) THEN {r.chat} ELSE {})
                  \cup (IF Wipes(r) THEN {chat} ELSE {})
  /\ UNCHANGED <<drafts, chat, ready, loading, bounds, left>>

(* The draft is left to the composer. *)
AnswerSinBorrar(h) == Answer(h, FALSE)

Answered(h) == Answer(h, TRUE)

(* All stays as it is. *)
HandlerFails(h) ==
  /\ handlers[h].kind # "none" /\ Turn /\ handlers' = [handlers EXCEPT ![h] = Rested]
  /\ UNCHANGED <<drafts, chat, composer, writes, wrote, lost, left>>

Next ==
  \/ \E c \in Convs : Open(c)
  \/ Leave \/ GetDraft \/ DraftLoaded \/ DraftFails \/ Type \/ Erase \/ Reply
  \/ HandleEdit \/ CancelAction \/ EditExpired \/ TimerFires
  \/ \E w \in writes : SaveDraft(w) \/ SaveFails(w)
  \/ \E h \in Handlers : HandleSend(h) \/ Programar(h) \/ Answered(h) \/ HandlerFails(h)

Spec == Init /\ [][Next]_vars

-----------------------------------------------------------------------------
(* What is written in a chat stays in it: neither its composer, nor what it is about to save,
   nor its draft, nor a message sent from it, nor the one that it answers, comes from another. *)
TextsStayInTheirChat ==
  /\ {input.chat, replyTo} \subseteq {None, chat} /\ timer \in {None, Empty, input}
  /\ \A c \in Convs : drafts[c].chat \in {None, c}
  /\ \A w \in writes : w.text.chat \in {None, w.chat}
  /\ \A h \in Handlers : {handlers[h].text.chat, handlers[h].reply} \subseteq {None, handlers[h].chat}

(* Once everything under way has ended, the draft of each chat is what the user last wrote in it
   and has not sent or scheduled: unless it was written before the draft came, replaced by an edit
   or by its text, wiped out by the answer to an earlier send or to a scheduling, or its requests
   crossed or failed; or the chat was left before it was saved. *)
DraftIsWhatWasWritten ==
  \A c \in Convs \ (lost \cup left) :
    ~Writing(c) /\ ~Waiting(c) /\ ~(chat = c /\ (timer # None \/ loading # NotLoading)) =>
      drafts[c] = wrote[c]

(* What the user writes is where it was written, and kept until it is sent. *)
TextsAreKept == TextsStayInTheirChat /\ DraftIsWhatWasWritten
=============================================================================
