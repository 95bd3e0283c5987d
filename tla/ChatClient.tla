----------------------------- MODULE ChatClient -----------------------------
(***************************************************************************)
(* The timeline that a client shows (stores/chatStore): pages asked over      *)
(* HTTP, messages that the socket brings, sends shown before they are         *)
(* answered, the cache of other chats, and what is asked again after a cut.   *)
(* A file is sent once it is uploaded (pages/ConversationPage), and shows in  *)
(* the chat that is open by then.                                             *)
(*                                                                         *)
(* HTTP answers and the events of the socket come in any order between them,  *)
(* the events in theirs.  A cut loses the events under way, and a new         *)
(* connection is in its rooms a while after it is open.                       *)
(*                                                                         *)
(* Abstracted: bodies, edits, reactions and receipts (module Messages),       *)
(* typing, presence, threads, the list of chats and its unread counts, the    *)
(* limit of the cache.  A message is its number; a send, until it is          *)
(* answered, is its temporary id.                                             *)
(***************************************************************************)
EXTENDS Naturals, Sequences, SequencesExt

CONSTANTS
  Convs,
  Temps,         \* temporary ids of the sends
  Requests,      \* requests for pages in flight at once
  PageSize,
  MaxPosts,      \* bound: messages
  MaxTurns,      \* bound: changes of chat, cuts and failures, all together
  None

ASSUME ClientAssumption ==
  /\ PageSize \in Nat \ {0} /\ None \notin Convs
  /\ MaxPosts \in Nat /\ MaxTurns \in Nat

VARIABLES
  posted,      \* the database: posted[i] is the chat of message i
  sends,       \* sends[k]: its chat, its state and its message, once there is one; "upload" while
               \* its file goes up
  active,      \* activeConversationId
  list,        \* messages: what the timeline shows, messages and sends
  hasMore, loading,
  cache,       \* _messageCache[c]: its messages and its hasMore; None when there is none
  fetches,     \* fetches[f]: see Rested
  connected, joined,   \* the socket is open, and in its rooms
  queue,       \* messages on their way by the socket
  turns,
  copies,      \* history: the messages that each send has left
  unanswered,  \* history: sends stored whose answer was lost
  astray,      \* history: messages answered in the timeline of another chat
  holed,       \* history: the timeline missed something that nothing brings
  grown        \* history: it grew between a cut and the end of its resync

timeline == <<active, list, hasMore, loading, cache>>
network == <<connected, joined, queue>>
history == <<copies, unanswered, astray, holed, grown>>
vars == <<posted, sends, timeline, fetches, network, turns, history>>

(* A request: first page, older messages or resync, of which chat, from which message down,
   the page once it is read, and (history) whether the chat changed since. *)
Rested == [kind |-> "none", conv |-> None, cursor |-> None, page |-> None, crossed |-> FALSE]

Log(c) == SelectSeq([i \in 1..Len(posted) |-> i], LAMBDA i : posted[i] = c)
Page(c, cursor) ==
  LET before == SelectSeq(Log(c), LAMBDA i : cursor = None \/ i < cursor)
      n == Len(before)
  IN SubSeq(before, IF n > PageSize THEN n - PageSize + 1 ELSE 1, n)

Settled == SelectSeq(list, LAMBDA x : x \notin Temps)
Pending == SelectSeq(list, LAMBDA x : x \in Temps)
Shown == ToSet(Settled)

(* Older than something that is shown already. *)
Overtaken(ids) == \E i \in ids, j \in Shown : i < j
(* The first one is not the oldest. *)
Misplaced == list # <<>> /\ \E i \in Shown : i < Head(Settled)

TypeOK ==
  /\ posted \in Seq(Convs) /\ Len(posted) <= MaxPosts
  /\ \A k \in Temps : /\ sends[k].conv \in Convs \cup {None}
                      /\ sends[k].state \in {"none", "upload", "asked", "stored", "error", "done"}
                      /\ sends[k].id \in 0..Len(posted)
                      /\ sends[k].state \in {"stored", "done"} => posted[sends[k].id] = sends[k].conv
  /\ active \in Convs \cup {None} /\ list \in Seq(1..Len(posted) \cup Temps)
  /\ astray \subseteq 1..Len(posted) /\ \A i \in Shown \ astray : posted[i] = active
  /\ {hasMore, loading, connected, joined, holed, grown} \subseteq BOOLEAN
  /\ copies \in [Temps -> 0..MaxPosts] /\ unanswered \subseteq Temps
  /\ \A c \in Convs : cache[c] # None => cache[c].list \in Seq({i \in 1..Len(posted) : posted[i] = c \/ i \in astray})
  /\ \A f \in Requests : fetches[f].kind \in {"none", "first", "older", "resync"}
  /\ queue \in Seq(1..Len(posted)) /\ (joined => connected) /\ (queue # <<>> => joined)
  /\ turns \in 0..MaxTurns

Init ==
  /\ posted = <<>> /\ queue = <<>> /\ list = <<>> /\ active = None
  /\ sends = [k \in Temps |-> [conv |-> None, state |-> "none", id |-> 0]]
  /\ hasMore = TRUE /\ loading = FALSE /\ cache = [c \in Convs |-> None]
  /\ fetches = [f \in Requests |-> Rested] /\ connected = TRUE /\ joined = TRUE
  /\ turns = 0
  /\ copies = [k \in Temps |-> 0] /\ unanswered = {} /\ astray = {} /\ holed = FALSE /\ grown = FALSE

-----------------------------------------------------------------------------
Free(f) == fetches[f].kind = "none" /\ f = (CHOOSE g \in Requests : fetches[g].kind = "none")
Asking(c) == \E f \in Requests : fetches[f].kind = "first" /\ fetches[f].conv = c
(* A resync that will still bring what is stored now. *)
ToRead(c) == \E f \in Requests : /\ fetches[f].kind = "resync" /\ fetches[f].page = None
                                /\ fetches[f].conv \in {c, None}
Resyncing == \E f \in Requests : fetches[f].kind = "resync"
(* Something has been added while a resync was to come or under way. *)
Grow == grown' = (grown \/ ~connected \/ Resyncing)

(* A message is in the database and goes out to the rooms. *)
Store(c) ==
  LET id == Len(posted) + 1 IN
  /\ id <= MaxPosts /\ posted' = Append(posted, c)
  /\ queue' = IF joined THEN Append(queue, id) ELSE queue
  /\ fetches' = [f \in Requests |->
       [fetches[f] EXCEPT !.crossed = @ \/ (fetches[f].conv = c /\ fetches[f].page # None)]]
  /\ holed' = (holed \/ (connected /\ ~joined /\ active = c /\ ~ToRead(c)))
  /\ UNCHANGED <<timeline, connected, joined, turns, unanswered, astray, grown>>

Post(c) == Store(c) /\ UNCHANGED <<sends, copies>>

(* message:new: at the end, if its chat is on the screen and it is not there yet. *)
MessageNew ==
  LET id == Head(queue)
      adds == posted[id] = active /\ id \notin Shown
  IN
  /\ queue # <<>> /\ queue' = Tail(queue)
  /\ IF adds THEN list' = Append(list, id) /\ Grow ELSE UNCHANGED <<list, grown>>
  /\ UNCHANGED <<posted, sends, active, hasMore, loading, cache, fetches, connected, joined, turns,
                 copies, unanswered, astray, holed>>

-----------------------------------------------------------------------------
(* Leaving a chat keeps what has settled; the sends under way or failed are left out. *)
Cached == IF active # None /\ list # <<>> 
          THEN [cache EXCEPT ![active] = [list |-> Settled, more |-> hasMore]] ELSE cache
Turn == turns < MaxTurns /\ turns' = turns + 1

(* setActiveConversation: what was kept is shown, and the first page asked unless it is. *)
Open(f, c) ==
  /\ active # c /\ Turn /\ active' = c /\ cache' = Cached
  /\ list' = (IF Cached[c] = None THEN <<>> ELSE Cached[c].list)
  /\ hasMore' = (Cached[c] = None \/ Cached[c].more) /\ holed' = TRUE
  /\ IF Asking(c) THEN UNCHANGED <<fetches, loading>>
     ELSE /\ Free(f) /\ loading' = TRUE
          /\ fetches' = [fetches EXCEPT ![f] = [Rested EXCEPT !.kind = "first", !.conv = c]]
  /\ UNCHANGED <<posted, sends, network, copies, unanswered, astray, grown>>

Clear ==
  /\ active # None /\ Turn /\ cache' = Cached /\ active' = None /\ list' = <<>>
  /\ UNCHANGED <<posted, sends, hasMore, loading, fetches, network, history>>

(* From the oldest that is shown; nothing to do when that is a send without answer. *)
LoadMore(f) ==
  /\ active # None /\ hasMore /\ ~loading /\ list # <<>> /\ Head(list) \notin Temps /\ Free(f)
  /\ loading' = TRUE
  /\ fetches' = [fetches EXCEPT ![f] =
       [Rested EXCEPT !.kind = "older", !.conv = active, !.cursor = Head(list)]]
  /\ UNCHANGED <<posted, sends, active, list, hasMore, cache, network, turns, history>>

(* The server reads the page. *)
Read(f) ==
  LET r == fetches[f] IN
  /\ r.kind # "none" /\ r.conv # None /\ r.page = None
  /\ fetches' = [fetches EXCEPT ![f].page = Page(r.conv, r.cursor)]
  /\ UNCHANGED <<posted, sends, timeline, network, turns, history>>

Answered(f, kinds) == fetches[f].kind \in kinds /\ fetches[f].page # None
End(f) == fetches' = [fetches EXCEPT ![f] = Rested]
(* A send under way that the timeline no longer shows. *)
Lost == \E k \in Temps : sends[k].state \in {"asked", "stored"} /\ k \notin ToSet(list)
Underway(c) == \E k \in Temps : sends[k].conv = c /\ sends[k].state \in {"asked", "stored"}

(* fetchMessages: the page replaces the timeline, or goes before it, if the chat is still on. *)
Fetched(f, chats) ==
  LET r == fetches[f]
      older == r.kind = "older"
  IN
  /\ Answered(f, {"first", "older"}) /\ End(f) /\ loading' = FALSE
  /\ IF active \notin chats THEN UNCHANGED <<list, hasMore, holed>>
     ELSE /\ list' = (IF older THEN r.page \o list ELSE r.page)
          /\ hasMore' = (Len(r.page) = PageSize)
          /\ holed' = IF older THEN holed \/ list = <<>> \/ Head(list) # r.cursor \/ Misplaced
                               ELSE r.crossed \/ Underway(active) \/ (connected /\ ~joined)
  /\ UNCHANGED <<posted, sends, active, cache, network, turns, copies, unanswered, astray, grown>>

(* Whatever chat is on. *)
FetchSinComprobar(f) == Fetched(f, Convs)

FetchMessages(f) == Fetched(f, {fetches[f].conv})

FetchFails(f) ==
  /\ fetches[f].conv # None /\ Turn /\ End(f)
  /\ loading' = (loading /\ fetches[f].kind = "resync")
  /\ holed' = (holed \/ fetches[f].kind = "resync")
  /\ UNCHANGED <<posted, sends, active, list, hasMore, cache, network, copies, unanswered, astray, grown>>

-----------------------------------------------------------------------------
(* handleFileSend: the file goes up first, for the chat that is open now. *)
HandleFileSend(k) ==
  /\ active # None /\ sends[k].state = "none"
  /\ sends' = [sends EXCEPT ![k] = [conv |-> active, state |-> "upload", id |-> 0]]
  /\ UNCHANGED <<posted, timeline, fetches, network, turns, history>>

UploadFails(k) ==
  /\ sends[k].state = "upload" /\ Turn
  /\ sends' = [sends EXCEPT ![k] = [conv |-> None, state |-> "none", id |-> 0]]
  /\ UNCHANGED <<posted, timeline, fetches, network, history>>

(* sendMessage, of a text at once and of a file once it is up: shown under its temporary id at
   the end of what is on the screen, whatever chat that is. *)
Send(k) ==
  /\ \/ sends[k].state = "none" /\ active # None
        /\ sends' = [sends EXCEPT ![k] = [conv |-> active, state |-> "asked", id |-> 0]]
     \/ sends[k].state = "upload" /\ sends' = [sends EXCEPT ![k].state = "asked"]
  /\ list' = Append(list, k)
  /\ UNCHANGED <<posted, active, hasMore, loading, cache, fetches, network, turns, history>>

SendStored(k) ==
  /\ sends[k].state = "asked" /\ Store(sends[k].conv)
  /\ sends' = [sends EXCEPT ![k].state = "stored", ![k].id = Len(posted) + 1]
  /\ copies' = [copies EXCEPT ![k] = @ + 1]

(* The answer: the message takes the place of the temporary id, and of what the socket brought. *)
SendAnswered(k) ==
  LET r == sends[k]
      others == SelectSeq(list, LAMBDA x : x # r.id)
      strays == k \in ToSet(list) /\ r.conv # active
  IN
  /\ r.state = "stored" /\ sends' = [sends EXCEPT ![k].state = "done"]
  /\ list' = [i \in DOMAIN others |-> IF others[i] = k THEN r.id ELSE others[i]] /\ Grow
  /\ astray' = (IF strays THEN astray \cup {r.id} ELSE astray)
  /\ holed' = (holed \/ strays \/ (Shown # {} /\ \A i \in Shown : r.id < i))     \* and not what is between
  /\ UNCHANGED <<posted, active, hasMore, loading, cache, fetches, network, turns, copies, unanswered>>

(* An error, with the message in the database or without. *)
SendFails(k) ==
  /\ sends[k].state \in {"asked", "stored"} /\ Turn
  /\ sends' = [sends EXCEPT ![k].state = "error"]
  /\ unanswered' = (IF sends[k].state = "stored" THEN unanswered \cup {k} ELSE unanswered)
  /\ UNCHANGED <<posted, timeline, fetches, network, copies, astray, holed, grown>>

Resend(k, states) ==
  /\ k \in ToSet(list) /\ sends[k].state \in states
  /\ sends' = [sends EXCEPT ![k].state = "asked"]
  /\ UNCHANGED <<posted, timeline, fetches, network, turns, history>>

(* Also of a send that is still waiting for its answer. *)
RetrySinEsperar(k) == Resend(k, {"stored", "error"})

Retry(k) == Resend(k, {"error"})

-----------------------------------------------------------------------------
Disconnect ==
  /\ connected /\ Turn
  /\ connected' = FALSE /\ joined' = FALSE /\ queue' = <<>>
  /\ grown' = (grown \/ Overtaken({i \in ToSet(queue) \ Shown : posted[i] = active}))
  /\ UNCHANGED <<posted, sends, timeline, fetches, copies, unanswered, astray, holed>>

(* The resync begins as soon as the socket is open again. *)
Connect(f) ==
  /\ ~connected /\ connected' = TRUE /\ Free(f)
  /\ fetches' = [fetches EXCEPT ![f] = [Rested EXCEPT !.kind = "resync"]]
  /\ UNCHANGED <<posted, sends, timeline, joined, queue, turns, history>>

(* The server has looked for the chats of the user. *)
JoinRooms ==
  /\ connected /\ ~joined /\ joined' = TRUE
  /\ UNCHANGED <<posted, sends, timeline, fetches, connected, queue, turns, history>>

(* With the list of chats answered, the page of the one that is on the screen now is asked. *)
ResyncChat(f) ==
  /\ fetches[f].kind = "resync" /\ fetches[f].conv = None
  /\ IF active = None THEN End(f) ELSE fetches' = [fetches EXCEPT ![f].conv = active]
  /\ UNCHANGED <<posted, sends, timeline, network, turns, history>>

(* The page is merged, or replaces what was there when they have nothing in common.  What is
   under way or failed stays, at the end. *)
Merge(f, missing) ==
  LET r == fetches[f]
      known == \/ Settled = <<>>
               \/ ToSet(r.page) \cap Shown # {}
  IN
  /\ Answered(f, {"resync"}) /\ End(f)
  /\ IF r.conv # active THEN UNCHANGED <<list, hasMore, holed>>
     ELSE IF known
     THEN list' = Settled \o missing \o Pending /\ holed' = (holed \/ grown) /\ UNCHANGED hasMore
     ELSE list' = r.page \o Pending /\ hasMore' = TRUE /\ holed' = (r.crossed \/ grown \/ Lost)
  /\ grown' = (grown /\ \E g \in Requests \ {f} : fetches[g].kind = "resync")
  /\ UNCHANGED <<posted, sends, active, loading, cache, network, turns, copies, unanswered, astray>>

(* Only what was there is refreshed. *)
ResyncSinFaltantes(f) == Merge(f, <<>>)

ResyncAfterReconnect(f) == Merge(f, SelectSeq(fetches[f].page, LAMBDA i : i \notin Shown))

Next ==
  \/ \E c \in Convs : Post(c) \/ \E f \in Requests : Open(f, c)
  \/ MessageNew \/ Clear \/ Disconnect \/ JoinRooms
  \/ \E f \in Requests : \/ LoadMore(f) \/ Read(f) \/ FetchMessages(f) \/ FetchFails(f)
                         \/ Connect(f) \/ ResyncChat(f) \/ ResyncAfterReconnect(f)
  \/ \E k \in Temps : \/ HandleFileSend(k) \/ UploadFails(k)
                      \/ Send(k) \/ SendStored(k) \/ SendAnswered(k) \/ SendFails(k) \/ Retry(k)

Spec == Init /\ [][Next]_vars

-----------------------------------------------------------------------------
Quiet ==
  /\ connected /\ queue = <<>> /\ \A f \in Requests : fetches[f].kind = "none"
  /\ \A k \in Temps : sends[k].state \notin {"asked", "stored"}

(* When nothing is under way the timeline has every message of its chat from the oldest that it
   shows, each of them once, and none of another chat: unless the timeline was replaced under a
   send, a request for older messages or a message that was arriving, grew between a cut and its
   resync, the socket was not in its rooms yet, or a file of another chat was sent into it. *)
TimelineIsWhole ==
  Quiet /\ active # None /\ ~holed =>
    LET all == ToSet(Log(active)) IN
    /\ Shown = {i \in all : \E j \in Shown : j <= i}
    /\ (all # {} => Shown # {}) /\ Len(Settled) = Cardinality(Shown)

(* A send leaves one message in the database, unless its answer was lost. *)
SentOnce == \A k \in Temps \ unanswered : copies[k] <= 1
=============================================================================
