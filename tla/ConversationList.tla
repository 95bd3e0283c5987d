-------------------------- MODULE ConversationList --------------------------
(***************************************************************************)
(* The list of chats of a client and its unread counts (stores/chatStore),    *)
(* kept by the events of the socket, by what the client does itself and by    *)
(* the list that it asks for, and what of a chat counts as read (socket,      *)
(* conversation.repository).                                                  *)
(*                                                                         *)
(* "Read" is a time: a mark, when it is served, covers all that is posted by  *)
(* then.                                                                    *)
(*                                                                         *)
(* Abstracted: which messages, with their pages, a timeline shows (module     *)
(* ChatClient): an opening shows all there is, which stays; the wait for the  *)
(* rooms after a connection; receipts (module Messages); chats that are new   *)
(* to the client; previews, order and presence.                               *)
(***************************************************************************)
EXTENDS Naturals, Sequences, FiniteSetsExt

CONSTANTS
  Convs,
  Requests,      \* requests for the list in flight at once
  MaxPosts,      \* bound: messages, all together
  MaxTurns,      \* bound: changes of chat, requests for the list, cuts and failures, all together
  None

VARIABLES
  posted,      \* the database: posted[c] says of each message whether it is of the user
  readAt,      \* last_read_at: how many messages there were in c then
  active,      \* activeConversationId
  badge,       \* unread_count of each chat on the list
  connected,
  queue,       \* messages on their way by the socket: a chat and a place in it
  opening,     \* opening[c]: _inFlightFetch and, once it is read, how much of c there was
  marks,       \* marks[c]: requests to mark c as read under way
  lists,       \* lists[r]: see Rested
  turns,
  seen,        \* history: messages that have been on the screen
  crossed,     \* history: chats whose count crossed something
  slipped,     \* history: chats marked as read with something of them on its way
  cut          \* history: a cut that no resync has made good

server == <<posted, readAt>>
client == <<active, badge>>
history == <<seen, crossed, slipped, cut>>
vars == <<server, client, connected, queue, opening, marks, lists, turns, history>>

(* A list: what it waits for, the counts once they are read and (history) the chats to which
   nothing has happened since; when it is that of a resync, the chat to read after it, how much
   there was, and (history) whether no cut has come after the one that it is for. *)
Rested == [stage |-> "none", counts |-> None, clean |-> {}, resync |-> FALSE, conv |-> None, n |-> 0,
           last |-> FALSE]

(* No opening of a chat is under way. *)
Closed == [stage |-> "none", n |-> 0]

Total(c) == Len(posted[c])
Pending(c) == \E i \in DOMAIN queue : queue[i][1] = c
Others(c) == {i \in 1..Total(c) : posted[c][i] = "other"}

TypeOK ==
  /\ \A c \in Convs : /\ posted[c] \in Seq({"own", "other"}) /\ Total(c) <= MaxPosts
                      /\ readAt[c] \in 0..Total(c) /\ badge[c] \in Nat /\ marks[c] \in Nat
                      /\ opening[c].n \in 0..Total(c) /\ seen[c] \subseteq Others(c)
  /\ active \in Convs \cup {None} /\ connected \in BOOLEAN /\ cut \in BOOLEAN
  /\ \A i \in DOMAIN queue : queue[i][1] \in Convs /\ queue[i][2] \in 1..Total(queue[i][1])
  /\ \A r \in Requests : lists[r].stage \in {"none", "asked", "read", "page", "paged"}
  /\ ~connected => queue = <<>>
  /\ crossed \cup slipped \subseteq Convs /\ turns \in 0..MaxTurns

Init ==
  /\ posted = [c \in Convs |-> <<>>] /\ readAt = [c \in Convs |-> 0] /\ active = None
  /\ badge = readAt /\ marks = readAt /\ connected = TRUE /\ queue = <<>>
  /\ opening = [c \in Convs |-> Closed] /\ lists = [r \in Requests |-> Rested] /\ turns = 0
  /\ seen = [c \in Convs |-> {}] /\ crossed = {} /\ slipped = {} /\ cut = FALSE

-----------------------------------------------------------------------------
Turn == turns < MaxTurns /\ turns' = turns + 1
Free(r) == lists[r].stage = "none" /\ r = (CHOOSE q \in Requests : lists[q].stage = "none")

(* Something happens to c: the lists that have been read do not know. *)
Dirty(c) == [r \in Requests |-> [lists[r] EXCEPT !.clean = @ \ {c}]]

(* The client asks for c to be marked as read, n times. *)
Mark(c, n) ==
  /\ marks' = [marks EXCEPT ![c] = @ + n]
  /\ slipped' = IF Pending(c) \/ cut THEN slipped \cup {c} ELSE slipped

(* A message of this user, from here or elsewhere, or of another. *)
Post(c, by) ==
  /\ MapThenSumSet(Total, Convs) < MaxPosts /\ posted' = [posted EXCEPT ![c] = Append(@, by)]
  /\ queue' = IF connected THEN Append(queue, <<c, Total(c) + 1>>) ELSE queue
  /\ slipped' = IF marks[c] > 0 /\ by = "other" THEN slipped \cup {c} ELSE slipped
  /\ crossed' = IF marks[c] > 0 /\ by = "other" THEN crossed \cup {c} ELSE crossed
  /\ lists' = Dirty(c)
  /\ UNCHANGED <<readAt, client, connected, opening, marks, turns, seen, cut>>

(* message:new: on the screen it is marked as read, if it was not there yet; elsewhere it counts. *)
MessageNew ==
  LET c == Head(queue)[1]
      i == Head(queue)[2]
      by == posted[c][i]
      more == \E j \in 2..Len(queue) : queue[j][1] = c
      add(set, yes) == IF yes THEN set \cup {c} ELSE set
  IN
  /\ queue # <<>> /\ queue' = Tail(queue) /\ lists' = Dirty(c)
  /\ IF active # c
     THEN /\ badge' = IF by = "other" THEN [badge EXCEPT ![c] = @ + 1] ELSE badge
          /\ UNCHANGED <<marks, seen, crossed, slipped>>
     ELSE IF by = "own" \/ i \in seen[c] THEN UNCHANGED <<badge, marks, seen, crossed, slipped>>
     ELSE /\ marks' = [marks EXCEPT ![c] = @ + 1] /\ seen' = [seen EXCEPT ![c] = @ \cup {i}]
          /\ slipped' = add(slipped, cut \/ more) /\ crossed' = add(crossed, more)
          /\ UNCHANGED badge
  /\ UNCHANGED <<server, active, connected, opening, turns, cut>>

-----------------------------------------------------------------------------
(* The page of the chat that is left may be on its way. *)
Leave == slipped' = IF active # None /\ opening[active] # Closed THEN slipped \cup {active} ELSE slipped

(* setActiveConversation: the first page is asked, unless it is already. *)
Open(c) ==
  /\ active # c /\ Turn /\ Leave /\ active' = c
  /\ opening' = IF opening[c] = Closed THEN [opening EXCEPT ![c].stage = "asked"] ELSE opening
  /\ UNCHANGED <<server, badge, connected, queue, marks, lists, seen, crossed, cut>>

Clear ==
  /\ active # None /\ Turn /\ Leave /\ active' = None
  /\ UNCHANGED <<server, badge, connected, queue, opening, marks, lists, seen, crossed, cut>>

ReadPage(c) ==
  /\ opening[c].stage = "asked"
  /\ opening' = [opening EXCEPT ![c] = [stage |-> "read", n |-> Total(c)]]
  /\ UNCHANGED <<server, client, connected, queue, marks, lists, turns, history>>

(* The page comes: it is shown if its chat is still open, and whether it is or not the chat is
   marked as read, over HTTP and, if there is anything of others, by the socket, and its count
   cleared. *)
Opened(c, clears) ==
  /\ opening[c].stage = "read" /\ opening' = [opening EXCEPT ![c] = Closed]
  /\ seen' = IF active = c THEN [seen EXCEPT ![c] = @ \cup (Others(c) \cap 1..opening[c].n)] ELSE seen
  /\ badge' = IF clears THEN [badge EXCEPT ![c] = 0] ELSE badge
  /\ Mark(c, IF Others(c) \cap 1..opening[c].n = {} THEN 1 ELSE 2) /\ lists' = Dirty(c)
  /\ crossed' = IF Pending(c) THEN crossed \cup {c} ELSE crossed
  /\ UNCHANGED <<server, active, connected, queue, turns, cut>>

(* The count is left for the server to clear. *)
OpenedSinLimpiar(c) == Opened(c, FALSE)

SetActiveConversation(c) == Opened(c, TRUE)

OpeningFails(c) ==
  /\ opening[c] # Closed /\ Turn /\ opening' = [opening EXCEPT ![c] = Closed]
  /\ slipped' = slipped \cup {c} /\ crossed' = crossed \cup {c}
  /\ UNCHANGED <<server, client, connected, queue, marks, lists, seen, cut>>

(* markAsRead, by the socket or over HTTP. *)
MarkAsRead(c) ==
  /\ marks[c] > 0 /\ marks' = [marks EXCEPT ![c] = @ - 1]
  /\ readAt' = [readAt EXCEPT ![c] = Total(c)] /\ lists' = Dirty(c)
  /\ UNCHANGED <<posted, client, connected, queue, opening, turns, history>>

MarkLost(c) ==
  /\ marks[c] > 0 /\ Turn /\ marks' = [marks EXCEPT ![c] = @ - 1]
  /\ crossed' = crossed \cup {c}
  /\ UNCHANGED <<server, client, connected, queue, opening, lists, seen, slipped, cut>>

-----------------------------------------------------------------------------
(* fetchConversations. *)
Ask(r, resync) ==
  Free(r) /\ lists' = [lists EXCEPT ![r] =
    [Rested EXCEPT !.stage = "asked", !.resync = resync, !.last = resync]]

FetchConversations(r) ==
  /\ Turn /\ Ask(r, FALSE)
  /\ UNCHANGED <<server, client, connected, queue, opening, marks, history>>

(* The server counts whatever was posted since the chat was read, the user's own included. *)
FindUserConversations(r) ==
  /\ lists[r].stage = "asked"
  /\ lists' = [lists EXCEPT ![r].stage = "read",
                            ![r].counts = [c \in Convs |-> Total(c) - readAt[c]],
                            ![r].clean = {c \in Convs : connected /\ ~Pending(c) /\ marks[c] = 0}]
  /\ UNCHANGED <<server, client, connected, queue, opening, marks, turns, history>>

(* The list comes and takes the place of the one there was; a resync goes on with the chat that
   is open. *)
ListComes(r) ==
  LET l == lists[r] IN
  /\ l.stage = "read" /\ badge' = l.counts
  /\ crossed' = {c \in Convs : c \notin l.clean \/ (c = active /\ l.counts[c] > 0)}
  /\ lists' = [q \in Requests |->
       IF q # r THEN [lists[q] EXCEPT !.clean = @ \cap l.clean]
       ELSE IF l.resync /\ active # None THEN [Rested EXCEPT !.stage = "page", !.conv = active, !.last = l.last]
       ELSE Rested]
  /\ cut' = (cut /\ ~(l.last /\ active = None))
  /\ UNCHANGED <<server, active, connected, queue, opening, marks, turns, seen, slipped>>

ListFails(r) ==
  /\ lists[r].stage \in {"asked", "read"} /\ Turn
  /\ lists' = [lists EXCEPT ![r] = IF @.resync /\ active # None
                                   THEN [Rested EXCEPT !.stage = "page", !.conv = active, !.last = lists[r].last]
                                   ELSE Rested]
  /\ UNCHANGED <<server, client, connected, queue, opening, marks, history>>

ReadResync(r) ==
  /\ lists[r].stage = "page"
  /\ lists' = [lists EXCEPT ![r].stage = "paged", ![r].n = Total(lists[r].conv)]
  /\ UNCHANGED <<server, client, connected, queue, opening, marks, turns, history>>

(* resyncAfterReconnect: what the cut hid is shown and marked as read, with its count as it is. *)
ResyncAfterReconnect(r) ==
  LET c == lists[r].conv
      new == (Others(c) \cap 1..lists[r].n) \ seen[c]
  IN
  /\ lists[r].stage = "paged" /\ cut' = (cut /\ ~lists[r].last)
  /\ IF active = c /\ new # {}
     THEN /\ seen' = [seen EXCEPT ![c] = @ \cup new]
          /\ marks' = [marks EXCEPT ![c] = @ + 1] /\ crossed' = crossed \cup {c}
          /\ slipped' = IF Pending(c) \/ ~connected THEN slipped \cup {c} ELSE slipped
     ELSE UNCHANGED <<seen, marks, crossed, slipped>>
  /\ lists' = [Dirty(c) EXCEPT ![r] = Rested]
  /\ UNCHANGED <<server, client, connected, queue, opening, turns>>

ResyncFails(r) ==
  /\ lists[r].stage \in {"page", "paged"} /\ Turn /\ lists' = [lists EXCEPT ![r] = Rested]
  /\ UNCHANGED <<server, client, connected, queue, opening, marks, history>>

(* A cut loses the events under way. *)
Disconnect ==
  /\ connected /\ Turn /\ connected' = FALSE /\ queue' = <<>> /\ cut' = TRUE /\ crossed' = Convs
  /\ lists' = [r \in Requests |-> [lists[r] EXCEPT !.clean = {}, !.last = FALSE]]
  /\ UNCHANGED <<server, client, opening, marks, seen, slipped>>

Connect(r) ==
  /\ ~connected /\ connected' = TRUE /\ Ask(r, TRUE)
  /\ UNCHANGED <<server, client, queue, opening, marks, turns, history>>

Next ==
  \/ \E c \in Convs :
       \/ \E by \in {"own", "other"} : Post(c, by)
       \/ Open(c) \/ ReadPage(c) \/ SetActiveConversation(c) \/ OpeningFails(c)
       \/ MarkAsRead(c) \/ MarkLost(c)
  \/ MessageNew \/ Clear \/ Disconnect
  \/ \E r \in Requests :
       \/ FetchConversations(r) \/ FindUserConversations(r) \/ ListComes(r) \/ ListFails(r)
       \/ ReadResync(r) \/ ResyncAfterReconnect(r) \/ ResyncFails(r) \/ Connect(r)

Spec == Init /\ [][Next]_vars

-----------------------------------------------------------------------------
Settled(c) ==
  connected /\ ~Pending(c) /\ opening[c] = Closed /\ marks[c] = 0
    /\ \A r \in Requests : lists[r].stage = "none"

(* Once nothing is under way, the count of a chat is what others have posted since it was read,
   and at most what anybody has: unless the list, a mark or a cut crossed a message, the page of
   the chat failed, or the list gave a count to the chat that was open, which nothing clears. *)
BadgesAreTrue ==
  \A c \in Convs \ crossed : Settled(c) =>
    LET since == (readAt[c] + 1)..Total(c) IN
    badge[c] \in Cardinality(since \cap Others(c))..Cardinality(since)

(* Then, too, what counts as read has been on the screen: unless it was on its way, or lost in a
   cut, when the chat was marked, or the chat was left before its page, or its page failed. *)
ReadWasSeen ==
  \A c \in Convs \ slipped : Settled(c) => Others(c) \cap 1..readAt[c] \subseteq seen[c]

(* What the list says of the chats is so. *)
ListIsTrue == BadgesAreTrue /\ ReadWasSeen
=============================================================================
