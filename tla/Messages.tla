------------------------------ MODULE Messages ------------------------------
(***************************************************************************)
(* The messages of a conversation (services/message.service.ts, the receipt  *)
(* handlers of socket.ts, message.repository.ts): requests that create, edit, *)
(* delete, react to and acknowledge messages, each one a chain of statements  *)
(* with an await between any two of them, and the news they send to the       *)
(* clients at the end.                                                        *)
(*                                                                         *)
(* Abstracted: who may write in the conversation (module Membership), the     *)
(* files of a message (module StoredFiles), the texts (a body is a value and  *)
(* the search index of a message is the set of bodies whose words it has),    *)
(* mentions, the reply counter, and the notifications.                        *)
(***************************************************************************)
EXTENDS Integers, FiniteSets

CONSTANTS
  Users,
  Moderators,    \* users with messages.delete_any
  Messages,
  Bodies,
  Emojis,
  Slots,         \* requests in flight at once
  MaxRequests,   \* bound: requests of the run
  Nothing        \* no body

ASSUME MessagesAssumption ==
  /\ IsFiniteSet(Users) /\ Moderators \subseteq Users
  /\ "none" \notin Users \cup Messages /\ Nothing \notin Bodies
  /\ MaxRequests \in Nat

VARIABLES
  row,        \* row[m]: the sender ("none" before the message exists), the body, is_deleted
  tokens,     \* tokens[m]: message_search_tokens
  edits,      \* edits[m]: message_edits, the earlier bodies
  old,        \* messages whose edit and delete windows have passed
  reactions,  \* message_reactions: <<m, user, emoji>>
  receipts,   \* receipts[m][u]: message_receipts
  shown,      \* shown[m]: what the clients know from the last news
  requests,   \* requests[s]: the request in slot s
  started,    \* the bounded counter
  past,       \* history: past[m], the bodies that m has had
  crossed     \* history: <<m, topic, u, v>>, a request of u began during one of v

vars == <<row, tokens, edits, old, reactions, receipts, shown, requests, started, past, crossed>>
texts == <<row, tokens, edits, past>>

Topic(kind) ==
  CASE kind \in {"send", "edit", "delete"} -> "text"
    [] kind \in {"react", "unreact"} -> "reactions"
    [] OTHER -> "receipts"

(* A request: its next statement (at), and what its last query returned (got). *)
Idle == [kind |-> "none", at |-> "done", by |-> "none", msg |-> "none", arg |-> Nothing, got |-> {}]

Ranks == [none |-> 0, delivered |-> 1, read |-> 2]
Count(m, level) == Cardinality({u \in Users : Ranks[receipts[m][u]] >= Ranks[level]})
Counts(m) == [delivered |-> Count(m, "delivered"), read |-> Count(m, "read")]
ReactionsTo(m) == {r \in reactions : r[1] = m}
Mine(m, u) == {r \in reactions : r[1] = m /\ r[2] = u}

TypeOK ==
  /\ row \in [Messages -> [sender : Users \cup {"none"}, body : Bodies \cup {Nothing}, deleted : BOOLEAN]]
  /\ tokens \in [Messages -> SUBSET Bodies]
  /\ edits \in [Messages -> SUBSET Bodies]
  /\ old \subseteq Messages
  /\ reactions \subseteq Messages \X Users \X Emojis
  /\ receipts \in [Messages -> [Users -> DOMAIN Ranks]]
  /\ shown \in [Messages -> [body : Bodies \cup {Nothing},
                            reactions : SUBSET (Messages \X Users \X Emojis),
                            counts : [delivered : 0..Cardinality(Users), read : 0..Cardinality(Users)]]]
  /\ \A s \in Slots : requests[s] = Idle \/ (requests[s].by \in Users /\ requests[s].msg \in Messages)
  /\ started \in 0..MaxRequests
  /\ past \in [Messages -> SUBSET Bodies]
  /\ crossed \subseteq Messages \X {"text", "reactions", "receipts"} \X Users \X Users

Init ==
  /\ row = [m \in Messages |-> [sender |-> "none", body |-> Nothing, deleted |-> FALSE]]
  /\ tokens = [m \in Messages |-> {}] /\ edits = tokens /\ past = tokens
  /\ old = {} /\ reactions = {} /\ crossed = {}
  /\ receipts = [m \in Messages |-> [u \in Users |-> "none"]]
  /\ shown = [m \in Messages |-> [body |-> Nothing, reactions |-> {},
                                  counts |-> [delivered |-> 0, read |-> 0]]]
  /\ requests = [s \in Slots |-> Idle] /\ started = 0

-----------------------------------------------------------------------------
(* A request arrives, in the first free slot. *)
Request(s, kind, u, m, arg, at) ==
  /\ requests[s] = Idle /\ s = (CHOOSE t \in Slots : requests[t] = Idle)
  /\ started < MaxRequests /\ started' = started + 1
  /\ requests' = [requests EXCEPT ![s] = [kind |-> kind, at |-> at, by |-> u, msg |-> m, arg |-> arg, got |-> {}]]
  /\ crossed' = crossed \cup
       {<<m, Topic(kind), u, requests[t].by>> : t \in
          {x \in Slots : requests[x].msg = m /\ Topic(requests[x].kind) = Topic(kind)}}
  /\ UNCHANGED <<texts, old, reactions, receipts, shown>>

Exists(m) == row[m].sender # "none"

Send(s, u, m, b) ==
  /\ ~Exists(m) /\ \A t \in Slots : requests[t].msg # m
  /\ Request(s, "send", u, m, b, "insert")

Edit(s, u, m, b) == Exists(m) /\ Request(s, "edit", u, m, b, "check")
Delete(s, u, m) == Exists(m) /\ Request(s, "delete", u, m, Nothing, "check")
AddReaction(s, u, m, e) == Exists(m) /\ Request(s, "react", u, m, e, "select")
RemoveReaction(s, u, m, e) == Exists(m) /\ Request(s, "unreact", u, m, e, "remove")
Acknowledge(s, u, m, level) == Exists(m) /\ Request(s, level, u, m, level, "upsert")

(* The statement of slot s that is next, and where it leaves the request. *)
At(s, at) == requests[s].at = at
Go(s, at, got) == requests' = [requests EXCEPT ![s].at = at, ![s].got = got]
Finish(s) == requests' = [requests EXCEPT ![s] = Idle]
rest == <<old, started, crossed>>

-----------------------------------------------------------------------------
(* create: the row, and its words into the index. *)
Insert(s) ==
  LET r == requests[s] IN
  /\ At(s, "insert")
  /\ row' = [row EXCEPT ![r.msg] = [sender |-> r.by, body |-> r.arg, deleted |-> FALSE]]
  /\ past' = [past EXCEPT ![r.msg] = {r.arg}]
  /\ Go(s, "untoken", {r.arg})
  /\ UNCHANGED <<tokens, edits, reactions, receipts, shown, rest>>

(* update reads the message and refuses a deleted one, another's, or an old one; delete
   lets a moderator through. *)
MayEditBorrado(u, m) == row[m].sender = u /\ m \notin old

MayEdit(u, m) == ~row[m].deleted /\ row[m].sender = u /\ m \notin old
MayDelete(u, m) == ~row[m].deleted /\ (u \in Moderators \/ (row[m].sender = u /\ m \notin old))

Check(s) ==
  LET r == requests[s] IN
  /\ At(s, "check")
  /\ CASE r.kind = "edit" /\ MayEdit(r.by, r.msg) -> Go(s, "history", {})
       [] r.kind = "delete" /\ MayDelete(r.by, r.msg) -> Go(s, "softDelete", {})
       [] OTHER -> Finish(s)
  /\ UNCHANGED <<texts, reactions, receipts, shown, rest>>

(* updateBody keeps the body it is about to replace ... *)
SaveHistory(s) ==
  LET m == requests[s].msg IN
  /\ At(s, "history")
  /\ edits' = [edits EXCEPT ![m] = @ \cup ({row[m].body} \ {Nothing})]
  /\ Go(s, "write", {})
  /\ UNCHANGED <<row, tokens, past, reactions, receipts, shown, rest>>

(* ... and replaces it, whatever became of the message meanwhile. *)
WriteBody(s) ==
  LET r == requests[s] IN
  /\ At(s, "write")
  /\ row' = [row EXCEPT ![r.msg].body = r.arg]
  /\ past' = [past EXCEPT ![r.msg] = @ \cup {r.arg}]
  /\ Go(s, "untoken", {r.arg})
  /\ UNCHANGED <<tokens, edits, reactions, receipts, shown, rest>>

Vacate(s, body) ==
  LET m == requests[s].msg IN
  /\ At(s, "softDelete")
  /\ row' = [row EXCEPT ![m].body = body, ![m].deleted = TRUE]
  /\ Go(s, "untoken", {body})
  /\ UNCHANGED <<tokens, edits, past, reactions, receipts, shown, rest>>

(* The placeholder kept as a text. *)
SoftDeleteConTexto(s) == Vacate(s, "deleted")

SoftDelete(s) == Vacate(s, Nothing)

(* _setSearchTokens: the old words out, the new ones in.  A deletion only takes them out. *)
RemoveTokens(s) ==
  /\ At(s, "untoken")
  /\ tokens' = [tokens EXCEPT ![requests[s].msg] = {}]
  /\ Go(s, IF requests[s].kind = "delete" THEN "emit" ELSE "token", requests[s].got)
  /\ UNCHANGED <<row, edits, past, reactions, receipts, shown, rest>>

AddTokens(s) ==
  LET r == requests[s] IN
  /\ At(s, "token")
  /\ tokens' = [tokens EXCEPT ![r.msg] = @ \cup {r.arg}]
  /\ Go(s, "emit", r.got)
  /\ UNCHANGED <<row, edits, past, reactions, receipts, shown, rest>>

-----------------------------------------------------------------------------
(* toggleReaction looks for the user's reaction ... *)
Select(s, found) ==
  /\ At(s, "select") /\ Go(s, "toggle", found)
  /\ UNCHANGED <<texts, reactions, receipts, shown, rest>>

SelectReaction(s) == Select(s, Mine(requests[s].msg, requests[s].by))

(* ... and takes it away, changes it or adds it, and fails where the primary key already
   has the row. *)
Toggle(s) ==
  LET r == requests[s]
      new == <<r.msg, r.by, r.arg>>
      mine == Mine(r.msg, r.by)
      Set(after) == reactions' = (reactions \ mine) \cup after /\ Go(s, "get", {})
      Refuse == UNCHANGED reactions /\ Finish(s)
  IN
  /\ At(s, "toggle")
  /\ \/ r.got = {} /\ (IF new \in mine THEN Refuse ELSE Set(mine \cup {new}))
     \/ new \in r.got /\ Set({})
     \/ r.got \ {new} # {} /\ (IF Cardinality(mine) > 1 THEN Refuse
                                ELSE Set({x \in {new} : mine # {}}))
  /\ UNCHANGED <<texts, receipts, shown, rest>>

DeleteReaction(s) ==
  LET r == requests[s] IN
  /\ At(s, "remove")
  /\ reactions' = reactions \ {<<r.msg, r.by, r.arg>>}
  /\ Go(s, "get", {})
  /\ UNCHANGED <<texts, receipts, shown, rest>>

Query(s, at, result) ==
  /\ At(s, at) /\ Go(s, "emit", {result})
  /\ UNCHANGED <<texts, reactions, receipts, shown, rest>>

(* Only the reactions of the one who asks. *)
GetReactionsPropias(s) == Query(s, "get", Mine(requests[s].msg, requests[s].by))

GetReactions(s) == Query(s, "get", ReactionsTo(requests[s].msg))

-----------------------------------------------------------------------------
(* addReceipt: reading implies delivery, and a late delivery takes nothing back. *)
Upsert(s, level) ==
  LET r == requests[s] IN
  /\ At(s, "upsert")
  /\ receipts' = [receipts EXCEPT ![r.msg][r.by] = level]
  /\ Go(s, "count", {})
  /\ UNCHANGED <<texts, reactions, shown, rest>>

AddReceipt(s) ==
  Upsert(s, IF receipts[requests[s].msg][requests[s].by] = "read" THEN "read" ELSE requests[s].arg)

GetReceiptCounts(s) == Query(s, "count", Counts(requests[s].msg))

(* The news of the request reach the clients, with what its last query returned. *)
EmitNews(s) ==
  LET r == requests[s] IN
  /\ At(s, "emit")
  /\ \E news \in r.got :
       shown' = CASE Topic(r.kind) = "text" -> [shown EXCEPT ![r.msg].body = news]
                  [] Topic(r.kind) = "reactions" -> [shown EXCEPT ![r.msg].reactions = news]
                  [] OTHER -> [shown EXCEPT ![r.msg].counts = news]
  /\ Finish(s)
  /\ UNCHANGED <<texts, reactions, receipts, rest>>

(* The windows to edit and to delete close. *)
GrowOld(m) ==
  /\ Exists(m) /\ m \notin old /\ old' = old \cup {m}
  /\ UNCHANGED <<texts, reactions, receipts, shown, requests, started, crossed>>

Arrive(s) ==
  \E u \in Users, m \in Messages :
    \/ \E b \in Bodies : Send(s, u, m, b) \/ Edit(s, u, m, b)
    \/ Delete(s, u, m)
    \/ \E e \in Emojis : AddReaction(s, u, m, e) \/ RemoveReaction(s, u, m, e)
    \/ \E level \in {"delivered", "read"} : Acknowledge(s, u, m, level)

Step(s) ==
  \/ Insert(s) \/ Check(s) \/ SaveHistory(s) \/ WriteBody(s) \/ SoftDelete(s)
  \/ RemoveTokens(s) \/ AddTokens(s) \/ SelectReaction(s) \/ Toggle(s) \/ DeleteReaction(s)
  \/ GetReactions(s) \/ AddReceipt(s) \/ GetReceiptCounts(s) \/ EmitNews(s)

Next == (\E s \in Slots : Arrive(s) \/ Step(s)) \/ (\E m \in Messages : GrowOld(m))

Spec == Init /\ [][Next]_vars

-----------------------------------------------------------------------------
(* No request on the topic of the message in flight, and none that crossed another. *)
Settled(m, topic) ==
  /\ \A s \in Slots : requests[s].msg = m => Topic(requests[s].kind) # topic
  /\ \A u, v \in Users : <<m, topic, u, v>> \notin crossed

(* A deleted message has neither a body nor words in the search index, and any other one
   is found by the words of its body and no others - unless two requests crossed, as when
   an edit that found the message whole writes after the deletion. *)
IndexMatchesBody ==
  \A m \in Messages : Settled(m, "text") =>
    /\ row[m].deleted => row[m].body = Nothing
    /\ tokens[m] = {row[m].body} \ {Nothing}
    /\ row[m].deleted \/ past[m] \subseteq edits[m] \cup {row[m].body}

(* A user has one reaction to a message, unless two of the user's own requests crossed. *)
OneReactionEach ==
  \A m \in Messages, u \in Users :
    Cardinality(Mine(m, u)) > 1 => <<m, "reactions", u, u>> \in crossed

(* What the tables say of a message is one thing. *)
TablesAgree == IndexMatchesBody /\ OneReactionEach

(* When everything has settled, the clients show what the database has. *)
ClientsAreUpToDate ==
  \A m \in Messages :
    /\ Settled(m, "text") => shown[m].body = row[m].body
    /\ Settled(m, "reactions") => shown[m].reactions = ReactionsTo(m)
    /\ Settled(m, "receipts") => shown[m].counts = Counts(m)
=============================================================================
