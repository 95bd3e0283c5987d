--------------------------- MODULE Messages_proofs ---------------------------
(***************************************************************************)
(* For any users, messages and requests in flight: what the tables say of a   *)
(* message agrees, and what the clients show once everything has settled is   *)
(* what the database has, unless two requests on the same side of the same    *)
(* message crossed.                                                          *)
(***************************************************************************)
EXTENDS Messages, FiniteSetTheorems, TLAPS

AllReactions == Messages \X Users \X Emojis
AllCounts == [delivered : 0..Cardinality(Users), read : 0..Cardinality(Users)]

(* The requests that may be in flight, and what each one carries. *)
TextRequest ==
  [kind : {"send", "edit"}, at : {"insert", "check", "history", "write", "untoken", "token", "emit"},
   by : Users, msg : Messages, arg : Bodies, got : SUBSET Bodies]
DeleteRequest ==
  [kind : {"delete"}, at : {"check", "softDelete", "untoken", "emit"},
   by : Users, msg : Messages, arg : {Nothing}, got : SUBSET {Nothing}]
ReactionRequest ==
  [kind : {"react", "unreact"}, at : {"select", "toggle", "remove", "get"},
   by : Users, msg : Messages, arg : Emojis, got : SUBSET AllReactions]
ReactionNews ==
  [kind : {"react", "unreact"}, at : {"emit"},
   by : Users, msg : Messages, arg : Emojis, got : SUBSET SUBSET AllReactions]
ReceiptRequest ==
  [kind : {"delivered", "read"}, at : {"upsert", "count", "emit"},
   by : Users, msg : Messages, arg : {"delivered", "read"}, got : SUBSET AllCounts]

Busy == TextRequest \cup DeleteRequest \cup ReactionRequest \cup ReactionNews \cup ReceiptRequest

RequestsTyped == requests \in [Slots -> Busy \cup {Idle}]

On(s, m, topic) == requests[s].msg = m /\ Topic(requests[s].kind) = topic
Uncrossed(m, topic) == \A u, v \in Users : <<m, topic, u, v>> \notin crossed
Alone(m, topic) == \A s, t \in Slots : On(s, m, topic) /\ On(t, m, topic) => s = t

(* A message at rest. *)
Clean(m) ==
  /\ row[m].deleted => row[m].body = Nothing
  /\ tokens[m] = {row[m].body} \ {Nothing}
  /\ row[m].deleted \/ past[m] \subseteq edits[m] \cup {row[m].body}
  /\ shown[m].body = row[m].body

(* The row after the statement that changes it. *)
Written(s, m) ==
  IF requests[s].kind = "delete"
    THEN row[m].deleted /\ row[m].body = Nothing
    ELSE /\ ~row[m].deleted /\ row[m].body = requests[s].arg
         /\ past[m] \subseteq edits[m] \cup {row[m].body}

(* How far the only request of slot s has got with the text of m. *)
TextAt(s, m) ==
  /\ requests[s].at \in {"check", "history"} => Clean(m)
  /\ requests[s].at \in {"history", "write"} => ~row[m].deleted
  /\ requests[s].at = "write" => past[m] \subseteq edits[m]
  /\ requests[s].at \in {"untoken", "token", "emit"} =>
       requests[s].got = {row[m].body} /\ Written(s, m)
  /\ requests[s].at = "token" => tokens[m] = {}
  /\ requests[s].at = "emit" => tokens[m] = {row[m].body} \ {Nothing}

TextAgrees(m) == Uncrossed(m, "text") =>
  /\ Alone(m, "text")
  /\ \A s \in Slots : On(s, m, "text") => TextAt(s, m)
  /\ (\A s \in Slots : ~On(s, m, "text")) => Clean(m)

ReactionAt(s, m) ==
  /\ requests[s].at \in {"select", "toggle"} => shown[m].reactions = ReactionsTo(m)
  /\ requests[s].at = "emit" => requests[s].got = {ReactionsTo(m)}

ReactionsShown(m) == Uncrossed(m, "reactions") =>
  /\ Alone(m, "reactions")
  /\ \A s \in Slots : On(s, m, "reactions") => ReactionAt(s, m)
  /\ (\A s \in Slots : ~On(s, m, "reactions")) => shown[m].reactions = ReactionsTo(m)

(* What u's only request on the reactions to m found is still so. *)
Own(s, m, u) == On(s, m, "reactions") /\ requests[s].by = u
OneOf(m, u) == <<m, "reactions", u, u>> \notin crossed =>
  /\ \A s, t \in Slots : Own(s, m, u) /\ Own(t, m, u) => s = t
  /\ \A a, b \in Mine(m, u) : a = b
  /\ \A s \in Slots : Own(s, m, u) /\ At(s, "toggle") => requests[s].got = Mine(m, u)

ReceiptsShown(m) == Uncrossed(m, "receipts") =>
  /\ Alone(m, "receipts")
  /\ \A s \in Slots : On(s, m, "receipts") /\ At(s, "emit") => requests[s].got = {Counts(m)}
  /\ (\A s \in Slots : ~On(s, m, "receipts")) => shown[m].counts = Counts(m)

(* The inductive invariant. *)
IInv ==
  /\ TypeOK /\ RequestsTyped
  /\ \A m \in Messages : TextAgrees(m) /\ ReactionsShown(m) /\ ReceiptsShown(m)
  /\ \A m \in Messages, u \in Users : OneOf(m, u)
-----------------------------------------------------------------------------
(* Topics, and the statements a request of each topic goes through. *)

LEMMA Topics ==
  /\ \A k \in {"send", "edit", "delete"} : Topic(k) = "text"
  /\ \A k \in {"react", "unreact"} : Topic(k) = "reactions"
  /\ \A k \in {"delivered", "read", "none"} : Topic(k) = "receipts"
BY DEF Topic

LEMMA Kinds ==
  ASSUME NEW r \in Busy
  PROVE  /\ r # Idle /\ r.by \in Users /\ r.msg \in Messages
         /\ Topic(r.kind) = "text" <=> r \in TextRequest \cup DeleteRequest
         /\ Topic(r.kind) = "reactions" <=> r \in ReactionRequest \cup ReactionNews
         /\ Topic(r.kind) = "receipts" <=> r \in ReceiptRequest
<1>1. r.by \in Users /\ r.msg \in Messages
  BY DEF Busy, TextRequest, DeleteRequest, ReactionRequest, ReactionNews, ReceiptRequest
<1>2. r # Idle
  BY <1>1, MessagesAssumption DEF Idle
<1>3. /\ r \in TextRequest \cup DeleteRequest => Topic(r.kind) = "text"
      /\ r \in ReactionRequest \cup ReactionNews => Topic(r.kind) = "reactions"
      /\ r \in ReceiptRequest => Topic(r.kind) = "receipts"
  BY Topics DEF TextRequest, DeleteRequest, ReactionRequest, ReactionNews, ReceiptRequest
<1> QED BY <1>1, <1>2, <1>3 DEF Busy

LEMMA IdleIsOnNothing ==
  ASSUME NEW s, requests[s] = Idle, NEW m \in Messages, NEW topic
  PROVE  ~On(s, m, topic)
BY MessagesAssumption DEF On, Idle

(* A request is its six fields. *)
LEMMA OneRecord ==
  ASSUME NEW kind, NEW at, NEW by, NEW msg, NEW arg, NEW got,
         NEW r \in [kind : {kind}, at : {at}, by : {by}, msg : {msg}, arg : {arg}, got : {got}]
  PROVE  r = [kind |-> kind, at |-> at, by |-> by, msg |-> msg, arg |-> arg, got |-> got]
OBVIOUS

(* Whatever a request is about, it keeps the other four when it goes on. *)
LEMMA SixFields ==
  ASSUME NEW r \in Busy, NEW at, NEW got
  PROVE  [[r EXCEPT !.at = at] EXCEPT !.got = got] \in
            [kind : {r.kind}, at : {at}, by : {r.by}, msg : {r.msg}, arg : {r.arg}, got : {got}]
<1> DEFINE new == [[r EXCEPT !.at = at] EXCEPT !.got = got]
           Six == [kind : {r.kind}, at : {at}, by : {r.by}, msg : {r.msg}, arg : {r.arg}, got : {got}]
<1>1. ASSUME NEW K, NEW A, NEW B, NEW M, NEW X, NEW G,
             r \in [kind : K, at : A, by : B, msg : M, arg : X, got : G]
      PROVE  new \in Six
  BY <1>1
<1>2. ASSUME r \in TextRequest PROVE new \in Six
  BY <1>1, <1>2 DEF TextRequest
<1>3. ASSUME r \in DeleteRequest PROVE new \in Six
  BY <1>1, <1>3 DEF DeleteRequest
<1>4. ASSUME r \in ReactionRequest PROVE new \in Six
  BY <1>1, <1>4 DEF ReactionRequest
<1>5. ASSUME r \in ReactionNews PROVE new \in Six
  BY <1>1, <1>5 DEF ReactionNews
<1>6. ASSUME r \in ReceiptRequest PROVE new \in Six
  BY <1>1, <1>6 DEF ReceiptRequest
<1> HIDE DEF new, Six
<1>7. new \in Six
  BY <1>2, <1>3, <1>4, <1>5, <1>6 DEF Busy
<1> QED BY <1>7 DEF new, Six

(* The request of s, further on. *)
Advanced(s, at, got) ==
  [kind |-> requests[s].kind, at |-> at, by |-> requests[s].by,
   msg |-> requests[s].msg, arg |-> requests[s].arg, got |-> got]

(* A slot that goes on to its next statement, and one whose request is over. *)
LEMMA GoFacts ==
  ASSUME RequestsTyped, NEW s \in Slots, requests[s] \in Busy, NEW at, NEW got, Go(s, at, got)
  PROVE  /\ requests' = [requests EXCEPT ![s] = Advanced(s, at, got)]
         /\ requests'[s] = Advanced(s, at, got)
         /\ \A t \in Slots \ {s} : requests'[t] = requests[t]
<1> PICK r \in Busy : r = requests[s]
  OBVIOUS
<1>1. requests' = [requests EXCEPT ![s] = [[r EXCEPT !.at = at] EXCEPT !.got = got]]
  BY DEF Go, RequestsTyped
<1>2. [[r EXCEPT !.at = at] EXCEPT !.got = got] =
        [kind |-> r.kind, at |-> at, by |-> r.by, msg |-> r.msg, arg |-> r.arg, got |-> got]
  <2> DEFINE new == [[r EXCEPT !.at = at] EXCEPT !.got = got]
             Six == [kind : {r.kind}, at : {at}, by : {r.by}, msg : {r.msg}, arg : {r.arg}, got : {got}]
  <2>1. new \in Six
    BY SixFields
  <2> HIDE DEF new
  <2>2. new = [kind |-> r.kind, at |-> at, by |-> r.by, msg |-> r.msg, arg |-> r.arg, got |-> got]
    BY <2>1, OneRecord
  <2> QED BY <2>2 DEF new
<1>3. requests' = [requests EXCEPT ![s] = Advanced(s, at, got)]
  BY <1>1, <1>2 DEF Advanced
<1> QED BY <1>3 DEF RequestsTyped

LEMMA FinishFacts ==
  ASSUME RequestsTyped, NEW s \in Slots, Finish(s)
  PROVE  RequestsTyped' /\ requests'[s] = Idle /\ \A t \in Slots \ {s} : requests'[t] = requests[t]
BY DEF Finish, RequestsTyped
-----------------------------------------------------------------------------
(* What a step leaves alone stays as it was. *)

LEMMA TextFrame ==
  ASSUME NEW m \in Messages, TextAgrees(m), crossed \subseteq crossed',
         row'[m] = row[m], tokens'[m] = tokens[m], edits'[m] = edits[m], past'[m] = past[m],
         shown'[m].body = shown[m].body,
         \A t \in Slots : /\ On(t, m, "text")' <=> On(t, m, "text")
                          /\ On(t, m, "text") => requests'[t] = requests[t]
  PROVE  TextAgrees(m)'
<1>1. Clean(m) => Clean(m)'
  BY DEF Clean
<1>2. \A t \in Slots : On(t, m, "text") /\ TextAt(t, m) => TextAt(t, m)'
  BY <1>1 DEF TextAt, Written
<1> QED BY <1>1, <1>2 DEF TextAgrees, Uncrossed, Alone

LEMMA ReactionsFrame ==
  ASSUME NEW m \in Messages, ReactionsShown(m), crossed \subseteq crossed',
         ReactionsTo(m)' = ReactionsTo(m), shown'[m].reactions = shown[m].reactions,
         \A t \in Slots : /\ On(t, m, "reactions")' <=> On(t, m, "reactions")
                          /\ On(t, m, "reactions") => requests'[t] = requests[t]
  PROVE  ReactionsShown(m)'
<1>1. \A t \in Slots : On(t, m, "reactions") /\ ReactionAt(t, m) => ReactionAt(t, m)'
  BY DEF ReactionAt
<1> QED BY <1>1 DEF ReactionsShown, Uncrossed, Alone

LEMMA OneFrame ==
  ASSUME NEW m \in Messages, NEW u \in Users, OneOf(m, u), crossed \subseteq crossed',
         Mine(m, u)' = Mine(m, u),
         \A t \in Slots : /\ Own(t, m, u)' <=> Own(t, m, u)
                          /\ Own(t, m, u) => requests'[t] = requests[t]
  PROVE  OneOf(m, u)'
BY DEF OneOf, At

LEMMA ReceiptsFrame ==
  ASSUME NEW m \in Messages, ReceiptsShown(m), crossed \subseteq crossed',
         receipts'[m] = receipts[m], shown'[m].counts = shown[m].counts,
         \A t \in Slots : /\ On(t, m, "receipts")' <=> On(t, m, "receipts")
                          /\ On(t, m, "receipts") => requests'[t] = requests[t]
  PROVE  ReceiptsShown(m)'
<1>1. Counts(m)' = Counts(m)
  BY DEF Counts, Count
<1> QED BY <1>1 DEF ReceiptsShown, Uncrossed, Alone, At

(* A statement of slot s: only what is of its topic and its message may change. *)
Moves(s) ==
  /\ requests[s] \in Busy
  /\ \A t \in Slots \ {s} : requests'[t] = requests[t]
  /\ \/ requests'[s] = Idle
     \/ /\ requests'[s].kind = requests[s].kind /\ requests'[s].msg = requests[s].msg
        /\ requests'[s].by = requests[s].by
  /\ UNCHANGED crossed

LEMMA Elsewhere ==
  ASSUME NEW s \in Slots, Moves(s), NEW m \in Messages, NEW topic, ~On(s, m, topic)
  PROVE  \A t \in Slots : /\ On(t, m, topic)' <=> On(t, m, topic)
                          /\ On(t, m, topic) => requests'[t] = requests[t]
<1>1. ~On(s, m, topic)'
  <2>1. CASE requests'[s] = Idle
    BY <2>1, MessagesAssumption DEF On, Idle
  <2>2. CASE requests'[s] # Idle
    BY <2>2 DEF On, Moves
  <2> QED BY <2>1, <2>2
<1>2. ASSUME NEW t \in Slots, t # s PROVE On(t, m, topic)' <=> On(t, m, topic)
  BY <1>2 DEF On, Moves
<1> QED BY <1>1, <1>2 DEF Moves

LEMMA ElsewhereOwn ==
  ASSUME NEW s \in Slots, Moves(s), NEW m \in Messages, NEW u, ~Own(s, m, u)
  PROVE  \A t \in Slots : /\ Own(t, m, u)' <=> Own(t, m, u)
                          /\ Own(t, m, u) => requests'[t] = requests[t]
<1>1. ~Own(s, m, u)'
  <2>1. CASE requests'[s] = Idle
    BY <2>1, MessagesAssumption DEF On, Own, Idle
  <2>2. CASE requests'[s] # Idle
    BY <2>2 DEF On, Own, Moves
  <2> QED BY <2>1, <2>2
<1>2. ASSUME NEW t \in Slots, t # s PROVE Own(t, m, u)' <=> Own(t, m, u)
  BY <1>2 DEF On, Own, Moves
<1> QED BY <1>1, <1>2 DEF Moves
-----------------------------------------------------------------------------
(* Statements on the text of a message. *)

LEMMA TextOwn ==
  ASSUME IInv, NEW s \in Slots, NEW m \in Messages, Moves(s), On(s, m, "text"),
         TextAt(s, m) =>
           IF requests'[s] = Idle THEN Clean(m)' ELSE TextAt(s, m)'
  PROVE  TextAgrees(m)'
<1> SUFFICES ASSUME Uncrossed(m, "text")
             PROVE  /\ Alone(m, "text")'
                    /\ \A t \in Slots : On(t, m, "text")' => TextAt(t, m)'
                    /\ (\A t \in Slots : ~On(t, m, "text")') => Clean(m)'
  BY DEF TextAgrees, Uncrossed, Moves
<1>1. TextAt(s, m) /\ \A t \in Slots : On(t, m, "text") => t = s
  BY DEF IInv, TextAgrees, Alone
<1>2. \A t \in Slots : On(t, m, "text")' => t = s
  BY <1>1 DEF On, Moves
<1>3. CASE requests'[s] = Idle
  <2>1. ~On(s, m, "text")'
    BY <1>3, MessagesAssumption DEF On, Idle
  <2> QED BY <1>1, <1>2, <1>3, <2>1 DEF Alone
<1>4. CASE requests'[s] # Idle
  <2>1. On(s, m, "text")'
    BY <1>4 DEF On, Moves
  <2> QED BY <1>1, <1>2, <1>4, <2>1 DEF Alone
<1> QED BY <1>3, <1>4

(* A statement that touches nothing but the text of m keeps the rest of the invariant. *)
LEMMA TextStep ==
  ASSUME IInv, NEW s \in Slots, NEW m \in Messages, Moves(s), On(s, m, "text"),
         TypeOK', RequestsTyped', TextAgrees(m)',
         UNCHANGED <<reactions, receipts, shown>>,
         \A n \in Messages \ {m} :
           /\ row'[n] = row[n] /\ tokens'[n] = tokens[n]
           /\ edits'[n] = edits[n] /\ past'[n] = past[n]
  PROVE  IInv'
<1>1. crossed \subseteq crossed'
  BY DEF Moves
<1>2. \A n \in Messages : ~On(s, n, "reactions") /\ ~On(s, n, "receipts") /\ (n # m => ~On(s, n, "text"))
  BY DEF On
<1>3. ASSUME NEW n \in Messages, n # m PROVE TextAgrees(n)'
  BY <1>1, <1>2, <1>3, Elsewhere, TextFrame DEF IInv
<1>4. ASSUME NEW n \in Messages PROVE ReactionsShown(n)'
  <2>1. ReactionsTo(n)' = ReactionsTo(n) /\ shown'[n].reactions = shown[n].reactions
    BY DEF ReactionsTo
  <2> QED BY <1>1, <1>2, <2>1, Elsewhere, ReactionsFrame DEF IInv
<1>5. ASSUME NEW n \in Messages PROVE ReceiptsShown(n)'
  BY <1>1, <1>2, Elsewhere, ReceiptsFrame DEF IInv
<1>6. ASSUME NEW n \in Messages, NEW u \in Users PROVE OneOf(n, u)'
  <2>1. Mine(n, u)' = Mine(n, u) /\ ~Own(s, n, u)
    BY <1>2 DEF Mine, Own
  <2> QED BY <1>1, <2>1, ElsewhereOwn, OneFrame DEF IInv
<1> QED BY <1>3, <1>4, <1>5, <1>6 DEF IInv

(* What a slot at a statement on a text holds. *)
LEMMA AtText ==
  ASSUME IInv, NEW s \in Slots,
         requests[s].at \in {"insert", "check", "history", "write", "softDelete", "untoken", "token"}
  PROVE  /\ requests[s] \in TextRequest \cup DeleteRequest
         /\ requests[s] \in Busy
         /\ requests[s].msg \in Messages /\ requests[s].by \in Users
         /\ On(s, requests[s].msg, "text")
<1>1. requests[s] \in Busy \cup {Idle}
  BY DEF IInv, RequestsTyped
<1>2. requests[s] \in TextRequest \cup DeleteRequest
  BY <1>1 DEF Busy, Idle, TextRequest, DeleteRequest, ReactionRequest, ReactionNews, ReceiptRequest
<1>3. requests[s] \in Busy
  BY <1>2 DEF Busy
<1> QED BY <1>2, <1>3, Kinds DEF On

(* The next statement of the request. *)
GoneOn(s, at, got) ==
  /\ RequestsTyped' /\ Moves(s) /\ requests'[s] # Idle
  /\ requests'[s].at = at /\ requests'[s].got = got /\ requests'[s].kind = requests[s].kind
  /\ requests'[s].arg = requests[s].arg

LEMMA GoOn ==
  ASSUME IInv, NEW s \in Slots, requests[s] \in Busy,
         NEW at, NEW got, Go(s, at, got), UNCHANGED crossed,
         Advanced(s, at, got) \in Busy
  PROVE  GoneOn(s, at, got)
<1>1. RequestsTyped
  BY DEF IInv
<1> PICK q \in Busy : q = Advanced(s, at, got)
  OBVIOUS
<1>2. /\ requests' = [requests EXCEPT ![s] = q] /\ requests'[s] = q
      /\ \A t \in Slots \ {s} : requests'[t] = requests[t]
  BY <1>1, GoFacts
<1>3. q # Idle
  BY Kinds
<1>4. RequestsTyped'
  BY <1>1, <1>2 DEF RequestsTyped
<1>5. requests'[s] # Idle
  BY <1>2, <1>3
<1>6. Moves(s)
  BY <1>2 DEF Moves, Advanced
<1>7. q.at = at /\ q.got = got /\ q.kind = requests[s].kind /\ q.arg = requests[s].arg
  BY DEF Advanced
<1> QED BY <1>2, <1>4, <1>5, <1>6, <1>7 DEF GoneOn

LEMMA TextGo ==
  ASSUME IInv, NEW s \in Slots, requests[s] \in TextRequest \cup DeleteRequest,
         NEW at, NEW got, Go(s, at, got), UNCHANGED crossed,
         Advanced(s, at, got) \in TextRequest \cup DeleteRequest
  PROVE  GoneOn(s, at, got)
<1>1. /\ requests[s] \in Busy
      /\ Advanced(s, at, got) \in Busy
  BY DEF Busy
<1> QED BY <1>1, GoOn

(* The variables of a text keep their types when a value of the right kind is written. *)
LEMMA TextTypes ==
  ASSUME TypeOK, RequestsTyped', UNCHANGED <<reactions, receipts, shown, old, started, crossed>>,
         row' \in [Messages -> [sender : Users \cup {"none"}, body : Bodies \cup {Nothing}, deleted : BOOLEAN]],
         tokens' \in [Messages -> SUBSET Bodies],
         edits' \in [Messages -> SUBSET Bodies],
         past' \in [Messages -> SUBSET Bodies]
  PROVE  TypeOK'
<1>1. \A s \in Slots : requests'[s] = Idle
                        \/ (requests'[s].by \in Users /\ requests'[s].msg \in Messages)
  BY Kinds DEF RequestsTyped
<1> QED BY <1>1 DEF TypeOK

LEMMA InsertInv ==
  ASSUME IInv, NEW s \in Slots, Insert(s)
  PROVE  IInv'
<1> PICK m \in Messages : m = requests[s].msg
  BY AtText DEF Insert, At
<1>1. /\ requests[s] \in TextRequest \cup DeleteRequest /\ requests[s].at = "insert"
      /\ On(s, m, "text") /\ requests[s].by \in Users
  BY AtText DEF Insert, At
<1> PICK b \in Bodies : b = requests[s].arg
  BY <1>1 DEF TextRequest, DeleteRequest
<1>2. /\ row' = [row EXCEPT ![m] = [sender |-> requests[s].by, body |-> b, deleted |-> FALSE]]
      /\ past' = [past EXCEPT ![m] = {b}] /\ Go(s, "untoken", {b})
      /\ UNCHANGED <<tokens, edits, reactions, receipts, shown, old, started, crossed>>
  BY DEF Insert, rest
<1>3. requests[s] \in TextRequest
  BY <1>1 DEF TextRequest, DeleteRequest
<1>4. Advanced(s, "untoken", {b}) \in TextRequest
  BY <1>3 DEF TextRequest, Advanced
<1>5. /\ RequestsTyped' /\ Moves(s) /\ requests'[s] # Idle
      /\ requests'[s].at = "untoken" /\ requests'[s].got = {b}
      /\ requests'[s].kind = requests[s].kind /\ requests'[s].arg = b
  <2>1. Go(s, "untoken", {b}) /\ UNCHANGED crossed
    BY <1>2, <1>3
  <2>2. GoneOn(s, "untoken", {b})
    BY <1>1, <1>2, <1>3, <1>4, <2>1, TextGo
  <2> QED BY <1>2, <1>3, <2>2 DEF GoneOn, TextRequest
<1>6. TypeOK
  BY DEF IInv
<1>7. row'[m] = [sender |-> requests[s].by, body |-> b, deleted |-> FALSE] /\ past'[m] = {b}
  BY <1>2, <1>6 DEF TypeOK
<1>8. TypeOK'
  <2>1. row' \in [Messages -> [sender : Users \cup {"none"}, body : Bodies \cup {Nothing}, deleted : BOOLEAN]]
    BY <1>1, <1>2, <1>6 DEF TypeOK
  <2>2. tokens' \in [Messages -> SUBSET Bodies] /\ edits' \in [Messages -> SUBSET Bodies]
    BY <1>2, <1>6 DEF TypeOK
  <2>3. past' \in [Messages -> SUBSET Bodies]
    BY <1>2, <1>6 DEF TypeOK
  <2> QED BY <1>2, <1>5, <1>6, <2>1, <2>2, <2>3, TextTypes
<1>9. requests[s].kind # "delete"
  BY <1>3 DEF TextRequest
<1>10. TextAt(s, m)'
  BY <1>5, <1>7, <1>9 DEF TextAt, Written
<1>11. TextAgrees(m)'
  BY <1>1, <1>5, <1>10, TextOwn
<1>12. \A n \in Messages \ {m} : row'[n] = row[n] /\ past'[n] = past[n]
  BY <1>2, <1>6 DEF TypeOK
<1> QED BY <1>1, <1>2, <1>5, <1>8, <1>11, <1>12, TextStep

(* Check finds the message as it is, and the request goes on or is over. *)
LEMMA CheckInv ==
  ASSUME IInv, NEW s \in Slots, Check(s)
  PROVE  IInv'
<1> PICK m \in Messages : m = requests[s].msg
  BY AtText DEF Check, At
<1>1. /\ requests[s] \in TextRequest \cup DeleteRequest /\ requests[s].at = "check"
      /\ requests[s] \in Busy /\ On(s, m, "text") /\ requests[s].by \in Users
  BY AtText DEF Check, At
<1>2. UNCHANGED <<row, tokens, edits, past, reactions, receipts, shown, old, started, crossed>>
  BY DEF Check, rest, texts
<1>3. \/ requests[s].kind = "edit" /\ ~row[m].deleted /\ Go(s, "history", {})
      \/ requests[s].kind = "delete" /\ ~row[m].deleted /\ Go(s, "softDelete", {})
      \/ Finish(s)
  BY DEF Check, MayEdit, MayDelete
<1>4. TypeOK /\ RequestsTyped
  BY DEF IInv
<1>5. ASSUME RequestsTyped' PROVE TypeOK'
  BY <1>2, <1>4, <1>5, TextTypes DEF TypeOK
<1>6. ASSUME RequestsTyped', Moves(s),
             TextAt(s, m) => IF requests'[s] = Idle THEN Clean(m)' ELSE TextAt(s, m)'
      PROVE  IInv'
  <2>1. TextAgrees(m)'
    BY <1>1, <1>6, TextOwn
  <2> QED BY <1>1, <1>2, <1>5, <1>6, <2>1, TextStep
<1>7. TextAt(s, m) => Clean(m) /\ Clean(m)'
  BY <1>1, <1>2 DEF TextAt, Clean
<1>8. CASE requests[s].kind = "edit" /\ ~row[m].deleted /\ Go(s, "history", {})
  <2>1. Advanced(s, "history", {}) \in TextRequest
    BY <1>1, <1>8 DEF TextRequest, DeleteRequest, Advanced
  <2>2. /\ RequestsTyped' /\ Moves(s) /\ requests'[s] # Idle /\ requests'[s].at = "history"
    <3>1. GoneOn(s, "history", {})
      BY <1>1, <1>2, <1>8, <2>1, TextGo
    <3> QED BY <3>1 DEF GoneOn
  <2>3. TextAt(s, m) => TextAt(s, m)'
    BY <1>2, <1>7, <1>8, <2>2 DEF TextAt
  <2> QED BY <1>6, <2>2, <2>3
<1>9. CASE requests[s].kind = "delete" /\ ~row[m].deleted /\ Go(s, "softDelete", {})
  <2>1. Advanced(s, "softDelete", {}) \in DeleteRequest
    BY <1>1, <1>9 DEF TextRequest, DeleteRequest, Advanced
  <2>2. /\ RequestsTyped' /\ Moves(s) /\ requests'[s] # Idle /\ requests'[s].at = "softDelete"
    <3>1. GoneOn(s, "softDelete", {})
      BY <1>1, <1>2, <1>9, <2>1, TextGo
    <3> QED BY <3>1 DEF GoneOn
  <2>3. TextAt(s, m)'
    BY <2>2 DEF TextAt
  <2> QED BY <1>6, <2>2, <2>3
<1>10. CASE Finish(s)
  <2>1. RequestsTyped' /\ requests'[s] = Idle /\ \A t \in Slots \ {s} : requests'[t] = requests[t]
    BY <1>4, <1>10, FinishFacts
  <2>2. Moves(s)
    BY <1>1, <1>2, <2>1 DEF Moves
  <2> QED BY <1>6, <1>7, <2>1, <2>2
<1> QED BY <1>3, <1>8, <1>9, <1>10

LEMMA SaveHistoryInv ==
  ASSUME IInv, NEW s \in Slots, SaveHistory(s)
  PROVE  IInv'
<1> PICK m \in Messages : m = requests[s].msg
  BY AtText DEF SaveHistory, At
<1>1. /\ requests[s] \in TextRequest \cup DeleteRequest /\ requests[s].at = "history"
      /\ requests[s] \in Busy /\ On(s, m, "text")
  BY AtText DEF SaveHistory, At
<1>2. /\ edits' = [edits EXCEPT ![m] = @ \cup ({row[m].body} \ {Nothing})] /\ Go(s, "write", {})
      /\ UNCHANGED <<row, tokens, past, reactions, receipts, shown, old, started, crossed>>
  BY DEF SaveHistory, rest
<1>3. Advanced(s, "write", {}) \in TextRequest
  BY <1>1 DEF TextRequest, DeleteRequest, Advanced
<1>4. RequestsTyped' /\ Moves(s) /\ requests'[s] # Idle /\ requests'[s].at = "write"
  <2>1. GoneOn(s, "write", {})
    BY <1>1, <1>2, <1>3, TextGo
  <2> QED BY <1>1, <1>2, <1>3, <2>1 DEF GoneOn
<1>5. TypeOK
  BY DEF IInv
<1>6. row[m].body \in Bodies \cup {Nothing} /\ past[m] \subseteq Bodies
  BY <1>5 DEF TypeOK
<1>7. edits' \in [Messages -> SUBSET Bodies]
  BY <1>2, <1>5, <1>6 DEF TypeOK
<1>8. TypeOK'
  BY <1>2, <1>4, <1>5, <1>7, TextTypes DEF TypeOK
<1>9. edits'[m] = edits[m] \cup ({row[m].body} \ {Nothing})
  BY <1>2, <1>5 DEF TypeOK
<1>10. TextAt(s, m) => TextAt(s, m)'
  <2>1. TextAt(s, m) => ~row[m].deleted /\ past[m] \subseteq edits[m] \cup {row[m].body}
    BY <1>1 DEF TextAt, Clean
  <2>2. TextAt(s, m) => past'[m] \subseteq edits'[m]
    BY <1>2, <1>6, <1>9, <2>1, MessagesAssumption
  <2> QED BY <1>2, <1>4, <2>1, <2>2 DEF TextAt
<1>11. TextAgrees(m)'
  BY <1>1, <1>4, <1>10, TextOwn
<1>12. \A n \in Messages \ {m} : edits'[n] = edits[n]
  BY <1>2, <1>5 DEF TypeOK
<1> QED BY <1>1, <1>2, <1>4, <1>8, <1>11, <1>12, TextStep

LEMMA WriteBodyInv ==
  ASSUME IInv, NEW s \in Slots, WriteBody(s)
  PROVE  IInv'
<1> PICK m \in Messages : m = requests[s].msg
  BY AtText DEF WriteBody, At
<1>1. /\ requests[s] \in TextRequest \cup DeleteRequest /\ requests[s].at = "write"
      /\ requests[s] \in Busy /\ On(s, m, "text")
  BY AtText DEF WriteBody, At
<1>2. requests[s] \in TextRequest
  BY <1>1 DEF TextRequest, DeleteRequest
<1> PICK b \in Bodies : b = requests[s].arg
  BY <1>2 DEF TextRequest
<1>3. /\ row' = [row EXCEPT ![m].body = b] /\ past' = [past EXCEPT ![m] = @ \cup {b}]
      /\ Go(s, "untoken", {b})
      /\ UNCHANGED <<tokens, edits, reactions, receipts, shown, old, started, crossed>>
  BY DEF WriteBody, rest
<1>4. Advanced(s, "untoken", {b}) \in TextRequest
  BY <1>2 DEF TextRequest, Advanced
<1>5. /\ RequestsTyped' /\ Moves(s) /\ requests'[s] # Idle
      /\ requests'[s].at = "untoken" /\ requests'[s].got = {b}
      /\ requests'[s].kind = requests[s].kind /\ requests'[s].arg = b
  <2>1. Go(s, "untoken", {b}) /\ UNCHANGED crossed
    BY <1>2, <1>3
  <2>2. GoneOn(s, "untoken", {b})
    BY <1>1, <1>2, <1>3, <1>4, <2>1, TextGo
  <2> QED BY <1>2, <1>3, <2>2 DEF GoneOn, TextRequest
<1>6. TypeOK
  BY DEF IInv
<1>7. /\ row'[m].body = b /\ row'[m].deleted = row[m].deleted /\ past'[m] = past[m] \cup {b}
      /\ row' \in [Messages -> [sender : Users \cup {"none"}, body : Bodies \cup {Nothing}, deleted : BOOLEAN]]
      /\ \A n \in Messages \ {m} : row'[n] = row[n] /\ past'[n] = past[n]
  <2>1. past'[m] = past[m] \cup {b} /\ \A n \in Messages \ {m} : past'[n] = past[n]
    BY <1>3, <1>6 DEF TypeOK
  <2>2. row[m] \in [sender : Users \cup {"none"}, body : Bodies \cup {Nothing}, deleted : BOOLEAN]
    BY <1>6 DEF TypeOK
  <2>3. row' = [row EXCEPT ![m] = [row[m] EXCEPT !.body = b]]
    BY <1>3
  <2> QED BY <1>6, <2>1, <2>2, <2>3 DEF TypeOK
<1>8. TypeOK'
  <2>1. past' \in [Messages -> SUBSET Bodies]
    BY <1>3, <1>6 DEF TypeOK
  <2> QED BY <1>3, <1>5, <1>6, <1>7, <2>1, TextTypes DEF TypeOK
<1>9. requests[s].kind # "delete"
  BY <1>2 DEF TextRequest
<1>10. TextAt(s, m) => TextAt(s, m)'
  <2>1. TextAt(s, m) => ~row[m].deleted /\ past[m] \subseteq edits[m]
    BY <1>1 DEF TextAt
  <2> QED BY <1>3, <1>5, <1>7, <1>9, <2>1 DEF TextAt, Written
<1>11. TextAgrees(m)'
  BY <1>1, <1>5, <1>10, TextOwn
<1> QED BY <1>1, <1>3, <1>5, <1>7, <1>8, <1>11, TextStep

LEMMA SoftDeleteInv ==
  ASSUME IInv, NEW s \in Slots, SoftDelete(s)
  PROVE  IInv'
<1> USE DEF SoftDelete, Vacate
<1> PICK m \in Messages : m = requests[s].msg
  BY AtText DEF At
<1>1. /\ requests[s] \in TextRequest \cup DeleteRequest /\ requests[s].at = "softDelete"
      /\ requests[s] \in Busy /\ On(s, m, "text")
  BY AtText DEF At
<1>2. requests[s] \in DeleteRequest /\ requests[s].kind = "delete"
  BY <1>1 DEF TextRequest, DeleteRequest
<1>3. /\ row' = [row EXCEPT ![m].body = Nothing, ![m].deleted = TRUE]
      /\ Go(s, "untoken", {Nothing})
      /\ UNCHANGED <<tokens, edits, past, reactions, receipts, shown, old, started, crossed>>
  BY DEF rest
<1>4. Advanced(s, "untoken", {Nothing}) \in DeleteRequest
  BY <1>2 DEF DeleteRequest, Advanced
<1>5. /\ RequestsTyped' /\ Moves(s) /\ requests'[s] # Idle
      /\ requests'[s].at = "untoken" /\ requests'[s].got = {Nothing}
      /\ requests'[s].kind = "delete"
  <2>1. Go(s, "untoken", {Nothing}) /\ UNCHANGED crossed
    BY <1>2, <1>3
  <2>2. GoneOn(s, "untoken", {Nothing})
    BY <1>1, <1>2, <1>3, <1>4, <2>1, TextGo
  <2> QED BY <1>2, <1>3, <2>2 DEF GoneOn, TextRequest
<1>6. TypeOK
  BY DEF IInv
<1>7. /\ row'[m].body = Nothing /\ row'[m].deleted
      /\ row' \in [Messages -> [sender : Users \cup {"none"}, body : Bodies \cup {Nothing}, deleted : BOOLEAN]]
      /\ \A n \in Messages \ {m} : row'[n] = row[n]
  <2>1. row[m] \in [sender : Users \cup {"none"}, body : Bodies \cup {Nothing}, deleted : BOOLEAN]
    BY <1>6 DEF TypeOK
  <2>2. row' = [row EXCEPT ![m] = [[row[m] EXCEPT !.body = Nothing] EXCEPT !.deleted = TRUE]]
    BY <1>3, <1>6 DEF TypeOK
  <2> PICK gone \in [sender : Users \cup {"none"}, body : Bodies \cup {Nothing}, deleted : BOOLEAN] :
        gone = [[row[m] EXCEPT !.body = Nothing] EXCEPT !.deleted = TRUE]
    BY <2>1
  <2>3. gone.body = Nothing /\ gone.deleted
    BY <2>1
  <2>4. row' = [row EXCEPT ![m] = gone]
    BY <2>2
  <2> QED BY <1>6, <2>3, <2>4 DEF TypeOK
<1>8. TypeOK'
  BY <1>3, <1>5, <1>6, <1>7, TextTypes DEF TypeOK
<1>9. TextAt(s, m)'
  BY <1>5, <1>7 DEF TextAt, Written
<1>10. TextAgrees(m)'
  BY <1>1, <1>5, <1>9, TextOwn
<1> QED BY <1>1, <1>3, <1>5, <1>7, <1>8, <1>10, TextStep

LEMMA RemoveTokensInv ==
  ASSUME IInv, NEW s \in Slots, RemoveTokens(s)
  PROVE  IInv'
<1> PICK m \in Messages : m = requests[s].msg
  BY AtText DEF RemoveTokens, At
<1>1. /\ requests[s] \in TextRequest \cup DeleteRequest /\ requests[s].at = "untoken"
      /\ requests[s] \in Busy /\ On(s, m, "text")
  BY AtText DEF RemoveTokens, At
<1> PICK at \in {"emit", "token"} : at = IF requests[s].kind = "delete" THEN "emit" ELSE "token"
  OBVIOUS
<1>2. /\ tokens' = [tokens EXCEPT ![m] = {}] /\ Go(s, at, requests[s].got)
      /\ UNCHANGED <<row, edits, past, reactions, receipts, shown, old, started, crossed>>
  BY DEF RemoveTokens, rest
<1>3. Advanced(s, at, requests[s].got) \in TextRequest \cup DeleteRequest
  BY <1>1 DEF TextRequest, DeleteRequest, Advanced
<1>4. /\ RequestsTyped' /\ Moves(s) /\ requests'[s] # Idle
      /\ requests'[s].at = at /\ requests'[s].got = requests[s].got
      /\ requests'[s].kind = requests[s].kind /\ requests'[s].arg = requests[s].arg
  <2>1. GoneOn(s, at, requests[s].got)
    BY <1>1, <1>2, <1>3, TextGo
  <2> QED BY <1>1, <1>2, <1>3, <2>1 DEF GoneOn
<1>5. TypeOK
  BY DEF IInv
<1>6. tokens' \in [Messages -> SUBSET Bodies] /\ tokens'[m] = {}
  BY <1>2, <1>5 DEF TypeOK
<1>7. TypeOK'
  BY <1>2, <1>4, <1>5, <1>6, TextTypes DEF TypeOK
<1>8. TextAt(s, m) => TextAt(s, m)'
  <2>1. TextAt(s, m) => requests[s].got = {row[m].body} /\ Written(s, m)
    BY <1>1 DEF TextAt
  <2>2. Written(s, m) => Written(s, m)'
    BY <1>2, <1>4 DEF Written
  <2>3. at = "emit" /\ Written(s, m) => tokens'[m] = {row[m].body} \ {Nothing}
    BY <1>6 DEF Written
  <2> QED BY <1>2, <1>4, <1>6, <2>1, <2>2, <2>3 DEF TextAt
<1>9. TextAgrees(m)'
  BY <1>1, <1>4, <1>8, TextOwn
<1>10. \A n \in Messages \ {m} : tokens'[n] = tokens[n]
  BY <1>2, <1>5 DEF TypeOK
<1> QED BY <1>1, <1>2, <1>4, <1>7, <1>9, <1>10, TextStep

LEMMA AddTokensInv ==
  ASSUME IInv, NEW s \in Slots, AddTokens(s)
  PROVE  IInv'
<1> PICK m \in Messages : m = requests[s].msg
  BY AtText DEF AddTokens, At
<1>1. /\ requests[s] \in TextRequest \cup DeleteRequest /\ requests[s].at = "token"
      /\ requests[s] \in Busy /\ On(s, m, "text")
  BY AtText DEF AddTokens, At
<1>2. requests[s] \in TextRequest /\ requests[s].kind # "delete" /\ requests[s].arg \in Bodies
  BY <1>1 DEF TextRequest, DeleteRequest
<1>3. /\ tokens' = [tokens EXCEPT ![m] = @ \cup {requests[s].arg}]
      /\ Go(s, "emit", requests[s].got)
      /\ UNCHANGED <<row, edits, past, reactions, receipts, shown, old, started, crossed>>
  BY DEF AddTokens, rest
<1>4. Advanced(s, "emit", requests[s].got) \in TextRequest
  BY <1>2 DEF TextRequest, Advanced
<1>5. /\ RequestsTyped' /\ Moves(s) /\ requests'[s] # Idle
      /\ requests'[s].at = "emit" /\ requests'[s].got = requests[s].got
      /\ requests'[s].kind = requests[s].kind /\ requests'[s].arg = requests[s].arg
  <2>1. Go(s, "emit", requests[s].got) /\ UNCHANGED crossed
    BY <1>2, <1>3
  <2>2. GoneOn(s, "emit", requests[s].got)
    BY <1>1, <1>2, <1>3, <1>4, <2>1, TextGo
  <2> QED BY <1>2, <1>3, <2>2 DEF GoneOn, TextRequest
<1>6. TypeOK
  BY DEF IInv
<1>7. tokens' \in [Messages -> SUBSET Bodies] /\ tokens'[m] = tokens[m] \cup {requests[s].arg}
  BY <1>2, <1>3, <1>6 DEF TypeOK
<1>8. TypeOK'
  BY <1>3, <1>5, <1>6, <1>7, TextTypes DEF TypeOK
<1>9. TextAt(s, m) => TextAt(s, m)'
  <2>1. TextAt(s, m) => /\ requests[s].got = {row[m].body} /\ Written(s, m)
                        /\ row[m].body = requests[s].arg /\ tokens[m] = {}
    BY <1>1, <1>2 DEF TextAt, Written
  <2>2. Written(s, m) => Written(s, m)'
    BY <1>3, <1>5 DEF Written
  <2>3. requests[s].arg # Nothing
    BY <1>2, MessagesAssumption
  <2> QED BY <1>3, <1>5, <1>7, <2>1, <2>2, <2>3 DEF TextAt
<1>10. TextAgrees(m)'
  BY <1>1, <1>5, <1>9, TextOwn
<1>11. \A n \in Messages \ {m} : tokens'[n] = tokens[n]
  BY <1>3, <1>6 DEF TypeOK
<1> QED BY <1>1, <1>3, <1>5, <1>8, <1>10, <1>11, TextStep
-----------------------------------------------------------------------------
(* Statements on the reactions to a message. *)

LEMMA AtReactions ==
  ASSUME IInv, NEW s \in Slots, requests[s].at \in {"select", "toggle", "remove", "get"}
  PROVE  /\ requests[s] \in ReactionRequest /\ requests[s] \in Busy
         /\ requests[s].msg \in Messages /\ requests[s].by \in Users
         /\ On(s, requests[s].msg, "reactions")
<1>1. requests[s] \in Busy \cup {Idle}
  BY DEF IInv, RequestsTyped
<1>2. requests[s] \in ReactionRequest
  BY <1>1 DEF Busy, Idle, TextRequest, DeleteRequest, ReactionRequest, ReactionNews, ReceiptRequest
<1>3. requests[s] \in Busy
  BY <1>2 DEF Busy
<1> QED BY <1>2, <1>3, Kinds DEF On

LEMMA ReactionOwn ==
  ASSUME IInv, NEW s \in Slots, NEW m \in Messages, Moves(s), On(s, m, "reactions"),
         ReactionAt(s, m) =>
           IF requests'[s] = Idle THEN shown'[m].reactions = ReactionsTo(m)' ELSE ReactionAt(s, m)'
  PROVE  ReactionsShown(m)'
<1> SUFFICES ASSUME Uncrossed(m, "reactions")
             PROVE  /\ Alone(m, "reactions")'
                    /\ \A t \in Slots : On(t, m, "reactions")' => ReactionAt(t, m)'
                    /\ (\A t \in Slots : ~On(t, m, "reactions")')
                         => shown'[m].reactions = ReactionsTo(m)'
  BY DEF ReactionsShown, Uncrossed, Moves
<1>1. ReactionAt(s, m) /\ \A t \in Slots : On(t, m, "reactions") => t = s
  BY DEF IInv, ReactionsShown, Alone
<1>2. \A t \in Slots : On(t, m, "reactions")' => t = s
  BY <1>1 DEF On, Moves
<1>3. CASE requests'[s] = Idle
  <2>1. ~On(s, m, "reactions")'
    BY <1>3, MessagesAssumption DEF On, Idle
  <2> QED BY <1>1, <1>2, <1>3, <2>1 DEF Alone
<1>4. CASE requests'[s] # Idle
  <2>1. On(s, m, "reactions")'
    BY <1>4 DEF On, Moves
  <2> QED BY <1>1, <1>2, <1>4, <2>1 DEF Alone
<1> QED BY <1>3, <1>4

(* A statement of u's request on the reactions to m. *)
LEMMA OneOwn ==
  ASSUME IInv, NEW s \in Slots, NEW m \in Messages, NEW u \in Users, Moves(s), Own(s, m, u),
         (/\ \A a, b \in Mine(m, u) : a = b
          /\ requests[s].at = "toggle" => requests[s].got = Mine(m, u))
           => /\ \A a, b \in Mine(m, u)' : a = b
              /\ requests'[s].at = "toggle" => requests'[s].got = Mine(m, u)'
  PROVE  OneOf(m, u)'
<1> SUFFICES ASSUME <<m, "reactions", u, u>> \notin crossed
             PROVE  /\ \A t, w \in Slots : Own(t, m, u)' /\ Own(w, m, u)' => t = w
                    /\ \A a, b \in Mine(m, u)' : a = b
                    /\ \A t \in Slots : Own(t, m, u)' /\ At(t, "toggle")'
                                          => requests'[t].got = Mine(m, u)'
  BY DEF OneOf, Moves
<1>1. /\ \A t \in Slots : Own(t, m, u) => t = s
      /\ \A a, b \in Mine(m, u) : a = b
      /\ requests[s].at = "toggle" => requests[s].got = Mine(m, u)
  BY DEF IInv, OneOf, At
<1>2. \A t \in Slots : Own(t, m, u)' => t = s
  BY <1>1 DEF On, Own, Moves
<1> QED BY <1>1, <1>2 DEF At

LEMMA ReactionStep ==
  ASSUME IInv, NEW s \in Slots, NEW m \in Messages, NEW u \in Users, Moves(s), Own(s, m, u),
         RequestsTyped', reactions' \subseteq AllReactions,
         ReactionsShown(m)', OneOf(m, u)',
         UNCHANGED <<row, tokens, edits, past, receipts, shown, old, started>>,
         \A x \in AllReactions : x[1] # m \/ x[2] # u => (x \in reactions' <=> x \in reactions)
  PROVE  IInv'
<1>1. crossed \subseteq crossed' /\ UNCHANGED crossed /\ On(s, m, "reactions")
  BY DEF Moves, Own
<1>2. \A n \in Messages : ~On(s, n, "text") /\ ~On(s, n, "receipts") /\ (n # m => ~On(s, n, "reactions"))
  BY <1>1 DEF On
<1>3. reactions \subseteq AllReactions
  BY DEF IInv, TypeOK, AllReactions
<1>4. ASSUME NEW n \in Messages PROVE TextAgrees(n)'
  BY <1>1, <1>2, Elsewhere, TextFrame DEF IInv
<1>5. ASSUME NEW n \in Messages, n # m PROVE ReactionsShown(n)'
  <2>1. ReactionsTo(n)' = ReactionsTo(n)
    BY <1>3, <1>5 DEF ReactionsTo
  <2> QED BY <1>1, <1>2, <1>5, <2>1, Elsewhere, ReactionsFrame DEF IInv
<1>6. ASSUME NEW n \in Messages PROVE ReceiptsShown(n)'
  BY <1>1, <1>2, Elsewhere, ReceiptsFrame DEF IInv
<1>7. ASSUME NEW n \in Messages, NEW v \in Users, ~(n = m /\ v = u) PROVE OneOf(n, v)'
  <2>1. Mine(n, v)' = Mine(n, v)
    BY <1>3, <1>7 DEF Mine
  <2>2. ~Own(s, n, v)
    BY <1>7 DEF Own, On
  <2> QED BY <1>1, <2>1, <2>2, ElsewhereOwn, OneFrame DEF IInv
<1>8. TypeOK'
  <2>1. \A t \in Slots : requests'[t] = Idle
                          \/ (requests'[t].by \in Users /\ requests'[t].msg \in Messages)
    BY Kinds DEF RequestsTyped
  <2> QED BY <1>1, <2>1 DEF IInv, TypeOK, AllReactions
<1> QED BY <1>4, <1>5, <1>6, <1>7, <1>8 DEF IInv

LEMMA SelectInv ==
  ASSUME IInv, NEW s \in Slots, SelectReaction(s)
  PROVE  IInv'
<1> USE DEF SelectReaction, Select
<1> PICK m \in Messages, u \in Users : m = requests[s].msg /\ u = requests[s].by
  BY AtReactions DEF At
<1>1. /\ requests[s] \in ReactionRequest /\ requests[s] \in Busy /\ requests[s].at = "select"
      /\ On(s, m, "reactions") /\ Own(s, m, u)
  BY AtReactions DEF At, Own
<1>2. /\ Go(s, "toggle", Mine(m, u))
      /\ UNCHANGED <<row, tokens, edits, past, reactions, receipts, shown, old, started, crossed>>
  BY DEF rest, texts
<1>3. reactions \subseteq AllReactions /\ Mine(m, u) \subseteq AllReactions
  BY DEF IInv, TypeOK, AllReactions, Mine
<1>4. Advanced(s, "toggle", Mine(m, u)) \in ReactionRequest
  BY <1>1, <1>3 DEF ReactionRequest, Advanced
<1>5. Advanced(s, "toggle", Mine(m, u)) \in Busy
  BY <1>4 DEF Busy
<1>6. /\ RequestsTyped' /\ Moves(s) /\ requests'[s] # Idle
      /\ requests'[s].at = "toggle" /\ requests'[s].got = Mine(m, u)
  <2>1. GoneOn(s, "toggle", Mine(m, u))
    BY <1>1, <1>2, <1>5, GoOn
  <2> QED BY <1>1, <1>2, <1>5, <2>1 DEF GoneOn
<1>7. Mine(m, u)' = Mine(m, u) /\ ReactionsTo(m)' = ReactionsTo(m)
  BY <1>2 DEF Mine, ReactionsTo
<1>8. ReactionsShown(m)'
  <2>1. ReactionAt(s, m) => ReactionAt(s, m)'
    BY <1>1, <1>2, <1>6, <1>7 DEF ReactionAt
  <2> QED BY <1>1, <1>6, <2>1, ReactionOwn
<1>9. OneOf(m, u)'
  BY <1>1, <1>6, <1>7, OneOwn
<1> QED BY <1>1, <1>2, <1>3, <1>6, <1>8, <1>9, ReactionStep

(* The statement that writes a reaction and goes on to read them all. *)
LEMMA ReactedInv ==
  ASSUME IInv, NEW s \in Slots, NEW m \in Messages, NEW u \in Users,
         requests[s] \in ReactionRequest, Own(s, m, u), Go(s, "get", {}),
         reactions' \subseteq AllReactions,
         \A x \in AllReactions : x[1] # m \/ x[2] # u => (x \in reactions' <=> x \in reactions),
         (/\ \A a, b \in Mine(m, u) : a = b
          /\ requests[s].at = "toggle" => requests[s].got = Mine(m, u))
           => \A a, b \in Mine(m, u)' : a = b,
         UNCHANGED <<row, tokens, edits, past, receipts, shown, old, started, crossed>>
  PROVE  IInv'
<1>1. requests[s] \in Busy /\ On(s, m, "reactions")
  BY DEF Busy, Own
<1>2. Advanced(s, "get", {}) \in ReactionRequest
  BY DEF ReactionRequest, Advanced
<1>3. Advanced(s, "get", {}) \in Busy
  BY <1>2 DEF Busy
<1>4. RequestsTyped' /\ Moves(s) /\ requests'[s] # Idle /\ requests'[s].at = "get"
  <2>1. GoneOn(s, "get", {})
    BY <1>1, <1>3, GoOn
  <2> QED BY <1>1, <1>3, <2>1 DEF GoneOn
<1>5. ReactionAt(s, m)'
  BY <1>4 DEF ReactionAt
<1>6. ReactionsShown(m)'
  BY <1>1, <1>4, <1>5, ReactionOwn
<1>7. OneOf(m, u)'
  BY <1>4, OneOwn
<1> QED BY <1>4, <1>6, <1>7, ReactionStep

LEMMA DeleteReactionInv ==
  ASSUME IInv, NEW s \in Slots, DeleteReaction(s)
  PROVE  IInv'
<1> PICK m \in Messages, u \in Users : m = requests[s].msg /\ u = requests[s].by
  BY AtReactions DEF At, DeleteReaction
<1>1. /\ requests[s] \in ReactionRequest /\ Own(s, m, u)
  BY AtReactions DEF At, Own, DeleteReaction
<1>2. /\ Go(s, "get", {}) /\ reactions' = reactions \ {<<m, u, requests[s].arg>>}
      /\ UNCHANGED <<row, tokens, edits, past, receipts, shown, old, started, crossed>>
  BY DEF DeleteReaction, rest, texts
<1>3. reactions \subseteq AllReactions
  BY DEF IInv, TypeOK, AllReactions
<1>4. \A x \in AllReactions : x[1] # m \/ x[2] # u => (x \in reactions' <=> x \in reactions)
  BY <1>2
<1>5. Mine(m, u)' \subseteq Mine(m, u)
  BY <1>2 DEF Mine
<1>6. reactions' \subseteq AllReactions
  BY <1>2, <1>3
<1>7. (\A a, b \in Mine(m, u) : a = b) => \A a, b \in Mine(m, u)' : a = b
  BY <1>5
<1> QED BY <1>1, <1>2, <1>4, <1>6, <1>7, ReactedInv

LEMMA GetReactionsInv ==
  ASSUME IInv, NEW s \in Slots, GetReactions(s)
  PROVE  IInv'
<1> USE DEF GetReactions, Query
<1> PICK m \in Messages, u \in Users : m = requests[s].msg /\ u = requests[s].by
  BY AtReactions DEF At
<1>1. /\ requests[s] \in ReactionRequest /\ requests[s] \in Busy
      /\ On(s, m, "reactions") /\ Own(s, m, u)
  BY AtReactions DEF At, Own
<1>2. /\ Go(s, "emit", {ReactionsTo(m)})
      /\ UNCHANGED <<row, tokens, edits, past, reactions, receipts, shown, old, started, crossed>>
  BY DEF rest, texts
<1>3. reactions \subseteq AllReactions /\ ReactionsTo(m) \in SUBSET AllReactions
  BY DEF IInv, TypeOK, AllReactions, ReactionsTo
<1>4. Advanced(s, "emit", {ReactionsTo(m)}) \in ReactionNews
  BY <1>1, <1>3 DEF ReactionRequest, ReactionNews, Advanced
<1>5. Advanced(s, "emit", {ReactionsTo(m)}) \in Busy
  BY <1>4 DEF Busy
<1>6. /\ RequestsTyped' /\ Moves(s) /\ requests'[s] # Idle
      /\ requests'[s].at = "emit" /\ requests'[s].got = {ReactionsTo(m)}
  <2>1. GoneOn(s, "emit", {ReactionsTo(m)})
    BY <1>1, <1>2, <1>5, GoOn
  <2> QED BY <1>1, <1>2, <1>5, <2>1 DEF GoneOn
<1>7. Mine(m, u)' = Mine(m, u) /\ ReactionsTo(m)' = ReactionsTo(m)
  BY <1>2 DEF Mine, ReactionsTo
<1>8. ReactionsShown(m)'
  <2>1. ReactionAt(s, m)'
    BY <1>6, <1>7 DEF ReactionAt
  <2> QED BY <1>1, <1>6, <2>1, ReactionOwn
<1>9. OneOf(m, u)'
  BY <1>1, <1>6, <1>7, OneOwn
<1> QED BY <1>1, <1>2, <1>3, <1>6, <1>8, <1>9, ReactionStep

(* Toggle: what is written is one reaction at most if what was selected is still so. *)
LEMMA ToggleInv ==
  ASSUME IInv, NEW s \in Slots, Toggle(s)
  PROVE  IInv'
<1> PICK m \in Messages, u \in Users : m = requests[s].msg /\ u = requests[s].by
  BY AtReactions DEF At, Toggle
<1>1. /\ requests[s] \in ReactionRequest /\ requests[s] \in Busy /\ requests[s].at = "toggle"
      /\ On(s, m, "reactions") /\ Own(s, m, u)
  BY AtReactions DEF At, Own, Toggle
<1> PICK new \in AllReactions : new = <<m, u, requests[s].arg>>
  BY <1>1 DEF ReactionRequest, AllReactions
<1> PICK mine : mine = Mine(m, u)
  OBVIOUS
<1> PICK got : got = requests[s].got
  OBVIOUS
<1>2. UNCHANGED <<row, tokens, edits, past, receipts, shown, old, started, crossed>>
  BY DEF Toggle, rest, texts
<1>3. \/ UNCHANGED reactions /\ Finish(s)
      \/ /\ Go(s, "get", {})
         /\ \E after \in SUBSET (mine \cup {new}) :
              /\ reactions' = (reactions \ mine) \cup after
              /\ got = mine /\ (\A a, b \in mine : a = b) => \A a, b \in after : a = b
  <2>1. \/ got = {} /\ (IF new \in mine THEN UNCHANGED reactions /\ Finish(s)
                        ELSE reactions' = (reactions \ mine) \cup (mine \cup {new}) /\ Go(s, "get", {}))
        \/ new \in got /\ reactions' = (reactions \ mine) \cup {} /\ Go(s, "get", {})
        \/ got \ {new} # {} /\ (IF Cardinality(mine) > 1 THEN UNCHANGED reactions /\ Finish(s)
              ELSE reactions' = (reactions \ mine) \cup {x \in {new} : mine # {}} /\ Go(s, "get", {}))
    BY DEF Toggle
  <2>2. /\ got = {} /\ got = mine => \A a, b \in mine \cup {new} : a = b
        /\ mine \cup {new} \in SUBSET (mine \cup {new})
    OBVIOUS
  <2>3. {} \in SUBSET (mine \cup {new}) /\ \A a, b \in {} : a = b
    OBVIOUS
  <2>4. /\ {x \in {new} : mine # {}} \in SUBSET (mine \cup {new})
        /\ \A a, b \in {x \in {new} : mine # {}} : a = b
    OBVIOUS
  <2> QED BY <2>1, <2>2, <2>3, <2>4
<1>4. reactions \subseteq AllReactions
  BY DEF IInv, TypeOK, AllReactions
<1>5. CASE UNCHANGED reactions /\ Finish(s)
  <2>1. RequestsTyped' /\ requests'[s] = Idle /\ \A t \in Slots \ {s} : requests'[t] = requests[t]
    BY <1>5, FinishFacts DEF IInv
  <2>2. Moves(s)
    BY <1>1, <1>2, <2>1 DEF Moves
  <2>3. Mine(m, u)' = Mine(m, u) /\ ReactionsTo(m)' = ReactionsTo(m)
    BY <1>5 DEF Mine, ReactionsTo
  <2>4. ReactionsShown(m)'
    <3>1. ReactionAt(s, m) => shown'[m].reactions = ReactionsTo(m)'
      BY <1>1, <1>2, <2>3 DEF ReactionAt
    <3> QED BY <1>1, <2>1, <2>2, <3>1, ReactionOwn
  <2>5. OneOf(m, u)'
    <3>1. requests'[s].at # "toggle"
      BY <2>1 DEF Idle
    <3> QED BY <1>1, <2>2, <2>3, <3>1, OneOwn
  <2> QED BY <1>1, <1>2, <1>4, <1>5, <2>1, <2>2, <2>4, <2>5, ReactionStep
<1>6. ASSUME NEW after \in SUBSET (mine \cup {new}), Go(s, "get", {}),
             reactions' = (reactions \ mine) \cup after,
             got = mine /\ (\A a, b \in mine : a = b) => \A a, b \in after : a = b
      PROVE  IInv'
  <2>1. mine \subseteq AllReactions /\ \A x \in mine : x[1] = m /\ x[2] = u
    BY <1>4 DEF Mine
  <2>2. new[1] = m /\ new[2] = u
    OBVIOUS
  <2>3. reactions' \subseteq AllReactions
    BY <1>4, <1>6, <2>1
  <2>4. \A x \in AllReactions : x[1] # m \/ x[2] # u => (x \in reactions' <=> x \in reactions)
    BY <1>6, <2>1, <2>2
  <2>5. Mine(m, u)' = after
    BY <1>6, <2>1, <2>2 DEF Mine
  <2>6. (/\ \A a, b \in Mine(m, u) : a = b
         /\ requests[s].at = "toggle" => requests[s].got = Mine(m, u))
          => \A a, b \in Mine(m, u)' : a = b
    BY <1>1, <1>6, <2>5
  <2> QED BY <1>1, <1>2, <1>6, <2>3, <2>4, <2>6, ReactedInv
<1> QED BY <1>3, <1>5, <1>6
-----------------------------------------------------------------------------
(* Receipts. *)

LEMMA AtReceipts ==
  ASSUME IInv, NEW s \in Slots, requests[s].at \in {"upsert", "count"}
  PROVE  /\ requests[s] \in ReceiptRequest /\ requests[s] \in Busy
         /\ requests[s].msg \in Messages /\ requests[s].by \in Users
         /\ On(s, requests[s].msg, "receipts")
<1>1. requests[s] \in Busy \cup {Idle}
  BY DEF IInv, RequestsTyped
<1>2. requests[s] \in ReceiptRequest
  BY <1>1 DEF Busy, Idle, TextRequest, DeleteRequest, ReactionRequest, ReactionNews, ReceiptRequest
<1>3. requests[s] \in Busy
  BY <1>2 DEF Busy
<1> QED BY <1>2, <1>3, Kinds DEF On

LEMMA CountsTyped ==
  ASSUME NEW m
  PROVE  Counts(m) \in AllCounts
<1>1. ASSUME NEW S \in SUBSET Users PROVE Cardinality(S) \in 0..Cardinality(Users)
  BY MessagesAssumption, FS_Subset, FS_CardinalityType
<1>2. ASSUME NEW level PROVE Count(m, level) \in 0..Cardinality(Users)
  BY <1>1 DEF Count
<1> QED BY <1>2 DEF Counts, AllCounts

LEMMA ReceiptsOwn ==
  ASSUME IInv, NEW s \in Slots, NEW m \in Messages, Moves(s), On(s, m, "receipts"),
         requests'[s] # Idle,
         At(s, "emit")' => requests'[s].got = {Counts(m)'}
  PROVE  ReceiptsShown(m)'
<1> SUFFICES ASSUME Uncrossed(m, "receipts")
             PROVE  /\ Alone(m, "receipts")'
                    /\ \A t \in Slots : On(t, m, "receipts")' /\ At(t, "emit")'
                                          => requests'[t].got = {Counts(m)'}
                    /\ (\A t \in Slots : ~On(t, m, "receipts")') => shown'[m].counts = Counts(m)'
  BY DEF ReceiptsShown, Uncrossed, Moves
<1>1. \A t \in Slots : On(t, m, "receipts") => t = s
  BY DEF IInv, ReceiptsShown, Alone
<1>2. \A t \in Slots : On(t, m, "receipts")' => t = s
  BY <1>1 DEF On, Moves
<1>3. On(s, m, "receipts")'
  BY DEF On, Moves
<1> QED BY <1>2, <1>3 DEF Alone

LEMMA ReceiptStep ==
  ASSUME IInv, NEW s \in Slots, NEW m \in Messages, Moves(s), On(s, m, "receipts"),
         RequestsTyped', receipts' \in [Messages -> [Users -> DOMAIN Ranks]],
         ReceiptsShown(m)',
         UNCHANGED <<row, tokens, edits, past, reactions, shown, old, started>>,
         \A n \in Messages \ {m} : receipts'[n] = receipts[n]
  PROVE  IInv'
<1>1. crossed \subseteq crossed' /\ UNCHANGED crossed
  BY DEF Moves
<1>2. \A n \in Messages : ~On(s, n, "text") /\ ~On(s, n, "reactions") /\ (n # m => ~On(s, n, "receipts"))
  BY <1>1 DEF On
<1>3. ASSUME NEW n \in Messages PROVE TextAgrees(n)'
  BY <1>1, <1>2, Elsewhere, TextFrame DEF IInv
<1>4. ASSUME NEW n \in Messages PROVE ReactionsShown(n)'
  <2>1. ReactionsTo(n)' = ReactionsTo(n)
    BY DEF ReactionsTo
  <2> QED BY <1>1, <1>2, <2>1, Elsewhere, ReactionsFrame DEF IInv
<1>5. ASSUME NEW n \in Messages, n # m PROVE ReceiptsShown(n)'
  BY <1>1, <1>2, <1>5, Elsewhere, ReceiptsFrame DEF IInv
<1>6. ASSUME NEW n \in Messages, NEW v \in Users PROVE OneOf(n, v)'
  <2>1. Mine(n, v)' = Mine(n, v)
    BY DEF Mine
  <2>2. ~Own(s, n, v)
    BY <1>2 DEF Own
  <2> QED BY <1>1, <2>1, <2>2, ElsewhereOwn, OneFrame DEF IInv
<1>7. TypeOK'
  <2>1. \A t \in Slots : requests'[t] = Idle
                          \/ (requests'[t].by \in Users /\ requests'[t].msg \in Messages)
    BY Kinds DEF RequestsTyped
  <2> QED BY <1>1, <2>1 DEF IInv, TypeOK
<1> QED BY <1>3, <1>4, <1>5, <1>6, <1>7 DEF IInv

LEMMA AddReceiptInv ==
  ASSUME IInv, NEW s \in Slots, AddReceipt(s)
  PROVE  IInv'
<1> USE DEF AddReceipt, Upsert
<1> PICK m \in Messages, u \in Users : m = requests[s].msg /\ u = requests[s].by
  BY AtReceipts DEF At
<1>1. /\ requests[s] \in ReceiptRequest /\ requests[s] \in Busy /\ On(s, m, "receipts")
  BY AtReceipts DEF At
<1> PICK level \in DOMAIN Ranks :
      level = IF receipts[m][u] = "read" THEN "read" ELSE requests[s].arg
  BY <1>1 DEF Ranks, ReceiptRequest
<1>2. /\ Go(s, "count", {}) /\ receipts' = [receipts EXCEPT ![m][u] = level]
      /\ UNCHANGED <<row, tokens, edits, past, reactions, shown, old, started, crossed>>
  BY DEF rest, texts
<1>3. Advanced(s, "count", {}) \in ReceiptRequest
  BY <1>1 DEF ReceiptRequest, Advanced
<1>4. Advanced(s, "count", {}) \in Busy
  BY <1>3 DEF Busy
<1>5. RequestsTyped' /\ Moves(s) /\ requests'[s] # Idle /\ requests'[s].at = "count"
  <2>1. GoneOn(s, "count", {})
    BY <1>1, <1>2, <1>4, GoOn
  <2> QED BY <1>1, <1>2, <1>4, <2>1 DEF GoneOn
<1>6. receipts \in [Messages -> [Users -> DOMAIN Ranks]]
  BY DEF IInv, TypeOK
<1>7. /\ receipts' \in [Messages -> [Users -> DOMAIN Ranks]]
      /\ \A n \in Messages \ {m} : receipts'[n] = receipts[n]
  BY <1>2, <1>6
<1>8. ReceiptsShown(m)'
  BY <1>1, <1>5, ReceiptsOwn DEF At
<1> QED BY <1>1, <1>2, <1>5, <1>7, <1>8, ReceiptStep

LEMMA GetReceiptCountsInv ==
  ASSUME IInv, NEW s \in Slots, GetReceiptCounts(s)
  PROVE  IInv'
<1> USE DEF GetReceiptCounts, Query
<1> PICK m \in Messages : m = requests[s].msg
  BY AtReceipts DEF At
<1>1. /\ requests[s] \in ReceiptRequest /\ requests[s] \in Busy /\ On(s, m, "receipts")
  BY AtReceipts DEF At
<1>2. /\ Go(s, "emit", {Counts(m)})
      /\ UNCHANGED <<row, tokens, edits, past, reactions, receipts, shown, old, started, crossed>>
  BY DEF rest, texts
<1>3. Advanced(s, "emit", {Counts(m)}) \in ReceiptRequest
  BY <1>1, CountsTyped DEF ReceiptRequest, Advanced
<1>4. Advanced(s, "emit", {Counts(m)}) \in Busy
  BY <1>3 DEF Busy
<1>5. RequestsTyped' /\ Moves(s) /\ requests'[s] # Idle /\ requests'[s].got = {Counts(m)}
  <2>1. GoneOn(s, "emit", {Counts(m)})
    BY <1>1, <1>2, <1>4, GoOn
  <2> QED BY <1>1, <1>2, <1>4, <2>1 DEF GoneOn
<1>6. Counts(m)' = Counts(m)
  BY <1>2 DEF Counts, Count
<1>7. ReceiptsShown(m)'
  BY <1>1, <1>5, <1>6, ReceiptsOwn
<1>8. receipts' \in [Messages -> [Users -> DOMAIN Ranks]]
  BY <1>2 DEF IInv, TypeOK
<1> QED BY <1>1, <1>2, <1>5, <1>7, <1>8, ReceiptStep
-----------------------------------------------------------------------------
(* The news, and what starts and ages. *)

(* The news change what the clients know of the request's topic and message, and end it. *)
LEMMA NewsFacts ==
  ASSUME IInv, NEW s \in Slots, EmitNews(s)
  PROVE  /\ requests[s] \in Busy /\ requests[s].msg \in Messages
         /\ UNCHANGED <<row, tokens, edits, past, reactions, receipts, old, started, crossed>>
         /\ RequestsTyped' /\ requests'[s] = Idle /\ Moves(s)
         /\ shown' \in [Messages -> [body : Bodies \cup {Nothing}, reactions : SUBSET AllReactions,
                                     counts : AllCounts]]
         /\ \A n \in Messages :
              /\ IF On(s, n, "text") THEN shown'[n].body \in requests[s].got
                                     ELSE shown'[n].body = shown[n].body
              /\ IF On(s, n, "reactions") THEN shown'[n].reactions \in requests[s].got
                                          ELSE shown'[n].reactions = shown[n].reactions
              /\ IF On(s, n, "receipts") THEN shown'[n].counts \in requests[s].got
                                         ELSE shown'[n].counts = shown[n].counts
<1>1. requests[s] \in Busy
  BY DEF IInv, RequestsTyped, EmitNews, At, Idle
<1> PICK r \in Busy : r = requests[s]
  BY <1>1
<1>2. r.msg \in Messages /\ r.at = "emit"
  BY Kinds DEF EmitNews, At
<1>3. UNCHANGED <<row, tokens, edits, past, reactions, receipts, old, started, crossed>>
  BY DEF EmitNews, rest, texts
<1>4. RequestsTyped' /\ requests'[s] = Idle /\ \A t \in Slots \ {s} : requests'[t] = requests[t]
  BY FinishFacts DEF EmitNews, IInv
<1>5. Moves(s)
  BY <1>1, <1>3, <1>4 DEF Moves
<1> PICK m \in Messages : m = r.msg
  BY <1>2
<1> PICK news \in r.got :
      shown' = CASE Topic(r.kind) = "text" -> [shown EXCEPT ![m].body = news]
                 [] Topic(r.kind) = "reactions" -> [shown EXCEPT ![m].reactions = news]
                 [] OTHER -> [shown EXCEPT ![m].counts = news]
  BY DEF EmitNews
<1> DEFINE Known == [body : Bodies \cup {Nothing}, reactions : SUBSET AllReactions, counts : AllCounts]
<1>6. shown \in [Messages -> Known]
  BY DEF IInv, TypeOK, AllReactions, AllCounts
<1> PICK k \in Known : k = shown[m]
  BY <1>6
<1>7. \A n \in Messages : \A topic : On(s, n, topic) <=> n = m /\ topic = Topic(r.kind)
  BY DEF On
<1>8. CASE Topic(r.kind) = "text"
  <2>1. news \in Bodies \cup {Nothing}
    <3>1. r \in TextRequest \cup DeleteRequest
      BY <1>8, Kinds
    <3> QED BY <3>1 DEF TextRequest, DeleteRequest
  <2>2. shown' = [shown EXCEPT ![m] = [k EXCEPT !.body = news]]
    BY <1>8
  <2> PICK w \in Known : w = [k EXCEPT !.body = news]
    BY <2>1
  <2>3. w.body = news /\ w.reactions = k.reactions /\ w.counts = k.counts
    OBVIOUS
  <2>4. shown' = [shown EXCEPT ![m] = w]
    BY <2>2
  <2> HIDE DEF Known
  <2>5. shown' \in [Messages -> Known] /\ shown'[m] = w /\ \A n \in Messages : n # m => shown'[n] = shown[n]
    <3>1. shown \in [Messages -> Known]
      BY <1>6 DEF Known
    <3> QED BY <2>4, <3>1
  <2>6. ASSUME NEW n \in Messages
        PROVE  /\ IF On(s, n, "text") THEN shown'[n].body \in r.got ELSE shown'[n].body = shown[n].body
               /\ ~On(s, n, "reactions") /\ shown'[n].reactions = shown[n].reactions
               /\ ~On(s, n, "receipts") /\ shown'[n].counts = shown[n].counts
    BY <1>7, <1>8, <2>3, <2>5
  <2> QED BY <1>1, <1>2, <1>3, <1>4, <1>5, <2>5, <2>6 DEF Known
<1>9. CASE Topic(r.kind) = "reactions"
  <2>1. news \in SUBSET AllReactions
    <3>1. r \in ReactionNews
      BY <1>2, <1>9, Kinds DEF ReactionRequest
    <3> QED BY <3>1 DEF ReactionNews
  <2>2. shown' = [shown EXCEPT ![m] = [k EXCEPT !.reactions = news]]
    BY <1>9
  <2> PICK w \in Known : w = [k EXCEPT !.reactions = news]
    BY <2>1
  <2>3. w.body = k.body /\ w.reactions = news /\ w.counts = k.counts
    OBVIOUS
  <2>4. shown' = [shown EXCEPT ![m] = w]
    BY <2>2
  <2> HIDE DEF Known
  <2>5. shown' \in [Messages -> Known] /\ shown'[m] = w /\ \A n \in Messages : n # m => shown'[n] = shown[n]
    <3>1. shown \in [Messages -> Known]
      BY <1>6 DEF Known
    <3> QED BY <2>4, <3>1
  <2>6. ASSUME NEW n \in Messages
        PROVE  /\ ~On(s, n, "text") /\ shown'[n].body = shown[n].body
               /\ IF On(s, n, "reactions") THEN shown'[n].reactions \in r.got
                                           ELSE shown'[n].reactions = shown[n].reactions
               /\ ~On(s, n, "receipts") /\ shown'[n].counts = shown[n].counts
    BY <1>7, <1>9, <2>3, <2>5
  <2> QED BY <1>1, <1>2, <1>3, <1>4, <1>5, <2>5, <2>6 DEF Known
<1>10. CASE Topic(r.kind) \notin {"text", "reactions"}
  <2>1. r \in ReceiptRequest /\ Topic(r.kind) = "receipts"
    BY <1>10, Kinds DEF Busy
  <2>2. news \in AllCounts
    BY <2>1 DEF ReceiptRequest
  <2>3. shown' = [shown EXCEPT ![m] = [k EXCEPT !.counts = news]]
    BY <1>10
  <2> PICK w \in Known : w = [k EXCEPT !.counts = news]
    BY <2>2
  <2>4. w.body = k.body /\ w.reactions = k.reactions /\ w.counts = news
    OBVIOUS
  <2>5. shown' = [shown EXCEPT ![m] = w]
    BY <2>3
  <2>6. shown' \in [Messages -> Known] /\ shown'[m] = w /\ \A n \in Messages : n # m => shown'[n] = shown[n]
    BY <1>6, <2>5
  <2> HIDE DEF Known
  <2>7. ASSUME NEW n \in Messages
        PROVE  /\ ~On(s, n, "text") /\ shown'[n].body = shown[n].body
               /\ ~On(s, n, "reactions") /\ shown'[n].reactions = shown[n].reactions
               /\ IF On(s, n, "receipts") THEN shown'[n].counts \in r.got
                                          ELSE shown'[n].counts = shown[n].counts
    BY <1>7, <2>1, <2>4, <2>6
  <2> QED BY <1>1, <1>2, <1>3, <1>4, <1>5, <2>6, <2>7 DEF Known
<1> QED BY <1>8, <1>9, <1>10

LEMMA EmitNewsInv ==
  ASSUME IInv, NEW s \in Slots, EmitNews(s)
  PROVE  IInv'
<1>1. /\ requests[s] \in Busy /\ requests[s].msg \in Messages
      /\ UNCHANGED <<row, tokens, edits, past, reactions, receipts, old, started, crossed>>
      /\ RequestsTyped' /\ requests'[s] = Idle /\ Moves(s)
      /\ shown' \in [Messages -> [body : Bodies \cup {Nothing}, reactions : SUBSET AllReactions,
                                  counts : AllCounts]]
  BY NewsFacts
<1>2. \A n \in Messages :
        /\ IF On(s, n, "text") THEN shown'[n].body \in requests[s].got
                               ELSE shown'[n].body = shown[n].body
        /\ IF On(s, n, "reactions") THEN shown'[n].reactions \in requests[s].got
                                    ELSE shown'[n].reactions = shown[n].reactions
        /\ IF On(s, n, "receipts") THEN shown'[n].counts \in requests[s].got
                                   ELSE shown'[n].counts = shown[n].counts
  BY NewsFacts
<1>3. requests[s].at = "emit"
  BY DEF EmitNews, At
<1>4. crossed \subseteq crossed'
  BY <1>1
<1>5. ASSUME NEW n \in Messages PROVE TextAgrees(n)'
  <2>1. CASE On(s, n, "text")
    <3>1. TextAt(s, n) => Clean(n)'
      BY <1>1, <1>2, <1>3, <2>1 DEF TextAt, Written, Clean
    <3> QED BY <1>1, <2>1, <3>1, TextOwn
  <2>2. CASE ~On(s, n, "text")
    BY <1>1, <1>2, <1>4, <2>2, Elsewhere, TextFrame DEF IInv
  <2> QED BY <2>1, <2>2
<1>6. ASSUME NEW n \in Messages PROVE ReactionsShown(n)'
  <2>1. ReactionsTo(n)' = ReactionsTo(n)
    BY <1>1 DEF ReactionsTo
  <2>2. CASE On(s, n, "reactions")
    <3>1. ReactionAt(s, n) => shown'[n].reactions = ReactionsTo(n)'
      BY <1>2, <1>3, <2>1, <2>2 DEF ReactionAt
    <3> QED BY <1>1, <2>2, <3>1, ReactionOwn
  <2>3. CASE ~On(s, n, "reactions")
    BY <1>1, <1>2, <1>4, <2>1, <2>3, Elsewhere, ReactionsFrame DEF IInv
  <2> QED BY <2>2, <2>3
<1>7. ASSUME NEW n \in Messages, NEW v \in Users PROVE OneOf(n, v)'
  <2>1. Mine(n, v)' = Mine(n, v)
    BY <1>1 DEF Mine
  <2>2. CASE Own(s, n, v)
    <3>1. requests'[s].at # "toggle"
      BY <1>1 DEF Idle
    <3> QED BY <1>1, <2>1, <2>2, <3>1, OneOwn
  <2>3. CASE ~Own(s, n, v)
    BY <1>1, <1>4, <2>1, <2>3, ElsewhereOwn, OneFrame DEF IInv
  <2> QED BY <2>2, <2>3
<1>8. ASSUME NEW n \in Messages PROVE ReceiptsShown(n)'
  <2>1. Counts(n)' = Counts(n)
    BY <1>1 DEF Counts, Count
  <2>2. CASE On(s, n, "receipts")
    <3> SUFFICES ASSUME Uncrossed(n, "receipts")
                 PROVE  /\ Alone(n, "receipts")'
                        /\ \A t \in Slots : ~On(t, n, "receipts")'
                        /\ shown'[n].counts = Counts(n)'
      BY <1>1 DEF ReceiptsShown, Uncrossed
    <3>1. requests[s].got = {Counts(n)} /\ \A t \in Slots : On(t, n, "receipts") => t = s
      BY <1>3, <2>2 DEF IInv, ReceiptsShown, Alone, At
    <3>2. ~On(s, n, "receipts")'
      BY <1>1, MessagesAssumption DEF On, Idle
    <3>3. \A t \in Slots : ~On(t, n, "receipts")'
      BY <1>1, <3>1, <3>2 DEF On, Moves
    <3> QED BY <1>2, <2>1, <2>2, <3>1, <3>3 DEF Alone
  <2>3. CASE ~On(s, n, "receipts")
    BY <1>1, <1>2, <1>4, <2>3, Elsewhere, ReceiptsFrame DEF IInv
  <2> QED BY <2>2, <2>3
<1>9. TypeOK'
  <2>1. \A t \in Slots : requests'[t] = Idle
                          \/ (requests'[t].by \in Users /\ requests'[t].msg \in Messages)
    BY <1>1, Kinds DEF RequestsTyped
  <2> QED BY <1>1, <2>1 DEF IInv, TypeOK, AllReactions, AllCounts
<1> QED BY <1>1, <1>5, <1>6, <1>7, <1>8, <1>9 DEF IInv

(* A step that changes neither requests nor tables. *)
LEMMA QuietInv ==
  ASSUME IInv, TypeOK',
         UNCHANGED <<row, tokens, edits, past, reactions, receipts, shown, requests, crossed>>
  PROVE  IInv'
<1>1. \A t \in Slots, n \in Messages : \A topic :
        (On(t, n, topic)' <=> On(t, n, topic)) /\ requests'[t] = requests[t]
  BY DEF On
<1>2. \A n \in Messages, u \in Users, t \in Slots :
        (Own(t, n, u)' <=> Own(t, n, u)) /\ Mine(n, u)' = Mine(n, u)
  BY DEF On, Own, Mine
<1>3. \A n \in Messages : ReactionsTo(n)' = ReactionsTo(n)
  BY DEF ReactionsTo
<1>4. \A n \in Messages : TextAgrees(n)'
  BY <1>1, TextFrame DEF IInv
<1>5. \A n \in Messages : ReactionsShown(n)'
  BY <1>1, <1>3, ReactionsFrame DEF IInv
<1>6. \A n \in Messages : ReceiptsShown(n)'
  BY <1>1, ReceiptsFrame DEF IInv
<1>7. ASSUME NEW n \in Messages, NEW u \in Users PROVE OneOf(n, u)'
  <2>1. Mine(n, u)' = Mine(n, u)
    BY DEF Mine
  <2> QED BY <1>2, <2>1, OneFrame DEF IInv
<1> QED BY <1>4, <1>5, <1>6, <1>7 DEF IInv, RequestsTyped

(* A request that arrives crosses those it finds on its topic, or finds none. *)
LEMMA RequestInv ==
  ASSUME IInv, NEW s \in Slots, NEW kind, NEW u \in Users, NEW m \in Messages, NEW arg,
         NEW at \in {"insert", "check", "select", "remove", "upsert"},
         Request(s, kind, u, m, arg, at),
         [kind |-> kind, at |-> at, by |-> u, msg |-> m, arg |-> arg, got |-> {}] \in Busy
  PROVE  IInv'
<1> PICK q \in Busy : q = [kind |-> kind, at |-> at, by |-> u, msg |-> m, arg |-> arg, got |-> {}]
  OBVIOUS
<1> PICK topic : topic = Topic(kind)
  OBVIOUS
<1>1. /\ requests[s] = Idle /\ requests' = [requests EXCEPT ![s] = q]
      /\ crossed' = crossed \cup {<<m, topic, u, requests[t].by>> : t \in {x \in Slots : On(x, m, topic)}}
      /\ UNCHANGED <<row, tokens, edits, past, old, reactions, receipts, shown>>
      /\ started < MaxRequests /\ started' = started + 1
  BY DEF Request, On, texts
<1>2. topic \in {"text", "reactions", "receipts"}
  BY DEF Topic
<1>3. /\ RequestsTyped' /\ requests'[s] = q /\ q # Idle
      /\ \A t \in Slots \ {s} : requests'[t] = requests[t]
  BY <1>1, Kinds DEF IInv, RequestsTyped
<1>4. \A t \in Slots : On(t, m, topic) => requests[t].by \in Users
  BY IdleIsOnNothing, Kinds DEF IInv, RequestsTyped
<1>5. crossed \subseteq crossed'
  BY <1>1
<1>6. Uncrossed(m, topic)' => Uncrossed(m, topic) /\ \A t \in Slots : ~On(t, m, topic)
  <2>1. ASSUME NEW t \in Slots, On(t, m, topic) PROVE ~Uncrossed(m, topic)'
    <3>1. <<m, topic, u, requests[t].by>> \in crossed' /\ requests[t].by \in Users
      BY <1>1, <1>4, <2>1
    <3> QED BY <3>1 DEF Uncrossed
  <2> QED BY <1>5, <2>1 DEF Uncrossed
<1>7. \A n \in Messages : \A p : /\ ~On(s, n, p)
                                 /\ On(s, n, p)' <=> n = m /\ p = topic
  BY <1>1, <1>3, IdleIsOnNothing DEF On
<1>8. \A t \in Slots \ {s}, n \in Messages : \A p :
        (On(t, n, p)' <=> On(t, n, p)) /\ requests'[t] = requests[t]
  BY <1>3 DEF On
<1>9. ASSUME NEW n \in Messages, NEW p, ~(n = m /\ p = topic)
      PROVE  \A t \in Slots : /\ On(t, n, p)' <=> On(t, n, p)
                              /\ On(t, n, p) => requests'[t] = requests[t]
  <2>1. ~On(s, n, p)
    BY <1>7
  <2>2. ~On(s, n, p)'
    BY <1>7, <1>9
  <2>3. ASSUME NEW t \in Slots, t # s PROVE (On(t, n, p)' <=> On(t, n, p)) /\ requests'[t] = requests[t]
    BY <1>8, <2>3
  <2> QED BY <2>1, <2>2, <2>3
<1>10. ASSUME Uncrossed(m, topic)' PROVE \A t, w \in Slots : On(t, m, topic)' /\ On(w, m, topic)' => t = w
  BY <1>6, <1>8, <1>10
<1>11. requests'[s].at = at /\ requests'[s].msg = m /\ requests'[s].by = u
  BY <1>3
<1>12. ASSUME NEW n \in Messages PROVE TextAgrees(n)'
  <2>1. CASE n = m /\ topic = "text"
    <3> SUFFICES ASSUME Uncrossed(m, "text")'
                 PROVE  /\ Alone(m, "text")'
                        /\ \A t \in Slots : On(t, m, "text")' => TextAt(t, m)'
                        /\ (\A t \in Slots : ~On(t, m, "text")') => Clean(m)'
      BY <2>1 DEF TextAgrees
    <3>1. Clean(m)
      BY <1>6, <2>1 DEF IInv, TextAgrees
    <3>2. Clean(m)'
      BY <1>1, <3>1 DEF Clean
    <3>3. \A t \in Slots : On(t, m, "text")' => t = s
      BY <1>6, <1>8, <2>1
    <3>4. TextAt(s, m)'
      BY <1>11, <3>2 DEF TextAt
    <3> QED BY <3>2, <3>3, <3>4 DEF Alone
  <2>2. CASE ~(n = m /\ topic = "text")
    BY <1>1, <1>5, <1>9, <2>2, TextFrame DEF IInv
  <2> QED BY <2>1, <2>2
<1>13. ASSUME NEW n \in Messages PROVE ReactionsShown(n)'
  <2>1. ReactionsTo(n)' = ReactionsTo(n)
    BY <1>1 DEF ReactionsTo
  <2>2. CASE n = m /\ topic = "reactions"
    <3> SUFFICES ASSUME Uncrossed(m, "reactions")'
                 PROVE  /\ Alone(m, "reactions")'
                        /\ \A t \in Slots : On(t, m, "reactions")' => ReactionAt(t, m)'
                        /\ shown'[m].reactions = ReactionsTo(m)'
      BY <2>2 DEF ReactionsShown
    <3>1. shown'[m].reactions = ReactionsTo(m)'
      BY <1>1, <1>6, <2>1, <2>2 DEF IInv, ReactionsShown
    <3>2. \A t \in Slots : On(t, m, "reactions")' => t = s
      BY <1>6, <1>8, <2>2
    <3>3. ReactionAt(s, m)'
      BY <1>11, <3>1 DEF ReactionAt
    <3> QED BY <3>1, <3>2, <3>3 DEF Alone
  <2>3. CASE ~(n = m /\ topic = "reactions")
    BY <1>1, <1>5, <1>9, <2>1, <2>3, ReactionsFrame DEF IInv
  <2> QED BY <2>2, <2>3
<1>14. ASSUME NEW n \in Messages PROVE ReceiptsShown(n)'
  <2>1. CASE n = m /\ topic = "receipts"
    <3> SUFFICES ASSUME Uncrossed(m, "receipts")'
                 PROVE  /\ Alone(m, "receipts")'
                        /\ \A t \in Slots : On(t, m, "receipts")' => ~At(t, "emit")'
                        /\ ~(\A t \in Slots : ~On(t, m, "receipts")')
      BY <2>1 DEF ReceiptsShown
    <3>1. \A t \in Slots : On(t, m, "receipts")' => t = s
      BY <1>6, <1>8, <2>1
    <3>2. ~At(s, "emit")'
      BY <1>11 DEF At
    <3> QED BY <1>7, <2>1, <3>1, <3>2 DEF Alone
  <2>2. CASE ~(n = m /\ topic = "receipts")
    BY <1>1, <1>5, <1>9, <2>2, ReceiptsFrame DEF IInv
  <2> QED BY <2>1, <2>2
<1>15. ASSUME NEW n \in Messages, NEW v \in Users PROVE OneOf(n, v)'
  <2>1. Mine(n, v)' = Mine(n, v)
    BY <1>1 DEF Mine
  <2>2. \A t \in Slots \ {s} : (Own(t, n, v)' <=> Own(t, n, v)) /\ requests'[t] = requests[t]
    BY <1>8 DEF Own
  <2>3. ~Own(s, n, v) /\ (Own(s, n, v)' <=> n = m /\ v = u /\ topic = "reactions")
    <3>1. ~On(s, n, "reactions") /\ (On(s, n, "reactions")' <=> n = m /\ topic = "reactions")
      BY <1>7
    <3> QED BY <1>11, <3>1 DEF Own
  <2>4. CASE n = m /\ v = u /\ topic = "reactions"
    <3> SUFFICES ASSUME <<m, "reactions", u, u>> \notin crossed'
                 PROVE  /\ \A t, w \in Slots : Own(t, m, u)' /\ Own(w, m, u)' => t = w
                        /\ \A a, b \in Mine(m, u)' : a = b
                        /\ \A t \in Slots : Own(t, m, u)' => ~At(t, "toggle")'
      BY <2>4 DEF OneOf
    <3>1. \A t \in Slots : ~Own(t, m, u)
      BY <1>1, <2>4 DEF Own
    <3>2. \A a, b \in Mine(m, u) : a = b
      BY <1>5, <2>4 DEF IInv, OneOf
    <3>3. ~At(s, "toggle")'
      BY <1>11 DEF At
    <3> QED BY <2>1, <2>2, <2>4, <3>1, <3>2, <3>3
  <2>5. CASE ~(n = m /\ v = u /\ topic = "reactions")
    <3>1. \A t \in Slots : /\ Own(t, n, v)' <=> Own(t, n, v)
                           /\ Own(t, n, v) => requests'[t] = requests[t]
      BY <2>2, <2>3, <2>5
    <3> QED BY <1>5, <2>1, <3>1, OneFrame DEF IInv
  <2> QED BY <2>4, <2>5
<1>16. TypeOK'
  <2>1. crossed' \subseteq Messages \X {"text", "reactions", "receipts"} \X Users \X Users
    BY <1>1, <1>2, <1>4 DEF IInv, TypeOK
  <2>2. started' \in 0..MaxRequests
    BY <1>1, MessagesAssumption DEF IInv, TypeOK
  <2>3. \A t \in Slots : requests'[t] = Idle
                          \/ (requests'[t].by \in Users /\ requests'[t].msg \in Messages)
    BY <1>3, Kinds DEF RequestsTyped
  <2> QED BY <1>1, <2>1, <2>2, <2>3 DEF IInv, TypeOK
<1> QED BY <1>3, <1>12, <1>13, <1>14, <1>15, <1>16 DEF IInv

LEMMA ArriveInv ==
  ASSUME IInv, NEW s \in Slots, Arrive(s)
  PROVE  IInv'
<1> PICK u \in Users, m \in Messages :
      \/ \E b \in Bodies : Send(s, u, m, b) \/ Edit(s, u, m, b)
      \/ Delete(s, u, m)
      \/ \E e \in Emojis : AddReaction(s, u, m, e) \/ RemoveReaction(s, u, m, e)
      \/ \E level \in {"delivered", "read"} : Acknowledge(s, u, m, level)
  BY DEF Arrive
<1>1. ASSUME NEW b \in Bodies, Send(s, u, m, b) PROVE IInv'
  <2>1. [kind |-> "send", at |-> "insert", by |-> u, msg |-> m, arg |-> b, got |-> {}] \in Busy
    BY DEF Busy, TextRequest
  <2> QED BY <1>1, <2>1, RequestInv DEF Send
<1>2. ASSUME NEW b \in Bodies, Edit(s, u, m, b) PROVE IInv'
  <2>1. [kind |-> "edit", at |-> "check", by |-> u, msg |-> m, arg |-> b, got |-> {}] \in Busy
    BY DEF Busy, TextRequest
  <2> QED BY <1>2, <2>1, RequestInv DEF Edit
<1>3. ASSUME Delete(s, u, m) PROVE IInv'
  <2>1. [kind |-> "delete", at |-> "check", by |-> u, msg |-> m, arg |-> Nothing, got |-> {}] \in Busy
    BY DEF Busy, DeleteRequest
  <2> QED BY <1>3, <2>1, RequestInv DEF Delete
<1>4. ASSUME NEW e \in Emojis, AddReaction(s, u, m, e) PROVE IInv'
  <2>1. [kind |-> "react", at |-> "select", by |-> u, msg |-> m, arg |-> e, got |-> {}] \in Busy
    BY DEF Busy, ReactionRequest
  <2> QED BY <1>4, <2>1, RequestInv DEF AddReaction
<1>5. ASSUME NEW e \in Emojis, RemoveReaction(s, u, m, e) PROVE IInv'
  <2>1. [kind |-> "unreact", at |-> "remove", by |-> u, msg |-> m, arg |-> e, got |-> {}] \in Busy
    BY DEF Busy, ReactionRequest
  <2> QED BY <1>5, <2>1, RequestInv DEF RemoveReaction
<1>6. ASSUME NEW level \in {"delivered", "read"}, Acknowledge(s, u, m, level) PROVE IInv'
  <2>1. [kind |-> level, at |-> "upsert", by |-> u, msg |-> m, arg |-> level, got |-> {}] \in Busy
    BY DEF Busy, ReceiptRequest
  <2> QED BY <1>6, <2>1, RequestInv DEF Acknowledge
<1> QED BY <1>1, <1>2, <1>3, <1>4, <1>5, <1>6
-----------------------------------------------------------------------------
(* The invariant holds at first and at every step. *)

LEMMA InitIInv == Init => IInv
<1> SUFFICES ASSUME Init PROVE IInv
  OBVIOUS
<1>1. RequestsTyped /\ \A s \in Slots : requests[s] = Idle
  BY DEF Init, RequestsTyped
<1>2. \A s \in Slots, m \in Messages : \A p : ~On(s, m, p)
  BY <1>1, IdleIsOnNothing
<1>3. Cardinality(Users) \in Nat
  BY MessagesAssumption, FS_CardinalityType
<1>4. TypeOK
  <2>1. /\ row \in [Messages -> [sender : Users \cup {"none"}, body : Bodies \cup {Nothing}, deleted : BOOLEAN]]
        /\ tokens \in [Messages -> SUBSET Bodies]
        /\ edits \in [Messages -> SUBSET Bodies]
        /\ past \in [Messages -> SUBSET Bodies]
    BY DEF Init
  <2>2. receipts \in [Messages -> [Users -> DOMAIN Ranks]]
    BY DEF Init, Ranks
  <2>3. shown \in [Messages -> [body : Bodies \cup {Nothing}, reactions : SUBSET AllReactions, counts : AllCounts]]
    BY <1>3 DEF Init, AllCounts
  <2> QED BY <1>1, <2>1, <2>2, <2>3, MessagesAssumption DEF Init, TypeOK, AllReactions, AllCounts
<1>5. ASSUME NEW m \in Messages PROVE TextAgrees(m)
  <2>1. Clean(m)
    BY DEF Init, Clean
  <2> QED BY <1>2, <2>1 DEF TextAgrees, Alone
<1>6. ASSUME NEW m \in Messages PROVE ReactionsShown(m)
  <2>1. shown[m].reactions = ReactionsTo(m)
    BY DEF Init, ReactionsTo
  <2> QED BY <1>2, <2>1 DEF ReactionsShown, Alone
<1>7. ASSUME NEW m \in Messages PROVE ReceiptsShown(m)
  <2>1. \A level \in {"delivered", "read"} : Count(m, level) = 0
    <3>1. ASSUME NEW level \in {"delivered", "read"}
          PROVE  {u \in Users : Ranks[receipts[m][u]] >= Ranks[level]} = {}
      BY DEF Init, Ranks
    <3> QED BY <3>1, FS_EmptySet DEF Count
  <2>2. shown[m].counts = Counts(m)
    BY <2>1 DEF Init, Counts
  <2> QED BY <1>2, <2>2 DEF ReceiptsShown, Alone
<1>8. ASSUME NEW m \in Messages, NEW u \in Users PROVE OneOf(m, u)
  BY <1>2 DEF OneOf, Own, Mine, Init
<1> QED BY <1>1, <1>4, <1>5, <1>6, <1>7, <1>8 DEF IInv

LEMMA NextIInv == IInv /\ [Next]_vars => IInv'
<1> SUFFICES ASSUME IInv, [Next]_vars PROVE IInv'
  OBVIOUS
<1>1. CASE UNCHANGED vars
  <2>1. TypeOK'
    BY <1>1 DEF IInv, TypeOK, vars
  <2> QED BY <1>1, <2>1, QuietInv DEF vars
<1>2. ASSUME NEW m \in Messages, GrowOld(m) PROVE IInv'
  <2>1. TypeOK'
    BY <1>2 DEF IInv, TypeOK, GrowOld, texts
  <2> QED BY <1>2, <2>1, QuietInv DEF GrowOld, texts
<1>3. ASSUME NEW s \in Slots, Arrive(s) PROVE IInv'
  BY <1>3, ArriveInv
<1>4. ASSUME NEW s \in Slots, Step(s) PROVE IInv'
  BY <1>4, InsertInv, CheckInv, SaveHistoryInv, WriteBodyInv, SoftDeleteInv, RemoveTokensInv,
     AddTokensInv, SelectInv, ToggleInv, DeleteReactionInv, GetReactionsInv, AddReceiptInv,
     GetReceiptCountsInv, EmitNewsInv DEF Step
<1> QED BY <1>1, <1>2, <1>3, <1>4 DEF Next

(* The invariant, however the statements of the requests interleave. *)
THEOREM Invariance == Spec => []IInv
<1> QED BY InitIInv, NextIInv, PTL DEF Spec

(* Every table and every news keeps its type: in particular a body that is taken away by a
   deletion is never indexed, and no count exceeds the members. *)
THEOREM TypeCorrect == Spec => []TypeOK
<1>1. IInv => TypeOK
  BY DEF IInv
<1> QED BY <1>1, Invariance, PTL

(* What message.service leaves in the tables agrees: a message that nobody is changing has
   its words and no others in the index, none and no body if it was deleted, and its former
   bodies in the history; and a user has one reaction to it - unless two requests on the
   same side of it crossed. *)
THEOREM TablesAlwaysAgree == Spec => []TablesAgree
<1>1. ASSUME IInv PROVE TablesAgree
  <2>1. ASSUME NEW m \in Messages, Settled(m, "text") PROVE Clean(m)
    BY <1>1, <2>1 DEF Settled, IInv, TextAgrees, Uncrossed, On
  <2>2. IndexMatchesBody
    BY <2>1 DEF IndexMatchesBody, Clean
  <2>3. ASSUME NEW m \in Messages, NEW u \in Users, Cardinality(Mine(m, u)) > 1,
               <<m, "reactions", u, u>> \notin crossed
        PROVE  FALSE
    <3>1. \A a, b \in Mine(m, u) : a = b
      BY <1>1, <2>3 DEF IInv, OneOf
    <3>2. CASE Mine(m, u) = {}
      BY <2>3, <3>2, FS_EmptySet
    <3>3. CASE Mine(m, u) # {}
      <4>1. PICK x : Mine(m, u) = {x}
        BY <3>1, <3>3
      <4> QED BY <2>3, <4>1, FS_Singleton
    <3> QED BY <3>2, <3>3
  <2>4. OneReactionEach
    BY <2>3 DEF OneReactionEach
  <2> QED BY <2>2, <2>4 DEF TablesAgree
<1> QED BY <1>1, Invariance, PTL

(* The last news of a message are what the database has once nothing is in flight: the
   body, the reactions and the counts the clients show are the ones in the tables, unless
   two requests on the same side of the message crossed. *)
THEOREM NewsAreTrue == Spec => []ClientsAreUpToDate
<1>1. ASSUME IInv PROVE ClientsAreUpToDate
  <2> SUFFICES ASSUME NEW m \in Messages
               PROVE  /\ Settled(m, "text") => shown[m].body = row[m].body
                      /\ Settled(m, "reactions") => shown[m].reactions = ReactionsTo(m)
                      /\ Settled(m, "receipts") => shown[m].counts = Counts(m)
    BY DEF ClientsAreUpToDate
  <2>1. \A p : Settled(m, p) => Uncrossed(m, p) /\ \A s \in Slots : ~On(s, m, p)
    BY DEF Settled, Uncrossed, On
  <2>2. Settled(m, "text") => shown[m].body = row[m].body
    BY <1>1, <2>1 DEF IInv, TextAgrees, Clean
  <2>3. Settled(m, "reactions") => shown[m].reactions = ReactionsTo(m)
    BY <1>1, <2>1 DEF IInv, ReactionsShown
  <2>4. Settled(m, "receipts") => shown[m].counts = Counts(m)
    BY <1>1, <2>1 DEF IInv, ReceiptsShown
  <2> QED BY <2>2, <2>3, <2>4
<1> QED BY <1>1, Invariance, PTL
===============================================================================
