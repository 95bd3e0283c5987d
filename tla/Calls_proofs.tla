---------------------------- MODULE Calls_proofs ----------------------------
(***************************************************************************)
(* A call from end to end, for any number of members and calls, started and   *)
(* answered in any order.  First the rows by themselves, then the clients and *)
(* the server by themselves, and then the whole: its steps are steps of both, *)
(* so what is proved of each holds of it too.                                *)
(***************************************************************************)
EXTENDS Calls, FiniteSetTheorems, SequenceTheorems, TLAPS

-----------------------------------------------------------------------------
(* The rows of a call by themselves. *)
Reads(u, c) == request[u][c].stage = "open"

(* At most one request believes it is the one that closes c, and once the event is out
   nobody does and the call stays closed. *)
OneCloser(c) ==
  c \notin raced =>
    /\ \A u, v \in Users : Reads(u, c) /\ Reads(v, c) => u = v
    /\ events[c] <= 1
    /\ events[c] > 0 => row[c] \in Records!Terminal /\ \A u \in Users : ~Reads(u, c)

(* The inductive invariant. *)
RowsInv == Records!TypeOK /\ \A c \in Calls : OneCloser(c)

-----------------------------------------------------------------------------
(* What a step on one call does not touch stays as it was. *)
LEMMA RowsOfOtherCalls ==
  ASSUME RowsInv, NEW c \in Calls,
         row'[c] = row[c], events'[c] = events[c], c \in raced <=> c \in raced',
         \A u \in Users : request'[u][c].stage = "open" <=> request[u][c].stage = "open"
  PROVE  OneCloser(c)'
BY DEF RowsInv, OneCloser, Reads

LEMMA RowsInitInv == Records!Init => RowsInv
BY DEF Records!Init, RowsInv, Records!TypeOK, OneCloser, Reads, Records!NoRequest,
       Records!Stages, Records!Terminal

(* The steps that only change the row of an open call, or nothing the event rests on. *)
LEMMA RowsQuietSteps ==
  ASSUME RowsInv, NEW d \in Calls, NEW w \in Users, NEW s \in Records!Terminal,
         \/ Records!Create(d) \/ Records!PutStatus(w, d, s)
         \/ Records!Accept(w, d) \/ Records!ReadBeforeActive(w, d)
  PROVE  RowsInv'
<1> USE DEF RowsInv
<1>1. CASE Records!Create(d)
  <2>1. Records!TypeOK'
    BY <1>1 DEF Records!Create, Records!TypeOK
  <2>2. ASSUME NEW c \in Calls PROVE OneCloser(c)'
    BY <1>1, <2>2 DEF Records!Create, Records!TypeOK, OneCloser, Reads, Records!Terminal
  <2> QED BY <2>1, <2>2
<1>2. CASE Records!PutStatus(w, d, s)
  <2>1. Records!TypeOK'
    BY <1>2 DEF Records!PutStatus, Records!TypeOK, Records!Stages
  <2>2. ASSUME NEW c \in Calls PROVE OneCloser(c)'
    <3>1. \A u \in Users : request'[u][c].stage = "open" <=> request[u][c].stage = "open"
      BY <1>2, <2>2 DEF Records!PutStatus, Records!TypeOK, Records!NoRequest
    <3> QED BY <1>2, <2>2, <3>1, RowsOfOtherCalls DEF Records!PutStatus
  <2> QED BY <2>1, <2>2
<1>3. CASE Records!Accept(w, d) \/ Records!ReadBeforeActive(w, d)
  <2>1. persist' \in [Users -> [Calls -> {"none", "read", "write"}]]
    <3>1. CASE Records!Accept(w, d)
      BY <3>1 DEF Records!Accept, Records!TypeOK
    <3>2. CASE Records!ReadBeforeActive(w, d)
      <4>1. CASE row[d] = "active"
        BY <3>2, <4>1 DEF Records!ReadBeforeActive, Records!TypeOK
      <4>2. CASE row[d] # "active"
        BY <3>2, <4>2 DEF Records!ReadBeforeActive, Records!TypeOK
      <4> QED BY <4>1, <4>2
    <3> QED BY <1>3, <3>1, <3>2
  <2>2. UNCHANGED <<row, request, events, raced>>
    BY <1>3 DEF Records!Accept, Records!ReadBeforeActive
  <2>3. Records!TypeOK'
    BY <2>1, <2>2 DEF Records!TypeOK
  <2>4. ASSUME NEW c \in Calls PROVE OneCloser(c)'
    BY <2>2, <2>4 DEF OneCloser, Reads
  <2> QED BY <2>3, <2>4
<1> QED BY <1>1, <1>2, <1>3

(* A request that finds the call open is the only one, or the call is raced. *)
LEMMA RowsReadInv ==
  ASSUME RowsInv, NEW w \in Users, NEW d \in Calls, Records!ReadStatus(w, d)
  PROVE  RowsInv'
<1> USE DEF RowsInv, Records!ReadStatus
<1>1. Records!TypeOK'
  <2> DEFINE found == IF row[d] \in Records!Terminal THEN "closed" ELSE "open"
  <2>1. request' \in [Users -> [Calls -> [stage: Records!Stages, status: Records!Terminal]]]
    <3>1. found \in Records!Stages
      BY DEF Records!Stages
    <3>2. request' = [request EXCEPT ![w][d].stage = found]
      OBVIOUS
    <3>3. request \in [Users -> [Calls -> [stage: Records!Stages, status: Records!Terminal]]]
      BY DEF Records!TypeOK
    <3> HIDE DEF found, RowsInv, Records!ReadStatus
    <3>4. [request[w][d] EXCEPT !.stage = found] \in [stage: Records!Stages, status: Records!Terminal]
      BY <3>1, <3>3
    <3>5. [request[w] EXCEPT ![d].stage = found] \in [Calls -> [stage: Records!Stages,
            status: Records!Terminal]]
      BY <3>3, <3>4
    <3> QED BY <3>2, <3>3, <3>5
  <2>2. raced' \subseteq Calls
    BY DEF Records!TypeOK
  <2>3. UNCHANGED <<row, persist, events>>
    OBVIOUS
  <2> QED BY <2>1, <2>2, <2>3 DEF Records!TypeOK
<1>2. ASSUME NEW c \in Calls, c # d PROVE OneCloser(c)'
  <2>1. \A u \in Users : request'[u][c].stage = "open" <=> request[u][c].stage = "open"
    BY <1>2 DEF Records!TypeOK
  <2> QED BY <1>2, <2>1, RowsOfOtherCalls
<1>3. CASE row[d] \in Records!Terminal
  <2>1. \A u \in Users : request'[u][d].stage = "open" => request[u][d].stage = "open"
    BY <1>3 DEF Records!TypeOK
  <2>2. OneCloser(d)'
    BY <1>3, <2>1 DEF OneCloser, Reads
  <2> QED BY <1>1, <1>2, <2>2
<1>4. CASE row[d] \notin Records!Terminal
  <2>1. ASSUME d \notin raced' PROVE d \notin raced /\ \A u \in Users : ~Reads(u, d)
    BY <1>4, <2>1 DEF Reads
  <2>2. \A u \in Users : u # w => (request'[u][d].stage = "open" <=> Reads(u, d))
    BY DEF Records!TypeOK, Reads
  <2>3. OneCloser(d)'
    BY <1>4, <2>1, <2>2 DEF OneCloser, Reads, Records!TypeOK
  <2> QED BY <1>1, <1>2, <2>3
<1> QED BY <1>3, <1>4

(* The one request that found the call open is the one that posts the event. *)
LEMMA RowsWriteInv ==
  ASSUME RowsInv, NEW w \in Users, NEW d \in Calls, Records!WriteStatus(w, d)
  PROVE  RowsInv'
<1> USE DEF RowsInv, Records!WriteStatus
<1>1. Records!TypeOK'
  <2>1. Records!NoRequest \in [stage: Records!Stages, status: Records!Terminal]
    BY DEF Records!NoRequest, Records!Stages, Records!Terminal
  <2>2. row' \in [Calls -> {"none", "pending", "active"} \cup Records!Terminal]
    BY DEF Records!TypeOK
  <2>3. request' \in [Users -> [Calls -> [stage: Records!Stages, status: Records!Terminal]]]
    BY <2>1 DEF Records!TypeOK
  <2>4. events' \in [Calls -> Nat]
    BY DEF Records!TypeOK
  <2> QED BY <2>2, <2>3, <2>4 DEF Records!TypeOK
<1>2. ASSUME NEW c \in Calls, c # d PROVE OneCloser(c)'
  <2>1. \A u \in Users : request'[u][c].stage = "open" <=> request[u][c].stage = "open"
    BY <1>2 DEF Records!TypeOK
  <2> QED BY <1>2, <2>1, RowsOfOtherCalls DEF Records!TypeOK
<1>3. /\ \A u \in Users : request'[u][d].stage = "open" => u # w /\ Reads(u, d)
      /\ row'[d] \in Records!Terminal
  BY DEF Records!TypeOK, Records!NoRequest, Reads
<1>4. CASE Reads(w, d)
  <2>1. UNCHANGED raced /\ events'[d] = events[d] + 1 /\ events[d] \in Nat
    BY <1>4 DEF Records!TypeOK, Reads
  <2>2. ASSUME d \notin raced PROVE events[d] = 0 /\ \A u \in Users : Reads(u, d) => u = w
    BY <1>4, <2>1, <2>2 DEF OneCloser
  <2>3. OneCloser(d)'
    BY <1>3, <2>1, <2>2 DEF OneCloser, Reads
  <2> QED BY <1>1, <1>2, <2>3
<1>5. CASE ~Reads(w, d)
  <2>1. OneCloser(d)'
    BY <1>3, <1>5 DEF OneCloser, Reads
  <2> QED BY <1>1, <1>2, <2>1
<1> QED BY <1>4, <1>5

(* An acceptance reopens a call that was over only by racing it. *)
LEMMA RowsMarkInv ==
  ASSUME RowsInv, NEW w \in Users, NEW d \in Calls, Records!MarkActive(w, d)
  PROVE  RowsInv'
<1> USE DEF RowsInv, Records!MarkActive
<1>1. Records!TypeOK'
  BY DEF Records!TypeOK
<1>2. ASSUME NEW c \in Calls, c # d PROVE OneCloser(c)'
  BY <1>2, RowsOfOtherCalls DEF Records!TypeOK
<1>3. OneCloser(d)'
  BY DEF OneCloser, Reads, Records!TypeOK
<1> QED BY <1>1, <1>2, <1>3

LEMMA RowsNextInv == RowsInv /\ [Records!Next]_(Records!recordVars) => RowsInv'
<1> SUFFICES ASSUME RowsInv, [Records!Next]_(Records!recordVars) PROVE RowsInv'
  OBVIOUS
<1>1. CASE UNCHANGED Records!recordVars
  BY <1>1 DEF RowsInv, Records!TypeOK, OneCloser, Reads, Records!recordVars
<1>2. ASSUME NEW c \in Calls, Records!Create(c) PROVE RowsInv'
  <2>1. CASE Users = {}
    BY <1>2, <2>1 DEF RowsInv, Records!Create, Records!TypeOK, OneCloser, Reads, Records!Terminal
  <2>2. CASE Users # {}
    <3>1. "ended" \in Records!Terminal
      BY DEF Records!Terminal
    <3> QED BY <1>2, <2>2, <3>1, RowsQuietSteps
  <2> QED BY <2>1, <2>2
<1>3. ASSUME NEW u \in Users, NEW c \in Calls, NEW s \in Records!Terminal, Records!PutStatus(u, c, s)
      PROVE  RowsInv'
  BY <1>3, RowsQuietSteps
<1>4. ASSUME NEW u \in Users, NEW c \in Calls, Records!Accept(u, c) \/ Records!Serve(u, c)
      PROVE  RowsInv'
  <2>1. "ended" \in Records!Terminal
    BY DEF Records!Terminal
  <2> QED BY <1>4, <2>1, RowsQuietSteps, RowsReadInv, RowsWriteInv, RowsMarkInv DEF Records!Serve
<1> QED BY <1>1, <1>2, <1>3, <1>4 DEF Records!Next

(* The rows, the requests and the acceptances keep their shape, whoever sends them. *)
THEOREM RecordsTyped == Records!Spec => []Records!TypeOK
<1>1. RowsInv => Records!TypeOK
  BY DEF RowsInv
<1> QED BY RowsInitInv, RowsNextInv, <1>1, PTL DEF Records!Spec

(* However many clients close a call and accept it at once, its event is posted a second
   time only through one of the two races. *)
THEOREM EventOnceInRecords == Records!Spec => []Records!SecondEventNeedsRace
<1>1. RowsInv => Records!SecondEventNeedsRace
  BY DEF RowsInv, Records!TypeOK, OneCloser, Records!SecondEventNeedsRace
<1> QED BY RowsInitInv, RowsNextInv, <1>1, PTL DEF Records!Spec

-----------------------------------------------------------------------------
(* A request about a call that has no row leaves the rows alone. *)
LEMMA PutStatusMaps ==
  ASSUME NEW u \in Users, NEW c, NEW s \in Records!Terminal, Records!PutStatus(u, c, s),
         Records!TypeOK
  PROVE  [Records!Next]_recordVars
<1>1. CASE c \in Calls
  BY <1>1 DEF Records!Next
<1>2. CASE c \notin Calls
  <2>1. request' = request
    BY <1>2 DEF Records!PutStatus, Records!TypeOK
  <2> QED BY <2>1 DEF Records!PutStatus, recordVars
<1> QED BY <1>1, <1>2

(* So does an acceptance of one, or by nobody. *)
LEMMA AcceptMaps ==
  ASSUME NEW u, NEW c, Records!Accept(u, c), Records!TypeOK
  PROVE  [Records!Next]_recordVars
<1>1. CASE u \in Users /\ c \in Calls
  BY <1>1 DEF Records!Next
<1>2. CASE ~(u \in Users /\ c \in Calls)
  <2>1. persist' = persist
    BY <1>2 DEF Records!Accept, Records!TypeOK
  <2> QED BY <2>1 DEF Records!Accept, recordVars
<1> QED BY <1>1, <1>2

-----------------------------------------------------------------------------
LEMMA StepMaps ==
  ASSUME Records!TypeOK, [Next]_vars
  PROVE  [Records!Next]_recordVars
<1>1. CASE NoRecords
  BY <1>1 DEF NoRecords
<1>2. CASE UNCHANGED vars
  BY <1>2 DEF vars
<1>3. ASSUME NEW c \in Calls, CallOpened(c) \/ CallDenied(c)
      PROVE  [Records!Next]_recordVars
  BY <1>1, <1>3 DEF CallOpened, CallDenied, Records!Next
<1>4. ASSUME NEW u \in Users, NEW c \in Calls, Database(u, c)
      PROVE  [Records!Next]_recordVars
  BY <1>4 DEF Database, Records!Next
<1>5. {"ended", "missed", "rejected"} \subseteq Records!Terminal
  BY DEF Records!Terminal
<1>6. ASSUME NEW u \in Users, NEW c \in Calls, RingTimeout(u, c)
      PROVE  [Records!Next]_recordVars
  BY <1>1, <1>5, <1>6, PutStatusMaps DEF RingTimeout
<1>7. ASSUME NEW u \in Users, Hangup(u) PROVE [Records!Next]_recordVars
  <2>1. Outcome(u) \in Records!Terminal
    BY <1>5 DEF Outcome
  <2> QED BY <1>7, <2>1, PutStatusMaps DEF Hangup
<1>8. ASSUME NEW u \in Users, Receive(u) PROVE [Records!Next]_recordVars
  <2> DEFINE s == IF Head(toClient[u]).type = "busy" THEN "missed" ELSE "rejected"
  <2>1. s \in Records!Terminal
    BY <1>5
  <2>2. NoRecords \/ Records!PutStatus(u, call[u], s)
    BY <1>8 DEF Receive
  <2> QED BY <1>1, <2>1, <2>2, PutStatusMaps
<1>9. ASSUME NEW u \in Users, CloseTab(u) PROVE [Records!Next]_recordVars
  <2>1. CASE NoRecords
    BY <2>1 DEF NoRecords
  <2>2. ASSUME NEW c \in opening, Records!Create(c) PROVE [Records!Next]_recordVars
    <3>1. CASE c \in Calls
      BY <2>2, <3>1 DEF Records!Next
    <3>2. CASE c \notin Calls
      <4>1. row' = row
        BY <2>2, <3>2 DEF Records!Create, Records!TypeOK
      <4> QED BY <2>2, <4>1 DEF Records!Create, recordVars
    <3> QED BY <3>1, <3>2
  <2> QED BY <1>9, <2>1, <2>2 DEF CloseTab
<1>10. ASSUME NEW j \in joins, FinishAccept(j) PROVE [Records!Next]_recordVars
  BY <1>10, AcceptMaps DEF FinishAccept
<1> QED BY <1>1, <1>2, <1>3, <1>4, <1>6, <1>7, <1>8, <1>9, <1>10 DEF Next

LEMMA TypeOfRows == Spec => []RowsInv
<1>1. Init => RowsInv
  BY RowsInitInv DEF Init
<1>2. RowsInv /\ [Next]_vars => RowsInv'
  <2>1. RowsInv => Records!TypeOK
    BY DEF RowsInv
  <2>2. [Records!Next]_recordVars => [Records!Next]_(Records!recordVars)
    BY DEF recordVars, Records!recordVars
  <2> QED BY <2>1, <2>2, StepMaps, RowsNextInv
<1> QED BY <1>1, <1>2, PTL DEF Spec

(* Every behaviour of a call is one that the rows, the requests and the acceptances of
   CallRecords allow. *)
THEOREM Implements == Spec => Records!Spec
<1>1. Init => Records!Init
  BY DEF Init
<1>2. RowsInv => Records!TypeOK
  BY DEF RowsInv
<1>3. RowsInv /\ [Next]_vars => [Records!Next]_(Records!recordVars)
  BY <1>2, StepMaps DEF recordVars, Records!recordVars
<1> QED BY <1>1, <1>3, TypeOfRows, PTL DEF Spec, Records!Spec

(* However clients ring, answer, hang up and lose their connections, a call leaves a
   second event in the timeline only through one of the two races. *)
THEOREM EventOnceUnlessRaced == Spec => []SecondEventNeedsRace
<1>1. RowsInv => SecondEventNeedsRace
  BY DEF RowsInv, Records!TypeOK, OneCloser, SecondEventNeedsRace,
         Records!SecondEventNeedsRace
<1> QED BY <1>1, TypeOfRows, PTL

-----------------------------------------------------------------------------
(* What the clients and the server do is what CallSignalling allows, whatever the database
   makes of it. *)
LEMMA SignalMaps ==
  ASSUME [Next]_vars
  PROVE  [Signalling!Next]_(Signalling!vars)
<1> DEFINE Same == UNCHANGED signalVars
<1>1. CASE Same
  BY <1>1 DEF signalVars, Signalling!vars, Signalling!clientVars, Signalling!serverVars
<1>2. CASE UNCHANGED vars
  BY <1>1, <1>2 DEF vars, signalVars
<1>3. ASSUME NEW u \in Users, NEW c \in Calls, ClientAlone(u, c) \/ RingTimeout(u, c)
      PROVE  Signalling!Next
  BY <1>3 DEF ClientAlone, RingTimeout, Signalling!Next
<1>4. ASSUME NEW c \in Calls, CallOpened(c) \/ CallDenied(c) PROVE Signalling!Next
  BY <1>4 DEF CallOpened, CallDenied, Signalling!Next
<1>5. ASSUME NEW u \in Users,
             \/ Signalling!AcceptCall(u) \/ Signalling!RejectCall(u)
             \/ Signalling!Handle(u) \/ Signalling!Reconnect(u)
             \/ Hangup(u) \/ Receive(u) \/ CloseTab(u)
      PROVE  Signalling!Next
  BY <1>5 DEF Hangup, Receive, CloseTab, Signalling!Next
<1>6. ASSUME NEW j \in joins, FinishAccept(j) PROVE Signalling!Next
  BY <1>6 DEF FinishAccept, Signalling!Next
<1>7. ASSUME NEW u \in Users, NEW c \in Calls, Database(u, c) PROVE Same
  BY <1>7 DEF Database
<1> QED BY <1>1, <1>2, <1>3, <1>4, <1>5, <1>6, <1>7 DEF Next

(* Adding the database takes nothing from, and adds nothing to, what the clients and the
   server do: every behaviour of a call is one of CallSignalling too. *)
THEOREM ImplementsSignalling == Spec => Signalling!Spec
<1>1. Init => Signalling!Init
  BY DEF Init
<1> QED BY <1>1, SignalMaps, PTL DEF Spec, Signalling!Spec

-----------------------------------------------------------------------------
(* The clients and the server by themselves. *)
Has(q, m) == \E i \in DOMAIN q : q[i] = m
Once(q, m) == \A i, j \in DOMAIN q : q[i] = m /\ q[j] = m => i = j

(* The stages of a call on its way to member u: its caller has not opened it, its start is
   under way, u is being told, u has been told and has not answered for good. *)
Unopened(c) == caller[c] = Nothing \/ c \in opening
Starting(v, c) == Has(toServer[v], Signalling!Event("start", c))
Told(u, c) == Has(toClient[u], Signalling!Event("incoming", c))
Ringing(u, c) == incoming[u] = c \/ c \in accepting[u]

(* A call goes through its stages once, from its caller to the others. *)
OneStage(c) ==
  /\ \A v \in Users :
       /\ Starting(v, c) => caller[c] = v /\ c \notin opening
       /\ Once(toServer[v], Signalling!Event("start", c))
  /\ \A u \in Users :
       /\ Told(u, c) \/ Ringing(u, c) =>
            ~Unopened(c) /\ caller[c] # u /\ \A v \in Users : ~Starting(v, c)
       /\ Told(u, c) => ~Ringing(u, c)
       /\ Once(toClient[u], Signalling!Event("incoming", c))

(* u may still enter c, as its caller or by answering. *)
Expected(u, c) ==
  Unopened(c) \/ (\E v \in Users \ {u} : Starting(v, c)) \/ Told(u, c) \/ Ringing(u, c)

Leaving(u, c) == Has(toServer[u], Signalling!Event("leave", c))

(* Who is in a call is in its room or about to be; who leaves it has left it, and nobody
   comes back to it. *)
Arrived(u, c) == u \in room[c] \/ Signalling!OnItsWay(u, c)

InOrOut(u, c) ==
  /\ call[u] = c => Arrived(u, c)
  /\ Leaving(u, c) => call[u] # c
  /\ call[u] = c \/ Leaving(u, c) => ~Expected(u, c)

Calm ==
  /\ \A c \in Calls : OneStage(c)
  /\ \A u \in Users, c \in Calls : InOrOut(u, c)
  /\ \A j \in joins : j.alive

Openers == \A c \in opening : caller[c] \in Users

(* The inductive invariant. *)
SignalsInv == Signalling!TypeOK /\ Signalling!OverlayHasItsCall /\ Openers /\ (faults = 0 => Calm)
-----------------------------------------------------------------------------
(* Sequences of events. *)

LEMMA TailHas ==
  ASSUME NEW S, NEW q \in Seq(S), q # <<>>
  PROVE  /\ Head(q) \in S /\ Tail(q) \in Seq(S)
         /\ \A x : Has(q, x) <=> x = Head(q) \/ Has(Tail(q), x)
         /\ \A x : Once(q, x) => Once(Tail(q), x) /\ (x = Head(q) => ~Has(Tail(q), x))
<1>1. /\ Head(q) \in S /\ Tail(q) \in Seq(S)
      /\ Len(q) \in Nat /\ Len(q) > 0 /\ Len(Tail(q)) = Len(q) - 1
      /\ DOMAIN q = 1 .. Len(q) /\ DOMAIN Tail(q) = 1 .. Len(q) - 1
      /\ Head(q) = q[1] /\ \A i \in 1 .. Len(q) - 1 : Tail(q)[i] = q[i + 1]
  OBVIOUS
<1>2. ASSUME NEW x PROVE Has(q, x) <=> x = Head(q) \/ Has(Tail(q), x)
  <2>1. ASSUME NEW i \in DOMAIN q, q[i] = x, i # 1 PROVE Has(Tail(q), x)
    <3>1. i - 1 \in DOMAIN Tail(q) /\ Tail(q)[i - 1] = q[i]
      BY <1>1, <2>1
    <3> QED BY <2>1, <3>1 DEF Has
  <2>2. ASSUME NEW i \in DOMAIN Tail(q), Tail(q)[i] = x PROVE Has(q, x)
    <3>1. i + 1 \in DOMAIN q /\ Tail(q)[i] = q[i + 1]
      BY <1>1
    <3> QED BY <2>2, <3>1 DEF Has
  <2>3. 1 \in DOMAIN q
    BY <1>1
  <2> QED BY <1>1, <2>1, <2>2, <2>3 DEF Has
<1>3. ASSUME NEW x, Once(q, x) PROVE Once(Tail(q), x) /\ (x = Head(q) => ~Has(Tail(q), x))
  <2>1. ASSUME NEW i \in DOMAIN Tail(q)
        PROVE  i + 1 \in DOMAIN q /\ Tail(q)[i] = q[i + 1] /\ i \in Nat /\ i + 1 # 1
    BY <1>1
  <2>2. 1 \in DOMAIN q
    BY <1>1
  <2>3. ASSUME NEW i \in DOMAIN Tail(q), NEW j \in DOMAIN Tail(q),
               Tail(q)[i] = x, Tail(q)[j] = x
        PROVE  i = j
    <3>1. i + 1 = j + 1
      BY <1>3, <2>1, <2>3 DEF Once
    <3> QED BY <2>1, <3>1
  <2>4. ASSUME x = Head(q), NEW i \in DOMAIN Tail(q), Tail(q)[i] = x PROVE FALSE
    BY <1>1, <1>3, <2>1, <2>2, <2>4 DEF Once
  <2> QED BY <2>3, <2>4 DEF Has, Once
<1> QED BY <1>1, <1>2, <1>3

LEMMA ConcatHas ==
  ASSUME NEW S, NEW p \in Seq(S), NEW q \in Seq(S)
  PROVE  /\ p \o q \in Seq(S)
         /\ \A x : Has(p \o q, x) <=> Has(p, x) \/ Has(q, x)
         /\ \A x : Once(p, x) /\ Once(q, x) /\ ~(Has(p, x) /\ Has(q, x)) => Once(p \o q, x)
<1>1. /\ p \o q \in Seq(S)
      /\ Len(p) \in Nat /\ Len(q) \in Nat /\ Len(p \o q) = Len(p) + Len(q)
      /\ DOMAIN p = 1 .. Len(p) /\ DOMAIN q = 1 .. Len(q)
      /\ DOMAIN (p \o q) = 1 .. Len(p) + Len(q)
      /\ \A i \in 1 .. Len(p) : (p \o q)[i] = p[i]
      /\ \A i \in 1 .. Len(q) : (p \o q)[Len(p) + i] = q[i]
  OBVIOUS
<1>2. ASSUME NEW i \in DOMAIN (p \o q)
      PROVE  \/ i \in DOMAIN p /\ (p \o q)[i] = p[i]
             \/ /\ i \in Nat /\ i > Len(p)
                /\ i - Len(p) \in DOMAIN q /\ (p \o q)[i] = q[i - Len(p)]
  <2>1. CASE i <= Len(p)
    BY <1>1, <2>1
  <2>2. CASE i > Len(p)
    <3>1. i - Len(p) \in 1 .. Len(q) /\ Len(p) + (i - Len(p)) = i
      BY <1>1, <2>2
    <3>2. (p \o q)[Len(p) + (i - Len(p))] = q[i - Len(p)]
      BY <1>1, <3>1
    <3> QED BY <1>1, <2>2, <3>1, <3>2
  <2> QED BY <1>1, <2>1, <2>2
<1>3. ASSUME NEW i \in DOMAIN p PROVE i \in DOMAIN (p \o q) /\ (p \o q)[i] = p[i]
  BY <1>1
<1>4. ASSUME NEW i \in DOMAIN q
      PROVE  Len(p) + i \in DOMAIN (p \o q) /\ (p \o q)[Len(p) + i] = q[i]
  BY <1>1
<1>5. ASSUME NEW x PROVE Has(p \o q, x) <=> Has(p, x) \/ Has(q, x)
  BY <1>2, <1>3, <1>4 DEF Has
<1>6. ASSUME NEW x, Once(p, x), Once(q, x), ~(Has(p, x) /\ Has(q, x)) PROVE Once(p \o q, x)
  <2> SUFFICES ASSUME NEW i \in DOMAIN (p \o q), NEW j \in DOMAIN (p \o q),
                      (p \o q)[i] = x, (p \o q)[j] = x
               PROVE  i = j
    BY DEF Once
  <2>1. CASE i \in DOMAIN p /\ (p \o q)[i] = p[i]
    BY <1>2, <1>6, <2>1 DEF Has, Once
  <2>2. CASE /\ i \in Nat /\ i > Len(p)
             /\ i - Len(p) \in DOMAIN q /\ (p \o q)[i] = q[i - Len(p)]
    <3>1. /\ j \in Nat /\ j > Len(p)
          /\ j - Len(p) \in DOMAIN q /\ (p \o q)[j] = q[j - Len(p)]
      BY <1>2, <1>6, <2>2 DEF Has
    <3>2. i - Len(p) = j - Len(p)
      BY <1>6, <2>2, <3>1 DEF Once
    <3> QED BY <1>1, <2>2, <3>1, <3>2
  <2> QED BY <1>2, <2>1, <2>2
<1> QED BY <1>1, <1>5, <1>6

LEMMA OneHas ==
  ASSUME NEW S, NEW e \in S
  PROVE  /\ <<e>> \in Seq(S) /\ <<>> \in Seq(S)
         /\ \A x : (Has(<<e>>, x) <=> x = e) /\ Once(<<e>>, x)
         /\ \A x : ~Has(<<>>, x) /\ Once(<<>>, x)
BY DEF Has, Once

LEMMA AppendHas ==
  ASSUME NEW S, NEW q \in Seq(S), NEW e \in S
  PROVE  /\ Append(q, e) \in Seq(S)
         /\ \A x : Has(Append(q, e), x) <=> x = e \/ Has(q, x)
         /\ \A x : Once(q, x) /\ (x = e => ~Has(q, x)) => Once(Append(q, e), x)
<1>1. Append(q, e) = q \o <<e>>
  BY AppendIsConcat
<1>2. <<e>> \in Seq(S) /\ \A x : (Has(<<e>>, x) <=> x = e) /\ Once(<<e>>, x)
  BY DEF Has, Once
<1>3. PICK one \in Seq(S) : one = <<e>>
  BY <1>2
<1>4. /\ q \o one \in Seq(S)
      /\ \A x : Has(q \o one, x) <=> Has(q, x) \/ Has(one, x)
      /\ \A x : Once(q, x) /\ Once(one, x) /\ ~(Has(q, x) /\ Has(one, x)) => Once(q \o one, x)
  BY ConcatHas
<1> QED BY <1>1, <1>2, <1>3, <1>4

(* The events, and those that differ. *)
LEMMA Events ==
  /\ \A t \in {"start", "accept", "reject", "busy", "cancel", "leave"}, c \in Calls :
       Signalling!Event(t, c) \in Signalling!ToServer
  /\ \A c \in Calls : Signalling!Event("incoming", c) \in Signalling!ToClient
  /\ \A t \in {"cancelled", "peer-joined", "peer-left", "declined", "busy"} :
       Signalling!News(t) \in Signalling!ToClient /\ \A c : Signalling!News(t) # Signalling!Event("incoming", c)
  /\ \A s, t, c, d : Signalling!Event(s, c) = Signalling!Event(t, d) <=> s = t /\ c = d
  /\ \A m \in Signalling!ToServer : m = Signalling!Event(m.type, m.call) /\ m.call \in Calls
  /\ \A m \in Signalling!ToClient : m.type = "incoming" =>
       m = Signalling!Event("incoming", m.call) /\ m.call \in Calls
  /\ \A m \in Signalling!ToClient : \A c : m.type # "incoming" => m # Signalling!Event("incoming", c)
<1>1. /\ \A t \in {"start", "accept", "reject", "busy", "cancel", "leave"}, c \in Calls :
           Signalling!Event(t, c) \in Signalling!ToServer
      /\ \A c \in Calls : Signalling!Event("incoming", c) \in Signalling!ToClient
      /\ \A t \in {"cancelled", "peer-joined", "peer-left", "declined", "busy"} :
           Signalling!News(t) \in Signalling!ToClient
  BY DEF Signalling!Event, Signalling!News, Signalling!ToServer, Signalling!ToClient
<1>2. ASSUME NEW s, NEW t, NEW c, NEW d, Signalling!Event(s, c) = Signalling!Event(t,
    d) PROVE s = t /\ c = d
  <2>1. Signalling!Event(s, c).type = s /\ Signalling!Event(s, c).call = c
    BY DEF Signalling!Event
  <2>2. Signalling!Event(t, d).type = t /\ Signalling!Event(t, d).call = d
    BY DEF Signalling!Event
  <2> QED BY <1>2, <2>1, <2>2
<1>3. \A m \in Signalling!ToServer : m = Signalling!Event(m.type, m.call) /\ m.call \in Calls
  BY DEF Signalling!Event, Signalling!ToServer
<1>4. \A m \in Signalling!ToClient : m.type = "incoming" => m = Signalling!Event("incoming",
    m.call) /\ m.call \in Calls
  BY DEF Signalling!Event, Signalling!ToClient
<1>5. ASSUME NEW c PROVE Signalling!Event("incoming", c).type = "incoming"
  BY DEF Signalling!Event
<1>6. ASSUME NEW t PROVE Signalling!News(t).type = t
  BY DEF Signalling!News
<1> QED BY <1>1, <1>2, <1>3, <1>4, <1>5, <1>6
LEMMA EmitHas ==
  ASSUME Signalling!TypeOK, NEW u \in Users, NEW msgs \in Seq(Signalling!ToServer), Signalling!Emit(u, msgs)
  PROVE  /\ toServer' \in [Users -> Seq(Signalling!ToServer)]
         /\ \A v \in Users : \A x : Has(toServer'[v], x) <=> Has(toServer[v], x) \/ (v = u /\ Has(msgs, x))
         /\ \A v \in Users : \A x :
              Once(toServer[v], x) /\ Once(msgs, x) /\ ~(Has(toServer[u], x) /\ Has(msgs, x))
                => Once(toServer'[v], x)
<1>1. toServer \in [Users -> Seq(Signalling!ToServer)]
  BY DEF Signalling!TypeOK
<1>2. toServer' = [toServer EXCEPT ![u] = toServer[u] \o msgs]
  BY DEF Signalling!Emit
<1> PICK q \in Seq(Signalling!ToServer) : q = toServer[u]
  BY <1>1
<1>3. /\ q \o msgs \in Seq(Signalling!ToServer)
      /\ \A x : Has(q \o msgs, x) <=> Has(q, x) \/ Has(msgs, x)
      /\ \A x : Once(q, x) /\ Once(msgs, x) /\ ~(Has(q, x) /\ Has(msgs, x)) => Once(q \o msgs, x)
  BY ConcatHas
<1>4. toServer'[u] = q \o msgs /\ \A v \in Users : v # u => toServer'[v] = toServer[v]
  BY <1>1, <1>2
<1> QED BY <1>1, <1>2, <1>3, <1>4

(* One event, and the one or two of a hang-up. *)
(* A client emits one event. *)
Emits(u, e) == Signalling!Emit(u, <<e>>)

Emitted(u, e) ==
  /\ toServer' \in [Users -> Seq(Signalling!ToServer)]
  /\ \A v \in Users : \A x : Has(toServer'[v], x) <=> Has(toServer[v], x) \/ (v = u /\ x = e)
  /\ \A v \in Users : \A x :
       Once(toServer[v], x) /\ ~(Has(toServer[u], x) /\ x = e) => Once(toServer'[v], x)

LEMMA EmitOne ==
  ASSUME Signalling!TypeOK, NEW u \in Users, NEW e \in Signalling!ToServer, Emits(u, e)
  PROVE  Emitted(u, e)
<1>1. <<e>> \in Seq(Signalling!ToServer) /\ \A x : (Has(<<e>>, x) <=> x = e) /\ Once(<<e>>, x)
  BY DEF Has, Once
<1> PICK one \in Seq(Signalling!ToServer) : one = <<e>>
  BY <1>1
<1>2. Signalling!Emit(u, one)
  BY DEF Emits
<1> QED BY <1>1, <1>2, EmitHas DEF Emitted

LEMMA EmitHangUp ==
  ASSUME Signalling!TypeOK, NEW u \in Users, Signalling!HangUpFrom(u)
  PROVE  /\ call[u] \in Calls
         /\ toServer' \in [Users -> Seq(Signalling!ToServer)]
         /\ \A v \in Users : \A x :
              Has(toServer'[v], x) =>
                Has(toServer[v], x)
                  \/ (v = u /\ x \in {Signalling!Event("leave", call[u]), Signalling!Event("cancel", call[u])})
         /\ \A v \in Users : \A x : Has(toServer[v], x) => Has(toServer'[v], x)
         /\ \A v \in Users : \A c : Once(toServer[v], Signalling!Event("start", c))
                                  => Once(toServer'[v], Signalling!Event("start", c))
<1> PICK c \in Calls : c = call[u]
  BY DEF Signalling!HangUpFrom, Signalling!TypeOK
<1> PICK leave \in Signalling!ToServer, cancel \in Signalling!ToServer :
      leave = Signalling!Event("leave", c) /\ cancel = Signalling!Event("cancel", c)
  BY Events
<1>1. \A d : Signalling!Event("start", d) \notin {leave, cancel}
  BY Events
<1>2. CASE ui[u] = "outgoing"
  <2>1. /\ <<cancel>> \in Seq(Signalling!ToServer) /\ <<leave>> \in Seq(Signalling!ToServer)
        /\ \A x : (Has(<<cancel>>, x) <=> x = cancel) /\ Once(<<cancel>>, x)
        /\ \A x : (Has(<<leave>>, x) <=> x = leave) /\ Once(<<leave>>, x)
    BY DEF Has, Once
  <2> PICK p \in Seq(Signalling!ToServer),
      q \in Seq(Signalling!ToServer) : p = <<cancel>> /\ q = <<leave>>
    BY <2>1
  <2>2. /\ p \o q \in Seq(Signalling!ToServer)
        /\ \A x : Has(p \o q, x) <=> Has(p, x) \/ Has(q, x)
        /\ \A x : Once(p, x) /\ Once(q, x) /\ ~(Has(p, x) /\ Has(q, x)) => Once(p \o q, x)
    BY ConcatHas
  <2>3. Signalling!Emit(u, p \o q)
    BY <1>2 DEF Signalling!HangUpFrom
  <2> PICK msgs \in Seq(Signalling!ToServer) : msgs = p \o q
    BY <2>2
  <2>4. Signalling!Emit(u, msgs)
    BY <2>3
  <2>5. \A x : Has(msgs, x) <=> x \in {cancel, leave}
    BY <2>1, <2>2
  <2>6. \A d : ~Has(msgs, Signalling!Event("start", d)) /\ Once(msgs, Signalling!Event("start", d))
    BY <1>1, <2>1, <2>2, <2>5
  <2> QED BY <2>4, <2>5, <2>6, EmitHas
<1>3. CASE ui[u] # "outgoing"
  <2>1. Signalling!Emit(u, <<>> \o <<leave>>)
    BY <1>3 DEF Signalling!HangUpFrom
  <2>2. <<>> \o <<leave>> = <<leave>>
    OBVIOUS
  <2>3. Emits(u, leave)
    BY <2>1, <2>2 DEF Emits
  <2>4. Emitted(u, leave)
    BY <2>3, EmitOne
  <2> QED BY <1>1, <2>4 DEF Emitted
<1> QED BY <1>2, <1>3

Sent(to, m) ==
  /\ toClient' \in [Users -> Seq(Signalling!ToClient)]
  /\ \A v \in Users : \A x : Has(toClient'[v], x) <=> Has(toClient[v], x) \/ (v \in to /\ x = m)
  /\ \A v \in Users : \A x :
       Once(toClient[v], x) /\ (v \in to => ~(Has(toClient[v], x) /\ x = m)) => Once(toClient'[v], x)

LEMMA SendHas ==
  ASSUME Signalling!TypeOK, NEW to, NEW m \in Signalling!ToClient, toClient' = Signalling!Send(to, m)
  PROVE  Sent(to, m)
<1>1. toClient \in [Users -> Seq(Signalling!ToClient)]
  BY DEF Signalling!TypeOK
<1>2. ASSUME NEW v \in Users
      PROVE  /\ v \in to => toClient'[v] = Append(toClient[v], m)
             /\ v \notin to => toClient'[v] = toClient[v]
  BY DEF Signalling!Send
<1>3. ASSUME NEW v \in Users
      PROVE  /\ Append(toClient[v], m) \in Seq(Signalling!ToClient)
             /\ \A x : Has(Append(toClient[v], m), x) <=> x = m \/ Has(toClient[v], x)
             /\ \A x : Once(toClient[v], x) /\ (x = m => ~Has(toClient[v], x))
                         => Once(Append(toClient[v], m), x)
  <2> PICK q \in Seq(Signalling!ToClient) : q = toClient[v]
    BY <1>1
  <2> QED BY AppendHas
<1> QED BY <1>1, <1>2, <1>3 DEF Signalling!Send, Sent
-----------------------------------------------------------------------------
(* What the invariant needs of a step. *)

Accepted(u, c) == Has(toServer[u], Signalling!Event("accept", c))
Joining(u, c) == \E j \in joins : j.user = u /\ j.call = c

LEMMA Ways ==
  ASSUME NEW u, NEW c
  PROVE  /\ Signalling!OnItsWay(u, c) <=> Starting(u, c) \/ Accepted(u, c) \/ Joining(u, c)
         /\ Signalling!OnItsWay(u, c)' <=> Starting(u, c)' \/ Accepted(u, c)' \/ Joining(u, c)'
BY DEF Signalling!OnItsWay, Starting, Accepted, Joining, Has

(* A step that opens nothing and lets nobody in. *)
LEMMA Shrinks ==
  ASSUME Calm, UNCHANGED caller, opening' \subseteq opening, \A j \in joins' : j.alive,
         \A v \in Users, c \in Calls :
           /\ Starting(v, c)' => Starting(v, c)
           /\ Once(toServer[v], Signalling!Event("start", c)) =>
                Once(toServer'[v], Signalling!Event("start", c))
           /\ Told(v, c)' => Told(v, c)
           /\ Once(toClient[v], Signalling!Event("incoming", c)) =>
                Once(toClient'[v], Signalling!Event("incoming", c))
           /\ Ringing(v, c)' => Ringing(v, c)
           /\ Leaving(v, c)' => Leaving(v, c) \/ call[v] = c
           /\ call'[v] = c => /\ call[v] = c
                              /\ Leaving(v, c)' => Leaving(v, c)
                              /\ Arrived(v, c) => Arrived(v, c)'
  PROVE  Calm'
<1>1. ASSUME NEW c \in Calls PROVE OneStage(c)'
  <2>1. OneStage(c)
    BY DEF Calm
  <2> QED BY <2>1 DEF OneStage, Unopened
<1>2. ASSUME NEW u \in Users, NEW c \in Calls PROVE InOrOut(u, c)'
  <2>1. InOrOut(u, c)
    BY DEF Calm
  <2>2. Expected(u, c)' => Expected(u, c)
    BY DEF Expected, Unopened
  <2> QED BY <2>1, <2>2 DEF InOrOut
<1> QED BY <1>1, <1>2 DEF Calm

(* What an unchanged queue says. *)
LEMMA SameToServer ==
  ASSUME UNCHANGED toServer
  PROVE  \A v \in Users, c \in Calls :
           /\ Starting(v, c)' <=> Starting(v, c)
           /\ Leaving(v, c)' <=> Leaving(v, c)
           /\ Accepted(v, c)' <=> Accepted(v, c)
           /\ Once(toServer'[v], Signalling!Event("start", c)) <=>
                Once(toServer[v], Signalling!Event("start", c))
BY DEF Starting, Leaving, Accepted

LEMMA SameToClient ==
  ASSUME UNCHANGED toClient
  PROVE  \A v \in Users, c \in Calls :
           /\ Told(v, c)' <=> Told(v, c)
           /\ Once(toClient'[v], Signalling!Event("incoming", c)) <=>
                Once(toClient[v], Signalling!Event("incoming", c))
BY DEF Told

(* An event that neither starts nor leaves a call. *)
LEMMA EmitOther ==
  ASSUME Signalling!TypeOK, NEW u \in Users, NEW e \in Signalling!ToServer, Emits(u, e),
         e.type \in {"accept", "reject", "busy"}
  PROVE  /\ toServer' \in [Users -> Seq(Signalling!ToServer)]
         /\ \A v \in Users, c \in Calls :
              /\ Starting(v, c)' <=> Starting(v, c)
              /\ Leaving(v, c)' <=> Leaving(v, c)
              /\ Accepted(v, c)' <=> Accepted(v, c) \/ (v = u /\ e = Signalling!Event("accept", c))
              /\ Once(toServer[v], Signalling!Event("start", c)) =>
                   Once(toServer'[v], Signalling!Event("start", c))
<1>1. \A c : e # Signalling!Event("start", c) /\ e # Signalling!Event("leave", c)
  BY DEF Signalling!Event
<1>2. Emitted(u, e)
  BY EmitOne
<1> QED BY <1>1, <1>2 DEF Emitted, Starting, Leaving, Accepted

(* A hang-up. *)
LEMMA HangUpQueues ==
  ASSUME Signalling!TypeOK, NEW u \in Users, Signalling!HangUpFrom(u)
  PROVE  /\ toServer' \in [Users -> Seq(Signalling!ToServer)]
         /\ \A v \in Users, c \in Calls :
              /\ Starting(v, c)' <=> Starting(v, c)
              /\ Leaving(v, c)' => Leaving(v, c) \/ (v = u /\ c = call[u])
              /\ Accepted(v, c) => Accepted(v, c)'
              /\ Once(toServer[v], Signalling!Event("start", c)) =>
                   Once(toServer'[v], Signalling!Event("start", c))
<1>1. ASSUME NEW c \in Calls
      PROVE  /\ Signalling!Event("start", c) \notin {Signalling!Event("leave", call[u]),
                  Signalling!Event("cancel", call[u])}
             /\ Signalling!Event("leave", c) # Signalling!Event("cancel", call[u])
             /\ Signalling!Event("leave", c) = Signalling!Event("leave", call[u]) => c = call[u]
  BY Events
<1>2. /\ toServer' \in [Users -> Seq(Signalling!ToServer)]
      /\ \A v \in Users : \A x :
           Has(toServer'[v], x) =>
             Has(toServer[v], x)
               \/ (v = u /\ x \in {Signalling!Event("leave", call[u]), Signalling!Event("cancel", call[u])})
      /\ \A v \in Users : \A x : Has(toServer[v], x) => Has(toServer'[v], x)
      /\ \A v \in Users : \A c : Once(toServer[v], Signalling!Event("start", c))
                               => Once(toServer'[v], Signalling!Event("start", c))
  BY EmitHangUp
<1> QED BY <1>1, <1>2 DEF Starting, Leaving, Accepted

(* Where the client's variables go. *)
LEMMA CleanupTypes ==
  ASSUME Signalling!TypeOK, NEW u \in Users
  PROVE  /\ Signalling!Cleanup(u) => /\ timers' \in [Users -> SUBSET Calls]
                          /\ ringTimer' \in [Users -> Calls \cup {Nothing}]
         /\ \A s \in {"idle", "incoming", "outgoing", "active"} :
              Signalling!SetUi(u, s) => /\ ui' \in [Users -> {"idle", "incoming", "outgoing", "active"}]
                             /\ ui'[u] = s /\ \A v \in Users : v # u => ui'[v] = ui[v]
<1>1. /\ timers \in [Users -> SUBSET Calls] /\ ringTimer \in [Users -> Calls \cup {Nothing}]
      /\ ui \in [Users -> {"idle", "incoming", "outgoing", "active"}]
  BY DEF Signalling!TypeOK
<1>2. Signalling!Cleanup(u) => timers' \in [Users -> SUBSET Calls]
  BY <1>1 DEF Signalling!Cleanup
<1>3. Signalling!Cleanup(u) => ringTimer' \in [Users -> Calls \cup {Nothing}]
  BY <1>1 DEF Signalling!Cleanup
<1>4. ASSUME NEW s \in {"idle", "incoming", "outgoing", "active"}, Signalling!SetUi(u, s)
      PROVE  /\ ui' \in [Users -> {"idle", "incoming", "outgoing", "active"}]
             /\ ui'[u] = s /\ \A v \in Users : v # u => ui'[v] = ui[v]
  BY <1>1, <1>4 DEF Signalling!SetUi
<1> QED BY <1>2, <1>3, <1>4

-----------------------------------------------------------------------------
(* The client. *)

LEMMA StartCallInv ==
  ASSUME SignalsInv, NEW u \in Users, NEW c \in Calls, Signalling!StartCall(u, c)
  PROVE  SignalsInv'
<1> USE DEF Signalling!StartCall, Signalling!serverVars
<1>1. Signalling!TypeOK'
  BY DEF SignalsInv, Signalling!TypeOK
<1>2. Signalling!OverlayHasItsCall'
  BY DEF SignalsInv, Signalling!OverlayHasItsCall
<1>3. caller[c] = Nothing /\ caller'[c] = u /\ \A d \in Calls : d # c => caller'[d] = caller[d]
  BY DEF SignalsInv, Signalling!TypeOK
<1>4. Openers'
  BY <1>3 DEF SignalsInv, Openers, Signalling!TypeOK
<1>5. ASSUME Calm PROVE Calm'
  <2>1. ASSUME NEW d \in Calls PROVE OneStage(d)'
    <3>1. OneStage(d) /\ Nothing \notin Users
      BY <1>5, CallsAssumption DEF Calm
    <3>2. CASE d = c
      BY <1>3, <3>1, <3>2 DEF OneStage, Unopened, Starting, Told, Ringing
    <3>3. CASE d # c
      BY <1>3, <3>1, <3>3 DEF OneStage, Unopened, Starting, Told, Ringing
    <3> QED BY <3>2, <3>3
  <2>2. ASSUME NEW v \in Users, NEW d \in Calls PROVE InOrOut(v, d)'
    <3>1. InOrOut(v, d)
      BY <1>5 DEF Calm
    <3>2. Expected(v, d)' => Expected(v, d)
      BY <1>3 DEF Expected, Unopened, Starting, Told, Ringing
    <3> QED BY <3>1, <3>2 DEF InOrOut, Arrived, Signalling!OnItsWay, Leaving
  <2> QED BY <1>5, <2>1, <2>2 DEF Calm
<1> QED BY <1>1, <1>2, <1>4, <1>5 DEF SignalsInv

LEMMA CallOpenedInv ==
  ASSUME SignalsInv, NEW c \in Calls, Signalling!CallOpened(c)
  PROVE  SignalsInv'
<1> PICK u \in Users : u = caller[c]
  BY DEF Signalling!CallOpened, SignalsInv, Openers
<1> PICK start \in Signalling!ToServer : start = Signalling!Event("start", c)
  BY Events
<1>1. /\ c \in opening /\ opening' = opening \ {c} /\ Signalling!SetUi(u, "outgoing")
      /\ call' = [call EXCEPT ![u] = c] /\ Emits(u, start)
      /\ timers' = [timers EXCEPT ![u] = @ \cup {c}]
      /\ ringTimer' = [ringTimer EXCEPT ![u] = c]
      /\ UNCHANGED <<incoming, accepting, caller, toClient, room, joins, faults>>
  BY DEF Signalling!CallOpened, Signalling!serverVars, Emits
<1>2. /\ toServer' \in [Users -> Seq(Signalling!ToServer)]
      /\ \A v \in Users : \A x : Has(toServer'[v], x) <=> Has(toServer[v], x) \/ (v = u /\ x = start)
      /\ \A v \in Users : \A x :
           Once(toServer[v], x) /\ ~(Has(toServer[u], x) /\ x = start) => Once(toServer'[v], x)
  <2>1. Signalling!TypeOK /\ Emits(u, start)
    BY <1>1 DEF SignalsInv
  <2>2. Emitted(u, start)
    BY <2>1, EmitOne
  <2> QED BY <2>2 DEF Emitted
<1>3. /\ ui' \in [Users -> {"idle", "incoming", "outgoing", "active"}]
      /\ ui'[u] = "outgoing" /\ \A v \in Users : v # u => ui'[v] = ui[v]
  BY <1>1, CleanupTypes DEF SignalsInv
<1>4. call'[u] = c /\ \A v \in Users : v # u => call'[v] = call[v]
  BY <1>1 DEF SignalsInv, Signalling!TypeOK
<1>5. Signalling!TypeOK'
  <2>1. call' \in [Users -> Calls \cup {Nothing}] /\ opening' \subseteq Calls
    BY <1>1 DEF SignalsInv, Signalling!TypeOK
  <2>2. timers' \in [Users -> SUBSET Calls] /\ ringTimer' \in [Users -> Calls \cup {Nothing}]
    BY <1>1 DEF SignalsInv, Signalling!TypeOK
  <2> QED BY <1>1, <1>2, <1>3, <2>1, <2>2 DEF SignalsInv, Signalling!TypeOK
<1>6. Signalling!OverlayHasItsCall'
  BY <1>1, <1>3, <1>4, CallsAssumption DEF SignalsInv, Signalling!OverlayHasItsCall
<1>7. Openers'
  BY <1>1 DEF SignalsInv, Openers
<1>8. ASSUME Calm PROVE Calm'
  <2>1. ASSUME NEW v \in Users, NEW d \in Calls
        PROVE  /\ Starting(v, d)' <=> Starting(v, d) \/ (v = u /\ d = c)
               /\ Leaving(v, d)' <=> Leaving(v, d)
               /\ Accepted(v, d)' <=> Accepted(v, d)
               /\ Told(v, d)' <=> Told(v, d)
               /\ Ringing(v, d)' <=> Ringing(v, d)
               /\ Joining(v, d)' <=> Joining(v, d)
    BY <1>1, <1>2, Events DEF Starting, Leaving, Accepted, Told, Ringing, Joining
  <2>2. OneStage(c) /\ \A v \in Users : InOrOut(v, c)
    BY <1>8 DEF Calm
  <2>3. /\ \A v \in Users : ~Starting(v, c) /\ ~Told(v, c) /\ ~Ringing(v, c)
        /\ \A v \in Users : call[v] # c /\ ~Leaving(v, c)
    BY <1>1, <2>2 DEF OneStage, InOrOut, Expected, Unopened
  <2>4. ASSUME NEW v \in Users, NEW d \in Calls PROVE Once(toServer'[v], Signalling!Event("start", d))
    <3>1. Once(toServer[v], Signalling!Event("start", d))
      BY <1>8 DEF Calm, OneStage
    <3>2. ~(Has(toServer[u], Signalling!Event("start", d)) /\ Signalling!Event("start", d) = start)
      BY <2>3 DEF Starting
    <3> QED BY <1>2, <3>1, <3>2
  <2>5. ASSUME NEW d \in Calls PROVE OneStage(d)'
    <3>1. OneStage(d)
      BY <1>8 DEF Calm
    <3>2. CASE d = c
      BY <1>1, <2>1, <2>3, <2>4, <3>1, <3>2 DEF OneStage, Unopened
    <3>3. CASE d # c
      BY <1>1, <2>1, <2>4, <3>1, <3>3 DEF OneStage, Unopened
    <3> QED BY <3>2, <3>3
  <2>6. ASSUME NEW v \in Users, NEW d \in Calls PROVE InOrOut(v, d)'
    <3>1. InOrOut(v, d)
      BY <1>8 DEF Calm
    <3>2. Arrived(v, d) => Arrived(v, d)'
      BY <1>1, <2>1, Ways DEF Arrived
    <3>3. CASE d = c /\ v = u
      <4>1. Arrived(u, c)'
        BY <2>1, Ways DEF Arrived
      <4>2. ~Expected(u, c)'
        BY <1>1, <2>1, <2>3, CallsAssumption DEF Expected, Unopened
      <4> QED BY <2>1, <2>3, <3>3, <4>1, <4>2 DEF InOrOut
    <3>4. CASE d = c /\ v # u
      BY <1>4, <2>1, <2>3, <3>4 DEF InOrOut
    <3>5. CASE d # c
      <4>1. Expected(v, d)' => Expected(v, d)
        BY <1>1, <2>1, <3>5 DEF Expected, Unopened
      <4> QED BY <1>4, <2>1, <3>1, <3>2, <3>5, <4>1 DEF InOrOut
    <3> QED BY <3>3, <3>4, <3>5
  <2> QED BY <1>1, <1>8, <2>5, <2>6 DEF Calm
<1> QED BY <1>1, <1>5, <1>6, <1>7, <1>8 DEF SignalsInv
(* A client that lets go: of its call, of what it was told, of what it was opening. *)
LEMMA ClientStep ==
  ASSUME SignalsInv, Signalling!TypeOK', Signalling!OverlayHasItsCall', opening' \subseteq opening,
         UNCHANGED <<caller, room, joins, faults>>,
         \A v \in Users, c \in Calls :
           /\ Told(v, c)' => Told(v, c)
           /\ Once(toClient[v], Signalling!Event("incoming", c)) =>
                Once(toClient'[v], Signalling!Event("incoming", c)),
         \A v \in Users, c \in Calls :
           /\ Starting(v, c)' <=> Starting(v, c)
           /\ Once(toServer[v], Signalling!Event("start", c)) =>
                Once(toServer'[v], Signalling!Event("start", c))
           /\ Leaving(v, c)' => Leaving(v, c) \/ (call[v] = c /\ call'[v] # c)
           /\ Accepted(v, c) => Accepted(v, c)'
           /\ Ringing(v, c)' => Ringing(v, c),
         \A v \in Users : call'[v] \in {call[v], Nothing}
  PROVE  SignalsInv'
<1>1. Openers'
  BY DEF SignalsInv, Openers
<1>2. ASSUME Calm PROVE Calm'
  <2>1. ASSUME NEW v \in Users, NEW c \in Calls
        PROVE  /\ Joining(v, c)' <=> Joining(v, c)
               /\ call'[v] = c => call[v] = c
    BY CallsAssumption DEF Joining
  <2>2. ASSUME NEW v \in Users, NEW c \in Calls PROVE Arrived(v, c) => Arrived(v, c)'
    BY <2>1, Ways DEF Arrived
  <2>3. \A j \in joins' : j.alive
    BY <1>2 DEF Calm
  <2> QED BY <1>2, <2>1, <2>2, <2>3, Shrinks
<1> QED BY <1>1, <1>2 DEF SignalsInv

LEMMA HangupInv ==
  ASSUME SignalsInv, NEW u \in Users,
         \/ Signalling!Hangup(u)
         \/ \E c \in Calls : Signalling!RingTimeout(u, c) /\ ui[u] = "outgoing"
  PROVE  SignalsInv'
<1>1. /\ Signalling!HangUpFrom(u) /\ ringTimer' = [ringTimer EXCEPT ![u] = Nothing]
      /\ UNCHANGED <<accepting, caller, opening, toClient, room, joins, faults>>
  BY DEF Signalling!Hangup, Signalling!Cleanup, Signalling!RingTimeout, Signalling!serverVars
<1>2. timers' \in [Users -> SUBSET Calls]
  <2>1. timers \in [Users -> SUBSET Calls]
    BY DEF SignalsInv, Signalling!TypeOK
  <2> QED BY <2>1 DEF Signalling!Hangup, Signalling!Cleanup, Signalling!RingTimeout
<1>3. /\ toServer' \in [Users -> Seq(Signalling!ToServer)]
      /\ \A v \in Users, c \in Calls :
           /\ Starting(v, c)' <=> Starting(v, c)
           /\ Leaving(v, c)' => Leaving(v, c) \/ (v = u /\ c = call[u])
           /\ Accepted(v, c) => Accepted(v, c)'
           /\ Once(toServer[v], Signalling!Event("start", c)) =>
                Once(toServer'[v], Signalling!Event("start", c))
  BY <1>1, HangUpQueues DEF SignalsInv
<1>4. /\ ui' = [ui EXCEPT ![u] = "idle"] /\ call' = [call EXCEPT ![u] = Nothing]
      /\ incoming' = [incoming EXCEPT ![u] = Nothing]
  BY <1>1 DEF Signalling!HangUpFrom, Signalling!SetUi
<1>5. Signalling!TypeOK'
  BY <1>1, <1>2, <1>3, <1>4 DEF SignalsInv, Signalling!TypeOK
<1>6. Signalling!OverlayHasItsCall'
  BY <1>4 DEF SignalsInv, Signalling!OverlayHasItsCall, Signalling!TypeOK
<1>7. ASSUME NEW v \in Users
      PROVE  /\ call'[v] \in {call[v], Nothing} /\ (v = u => call'[v] = Nothing)
             /\ \A c \in Calls : Ringing(v, c)' => Ringing(v, c)
  BY <1>1, <1>4, CallsAssumption DEF SignalsInv, Signalling!TypeOK, Ringing
<1> QED BY <1>1, <1>3, <1>5, <1>6, <1>7, SameToClient, ClientStep, CallsAssumption

LEMMA RejectFromFacts ==
  ASSUME SignalsInv, NEW u \in Users, Signalling!RejectFrom(u)
  PROVE  /\ timers' \in [Users -> SUBSET Calls] /\ ringTimer' \in [Users -> Calls \cup {Nothing}]
         /\ ui' = [ui EXCEPT ![u] = "idle"] /\ incoming' = [incoming EXCEPT ![u] = Nothing]
         /\ toServer' \in [Users -> Seq(Signalling!ToServer)]
         /\ \A v \in Users, c \in Calls :
              /\ Starting(v, c)' <=> Starting(v, c)
              /\ Leaving(v, c)' <=> Leaving(v, c)
              /\ Accepted(v, c) => Accepted(v, c)'
              /\ Once(toServer[v], Signalling!Event("start", c)) =>
                   Once(toServer'[v], Signalling!Event("start", c))
<1>1. /\ timers' \in [Users -> SUBSET Calls] /\ ringTimer' \in [Users -> Calls \cup {Nothing}]
  BY CleanupTypes DEF Signalling!RejectFrom, SignalsInv
<1>2. ui' = [ui EXCEPT ![u] = "idle"] /\ incoming' = [incoming EXCEPT ![u] = Nothing]
  BY DEF Signalling!RejectFrom, Signalling!SetUi
<1>3. CASE UNCHANGED toServer
  BY <1>1, <1>2, <1>3, SameToServer DEF SignalsInv, Signalling!TypeOK
<1>4. CASE incoming[u] # Nothing /\ Signalling!Emit(u, <<Signalling!Event("reject", incoming[u])>>)
  <2> PICK e \in Signalling!ToServer : e = Signalling!Event("reject", incoming[u])
    BY <1>4, Events DEF SignalsInv, Signalling!TypeOK
  <2>1. e.type = "reject" /\ Emits(u, e) /\ Signalling!TypeOK
    BY <1>4 DEF SignalsInv, Emits, Signalling!Event
  <2>2. toServer' \in [Users -> Seq(Signalling!ToServer)]
    BY <2>1, EmitOther
  <2>3. \A v \in Users, c \in Calls :
              /\ Starting(v, c)' <=> Starting(v, c)
              /\ Leaving(v, c)' <=> Leaving(v, c)
              /\ Accepted(v, c)' <=> Accepted(v, c) \/ (v = u /\ e = Signalling!Event("accept", c))
              /\ Once(toServer[v], Signalling!Event("start", c)) =>
                   Once(toServer'[v], Signalling!Event("start", c))
    BY <2>1, EmitOther
  <2> QED BY <1>1, <1>2, <2>2, <2>3
<1> QED BY <1>3, <1>4 DEF Signalling!RejectFrom

LEMMA RejectInv ==
  ASSUME SignalsInv, NEW u \in Users, Signalling!RejectCall(u) \/ \E c \in Calls : Signalling!MediaDenied(u, c)
  PROVE  SignalsInv'
<1>1. Signalling!RejectFrom(u) /\ UNCHANGED <<call, caller, opening, toClient, room, joins, faults>>
  BY DEF Signalling!RejectCall, Signalling!MediaDenied, Signalling!serverVars
<1>2. /\ accepting' \in [Users -> SUBSET Calls]
      /\ \A v \in Users : accepting'[v] \subseteq accepting[v]
  <2>1. accepting \in [Users -> SUBSET Calls]
    BY DEF SignalsInv, Signalling!TypeOK
  <2> QED BY <2>1 DEF Signalling!RejectCall, Signalling!MediaDenied
<1>3. /\ timers' \in [Users -> SUBSET Calls] /\ ringTimer' \in [Users -> Calls \cup {Nothing}]
      /\ ui' = [ui EXCEPT ![u] = "idle"] /\ incoming' = [incoming EXCEPT ![u] = Nothing]
      /\ toServer' \in [Users -> Seq(Signalling!ToServer)]
      /\ \A v \in Users, c \in Calls :
           /\ Starting(v, c)' <=> Starting(v, c)
           /\ Leaving(v, c)' <=> Leaving(v, c)
           /\ Accepted(v, c) => Accepted(v, c)'
           /\ Once(toServer[v], Signalling!Event("start", c)) =>
                Once(toServer'[v], Signalling!Event("start", c))
  BY <1>1, RejectFromFacts
<1>4. Signalling!TypeOK'
  BY <1>1, <1>2, <1>3 DEF SignalsInv, Signalling!TypeOK
<1>5. Signalling!OverlayHasItsCall'
  BY <1>1, <1>3 DEF SignalsInv, Signalling!OverlayHasItsCall, Signalling!TypeOK
<1>6. \A v \in Users, c \in Calls : Ringing(v, c)' => Ringing(v, c)
  BY <1>2, <1>3, CallsAssumption DEF SignalsInv, Signalling!TypeOK, Ringing
<1> QED BY <1>1, <1>3, <1>4, <1>5, <1>6, SameToClient, ClientStep

LEMMA QuietClientInv ==
  ASSUME SignalsInv, NEW u \in Users,
         \/ Signalling!AcceptCall(u)
         \/ \E c \in Calls : Signalling!RingTimeout(u, c) /\ ui[u] # "outgoing"
         \/ \E c \in opening : Signalling!CallDenied(c)
  PROVE  SignalsInv'
<1>1. /\ UNCHANGED <<call, incoming, caller, toServer, toClient, room, joins, faults>>
      /\ opening' \subseteq opening
  BY DEF Signalling!AcceptCall, Signalling!RingTimeout, Signalling!CallDenied, Signalling!serverVars
<1>2. /\ accepting' \in [Users -> SUBSET Calls]
      /\ \A v \in Users, c \in Calls : Ringing(v, c)' => Ringing(v, c)
  <2>1. /\ accepting \in [Users -> SUBSET Calls] /\ incoming \in [Users -> Calls \cup {Nothing}]
    BY DEF SignalsInv, Signalling!TypeOK
  <2>2. CASE Signalling!AcceptCall(u)
    <3>1. incoming[u] \in Calls
      BY <2>1, <2>2 DEF Signalling!AcceptCall
    <3> QED BY <2>1, <2>2, <3>1 DEF Signalling!AcceptCall, Ringing
  <2>3. CASE ~Signalling!AcceptCall(u)
    BY <1>1, <2>1, <2>3 DEF Signalling!RingTimeout, Signalling!CallDenied, Ringing
  <2> QED BY <2>2, <2>3
<1>3. /\ timers' \in [Users -> SUBSET Calls] /\ ringTimer' \in [Users -> Calls \cup {Nothing}]
  <2>1. timers \in [Users -> SUBSET Calls] /\ ringTimer \in [Users -> Calls \cup {Nothing}]
    BY DEF SignalsInv, Signalling!TypeOK
  <2>2. CASE Signalling!AcceptCall(u)
    BY <2>1, <2>2 DEF Signalling!AcceptCall
  <2>3. CASE \E c \in Calls : Signalling!RingTimeout(u, c) /\ ui[u] # "outgoing"
    BY <2>1, <2>3 DEF Signalling!RingTimeout
  <2>4. CASE \E c \in opening : Signalling!CallDenied(c)
    BY <2>1, <2>4, CleanupTypes DEF Signalling!CallDenied, SignalsInv, Openers
  <2> QED BY <2>2, <2>3, <2>4
<1>4. /\ ui' \in [Users -> {"idle", "incoming", "outgoing", "active"}]
      /\ \A v \in Users : ui'[v] \in {"idle", ui[v]}
  <2>1. ui \in [Users -> {"idle", "incoming", "outgoing", "active"}]
    BY DEF SignalsInv, Signalling!TypeOK
  <2>2. UNCHANGED ui \/ \E v \in Users : Signalling!SetUi(v, "idle")
    BY DEF Signalling!AcceptCall, Signalling!RingTimeout, Signalling!CallDenied, SignalsInv, Openers
  <2> QED BY <2>1, <2>2 DEF Signalling!SetUi
<1>5. Signalling!TypeOK'
  BY <1>1, <1>2, <1>3, <1>4 DEF SignalsInv, Signalling!TypeOK
<1>6. Signalling!OverlayHasItsCall'
  BY <1>1, <1>4 DEF SignalsInv, Signalling!OverlayHasItsCall
<1> QED BY <1>1, <1>2, <1>5, <1>6, SameToServer, SameToClient,
         ClientStep

LEMMA MediaReadyInv ==
  ASSUME SignalsInv, NEW u \in Users, NEW c \in Calls, Signalling!MediaReady(u, c)
  PROVE  SignalsInv'
<1> PICK e \in Signalling!ToServer : e = Signalling!Event("accept", c)
  BY Events
<1>1. /\ c \in accepting[u] /\ accepting' = [accepting EXCEPT ![u] = @ \ {c}]
      /\ ui' = [ui EXCEPT ![u] = "active"] /\ call' = [call EXCEPT ![u] = c]
      /\ incoming' = [incoming EXCEPT ![u] = Nothing] /\ Emits(u, e)
      /\ UNCHANGED <<timers, ringTimer, caller, opening, toClient, room, joins, faults>>
  BY DEF Signalling!MediaReady, Signalling!SetUi, Signalling!NoCleanup, Signalling!serverVars, Emits
<1>2. e.type = "accept" /\ Signalling!TypeOK
  BY DEF SignalsInv, Signalling!Event
<1>3. toServer' \in [Users -> Seq(Signalling!ToServer)]
  BY <1>1, <1>2, EmitOther
<1>4. \A v \in Users, d \in Calls :
        /\ Starting(v, d)' <=> Starting(v, d)
        /\ Leaving(v, d)' <=> Leaving(v, d)
        /\ Accepted(v, d)' <=> Accepted(v, d) \/ (v = u /\ e = Signalling!Event("accept", d))
        /\ Once(toServer[v], Signalling!Event("start", d)) => Once(toServer'[v], Signalling!Event("start", d))
  BY <1>1, <1>2, EmitOther
<1>5. /\ call'[u] = c /\ \A v \in Users : v # u => call'[v] = call[v]
      /\ incoming'[u] = Nothing /\ \A v \in Users : v # u => incoming'[v] = incoming[v]
      /\ accepting'[u] = accepting[u] \ {c}
      /\ \A v \in Users : v # u => accepting'[v] = accepting[v]
      /\ ui'[u] = "active" /\ \A v \in Users : v # u => ui'[v] = ui[v]
  BY <1>1 DEF SignalsInv, Signalling!TypeOK
<1>6. Signalling!TypeOK'
  <2>1. accepting' \in [Users -> SUBSET Calls]
    BY <1>1 DEF SignalsInv, Signalling!TypeOK
  <2> QED BY <1>1, <1>3, <2>1 DEF SignalsInv, Signalling!TypeOK
<1>7. Signalling!OverlayHasItsCall'
  BY <1>1, <1>5, CallsAssumption DEF SignalsInv, Signalling!OverlayHasItsCall
<1>8. Openers'
  BY <1>1 DEF SignalsInv, Openers
<1>9. ASSUME Calm PROVE Calm'
  <2>1. ASSUME NEW v \in Users, NEW d \in Calls
        PROVE  /\ Told(v, d)' <=> Told(v, d)
               /\ Joining(v, d)' <=> Joining(v, d)
               /\ Ringing(v, d)' => Ringing(v, d)
    BY <1>1, <1>5, CallsAssumption DEF Told, Joining, Ringing
  <2>2. OneStage(c) /\ InOrOut(u, c) /\ Ringing(u, c)
    BY <1>1, <1>9 DEF Calm, Ringing
  <2>3. /\ ~Ringing(u, c)' /\ ~Told(u, c) /\ ~Unopened(c) /\ ~Leaving(u, c)
        /\ \A v \in Users : ~Starting(v, c)
    BY <1>5, <2>2, CallsAssumption DEF OneStage, InOrOut, Expected, Ringing
  <2>4. ASSUME NEW d \in Calls PROVE OneStage(d)'
    <3>1. OneStage(d)
      BY <1>9 DEF Calm
    <3> QED BY <1>1, <1>4, <2>1, <3>1 DEF OneStage, Unopened
  <2>5. ASSUME NEW v \in Users, NEW d \in Calls PROVE InOrOut(v, d)'
    <3>1. InOrOut(v, d)
      BY <1>9 DEF Calm
    <3>2. Arrived(v, d) => Arrived(v, d)'
      BY <1>1, <1>4, <2>1, Ways DEF Arrived
    <3>3. Expected(v, d)' => Expected(v, d)
      BY <1>1, <1>4, <2>1 DEF Expected, Unopened
    <3>4. CASE v = u /\ d = c
      <4>1. Arrived(u, c)'
        BY <1>4, Ways DEF Arrived
      <4>2. ~Expected(u, c)'
        BY <1>1, <1>4, <2>1, <2>3 DEF Expected, Unopened
      <4> QED BY <1>4, <2>3, <3>4, <4>1, <4>2 DEF InOrOut
    <3>5. CASE ~(v = u /\ d = c)
      BY <1>4, <1>5, <3>1, <3>2, <3>3, <3>5 DEF InOrOut
    <3> QED BY <3>4, <3>5
  <2> QED BY <1>1, <1>9, <2>4, <2>5 DEF Calm
<1> QED BY <1>1, <1>6, <1>7, <1>8, <1>9 DEF SignalsInv
-----------------------------------------------------------------------------
(* The client's listeners. *)

LEMMA ReceiveQueue ==
  ASSUME Signalling!TypeOK, NEW u \in Users, toClient[u] # <<>>,
         toClient' = [toClient EXCEPT ![u] = Tail(@)]
  PROVE  /\ Head(toClient[u]) \in Signalling!ToClient /\ toClient' \in [Users -> Seq(Signalling!ToClient)]
         /\ \A v \in Users, c \in Calls :
              /\ Told(v, c)' => Told(v, c)
              /\ Once(toClient[v], Signalling!Event("incoming", c)) =>
                   Once(toClient'[v], Signalling!Event("incoming", c))
         /\ \A c \in Calls : Head(toClient[u]) = Signalling!Event("incoming", c) =>
              /\ Told(u, c)
              /\ Once(toClient[u], Signalling!Event("incoming", c)) => ~Told(u, c)'
<1>1. toClient \in [Users -> Seq(Signalling!ToClient)]
  BY DEF Signalling!TypeOK
<1> PICK q \in Seq(Signalling!ToClient) : q = toClient[u]
  BY <1>1
<1>2. /\ Head(q) \in Signalling!ToClient /\ Tail(q) \in Seq(Signalling!ToClient)
      /\ \A x : Has(q, x) <=> x = Head(q) \/ Has(Tail(q), x)
      /\ \A x : Once(q, x) => Once(Tail(q), x) /\ (x = Head(q) => ~Has(Tail(q), x))
  BY TailHas
<1>3. toClient'[u] = Tail(q) /\ \A v \in Users : v # u => toClient'[v] = toClient[v]
  BY <1>1
<1> QED BY <1>1, <1>2, <1>3 DEF Told

(* Being told when idle: the member rings. *)
LEMMA RingInv ==
  ASSUME SignalsInv, NEW u \in Users, Signalling!Receive(u), ui[u] = "idle",
         Signalling!OnIncoming(u, Head(toClient[u]))
  PROVE  SignalsInv'
<1>1. /\ Head(toClient[u]) \in Signalling!ToClient /\ toClient' \in [Users -> Seq(Signalling!ToClient)]
      /\ \A v \in Users, c \in Calls :
           /\ Told(v, c)' => Told(v, c)
           /\ Once(toClient[v], Signalling!Event("incoming", c)) =>
                Once(toClient'[v], Signalling!Event("incoming", c))
      /\ \A c \in Calls : Head(toClient[u]) = Signalling!Event("incoming", c) =>
           /\ Told(u, c)
           /\ Once(toClient[u], Signalling!Event("incoming", c)) => ~Told(u, c)'
  BY ReceiveQueue DEF SignalsInv, Signalling!Receive
<1> PICK c \in Calls : Head(toClient[u]) = Signalling!Event("incoming", c) /\ c = Head(toClient[u]).call
  BY <1>1, Events DEF Signalling!OnIncoming
<1>2. /\ ui' = [ui EXCEPT ![u] = "incoming"] /\ incoming' = [incoming EXCEPT ![u] = c]
      /\ UNCHANGED <<call, timers, ringTimer, accepting, caller, opening, toServer, room, joins,
                     faults>>
  BY DEF Signalling!Receive, Signalling!OnIncoming, Signalling!SetUi, Signalling!NoCleanup,
     Signalling!serverVars
<1>3. Signalling!TypeOK'
  BY <1>1, <1>2 DEF SignalsInv, Signalling!TypeOK
<1>4. incoming'[u] = c /\ \A v \in Users : v # u => incoming'[v] = incoming[v]
  BY <1>2 DEF SignalsInv, Signalling!TypeOK
<1>5. Signalling!OverlayHasItsCall'
  BY <1>2, <1>4, CallsAssumption DEF SignalsInv, Signalling!OverlayHasItsCall, Signalling!TypeOK
<1>6. Openers'
  BY <1>2 DEF SignalsInv, Openers
<1>7. ASSUME Calm PROVE Calm'
  <2>1. OneStage(c) /\ Told(u, c) /\ ~Told(u, c)'
    BY <1>1, <1>7 DEF Calm, OneStage
  <2>2. ASSUME NEW v \in Users, NEW d \in Calls
        PROVE  /\ Starting(v, d)' <=> Starting(v, d)
               /\ Leaving(v, d)' <=> Leaving(v, d)
               /\ Ringing(v, d)' => Ringing(v, d) \/ (v = u /\ d = c)
    BY <1>2, <1>4 DEF Starting, Leaving, Ringing
  <2>3. ASSUME NEW d \in Calls PROVE OneStage(d)'
    <3>1. OneStage(d)
      BY <1>7 DEF Calm
    <3> QED BY <1>1, <1>2, <2>1, <2>2, <3>1 DEF OneStage, Unopened
  <2>4. ASSUME NEW v \in Users, NEW d \in Calls PROVE InOrOut(v, d)'
    <3>1. InOrOut(v, d)
      BY <1>7 DEF Calm
    <3>2. Expected(v, d)' => Expected(v, d)
      BY <1>1, <1>2, <2>1, <2>2 DEF Expected, Unopened
    <3>3. Arrived(v, d)' <=> Arrived(v, d)
      BY <1>2 DEF Arrived, Signalling!OnItsWay
    <3> QED BY <1>2, <2>2, <3>1, <3>2, <3>3 DEF InOrOut
  <2> QED BY <1>2, <1>7, <2>3, <2>4 DEF Calm
<1> QED BY <1>2, <1>3, <1>5, <1>6, <1>7 DEF SignalsInv

LEMMA ReceiveInv ==
  ASSUME SignalsInv, NEW u \in Users, Signalling!Receive(u)
  PROVE  SignalsInv'
<1>1. /\ Head(toClient[u]) \in Signalling!ToClient /\ toClient' \in [Users -> Seq(Signalling!ToClient)]
      /\ \A v \in Users, c \in Calls :
           /\ Told(v, c)' => Told(v, c)
           /\ Once(toClient[v], Signalling!Event("incoming", c)) =>
                Once(toClient'[v], Signalling!Event("incoming", c))
  BY ReceiveQueue DEF SignalsInv, Signalling!Receive
<1> PICK m \in Signalling!ToClient : m = Head(toClient[u])
  BY <1>1
<1>2. UNCHANGED <<accepting, caller, opening, room, joins, faults>>
  BY DEF Signalling!Receive, Signalling!serverVars
<1>3. CASE Signalling!OnIncoming(u, m) /\ ui[u] = "idle"
  BY <1>3, RingInv
<1>4. CASE Signalling!OnIncoming(u, m) /\ ui[u] # "idle"
  <2> PICK e \in Signalling!ToServer : e = Signalling!Event("busy", m.call)
    BY <1>4, Events DEF Signalling!OnIncoming
  <2>1. /\ Emits(u, e) /\ UNCHANGED <<ui, call, incoming, timers, ringTimer>>
        /\ e.type = "busy" /\ Signalling!TypeOK
    BY <1>4 DEF Signalling!OnIncoming, Signalling!NoCleanup, SignalsInv, Emits, Signalling!Event
  <2>2. toServer' \in [Users -> Seq(Signalling!ToServer)]
    BY <2>1, EmitOther
  <2>3. \A v \in Users, d \in Calls :
          /\ Starting(v, d)' <=> Starting(v, d)
          /\ Leaving(v, d)' <=> Leaving(v, d)
          /\ Accepted(v, d)' <=> Accepted(v, d) \/ (v = u /\ e = Signalling!Event("accept", d))
          /\ Once(toServer[v], Signalling!Event("start", d)) => Once(toServer'[v], Signalling!Event("start", d))
    BY <2>1, EmitOther
  <2>4. Signalling!TypeOK'
    BY <1>1, <1>2, <2>1, <2>2 DEF Signalling!TypeOK
  <2>5. Signalling!OverlayHasItsCall' /\ \A v \in Users, d \in Calls : Ringing(v, d)' => Ringing(v, d)
    BY <1>2, <2>1 DEF SignalsInv, Signalling!OverlayHasItsCall, Ringing
  <2> QED BY <1>1, <1>2, <2>1, <2>3, <2>4, <2>5, ClientStep
<1>5. CASE Signalling!OnPeerJoined(u, m) \/ Signalling!OnPeerLeft(u, m) \/
        Signalling!OnRejected(u, m) \/ Signalling!OnCancelled(u, m)
  <2>1. UNCHANGED toServer
    BY <1>5 DEF Signalling!OnPeerJoined, Signalling!OnPeerLeft, Signalling!OnRejected,
       Signalling!OnCancelled
  <2>2. /\ timers' \in [Users -> SUBSET Calls] /\ ringTimer' \in [Users -> Calls \cup {Nothing}]
    <3>1. timers \in [Users -> SUBSET Calls] /\ ringTimer \in [Users -> Calls \cup {Nothing}]
      BY DEF SignalsInv, Signalling!TypeOK
    <3>2. CASE Signalling!Cleanup(u) \/ Signalling!NoCleanup
      BY <3>1, <3>2, CleanupTypes DEF Signalling!NoCleanup, SignalsInv
    <3>3. CASE Signalling!OnPeerJoined(u, m)
      BY <3>1, <3>3 DEF Signalling!OnPeerJoined
    <3> QED BY <1>5, <3>2, <3>3 DEF Signalling!OnPeerLeft, Signalling!OnRejected, Signalling!OnCancelled
  <2>3. \/ UNCHANGED <<ui, call, incoming>>
        \/ /\ ui' = [ui EXCEPT ![u] = "active"] /\ ui[u] = "outgoing"
           /\ UNCHANGED <<call, incoming>>
        \/ /\ ui' = [ui EXCEPT ![u] = "idle"] /\ call' = [call EXCEPT ![u] = Nothing]
           /\ UNCHANGED incoming
        \/ /\ ui' = [ui EXCEPT ![u] = "idle"] /\ incoming' = [incoming EXCEPT ![u] = Nothing]
           /\ UNCHANGED call
    BY <1>5 DEF Signalling!OnPeerJoined, Signalling!OnPeerLeft, Signalling!OnRejected,
       Signalling!OnCancelled, Signalling!SetUi
  <2>4. Signalling!TypeOK'
    BY <1>1, <1>2, <2>1, <2>2, <2>3 DEF SignalsInv, Signalling!TypeOK
  <2>5. Signalling!OverlayHasItsCall'
    BY <2>3 DEF SignalsInv, Signalling!OverlayHasItsCall, Signalling!TypeOK
  <2>6. \A v \in Users : call'[v] \in {call[v], Nothing}
    BY <2>3 DEF SignalsInv, Signalling!TypeOK
  <2>7. \A v \in Users, c \in Calls : Ringing(v, c)' => Ringing(v, c)
    BY <1>2, <2>3, CallsAssumption DEF SignalsInv, Signalling!TypeOK, Ringing
  <2> QED BY <1>1, <1>2, <2>1, <2>4, <2>5, <2>6, <2>7, SameToServer, ClientStep
<1> QED BY <1>3, <1>4, <1>5 DEF Signalling!Receive
-----------------------------------------------------------------------------
(* The server. *)

(* The clients stay as they are, and who is in a call or on its way to it stays so. *)
LEMMA ServerStep ==
  ASSUME SignalsInv, Signalling!TypeOK', UNCHANGED <<Signalling!clientVars, faults>>,
         Calm => \A j \in joins' : j.alive,
         \A v \in Users, c \in Calls :
           /\ Starting(v, c)' => Starting(v, c)
           /\ Once(toServer[v], Signalling!Event("start", c)) =>
                Once(toServer'[v], Signalling!Event("start", c))
           /\ Told(v, c)' => Told(v, c)
           /\ Once(toClient[v], Signalling!Event("incoming", c)) =>
                Once(toClient'[v], Signalling!Event("incoming", c))
           /\ Leaving(v, c)' => Leaving(v, c)
           /\ Calm /\ call[v] = c /\ Arrived(v, c) => Arrived(v, c)'
  PROVE  SignalsInv'
<1> USE DEF Signalling!clientVars
<1>1. Signalling!OverlayHasItsCall' /\ Openers'
  BY DEF SignalsInv, Signalling!OverlayHasItsCall, Openers
<1>2. \A v \in Users, c \in Calls : Ringing(v, c)' <=> Ringing(v, c)
  BY DEF Ringing
<1>3. ASSUME Calm PROVE Calm'
  <2>1. UNCHANGED <<caller, opening, call>>
    OBVIOUS
  <2> HIDE DEF Signalling!clientVars
  <2> QED BY <1>2, <1>3, <2>1, Shrinks
<1> QED BY <1>1, <1>3 DEF SignalsInv

LEMMA HandleQueue ==
  ASSUME Signalling!TypeOK, NEW u \in Users, toServer[u] # <<>>,
         toServer' = [toServer EXCEPT ![u] = Tail(@)]
  PROVE  /\ Head(toServer[u]) \in Signalling!ToServer /\ toServer' \in [Users -> Seq(Signalling!ToServer)]
         /\ \A v \in Users, c \in Calls :
              /\ Starting(v, c)' => Starting(v, c)
              /\ Starting(v, c) => Starting(v, c)' \/
                   (v = u /\ Head(toServer[u]) = Signalling!Event("start", c))
              /\ Once(toServer[v], Signalling!Event("start", c)) =>
                   Once(toServer'[v], Signalling!Event("start", c))
              /\ Leaving(v, c)' => Leaving(v, c)
              /\ Accepted(v, c) =>
                   Accepted(v, c)' \/ (v = u /\ Head(toServer[u]) = Signalling!Event("accept", c))
         /\ \A c \in Calls : Head(toServer[u]) = Signalling!Event("start", c) =>
              /\ Starting(u, c)
              /\ Once(toServer[u], Signalling!Event("start", c)) => ~Starting(u, c)'
         /\ \A c \in Calls : Head(toServer[u]) = Signalling!Event("leave", c) => Leaving(u, c)
<1>1. toServer \in [Users -> Seq(Signalling!ToServer)]
  BY DEF Signalling!TypeOK
<1> PICK q \in Seq(Signalling!ToServer) : q = toServer[u]
  BY <1>1
<1>2. /\ Head(q) \in Signalling!ToServer /\ Tail(q) \in Seq(Signalling!ToServer)
      /\ \A x : Has(q, x) <=> x = Head(q) \/ Has(Tail(q), x)
      /\ \A x : Once(q, x) => Once(Tail(q), x) /\ (x = Head(q) => ~Has(Tail(q), x))
  BY TailHas
<1>3. toServer'[u] = Tail(q) /\ \A v \in Users : v # u => toServer'[v] = toServer[v]
  BY <1>1
<1> QED BY <1>1, <1>2, <1>3 DEF Starting, Leaving, Accepted

LEMMA OnStartInv ==
  ASSUME SignalsInv, NEW u \in Users, Signalling!Handle(u), Signalling!OnStart(u, Head(toServer[u]))
  PROVE  SignalsInv'
<1> DEFINE m == Head(toServer[u])
<1>1. /\ m \in Signalling!ToServer /\ toServer' \in [Users -> Seq(Signalling!ToServer)]
      /\ \A v \in Users, d \in Calls :
           /\ Starting(v, d)' => Starting(v, d)
           /\ Starting(v, d) => Starting(v, d)' \/ (v = u /\ m = Signalling!Event("start", d))
           /\ Once(toServer[v], Signalling!Event("start", d)) =>
                Once(toServer'[v], Signalling!Event("start", d))
           /\ Leaving(v, d)' => Leaving(v, d)
           /\ Accepted(v, d) => Accepted(v, d)' \/ (v = u /\ m = Signalling!Event("accept", d))
      /\ \A d \in Calls : m = Signalling!Event("start", d) =>
           Starting(u, d) /\ (Once(toServer[u], Signalling!Event("start", d)) => ~Starting(u, d)')
  BY HandleQueue DEF Signalling!Handle, SignalsInv
<1> PICK c \in Calls : m = Signalling!Event("start", c) /\ c = m.call
  BY <1>1, Events DEF Signalling!OnStart
<1>2. \A d \in Calls : m # Signalling!Event("accept", d) /\ (m = Signalling!Event("start", d) => d = c)
  BY Events
<1> PICK x \in Signalling!ToClient : x = Signalling!Event("incoming", c)
  BY Events
<1>3. /\ room' = [room EXCEPT ![c] = @ \cup {u}] /\ toClient' = Signalling!Send(Signalling!Callees(c), x)
      /\ UNCHANGED <<ui, call, incoming, timers, ringTimer, accepting, caller, opening, joins,
                     faults>>
  BY DEF Signalling!Handle, Signalling!OnStart, Signalling!clientVars
<1>9. Sent(Signalling!Callees(c), x)
  BY <1>3, SendHas DEF SignalsInv
<1>4. toClient' \in [Users -> Seq(Signalling!ToClient)]
  BY <1>9 DEF Sent
<1>5. /\ \A v \in Users, d \in Calls :
           /\ Told(v, d)' <=> Told(v, d) \/ (v \in Signalling!Callees(c) /\ d = c)
           /\ Once(toClient[v], Signalling!Event("incoming", d)) /\ (d = c => ~Told(v, d))
                => Once(toClient'[v], Signalling!Event("incoming", d))
  <2>1. \A d \in Calls : Signalling!Event("incoming", d) = x <=> d = c
    BY Events
  <2> QED BY <1>9, <2>1 DEF Sent, Told
<1>6. Signalling!TypeOK'
  <2>1. room' \in [Calls -> SUBSET Users]
    BY <1>3 DEF SignalsInv, Signalling!TypeOK
  <2> QED BY <1>1, <1>3, <1>4, <2>1 DEF SignalsInv, Signalling!TypeOK
<1>7. Signalling!OverlayHasItsCall' /\ Openers'
  BY <1>3 DEF SignalsInv, Signalling!OverlayHasItsCall, Openers
<1> HIDE DEF m
<1>8. ASSUME Calm PROVE Calm'
  <2>1. OneStage(c) /\ Starting(u, c)
    BY <1>1, <1>8 DEF Calm
  <2>2. /\ caller[c] = u /\ ~Unopened(c) /\ \A v \in Users : ~Starting(v, c)'
        /\ \A v \in Users : ~Told(v, c) /\ ~Ringing(v, c)
    BY <1>1, <2>1, CallsAssumption DEF OneStage, Unopened
  <2>3. ASSUME NEW v \in Users, NEW d \in Calls
        PROVE  (Ringing(v, d)' <=> Ringing(v, d)) /\ (Joining(v, d)' <=> Joining(v, d))
    BY <1>3 DEF Ringing, Joining
  <2>4. ASSUME NEW d \in Calls PROVE OneStage(d)'
    <3>1. OneStage(d)
      BY <1>8 DEF Calm
    <3>2. CASE d = c
      <4>1. \A v \in Users : Once(toClient'[v], Signalling!Event("incoming", c))
        BY <1>5, <2>1, <2>2 DEF OneStage
      <4> QED BY <1>1, <1>3, <1>5, <2>2, <2>3, <3>1, <3>2, <4>1 DEF OneStage, Unopened,
          Signalling!Callees
    <3>3. CASE d # c
      BY <1>1, <1>3, <1>5, <2>3, <3>1, <3>3 DEF OneStage, Unopened
    <3> QED BY <3>2, <3>3
  <2>5. ASSUME NEW v \in Users, NEW d \in Calls PROVE InOrOut(v, d)'
    <3>1. InOrOut(v, d)
      BY <1>8 DEF Calm
    <3>2. Expected(v, d)' => Expected(v, d)
      <4>1. d = c /\ v # u => Expected(v, d)
        BY <2>1 DEF Expected
      <4> QED BY <1>1, <1>3, <1>5, <2>2, <2>3, <4>1 DEF Expected, Unopened, Signalling!Callees
    <3>3. Arrived(v, d) => Arrived(v, d)'
      <4>1. room[d] \subseteq room'[d] /\ (d = c => u \in room'[d])
        BY <1>3 DEF SignalsInv, Signalling!TypeOK
      <4> QED BY <1>1, <1>2, <2>3, <4>1, Ways DEF Arrived
    <3> QED BY <1>1, <1>3, <3>1, <3>2, <3>3 DEF InOrOut
  <2> QED BY <1>3, <1>8, <2>4, <2>5 DEF Calm
<1> QED BY <1>3, <1>6, <1>7, <1>8 DEF SignalsInv

(* Events that tell nobody of a call. *)
LEMMA NewsQueue ==
  ASSUME Signalling!TypeOK, NEW to,
         NEW t \in {"cancelled", "peer-joined", "peer-left", "declined", "busy"},
         toClient' = Signalling!Send(to, Signalling!News(t))
  PROVE  /\ toClient' \in [Users -> Seq(Signalling!ToClient)]
         /\ \A v \in Users, c \in Calls :
              /\ Told(v, c)' => Told(v, c)
              /\ Once(toClient[v], Signalling!Event("incoming", c)) =>
                   Once(toClient'[v], Signalling!Event("incoming", c))
<1> PICK x \in Signalling!ToClient : x = Signalling!News(t) /\
      \A c \in Calls : Signalling!Event("incoming", c) # x
  BY Events
<1>1. toClient' = Signalling!Send(to, x)
  OBVIOUS
<1>2. Sent(to, x)
  BY <1>1, SendHas
<1> QED BY <1>2 DEF Sent, Told

LEMMA CancelQueue ==
  ASSUME Signalling!TypeOK, NEW u \in Users, NEW m \in Signalling!ToServer, Signalling!OnCancel(u, m)
  PROVE  /\ toClient' \in [Users -> Seq(Signalling!ToClient)]
         /\ \A v \in Users, c \in Calls :
              /\ Told(v, c)' => Told(v, c)
              /\ Once(toClient[v], Signalling!Event("incoming", c)) =>
                   Once(toClient'[v], Signalling!Event("incoming", c))
<1> PICK x \in Signalling!ToClient : x = Signalling!News("cancelled") /\
      \A c \in Calls : Signalling!Event("incoming", c) # x
  BY Events
<1>1. \A s \in {<<>>, <<x>>} : s \in Seq(Signalling!ToClient) /\ \A e : (Has(s,
    e) => e = x) /\ Once(s, e)
  <2>1. <<>> \in Seq(Signalling!ToClient) /\ <<x>> \in Seq(Signalling!ToClient)
    OBVIOUS
  <2>2. \A e : ~Has(<<>>, e) /\ Once(<<>>, e)
    BY DEF Has, Once
  <2>3. \A e : (Has(<<x>>, e) => e = x) /\ Once(<<x>>, e)
    BY DEF Has, Once
  <2> QED BY <2>1, <2>2, <2>3
<1>2. ASSUME NEW v \in Users
      PROVE  /\ toClient'[v] \in Seq(Signalling!ToClient)
             /\ \A e : e # x => /\ Has(toClient'[v], e) => Has(toClient[v], e)
                                /\ Once(toClient[v], e) => Once(toClient'[v], e)
  <2> PICK q \in Seq(Signalling!ToClient) : q = toClient[v]
    BY DEF Signalling!TypeOK
  <2> PICK a \in Seq(Signalling!ToClient) : /\ a = IF v \in Signalling!Callees(m.call) THEN <<x>> ELSE <<>>
                                 /\ \A e : (Has(a, e) => e = x) /\ Once(a, e)
    BY <1>1
  <2> PICK b \in Seq(Signalling!ToClient) : /\ b = IF v \in room[m.call] THEN <<x>> ELSE <<>>
                                 /\ \A e : (Has(b, e) => e = x) /\ Once(b, e)
    BY <1>1
  <2>1. toClient'[v] = (q \o a) \o b
    BY DEF Signalling!OnCancel
  <2>2. /\ q \o a \in Seq(Signalling!ToClient)
        /\ \A e : Has(q \o a, e) <=> Has(q, e) \/ Has(a, e)
        /\ \A e : Once(q, e) /\ Once(a, e) /\ ~(Has(q, e) /\ Has(a, e)) => Once(q \o a, e)
    BY ConcatHas
  <2> PICK r \in Seq(Signalling!ToClient) : r = q \o a
    BY <2>2
  <2>3. /\ r \o b \in Seq(Signalling!ToClient)
        /\ \A e : Has(r \o b, e) <=> Has(r, e) \/ Has(b, e)
        /\ \A e : Once(r, e) /\ Once(b, e) /\ ~(Has(r, e) /\ Has(b, e)) => Once(r \o b, e)
    BY ConcatHas
  <2>4. ASSUME NEW e, e # x
        PROVE  /\ Has(toClient'[v], e) => Has(toClient[v], e)
               /\ Once(toClient[v], e) => Once(toClient'[v], e)
    BY <2>1, <2>2, <2>3, <2>4
  <2> QED BY <2>1, <2>3, <2>4
<1>3. toClient' \in [Users -> Seq(Signalling!ToClient)]
  <2>1. \E f : toClient' = [v \in Users |-> f[v]]
    <3>1. toClient' = [v \in Users |-> toClient'[v]]
      BY DEF Signalling!OnCancel
    <3> QED BY <3>1
  <2> QED BY <1>2, <2>1
<1> QED BY <1>2, <1>3 DEF Told

LEMMA HandleInv ==
  ASSUME SignalsInv, NEW u \in Users, Signalling!Handle(u)
  PROVE  SignalsInv'
<1> DEFINE m == Head(toServer[u])
<1>1. /\ m \in Signalling!ToServer /\ toServer' \in [Users -> Seq(Signalling!ToServer)]
      /\ \A v \in Users, c \in Calls :
           /\ Starting(v, c)' => Starting(v, c)
           /\ Starting(v, c) => Starting(v, c)' \/ (v = u /\ m = Signalling!Event("start", c))
           /\ Once(toServer[v], Signalling!Event("start", c)) =>
                Once(toServer'[v], Signalling!Event("start", c))
           /\ Leaving(v, c)' => Leaving(v, c)
           /\ Accepted(v, c) => Accepted(v, c)' \/ (v = u /\ m = Signalling!Event("accept", c))
      /\ \A c \in Calls : m = Signalling!Event("leave", c) => Leaving(u, c)
  BY HandleQueue DEF Signalling!Handle, SignalsInv
<1>2. /\ UNCHANGED <<Signalling!clientVars, faults>>
      /\ Signalling!OnStart(u, m) \/ Signalling!OnAccept(u, m) \/ Signalling!OnReject(u, m) \/
           Signalling!OnCancel(u, m) \/ Signalling!OnLeave(u, m)
  BY DEF Signalling!Handle
<1> HIDE DEF m
<1>3. m = Signalling!Event(m.type, m.call) /\ m.call \in Calls
  BY <1>1, Events
<1>4. ASSUME Signalling!TypeOK, toClient' \in [Users -> Seq(Signalling!ToClient)],
    room' \in [Calls -> SUBSET Users],
             joins' \subseteq [user: Users, call: Calls, alive: BOOLEAN]
      PROVE  Signalling!TypeOK'
  BY <1>1, <1>2, <1>4 DEF Signalling!TypeOK, Signalling!clientVars
<1>5. CASE Signalling!OnStart(u, m)
  BY <1>5, OnStartInv DEF m
<1>6. CASE Signalling!OnAccept(u, m)
  <2>1. /\ joins' = joins \cup {[user |-> u, call |-> m.call, alive |-> TRUE]}
        /\ UNCHANGED <<room, toClient>> /\ m.type = "accept"
    BY <1>6 DEF Signalling!OnAccept
  <2> PICK r \in [user: Users, call: Calls, alive: BOOLEAN] :
        r = [user |-> u, call |-> m.call, alive |-> TRUE]
    BY <1>3
  <2>2. Signalling!TypeOK'
    <3>1. joins \subseteq [user: Users, call: Calls, alive: BOOLEAN] /\ Signalling!TypeOK
      BY DEF SignalsInv, Signalling!TypeOK
    <3>2. joins' \subseteq [user: Users, call: Calls, alive: BOOLEAN]
      BY <2>1, <3>1
    <3>3. toClient' \in [Users -> Seq(Signalling!ToClient)] /\ room' \in [Calls -> SUBSET Users]
      BY <2>1, <3>1 DEF Signalling!TypeOK
    <3> QED BY <1>4, <3>1, <3>2, <3>3
  <2>3. \A v \in Users, c \in Calls :
          Joining(v, c) \/ (v = u /\ m = Signalling!Event("accept", c)) => Joining(v, c)'
    <3>1. \A c \in Calls : m = Signalling!Event("accept", c) => c = m.call
      BY <1>3, Events
    <3>2. r \in joins' /\ joins \subseteq joins' /\ r.user = u /\ r.call = m.call
      BY <2>1
    <3> QED BY <3>1, <3>2 DEF Joining
  <2>4. \A c \in Calls : m # Signalling!Event("start", c)
    BY <1>3, <2>1, Events
  <2>5. ASSUME NEW v \in Users, NEW c \in Calls PROVE Arrived(v, c) => Arrived(v, c)'
    BY <1>1, <2>1, <2>3, <2>4, Ways DEF Arrived
  <2>6. Calm => \A j \in joins' : j.alive
    BY <2>1 DEF Calm
  <2> QED BY <1>1, <1>2, <2>1, <2>2, <2>5, <2>6, SameToClient, ServerStep
<1>7. CASE Signalling!OnReject(u, m) \/ Signalling!OnCancel(u, m)
  <2>1. UNCHANGED <<room, joins>> /\ m.type \in {"reject", "busy", "cancel"}
    BY <1>7 DEF Signalling!OnReject, Signalling!OnCancel
  <2>2. /\ toClient' \in [Users -> Seq(Signalling!ToClient)]
        /\ \A v \in Users, c \in Calls :
             /\ Told(v, c)' => Told(v, c)
             /\ Once(toClient[v], Signalling!Event("incoming", c)) =>
                  Once(toClient'[v], Signalling!Event("incoming", c))
    <3>1. CASE Signalling!OnReject(u, m)
      <4> PICK t \in {"busy", "declined"} : toClient' = Signalling!Send(room[m.call], Signalling!News(t))
        BY <3>1 DEF Signalling!OnReject
      <4> QED BY NewsQueue DEF SignalsInv
    <3>2. CASE Signalling!OnCancel(u, m)
      BY <1>1, <3>2, CancelQueue DEF SignalsInv
    <3> QED BY <1>7, <3>1, <3>2
  <2>3. Signalling!TypeOK'
    BY <1>4, <2>1, <2>2 DEF SignalsInv, Signalling!TypeOK
  <2>4. \A c \in Calls : m # Signalling!Event("start", c) /\ m # Signalling!Event("accept", c)
    BY <1>3, <2>1, Events
  <2>5. ASSUME NEW v \in Users, NEW c \in Calls PROVE Arrived(v, c) => Arrived(v, c)'
    BY <1>1, <2>1, <2>4, Ways DEF Arrived, Joining
  <2>6. Calm => \A j \in joins' : j.alive
    BY <2>1 DEF Calm
  <2> QED BY <1>1, <1>2, <2>2, <2>3, <2>5, <2>6, ServerStep
<1>8. CASE Signalling!OnLeave(u, m)
  <2> PICK c \in Calls : c = m.call /\ m = Signalling!Event("leave", c)
    BY <1>3, <1>8 DEF Signalling!OnLeave
  <2>1. /\ toClient' = Signalling!Send(room[c] \ {u}, Signalling!News("peer-left"))
        /\ room' = [room EXCEPT ![c] = @ \ {u}] /\ UNCHANGED joins
    BY <1>8 DEF Signalling!OnLeave
  <2>2. /\ toClient' \in [Users -> Seq(Signalling!ToClient)]
        /\ \A v \in Users, d \in Calls :
             /\ Told(v, d)' => Told(v, d)
             /\ Once(toClient[v], Signalling!Event("incoming", d)) =>
                  Once(toClient'[v], Signalling!Event("incoming", d))
    BY <2>1, NewsQueue DEF SignalsInv
  <2>3. room' \in [Calls -> SUBSET Users]
    BY <2>1 DEF SignalsInv, Signalling!TypeOK
  <2>4. Signalling!TypeOK'
    BY <1>4, <2>1, <2>2, <2>3 DEF SignalsInv, Signalling!TypeOK
  <2>5. \A d \in Calls : m # Signalling!Event("start", d) /\ m # Signalling!Event("accept", d)
    BY Events
  <2>6. ASSUME NEW v \in Users, NEW d \in Calls, Calm, call[v] = d, Arrived(v, d)
        PROVE  Arrived(v, d)'
    <3>1. ~(v = u /\ d = c)
      BY <1>1, <2>6 DEF Calm, InOrOut
    <3>2. v \in room[d] => v \in room'[d]
      BY <2>1, <3>1 DEF SignalsInv, Signalling!TypeOK
    <3> QED BY <1>1, <2>1, <2>5, <2>6, <3>2, Ways DEF Arrived, Joining
  <2>7. Calm => \A j \in joins' : j.alive
    BY <2>1 DEF Calm
  <2> QED BY <1>1, <1>2, <2>2, <2>4, <2>6, <2>7, ServerStep
<1> QED BY <1>2, <1>5, <1>6, <1>7, <1>8

LEMMA FinishAcceptInv ==
  ASSUME SignalsInv, NEW j \in joins, Signalling!FinishAccept(j)
  PROVE  SignalsInv'
<1>1. /\ joins' = joins \ {j} /\
           toClient' = Signalling!Send(room[j.call] \ {j.user}, Signalling!News("peer-joined"))
      /\ room' = IF j.alive THEN [room EXCEPT ![j.call] = @ \cup {j.user}] ELSE room
      /\ UNCHANGED <<Signalling!clientVars, toServer, faults>>
      /\ j.user \in Users /\ j.call \in Calls /\ j.alive \in BOOLEAN
  BY DEF Signalling!FinishAccept, SignalsInv, Signalling!TypeOK
<1>2. /\ toClient' \in [Users -> Seq(Signalling!ToClient)]
      /\ \A v \in Users, d \in Calls :
           /\ Told(v, d)' => Told(v, d)
           /\ Once(toClient[v], Signalling!Event("incoming", d)) =>
                Once(toClient'[v], Signalling!Event("incoming", d))
  BY <1>1, NewsQueue DEF SignalsInv
<1>3. /\ room' \in [Calls -> SUBSET Users]
      /\ \A c \in Calls : room[c] \subseteq room'[c]
      /\ j.alive => j.user \in room'[j.call]
  <2>1. room \in [Calls -> SUBSET Users]
    BY DEF SignalsInv, Signalling!TypeOK
  <2> QED BY <1>1, <2>1
<1>4. Signalling!TypeOK'
  BY <1>1, <1>2, <1>3 DEF SignalsInv, Signalling!TypeOK, Signalling!clientVars
<1>5. ASSUME NEW v \in Users, NEW c \in Calls, Calm, Arrived(v, c) PROVE Arrived(v, c)'
  <2>1. j.alive
    BY <1>5 DEF Calm
  <2>2. Joining(v, c) => Joining(v, c)' \/ v \in room'[c]
    BY <1>1, <1>3, <2>1 DEF Joining
  <2> QED BY <1>1, <1>3, <1>5, <2>2, SameToServer, Ways DEF Arrived
<1>6. Calm => \A k \in joins' : k.alive
  BY <1>1 DEF Calm
<1> QED BY <1>1, <1>2, <1>4, <1>5, <1>6, SameToServer, ServerStep
-----------------------------------------------------------------------------
(* Lost connections: what is left to say is that the overlay has its call. *)

LEMMA SameCardinality ==
  ASSUME NEW S
  PROVE  Signalling!Cardinality(S) = Cardinality(S)
BY DEF Signalling!Cardinality, Cardinality

LEMMA SocketGoneTypes ==
  ASSUME Signalling!TypeOK, NEW u \in Users, Signalling!SocketGone(u)
  PROVE  /\ room' \in [Calls -> SUBSET Users]
         /\ joins' \subseteq [user: Users, call: Calls, alive: BOOLEAN]
         /\ toClient' \in [Users -> Seq(Signalling!ToClient)]
<1> PICK x \in Signalling!ToClient : x = Signalling!News("peer-left")
  BY Events
<1>1. room' \in [Calls -> SUBSET Users]
  BY DEF Signalling!SocketGone, Signalling!TypeOK
<1>2. joins' \subseteq [user: Users, call: Calls, alive: BOOLEAN]
  <2>1. ASSUME NEW j \in joins
        PROVE  [j EXCEPT !.alive = @ /\ j.user # u] \in [user: Users, call: Calls, alive: BOOLEAN]
    <3>1. j \in [user: Users, call: Calls, alive: BOOLEAN]
      BY DEF Signalling!TypeOK
    <3>2. (j.alive /\ j.user # u) \in BOOLEAN
      OBVIOUS
    <3> QED BY <3>1, <3>2
  <2> QED BY <2>1 DEF Signalling!SocketGone
<1>3. ASSUME NEW v \in Users PROVE toClient'[v] \in Seq(Signalling!ToClient)
  <2> DEFINE shared == {c \in Calls : {u, v} \subseteq room[c]}
  <2>1. Signalling!Cardinality(shared) \in Nat
    BY CallsAssumption, SameCardinality, FS_Subset, FS_CardinalityType
  <2> PICK n \in Nat : n = Signalling!Cardinality(shared)
    BY <2>1
  <2>2. toClient'[v] = IF v = u THEN <<>> ELSE toClient[v] \o [i \in 1 .. n |-> x]
    BY DEF Signalling!SocketGone
  <2>3. <<>> \in Seq(Signalling!ToClient) /\ [i \in 1 .. n |-> x] \in Seq(Signalling!ToClient)
    OBVIOUS
  <2> PICK q \in Seq(Signalling!ToClient), r \in Seq(Signalling!ToClient) : q = toClient[v] /\
        r = [i \in 1 .. n |-> x]
    BY <2>3 DEF Signalling!TypeOK
  <2>4. q \o r \in Seq(Signalling!ToClient)
    OBVIOUS
  <2> QED BY <2>2, <2>3, <2>4
<1>4. toClient' = [v \in Users |-> toClient'[v]]
  BY DEF Signalling!SocketGone
<1> QED BY <1>1, <1>2, <1>3, <1>4

LEMMA ReconnectInv ==
  ASSUME SignalsInv, NEW u \in Users, Signalling!Reconnect(u)
  PROVE  SignalsInv'
<1>1. Signalling!TypeOK
  BY DEF SignalsInv
<1>2. /\ room' \in [Calls -> SUBSET Users]
      /\ joins' \subseteq [user: Users, call: Calls, alive: BOOLEAN]
      /\ toClient' \in [Users -> Seq(Signalling!ToClient)]
  BY <1>1, SocketGoneTypes DEF Signalling!Reconnect
<1>3. faults' \in 0 .. MaxFaults /\ faults' # 0
  BY <1>1, CallsAssumption DEF Signalling!Reconnect, Signalling!Fault, Signalling!TypeOK
<1>4. toServer' \in [Users -> Seq(Signalling!ToServer)]
  <2>1. <<>> \in Seq(Signalling!ToServer) /\ toServer \in [Users -> Seq(Signalling!ToServer)]
    BY <1>1 DEF Signalling!TypeOK
  <2> QED BY <2>1 DEF Signalling!Reconnect
<1>5. UNCHANGED Signalling!clientVars
  BY DEF Signalling!Reconnect
<1>6. Signalling!TypeOK'
  BY <1>1, <1>2, <1>3, <1>4, <1>5 DEF Signalling!TypeOK, Signalling!clientVars
<1> QED BY <1>3, <1>5, <1>6 DEF SignalsInv, Signalling!OverlayHasItsCall, Openers, Signalling!clientVars

LEMMA CloseTabInv ==
  ASSUME SignalsInv, NEW u \in Users, Signalling!CloseTab(u)
  PROVE  SignalsInv'
<1>1. Signalling!TypeOK
  BY DEF SignalsInv
<1>2. /\ room' \in [Calls -> SUBSET Users]
      /\ joins' \subseteq [user: Users, call: Calls, alive: BOOLEAN]
      /\ toClient' \in [Users -> Seq(Signalling!ToClient)]
  BY <1>1, SocketGoneTypes DEF Signalling!CloseTab
<1>3. faults' \in 0 .. MaxFaults /\ faults' # 0
  BY <1>1, CallsAssumption DEF Signalling!CloseTab, Signalling!Fault, Signalling!TypeOK
<1>4. toServer' \in [Users -> Seq(Signalling!ToServer)]
  <2>1. <<>> \in Seq(Signalling!ToServer) /\ toServer \in [Users -> Seq(Signalling!ToServer)]
    BY <1>1 DEF Signalling!TypeOK
  <2> QED BY <2>1 DEF Signalling!CloseTab
<1>5. /\ ui' \in [Users -> {"idle", "incoming", "outgoing", "active"}]
      /\ ui'[u] = "idle" /\ \A v \in Users : v # u => ui'[v] = ui[v]
  BY <1>1, CleanupTypes DEF Signalling!CloseTab
<1>6. /\ call' \in [Users -> Calls \cup {Nothing}] /\ incoming' \in [Users -> Calls \cup {Nothing}]
      /\ \A v \in Users : v # u => call'[v] = call[v] /\ incoming'[v] = incoming[v]
  BY <1>1 DEF Signalling!CloseTab, Signalling!TypeOK
<1>7. ringTimer' \in [Users -> Calls \cup {Nothing}]
  BY <1>1 DEF Signalling!CloseTab, Signalling!TypeOK
<1>8. timers' \in [Users -> SUBSET Calls] /\ accepting' \in [Users -> SUBSET Calls]
  BY <1>1 DEF Signalling!CloseTab, Signalling!TypeOK
<1>9. opening' \subseteq opening /\ UNCHANGED caller
  BY DEF Signalling!CloseTab
<1>10. Signalling!TypeOK'
  BY <1>1, <1>2, <1>3, <1>4, <1>5, <1>6, <1>7, <1>8, <1>9 DEF Signalling!TypeOK
<1>11. Signalling!OverlayHasItsCall'
  BY <1>5, <1>6 DEF SignalsInv, Signalling!OverlayHasItsCall
<1>12. Openers'
  BY <1>9 DEF SignalsInv, Openers
<1> QED BY <1>3, <1>10, <1>11, <1>12 DEF SignalsInv
-----------------------------------------------------------------------------
(* The invariant holds at first and at every step. *)

LEMMA SignalsInitInv == Signalling!Init => SignalsInv
<1> SUFFICES ASSUME Signalling!Init PROVE SignalsInv
  OBVIOUS
<1>1. <<>> \in Seq(Signalling!ToServer) /\ <<>> \in Seq(Signalling!ToClient)
  OBVIOUS
<1>2. Signalling!TypeOK
  BY <1>1, CallsAssumption DEF Signalling!Init, Signalling!TypeOK
<1>3. \A x : ~Has(<<>>, x) /\ Once(<<>>, x)
  BY DEF Has, Once
<1>4. \A u \in Users : toServer[u] = <<>> /\ toClient[u] = <<>>
  BY DEF Signalling!Init
<1>5. ASSUME NEW u \in Users, NEW c \in Calls
      PROVE  ~Starting(u, c) /\ ~Leaving(u, c) /\ ~Told(u, c) /\ ~Ringing(u, c) /\ call[u] # c
  BY <1>3, <1>4, CallsAssumption DEF Signalling!Init, Starting, Leaving, Told, Ringing
<1>6. ASSUME NEW c \in Calls PROVE OneStage(c)
  BY <1>3, <1>4, <1>5 DEF OneStage
<1>7. ASSUME NEW u \in Users, NEW c \in Calls PROVE InOrOut(u, c)
  BY <1>5 DEF InOrOut
<1>8. Calm
  BY <1>6, <1>7 DEF Calm, Signalling!Init
<1> QED BY <1>2, <1>8 DEF Signalling!Init, SignalsInv, Signalling!OverlayHasItsCall, Openers

LEMMA Unmoved ==
  ASSUME SignalsInv, UNCHANGED Signalling!vars
  PROVE  SignalsInv'
<1> USE DEF Signalling!vars, Signalling!clientVars, Signalling!serverVars
<1>1. Signalling!TypeOK' /\ Signalling!OverlayHasItsCall' /\ Openers'
  BY DEF SignalsInv, Signalling!TypeOK, Signalling!OverlayHasItsCall, Openers
<1>2. ASSUME Calm PROVE Calm'
  <2>1. /\ \A v \in Users, c \in Calls :
             /\ Starting(v, c)' <=> Starting(v, c)
             /\ Leaving(v, c)' <=> Leaving(v, c)
             /\ Accepted(v, c)' <=> Accepted(v, c)
             /\ Once(toServer'[v], Signalling!Event("start", c)) <=>
                  Once(toServer[v], Signalling!Event("start", c))
        /\ \A v \in Users, c \in Calls :
             /\ Told(v, c)' <=> Told(v, c)
             /\ Once(toClient'[v], Signalling!Event("incoming", c)) <=>
                  Once(toClient[v], Signalling!Event("incoming", c))
    BY SameToServer, SameToClient
  <2>2. \A v \in Users, c \in Calls :
          /\ Ringing(v, c)' <=> Ringing(v, c)
          /\ Joining(v, c)' <=> Joining(v, c)
    BY DEF Ringing, Joining
  <2>3. \A v \in Users, c \in Calls : Arrived(v, c) => Arrived(v, c)'
    BY <2>1, <2>2, Ways DEF Arrived
  <2>4. \A j \in joins' : j.alive
    BY <1>2 DEF Calm
  <2> QED BY <1>2, <2>1, <2>2, <2>3, <2>4, Shrinks
<1> QED BY <1>1, <1>2 DEF SignalsInv

LEMMA SignalsNextInv == SignalsInv /\ [Signalling!Next]_(Signalling!vars) => SignalsInv'
<1> SUFFICES ASSUME SignalsInv, [Signalling!Next]_(Signalling!vars) PROVE SignalsInv'
  OBVIOUS
<1>1. CASE UNCHANGED Signalling!vars
  BY <1>1, Unmoved
<1>2. ASSUME NEW u \in Users, NEW c \in Calls, Signalling!StartCall(u, c) PROVE SignalsInv'
  BY <1>2, StartCallInv
<1>3. ASSUME NEW u \in Users, NEW c \in Calls, Signalling!RingTimeout(u, c) PROVE SignalsInv'
  BY <1>3, HangupInv, QuietClientInv
<1>4. ASSUME NEW u \in Users, NEW c \in Calls, Signalling!MediaReady(u, c) PROVE SignalsInv'
  BY <1>4, MediaReadyInv
<1>5. ASSUME NEW u \in Users, NEW c \in Calls, Signalling!MediaDenied(u, c) PROVE SignalsInv'
  BY <1>5, RejectInv
<1>6. ASSUME NEW c \in Calls, Signalling!CallOpened(c) PROVE SignalsInv'
  BY <1>6, CallOpenedInv
<1>7. ASSUME NEW c \in Calls, Signalling!CallDenied(c) PROVE SignalsInv'
  <2>1. c \in opening /\ caller[c] \in Users
    BY <1>7 DEF Signalling!CallDenied, SignalsInv, Openers
  <2> QED BY <1>7, <2>1, QuietClientInv
<1>8. ASSUME NEW u \in Users, Signalling!Hangup(u) \/ Signalling!AcceptCall(u) \/
               Signalling!RejectCall(u) PROVE SignalsInv'
  BY <1>8, HangupInv, QuietClientInv, RejectInv
<1>9. ASSUME NEW u \in Users, Signalling!Receive(u) \/ Signalling!Handle(u) PROVE SignalsInv'
  BY <1>9, ReceiveInv, HandleInv
<1>10. ASSUME NEW u \in Users, Signalling!Reconnect(u) \/ Signalling!CloseTab(u) PROVE SignalsInv'
  BY <1>10, ReconnectInv, CloseTabInv
<1>11. ASSUME NEW j \in joins, Signalling!FinishAccept(j) PROVE SignalsInv'
  BY <1>11, FinishAcceptInv
<1> QED BY <1>1, <1>2, <1>3, <1>4, <1>5, <1>6, <1>7, <1>8, <1>9, <1>10, <1>11 DEF Signalling!Next

(* The invariant, whatever the clients and the server do and in any order. *)
THEOREM SignalsHold == Signalling!Spec => []SignalsInv
<1> QED BY SignalsInitInv, SignalsNextInv, PTL DEF Signalling!Spec

(* Every queue carries events its receiver knows, and no client or room refers to what is
   not a call or a member. *)
THEOREM SignalsTyped == Signalling!Spec => []Signalling!TypeOK
<1>1. SignalsInv => Signalling!TypeOK
  BY DEF SignalsInv
<1> QED BY <1>1, SignalsHold, PTL

LEMMA SignalsOverlay == SignalsInv => Signalling!OverlayTellsTheTruth
<1> SUFFICES ASSUME SignalsInv PROVE Signalling!OverlayTellsTheTruth
  OBVIOUS
<1>1. Signalling!OverlayHasItsCall /\ Signalling!TypeOK
  BY DEF SignalsInv
<1>2. ASSUME NEW u \in Users, faults = 0, ui[u] \in {"outgoing", "active"}
      PROVE  u \in room[call[u]] \/ Signalling!OnItsWay(u, call[u])
  <2>1. call[u] \in Calls
    BY <1>1, <1>2 DEF Signalling!OverlayHasItsCall, Signalling!TypeOK
  <2>2. Calm
    BY <1>2 DEF SignalsInv
  <2>3. InOrOut(u, call[u])
    BY <2>1, <2>2 DEF Calm
  <2> QED BY <2>3 DEF InOrOut, Arrived
<1>3. Signalling!InCallHears
  BY <1>2 DEF Signalling!InCallHears
<1> QED BY <1>1, <1>3 DEF Signalling!OverlayTellsTheTruth

(* What the overlay shows is so, for any members and calls: it has the call its buttons act
   on, and while no connection is lost whoever shows a call has its socket in the call's
   room or on its way there.  This rests on callStore's acceptCall and startCall, and on
   the order in which socket.ts handles a client's events. *)
THEOREM OverlayInSignals == Signalling!Spec => []Signalling!OverlayTellsTheTruth
<1> QED BY SignalsOverlay, SignalsHold, PTL

-----------------------------------------------------------------------------
(* From end to end.  Neither the clients and the server nor the database reach a state out of
   their types, however their steps interleave. *)
THEOREM TypeCorrect == Spec => []TypeOK
<1>1. RowsInv => Records!TypeOK
  BY DEF RowsInv
<1> QED BY <1>1, ImplementsSignalling, SignalsTyped, TypeOfRows, PTL DEF TypeOK

(* With the database at work too, the overlay has the call its buttons act on, and while no
   connection is lost whoever shows a call is in its room or on the way to it. *)
THEOREM OverlayIsTrue == Spec => []OverlayTellsTheTruth
<1>1. Signalling!OverlayTellsTheTruth => OverlayTellsTheTruth
  BY DEF OverlayTellsTheTruth
<1> QED BY <1>1, ImplementsSignalling, OverlayInSignals, PTL
=============================================================================
