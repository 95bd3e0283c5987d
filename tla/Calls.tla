------------------------------- MODULE Calls -------------------------------
(***************************************************************************)
(* A call from end to end: CallSignalling, whose steps leave requests and   *)
(* acceptances for CallRecords.  Each action is one of CallSignalling with   *)
(* what the same code sends to the database, or a step of the database.       *)
(***************************************************************************)
EXTENDS Integers, Sequences, FiniteSets

CONSTANTS Users, Calls, GroupCalls, MaxFaults, Nothing

(* A call has two ends, and what is sent to each is finite. *)
ASSUME CallsAssumption ==
  /\ IsFiniteSet(Users) /\ IsFiniteSet(Calls)
  /\ Cardinality(Users) >= 2
  /\ GroupCalls \subseteq Calls
  /\ Nothing \notin Calls \cup Users
  /\ MaxFaults \in Nat

VARIABLES
  ui, call, incoming, timers, ringTimer, accepting, caller, opening,
  toServer, toClient, room, joins, faults,
  row, request, persist, events, raced

Signalling == INSTANCE CallSignalling
Records    == INSTANCE CallRecords

signalVars == <<ui, call, incoming, timers, ringTimer, accepting, caller, opening,
                toServer, toClient, room, joins, faults>>
recordVars == <<row, request, persist, events, raced>>
vars == <<signalVars, recordVars>>

TypeOK == Signalling!TypeOK /\ Records!TypeOK

Init == Signalling!Init /\ Records!Init

NoRecords == UNCHANGED recordVars

CallOpened(c) == Signalling!CallOpened(c) /\ Records!Create(c)

(* A status the database does not have. *)
OutcomeCancelado(u) == IF ui[u] = "active" THEN "ended" ELSE "cancelled"

(* The row may have been created, and the answer lost. *)
CallDenied(c) == Signalling!CallDenied(c) /\ (NoRecords \/ Records!Create(c))

(* hangup tells how the call ended from its own status. *)
Outcome(u) == IF ui[u] = "active" THEN "ended" ELSE "missed"

Hangup(u) == Signalling!Hangup(u) /\ Records!PutStatus(u, call[u], Outcome(u))

RingTimeout(u, c) ==
  /\ Signalling!RingTimeout(u, c)
  /\ IF ui[u] = "outgoing" THEN Records!PutStatus(u, call[u], "missed") ELSE NoRecords

(* A rejection closes the call in the caller's name. *)
Receive(u) ==
  LET m == Head(toClient[u]) IN
  /\ Signalling!Receive(u)
  /\ IF m.type \in {"declined", "busy"} /\ ui[u] = "outgoing" /\ ~Signalling!IsGroup(u, call[u])
       THEN Records!PutStatus(u, call[u], IF m.type = "busy" THEN "missed" ELSE "rejected")
       ELSE NoRecords

FinishAccept(j) == Signalling!FinishAccept(j) /\ Records!Accept(j.user, j.call)

(* The tab may close after the row of its call was created and before it rang. *)
CloseTab(u) ==
  /\ Signalling!CloseTab(u)
  /\ \/ NoRecords
     \/ \E c \in opening : caller[c] = u /\ Records!Create(c)

ClientAlone(u, c) ==
  \/ Signalling!StartCall(u, c) \/ Signalling!MediaReady(u, c) \/ Signalling!MediaDenied(u, c)

Database(u, c) == Records!Serve(u, c) /\ UNCHANGED signalVars

Next ==
  \/ \E u \in Users, c \in Calls : ClientAlone(u, c) /\ NoRecords
  \/ \E u \in Users, c \in Calls : RingTimeout(u, c) \/ Database(u, c)
  \/ \E c \in Calls : CallOpened(c) \/ CallDenied(c)
  \/ \E u \in Users :
       /\ Signalling!AcceptCall(u) \/ Signalling!RejectCall(u)
          \/ Signalling!Handle(u) \/ Signalling!Reconnect(u)
       /\ NoRecords
  \/ \E u \in Users : Hangup(u) \/ Receive(u) \/ CloseTab(u)
  \/ \E j \in joins : FinishAccept(j)

(* Events are delivered and handled, timeouts fire and requests are served.  People owe
   nothing: neither an answer, nor a microphone, nor to hang up. *)
Fairness ==
  /\ \A u \in Users :
       WF_vars(Receive(u)) /\ WF_vars(Signalling!Handle(u) /\ NoRecords)
  /\ \A u \in Users, c \in Calls : WF_vars(RingTimeout(u, c)) /\ WF_vars(Database(u, c))
  /\ WF_vars(\E j \in joins : FinishAccept(j))

Spec == Init /\ [][Next]_vars /\ Fairness

-----------------------------------------------------------------------------
(* Nobody waits for an answer forever, whatever connection is lost or answer crosses the
   timeout. *)
RingingEnds ==
  \A u \in Users : ui[u] = "outgoing" ~> ui[u] # "outgoing"

(* A client that closes a call leaves its event in the conversation, though it does not
   wait for the request, which may find the call closed by another. *)
ClosedCallIsRecorded ==
  \A c \in Calls :
    (\E u \in Users : request[u][c].stage # "none") ~> events[c] > 0

(* The timeline gets a second event only through the races CallRecords names. *)
SecondEventNeedsRace == Records!SecondEventNeedsRace

(* Who shows a call hears what happens in it, and its buttons have a call to act on, whatever
   the database does meanwhile. *)
OverlayTellsTheTruth == Signalling!OverlayTellsTheTruth
============================================================================
