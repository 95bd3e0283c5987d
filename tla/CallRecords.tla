---------------------------- MODULE CallRecords ----------------------------
(***************************************************************************)
(* The rows of calls (services/call.service.ts, call.repository.ts, and the *)
(* persistence of call:accept in socket.ts): requests close a call and post *)
(* its event to the conversation, and acceptances mark it active, each one  *)
(* reading the row and writing it later.                                     *)
(*                                                                         *)
(* Abstracted: the timestamps and the duration, the rows of participants,    *)
(* which nothing here reads, and what fails between a read and a write.        *)
(* An event is posted in the step that writes the row: nobody looks at the    *)
(* events in between.                                                         *)
(***************************************************************************)
EXTENDS Integers

CONSTANTS
  Users,       \* who may close or accept a call
  Calls        \* rows of calls

VARIABLES
  row,         \* row[c]: the status column, "none" before the row exists
  request,     \* request[u][c]: u's PUT /calls/{c}/status, with its status
  persist,     \* persist[u][c]: what u's acceptance does in the background
  events,      \* events[c]: call events posted to the conversation
  raced        \* history: calls closed twice at once, or reopened

recordVars == <<row, request, persist, events, raced>>

(* TERMINAL_STATUSES *)
Terminal == {"ended", "missed", "rejected", "failed"}

Stages == {"none", "sent", "open", "closed"}

TypeOK ==
  /\ row \in [Calls -> {"none", "pending", "active"} \cup Terminal]
  /\ request \in [Users -> [Calls -> [stage: Stages, status: Terminal]]]
  /\ persist \in [Users -> [Calls -> {"none", "read", "write"}]]
  /\ events \in [Calls -> Nat]
  /\ raced \subseteq Calls

NoRequest == [stage |-> "none", status |-> "failed"]

Init ==
  /\ row = [c \in Calls |-> "none"]
  /\ request = [u \in Users |-> [c \in Calls |-> NoRequest]]
  /\ persist = [u \in Users |-> [c \in Calls |-> "none"]]
  /\ events = [c \in Calls |-> 0]
  /\ raced = {}

-----------------------------------------------------------------------------
(* initiate. *)
Create(c) ==
  /\ row[c] = "none"
  /\ row' = [row EXCEPT ![c] = "pending"]
  /\ UNCHANGED <<request, persist, events, raced>>

(* A client asks for the call to be closed.  It closes each call once. *)
PutStatus(u, c, s) ==
  /\ request[u][c] = NoRequest
  /\ request' = [request EXCEPT ![u][c] = [stage |-> "sent", status |-> s]]
  /\ UNCHANGED <<row, persist, events, raced>>

(* updateStatus reads the row: was the call over already? *)
ReadStatus(u, c) ==
  /\ request[u][c].stage = "sent"
  /\ request' = [request EXCEPT ![u][c].stage =
                   IF row[c] \in Terminal THEN "closed" ELSE "open"]
  /\ raced' = IF row[c] \notin Terminal /\ \E v \in Users : request[v][c].stage = "open"
                THEN raced \cup {c} ELSE raced
  /\ UNCHANGED <<row, persist, events>>

(* The event left to the request that found the call closed. *)
WriteStatusAlReves(u, c) ==
  /\ request[u][c].stage \in {"open", "closed"}
  /\ row' = [row EXCEPT ![c] = request[u][c].status]
  /\ events' = IF request[u][c].stage = "closed" THEN [events EXCEPT ![c] = @ + 1] ELSE events
  /\ request' = [request EXCEPT ![u][c] = NoRequest]
  /\ UNCHANGED <<persist, raced>>

(* The event posted whatever the call was before. *)
WriteStatusSinMirar(u, c) ==
  /\ request[u][c].stage \in {"open", "closed"}
  /\ row' = [row EXCEPT ![c] = request[u][c].status]
  /\ events' = [events EXCEPT ![c] = @ + 1]
  /\ request' = [request EXCEPT ![u][c] = NoRequest]
  /\ UNCHANGED <<persist, raced>>

(* It is over now, and if it was not before, _emitCallEvent posts the event. *)
WriteStatus(u, c) ==
  /\ request[u][c].stage \in {"open", "closed"}
  /\ row' = [row EXCEPT ![c] = request[u][c].status]
  /\ events' = IF request[u][c].stage = "open" THEN [events EXCEPT ![c] = @ + 1] ELSE events
  /\ request' = [request EXCEPT ![u][c] = NoRequest]
  /\ UNCHANGED <<persist, raced>>

-----------------------------------------------------------------------------
(* call:accept leaves the rest to the background. *)
Accept(u, c) ==
  /\ persist[u][c] = "none"
  /\ persist' = [persist EXCEPT ![u][c] = "read"]
  /\ UNCHANGED <<row, request, events, raced>>

(* Unless the call is active already ... *)
ReadBeforeActive(u, c) ==
  /\ persist[u][c] = "read"
  /\ persist' = [persist EXCEPT ![u][c] = IF row[c] = "active" THEN "none" ELSE "write"]
  /\ UNCHANGED <<row, request, events, raced>>

(* ... it is marked active, whatever it is by now. *)
MarkActive(u, c) ==
  /\ persist[u][c] = "write"
  /\ row' = [row EXCEPT ![c] = "active"]
  /\ raced' = IF row[c] \in Terminal THEN raced \cup {c} ELSE raced
  /\ persist' = [persist EXCEPT ![u][c] = "none"]
  /\ UNCHANGED <<request, events>>

Serve(u, c) == ReadStatus(u, c) \/ WriteStatus(u, c) \/ ReadBeforeActive(u, c) \/ MarkActive(u, c)

Next ==
  \/ \E c \in Calls : Create(c)
  \/ \E u \in Users, c \in Calls :
       \/ \E s \in Terminal : PutStatus(u, c, s)
       \/ Accept(u, c)
       \/ Serve(u, c)

Spec == Init /\ [][Next]_recordVars

-----------------------------------------------------------------------------
(* The timeline gets a call's event once, except when two requests both found the call
   open, or an acceptance reopened it after it was over. *)
SecondEventNeedsRace ==
  \A c \in Calls : events[c] > 1 => c \in raced
============================================================================
