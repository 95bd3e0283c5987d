--------------------------- MODULE Broadcast_proofs ---------------------------
(***************************************************************************)
(* For any number of broadcasts, recipients, instances, runs and faults: a   *)
(* recipient gets a broadcast twice only if two dispatchers read the same     *)
(* status, the books of a broadcast match its messages, and 'sent' means      *)
(* that everybody on the list has it.                                       *)
(***************************************************************************)
EXTENDS Broadcast, FiniteSetTheorems, TLAPS

Looping == {"each", "deliver", "notify"}
Sending == {"list"} \cup Looping
Going == {"claim"} \cup Sending
Unsent == {"none", "draft", "scheduled"}

(* Dispatcher d has read that b is to go out and is not done with it. *)
Holds(d, b) == pc[d] \in Going /\ cur[d].msg = b

(* Whoever dispatches has a broadcast in hand, and in the loop a recipient. *)
InHand ==
  \A d \in Dispatchers :
    /\ pc[d] \in {"read"} \cup Going => cur[d].msg \in Broadcasts
    /\ pc[d] \in {"deliver", "notify"} => cur[d].to \in Users

(* A broadcast that two dispatchers did not let through at once has one dispatcher, which
   is alone with the status and has not sent yet what it has to do. *)
OneDispatcher(b) ==
  b \notin raced =>
    /\ \A d, e \in Dispatchers : Holds(d, b) /\ Holds(e, b) => d = e
    /\ \A d \in Dispatchers : Holds(d, b) =>
         /\ pc[d] = "claim" <=> status[b] \in Unsent
         /\ pc[d] = "list" => \A u \in Users : posted[b][u] = 0
         /\ pc[d] \in Looping => \A u \in todo[d] : posted[b][u] = 0
    /\ status[b] \in Unsent => \A u \in Users : posted[b][u] = 0
    /\ \A u \in Users : posted[b][u] <= 1

(* The rows follow the messages, and the receipts are of messages. *)
Books(b) ==
  /\ \A u \in rows[b] : posted[b][u] > 0
  /\ received[b] \subseteq MessagesOf(b)
  /\ IsFiniteSet(MessagesOf(b))
  /\ totals[b].delivered <= Cardinality(MessagesOf(b))
  /\ status[b] = "sent" => rows[b] # {}

(* What dispatcher d has done for its recipients is in the books. *)
Done(d) ==
  /\ pc[d] = "deliver" => posted[cur[d].msg][cur[d].to] > 0
  /\ pc[d] = "notify" => cur[d].to \in rows[cur[d].msg]
  /\ pc[d] \in Looping /\ fanout[d].delivered > 0 => rows[cur[d].msg] # {}

(* Those who have the broadcast of d or will be served by d. *)
Reached(d) ==
  rows[cur[d].msg] \cup todo[d] \cup {u \in Users : pc[d] = "deliver" /\ u = cur[d].to}

Reach ==
  faults = 0 =>
    /\ \A b \in Broadcasts : status[b] = "sent" => Cardinality(rows[b]) >= totals[b].recipients
    /\ \A d \in Dispatchers : pc[d] \in Looping => Cardinality(Reached(d)) >= fanout[d].size

(* The inductive invariant. *)
IInv ==
  /\ TypeOK /\ InHand
  /\ \A b \in Broadcasts : OneDispatcher(b) /\ Books(b)
  /\ \A d \in Dispatchers : Done(d)
  /\ Reach

-----------------------------------------------------------------------------
(* Types. *)

LEMMA FiniteUsers ==
  ASSUME NEW S \in SUBSET Users
  PROVE  IsFiniteSet(S) /\ Cardinality(S) \in Nat
BY BroadcastAssumption, FS_Subset, FS_CardinalityType

Works == [msg: Broadcasts \cup {Nothing}, to: Users \cup {Nothing}]

(* The updates of one field or of one cell. *)
LEMMA WorkCells ==
  ASSUME TypeOK, NEW d \in Dispatchers, NEW x \in Users \cup {Nothing}
  PROVE  /\ [cur EXCEPT ![d].to = x] \in [Dispatchers -> Works]
         /\ [fanout EXCEPT ![d].delivered = @ + 1] \in [Dispatchers -> [size: Nat, delivered: Nat]]
<1>1. [cur EXCEPT ![d].to = x] \in [Dispatchers -> Works]
  <2>1. cur \in [Dispatchers -> Works]
    BY DEF TypeOK, Works
  <2>2. [cur[d] EXCEPT !.to = x] \in Works
    BY <2>1 DEF Works
  <2> QED BY <2>1, <2>2
<1>2. [fanout EXCEPT ![d].delivered = @ + 1] \in [Dispatchers -> [size: Nat, delivered: Nat]]
  <2>1. fanout \in [Dispatchers -> [size: Nat, delivered: Nat]]
    BY DEF TypeOK
  <2>2. [fanout[d] EXCEPT !.delivered = @ + 1] \in [size: Nat, delivered: Nat]
    BY <2>1
  <2> QED BY <2>1, <2>2
<1> QED BY <1>1, <1>2

LEMMA CountCells ==
  ASSUME TypeOK, NEW b \in Broadcasts, NEW u \in Users, NEW n \in Nat
  PROVE  /\ [posted EXCEPT ![b][u] = @ + 1] \in [Broadcasts -> [Users -> Nat]]
         /\ [totals EXCEPT ![b].delivered = n] \in [Broadcasts -> [recipients: Nat, delivered: Nat]]
<1>1. [posted EXCEPT ![b][u] = @ + 1] \in [Broadcasts -> [Users -> Nat]]
  <2>1. posted \in [Broadcasts -> [Users -> Nat]]
    BY DEF TypeOK
  <2>2. [posted[b] EXCEPT ![u] = @ + 1] \in [Users -> Nat]
    <3> DEFINE f == posted[b]
    <3>1. f \in [Users -> Nat]
      BY <2>1
    <3> HIDE DEF f
    <3>2. [f EXCEPT ![u] = @ + 1] \in [Users -> Nat]
      BY <3>1
    <3> QED BY <3>2 DEF f
  <2> QED BY <2>1, <2>2
<1>2. [totals EXCEPT ![b].delivered = n] \in [Broadcasts -> [recipients: Nat, delivered: Nat]]
  <2>1. totals \in [Broadcasts -> [recipients: Nat, delivered: Nat]]
    BY DEF TypeOK
  <2>2. [totals[b] EXCEPT !.delivered = n] \in [recipients: Nat, delivered: Nat]
    BY <2>1
  <2> QED BY <2>1, <2>2
<1> QED BY <1>1, <1>2

LEMMA ListTypes ==
  ASSUME TypeOK, NEW u \in Users, AddRecipient(u) \/ RemoveRecipient(u)
  PROVE  TypeOK'
BY DEF TypeOK, AddRecipient, RemoveRecipient, msgVars, ackVars, dispVars

LEMMA RequestTypes ==
  ASSUME TypeOK, NEW b \in Broadcasts, SendMessage(b) \/ Vence(b) \/ CheckFuture(b)
  PROVE  TypeOK'
<1> USE DEF TypeOK, Goto, msgVars, ackVars, dispVars, Statuses, Pcs, Dispatchers
<1>1. CASE SendMessage(b)
  BY <1>1 DEF SendMessage
<1>2. CASE Vence(b)
  BY <1>2 DEF Vence
<1>3. CASE CheckFuture(b)
  <2> USE <1>3 DEF CheckFuture
  <2>1. CASE Goto(b, "done") /\ UNCHANGED cur
    BY <2>1
  <2>2. CASE Goto(b, "read") /\ cur' = [cur EXCEPT ![b] = [msg |-> b, to |-> Nothing]]
    BY <2>2
  <2> QED BY <2>1, <2>2
<1> QED BY <1>1, <1>2, <1>3

LEMMA RunTypes ==
  ASSUME TypeOK, NEW w \in Runs, IniciarCorrida(w) \/ RunStep(w) \/ FindDueFails(w)
  PROVE  TypeOK'
<1> USE BroadcastAssumption
    DEF TypeOK, Goto, Fault, msgVars, ackVars, dispVars, Pcs, Dispatchers
<1>1. CASE IniciarCorrida(w)
  BY <1>1 DEF IniciarCorrida, JobLock!Claim
<1>2. CASE FindDue(w)
  BY <1>2 DEF FindDue
<1>3. CASE NextDue(w)
  BY <1>3 DEF NextDue
<1>4. CASE EndRun(w)
  BY <1>4 DEF EndRun
<1>5. CASE FindDueFails(w)
  BY <1>5 DEF FindDueFails
<1> QED BY <1>1, <1>2, <1>3, <1>4, <1>5 DEF RunStep

(* Those who leave have nothing in hand any more. *)
LEMMA LeaveTypes ==
  ASSUME TypeOK, NEW D \in SUBSET Dispatchers, Leave(D)
  PROVE  /\ pc' \in [Dispatchers -> Pcs]
         /\ cur' \in [Dispatchers -> [msg: Broadcasts \cup {Nothing}, to: Users \cup {Nothing}]]
         /\ todo' \in [Dispatchers -> SUBSET Users]
         /\ fanout' \in [Dispatchers -> [size: Nat, delivered: Nat]]
BY DEF TypeOK, Leave, NoWork, NoFanout, Pcs

LEMMA ForgottenTypes ==
  ASSUME TypeOK, InHand, NEW d \in Dispatchers, pc[d] \in Going
  PROVE  Forgotten(cur[d].msg) \subseteq Broadcasts
BY DEF TypeOK, InHand, Forgotten

LEMMA DispatchTypes ==
  ASSUME TypeOK, InHand, NEW d \in Dispatchers, Dispatch(d)
  PROVE  TypeOK'
<1> USE BroadcastAssumption DEF Goto, msgVars, ackVars, dispVars
<1>1. CASE ReadStatus(d)
  <2> USE DEF ReadStatus
  <2>1. raced' \subseteq Broadcasts
    BY <1>1 DEF TypeOK, InHand
  <2>2. CASE Goto(d, "claim") /\ UNCHANGED <<cur, todo, fanout>>
    BY <1>1, <2>1, <2>2 DEF TypeOK, Pcs
  <2>3. CASE Leave({d})
    BY <1>1, <2>1, <2>3, LeaveTypes DEF TypeOK
  <2> QED BY <1>1, <2>2, <2>3
<1>2. CASE MarkSending(d)
  BY <1>2 DEF MarkSending, TypeOK, Statuses, Pcs
<1>3. CASE ReadRecipients(d)
  BY <1>3, FiniteUsers DEF ReadRecipients, TypeOK, Pcs
<1>4. CASE PostMessage(d)
  <2>1. posted' \in [Broadcasts -> [Users -> Nat]] /\ cur' \in [Dispatchers -> Works]
    <3>1. PICK u \in Users : /\ cur' = [cur EXCEPT ![d].to = u]
                             /\ posted' = [posted EXCEPT ![cur[d].msg][u] = @ + 1]
      BY <1>4 DEF PostMessage, TypeOK
    <3>2. cur[d].msg \in Broadcasts
      BY <1>4 DEF PostMessage, InHand, Going, Sending, Looping
    <3>3. cur' \in [Dispatchers -> Works]
      BY <3>1, WorkCells
    <3>4. [posted EXCEPT ![cur[d].msg][u] = @ + 1] \in [Broadcasts -> [Users -> Nat]]
      BY <3>2, CountCells
    <3> QED BY <3>1, <3>3, <3>4
  <2> QED BY <1>4, <2>1 DEF PostMessage, TypeOK, Pcs, Works
<1>5. CASE CreateDelivery(d)
  <2>1. cur[d].msg \in Broadcasts /\ cur[d].to \in Users
    BY <1>5 DEF CreateDelivery, InHand, Going, Sending, Looping
  <2>2. rows' \in [Broadcasts -> SUBSET Users]
    BY <1>5, <2>1 DEF CreateDelivery, TypeOK
  <2> QED BY <1>5, <2>2 DEF CreateDelivery, TypeOK, Pcs
<1>6. CASE Notify(d)
  <2>1. /\ cur' \in [Dispatchers -> Works]
        /\ fanout' \in [Dispatchers -> [size: Nat, delivered: Nat]]
    BY <1>6, WorkCells DEF Notify
  <2> QED BY <1>6, <2>1 DEF Notify, TypeOK, Pcs, Works
<1>7. CASE Finish(d)
  <2>1. uncounted' \subseteq Broadcasts
    BY <1>7, ForgottenTypes DEF Finish, Going, Sending, Looping
  <2> QED BY <1>7, <2>1, LeaveTypes DEF Finish, TypeOK, Statuses
<1> QED BY <1>1, <1>2, <1>3, <1>4, <1>5, <1>6, <1>7 DEF Dispatch

LEMMA FailureTypes ==
  ASSUME TypeOK, InHand, NEW d \in Dispatchers, DispatchFails(d) \/ RecipientFails(d)
  PROVE  TypeOK'
<1> USE BroadcastAssumption DEF Goto, Fault, msgVars, ackVars, dispVars
<1>1. CASE DispatchFails(d)
  <2>1. faults' \in 0 .. MaxFaults
    BY <1>1 DEF DispatchFails, TypeOK
  <2>2. status' \in [Broadcasts -> Statuses]
    BY <1>1 DEF DispatchFails, TypeOK, Statuses
  <2>3. totals' \in [Broadcasts -> [recipients: Nat, delivered: Nat]]
    BY <1>1 DEF DispatchFails, TypeOK
  <2>4. uncounted' \subseteq Broadcasts
    <3>1. \/ UNCHANGED uncounted
          \/ pc[d] = "each" /\ uncounted' = Forgotten(cur[d].msg)
      BY <1>1 DEF DispatchFails
    <3> QED BY <3>1, ForgottenTypes DEF TypeOK, Going, Sending, Looping
  <2> QED BY <1>1, <2>1, <2>2, <2>3, <2>4, LeaveTypes DEF DispatchFails, TypeOK
<1>2. CASE RecipientFails(d)
  <2> USE <1>2 DEF RecipientFails
  <2>1. faults' \in 0 .. MaxFaults /\ pc' \in [Dispatchers -> Pcs]
    BY DEF TypeOK, Pcs
  <2>2. cur' \in [Dispatchers -> Works]
    BY WorkCells
  <2>3. rows' \in [Broadcasts -> SUBSET Users]
    <3>1. \/ UNCHANGED rows
          \/ pc[d] = "deliver" /\ rows' = [rows EXCEPT ![cur[d].msg] = @ \cup {cur[d].to}]
      OBVIOUS
    <3> HIDE <1>2 DEF RecipientFails
    <3>2. rows \in [Broadcasts -> SUBSET Users]
      BY DEF TypeOK
    <3>3. pc[d] = "deliver" => cur[d].msg \in Broadcasts /\ cur[d].to \in Users
      BY DEF InHand, Going, Sending, Looping
    <3> QED BY <3>1, <3>2, <3>3
  <2>4. todo' \in [Dispatchers -> SUBSET Users]
    <3>1. UNCHANGED todo \/ \E u \in todo[d] : todo' = [todo EXCEPT ![d] = @ \ {u}]
      OBVIOUS
    <3> HIDE <1>2 DEF RecipientFails
    <3>2. todo \in [Dispatchers -> SUBSET Users]
      BY DEF TypeOK
    <3> QED BY <3>1, <3>2
  <2>5. posted' \in [Broadcasts -> [Users -> Nat]]
    <3>1. CASE UNCHANGED posted
      BY <3>1 DEF TypeOK
    <3>2. CASE pc[d] = "each" /\ ~UNCHANGED posted
      <4>1. PICK u \in todo[d] : posted' = [posted EXCEPT ![cur[d].msg][u] = @ + 1]
        BY <3>2
      <4>2. u \in Users /\ cur[d].msg \in Broadcasts
        BY <3>2 DEF TypeOK, InHand, Going, Sending, Looping
      <4> QED BY <4>1, <4>2, CountCells
    <3> QED BY <3>1, <3>2
  <2> QED BY <2>1, <2>2, <2>3, <2>4, <2>5 DEF TypeOK, Works
<1> QED BY <1>1, <1>2

LEMMA ReceiptTypes ==
  ASSUME TypeOK, \A b \in Broadcasts : Books(b), NEW u \in Users,
         Acknowledge(u) \/ RefreshTotals(u) \/ SyncFails(u)
  PROVE  TypeOK'
<1> USE BroadcastAssumption DEF Fault, msgVars, ackVars, dispVars
<1>1. CASE Acknowledge(u)
  <2>1. PICK b \in Broadcasts : \E n \in 1 .. posted[b][u] :
          /\ received' = [received EXCEPT ![b] = @ \cup {<<u, n>>}]
          /\ ack' = [ack EXCEPT ![u] = b]
    BY <1>1 DEF Acknowledge
  <2>2. 1 .. posted[b][u] \subseteq Nat
    BY DEF TypeOK
  <2>3. received' \in [Broadcasts -> SUBSET (Users \X Nat)]
    BY <2>1, <2>2 DEF TypeOK
  <2>4. ack' \in [Users -> Broadcasts \cup {Nothing}]
    BY <2>1 DEF TypeOK
  <2> QED BY <1>1, <2>3, <2>4 DEF Acknowledge, TypeOK
<1>2. CASE RefreshTotals(u)
  <2>1. ack[u] \in Broadcasts
    BY <1>2 DEF RefreshTotals, TypeOK
  <2>2. Cardinality(received[ack[u]]) \in Nat
    BY <2>1, FS_Subset, FS_CardinalityType DEF Books
  <2>3. totals' \in [Broadcasts -> [recipients: Nat, delivered: Nat]]
    BY <1>2, <2>1, <2>2, CountCells DEF RefreshTotals
  <2> QED BY <1>2, <2>3 DEF RefreshTotals, TypeOK
<1>3. CASE SyncFails(u)
  BY <1>3 DEF SyncFails, TypeOK
<1> QED BY <1>1, <1>2, <1>3

LEMMA LockTypes ==
  ASSUME TypeOK, ExpiraLock \/ ClaimReplyLost
  PROVE  TypeOK'
<1>1. lock' \in BOOLEAN
  BY DEF ExpiraLock, ClaimReplyLost, JobLock!Expire, JobLock!ClaimReplyLost
<1>2. faults' \in 0 .. MaxFaults
  BY BroadcastAssumption DEF TypeOK, ExpiraLock, ClaimReplyLost, Fault
<1> QED BY <1>1, <1>2 DEF TypeOK, ExpiraLock, ClaimReplyLost, msgVars, ackVars, dispVars

LEMMA CrashTypes ==
  ASSUME TypeOK, NEW i \in Instances, Crash(i)
  PROVE  TypeOK'
BY BroadcastAssumption
   DEF TypeOK, Crash, Fault, msgVars, ackVars, Pcs, NoWork, NoFanout

LEMMA NextTypes ==
  ASSUME IInv, [Next]_vars
  PROVE  TypeOK'
<1> USE DEF IInv
<1>1. CASE UNCHANGED vars
  BY <1>1 DEF vars, TypeOK, msgVars, ackVars, dispVars
<1>2. CASE Next
  BY <1>2, ListTypes, RequestTypes, RunTypes, DispatchTypes, FailureTypes, ReceiptTypes,
     LockTypes, CrashTypes DEF Next
<1> QED BY <1>1, <1>2

-----------------------------------------------------------------------------
(* What a step leaves alone. *)

LEMMA OneDispatcherStays ==
  ASSUME NEW b \in Broadcasts, OneDispatcher(b),
         posted'[b] = posted[b], b \in raced => b \in raced',
         status'[b] = status[b] \/ {status[b], status'[b]} \subseteq Unsent,
         \A d \in Dispatchers :
           pc'[d] \in Going /\ cur'[d].msg = b =>
             Holds(d, b) /\ pc'[d] = pc[d] /\ todo'[d] = todo[d]
  PROVE  OneDispatcher(b)'
BY DEF OneDispatcher, Holds, Unsent

LEMMA BooksStay ==
  ASSUME NEW b \in Broadcasts, Books(b),
         posted'[b] = posted[b], rows'[b] = rows[b], received'[b] = received[b],
         totals'[b].delivered = totals[b].delivered,
         status'[b] = "sent" => status[b] = "sent"
  PROVE  Books(b)'
<1>1. MessagesOf(b)' = MessagesOf(b)
  BY DEF MessagesOf
<1> QED BY <1>1 DEF Books

(* What a dispatcher has in hand stays, and the books only grow. *)
LEMMA OthersStay ==
  ASSUME TypeOK, TypeOK', NEW e \in Dispatchers, Done(e),
         pc[e] \in Looping => cur[e].msg \in Broadcasts,
         pc[e] = "deliver" => cur[e].to \in Users,
         pc'[e] = pc[e], cur'[e] = cur[e], todo'[e] = todo[e], fanout'[e] = fanout[e],
         \A b \in Broadcasts : rows[b] \subseteq rows'[b],
         \A b \in Broadcasts, u \in Users : posted[b][u] > 0 => posted'[b][u] > 0
  PROVE  /\ Done(e)'
         /\ pc[e] \in Looping => Cardinality(Reached(e)') >= Cardinality(Reached(e))
<1>1. Done(e)'
  BY DEF Done, Looping
<1>2. ASSUME pc[e] \in Looping
      PROVE  Cardinality(Reached(e)') >= Cardinality(Reached(e))
  <2>1. Reached(e)' \in SUBSET Users
    BY <1>2 DEF Reached, TypeOK
  <2>2. Reached(e) \subseteq Reached(e)'
    BY <1>2 DEF Reached
  <2>3. IsFiniteSet(Reached(e)')
    BY <2>1, FiniteUsers
  <2>4. Cardinality(Reached(e)) <= Cardinality(Reached(e)')
    BY <2>2, <2>3, FS_Subset
  <2>5. Cardinality(Reached(e)) \in Nat /\ Cardinality(Reached(e)') \in Nat
    BY <2>1, <2>2, FiniteUsers
  <2> QED BY <2>4, <2>5
<1> QED BY <1>1, <1>2

(* A step that leaves the messages, the books and the loops alone. *)
LEMMA QuietStep ==
  ASSUME IInv, TypeOK', InHand',
         UNCHANGED <<posted, rows, received, raced>>,
         faults' = 0 => faults = 0,
         \A b \in Broadcasts :
           /\ totals'[b] = totals[b]
           /\ status'[b] = status[b] \/ {status[b], status'[b]} \subseteq Unsent,
         \A d \in Dispatchers :
           pc'[d] \in Going =>
             pc'[d] = pc[d] /\ cur'[d] = cur[d] /\ todo'[d] = todo[d] /\ fanout'[d] = fanout[d]
  PROVE  IInv'
<1> USE DEF IInv
<1>1. ASSUME NEW b \in Broadcasts PROVE OneDispatcher(b)'
  BY OneDispatcherStays DEF Holds
<1>2. ASSUME NEW b \in Broadcasts PROVE Books(b)'
  BY BooksStay DEF Unsent
<1>3. ASSUME NEW d \in Dispatchers
      PROVE  /\ Done(d)'
             /\ pc'[d] \in Looping => Cardinality(Reached(d)') >= Cardinality(Reached(d))
  <2>1. CASE pc'[d] \in Going
    <3>1. pc[d] \in Looping => cur[d].msg \in Broadcasts
      BY DEF InHand, Going, Sending
    <3>2. pc[d] = "deliver" => cur[d].to \in Users
      BY DEF InHand
    <3> QED BY <2>1, <3>1, <3>2, OthersStay DEF Going
  <2>2. CASE pc'[d] \notin Going
    BY <2>2 DEF Done, Going, Sending, Looping
  <2> QED BY <2>1, <2>2
<1>4. Reach'
  <2>1. ASSUME faults' = 0, NEW b \in Broadcasts, status'[b] = "sent"
        PROVE  Cardinality(rows'[b]) >= totals'[b].recipients
    BY <2>1 DEF Reach, Unsent
  <2>2. ASSUME faults' = 0, NEW d \in Dispatchers, pc'[d] \in Looping
        PROVE  Cardinality(Reached(d)') >= fanout'[d].size
    <3>1. Cardinality(Reached(d)) >= fanout[d].size /\ fanout'[d] = fanout[d]
      BY <2>2 DEF Reach, Going, Sending
    <3>2. Reached(d)' \in SUBSET Users /\ Reached(d) \in SUBSET Users
      BY <2>2 DEF Reached, TypeOK, InHand, Going, Sending
    <3>3. Cardinality(Reached(d)') >= Cardinality(Reached(d))
      BY <1>3, <2>2
    <3>4. fanout[d].size \in Nat
      BY DEF TypeOK
    <3> QED BY <3>1, <3>2, <3>3, <3>4, FiniteUsers
  <2> QED BY <2>1, <2>2 DEF Reach
<1> QED BY <1>1, <1>2, <1>3, <1>4

-----------------------------------------------------------------------------
(* The list, the requests and the runs, the lock and a crash. *)

LEMMA SurroundingsInv ==
  ASSUME IInv, TypeOK',
         \/ \E u \in Users : AddRecipient(u) \/ RemoveRecipient(u) \/ SyncFails(u)
         \/ \E b \in Broadcasts : Vence(b)
         \/ ExpiraLock \/ ClaimReplyLost
  PROVE  IInv'
<1>1. /\ UNCHANGED <<status, posted, rows, received, raced, totals, dispVars>>
      /\ faults' = 0 => faults = 0
  BY BroadcastAssumption
     DEF AddRecipient, RemoveRecipient, SyncFails, Vence, ExpiraLock, ClaimReplyLost, Fault,
         msgVars, ackVars, IInv, TypeOK
<1>2. InHand'
  BY <1>1 DEF dispVars, InHand, IInv
<1> QED BY <1>1, <1>2, QuietStep DEF dispVars

LEMMA RequestInv ==
  ASSUME IInv, TypeOK', NEW b \in Broadcasts, SendMessage(b) \/ CheckFuture(b)
  PROVE  IInv'
<1> USE DEF Goto, msgVars, ackVars, dispVars, IInv, Going, Sending, Looping
<1>1. b \in Dispatchers
  BY DEF Dispatchers
<1>2. CASE SendMessage(b)
  <2>1. InHand'
    BY <1>2 DEF SendMessage, InHand, TypeOK
  <2>2. \A d \in Dispatchers : pc'[d] \in Going => pc'[d] = pc[d]
    BY <1>2 DEF SendMessage, TypeOK
  <2>3. \A c \in Broadcasts : status'[c] = status[c] \/ {status[c], status'[c]} \subseteq Unsent
    BY <1>2 DEF SendMessage, TypeOK, Unsent
  <2> QED BY <1>2, <2>1, <2>2, <2>3, QuietStep DEF SendMessage
<1>3. CASE CheckFuture(b)
  <2> USE <1>3 DEF CheckFuture
  <2>1. InHand'
    BY <1>1 DEF InHand, TypeOK
  <2>2. \A d \in Dispatchers : pc'[d] \in Going => pc'[d] = pc[d] /\ cur'[d] = cur[d]
    BY <1>1 DEF TypeOK
  <2> QED BY <2>1, <2>2, QuietStep
<1> QED BY <1>2, <1>3

LEMMA RunInv ==
  ASSUME IInv, TypeOK', NEW w \in Runs, IniciarCorrida(w) \/ RunStep(w) \/ FindDueFails(w)
  PROVE  IInv'
<1> USE BroadcastAssumption
    DEF Goto, Fault, msgVars, ackVars, dispVars, IInv, Going, Sending, Looping
<1>1. w \in Dispatchers
  BY DEF Dispatchers
<1>2. CASE NextDue(w)
  <2> USE <1>2 DEF NextDue
  <2>1. InHand'
    BY <1>1 DEF InHand, TypeOK
  <2>2. \A d \in Dispatchers : pc'[d] \in Going => pc'[d] = pc[d] /\ cur'[d] = cur[d]
    BY <1>1 DEF TypeOK
  <2> QED BY <2>1, <2>2, QuietStep
<1>3. CASE ~NextDue(w)
  <2>1. /\ pc' = [pc EXCEPT ![w] = pc'[w]] /\ pc'[w] \in {"find", "next", "idle"}
        /\ UNCHANGED <<cur, todo, fanout, raced, status, totals, posted, rows, received>>
        /\ faults' = 0 => faults = 0
    BY <1>1, <1>3 DEF IniciarCorrida, RunStep, FindDue, EndRun, FindDueFails, TypeOK
  <2>2. InHand'
    BY <2>1, <1>1 DEF InHand, TypeOK
  <2>3. \A d \in Dispatchers : pc'[d] \in Going => pc'[d] = pc[d]
    BY <2>1, <1>1 DEF TypeOK
  <2> QED BY <2>1, <2>2, <2>3, QuietStep
<1> QED BY <1>2, <1>3

LEMMA CrashInv ==
  ASSUME IInv, TypeOK', NEW i \in Instances, Crash(i)
  PROVE  IInv'
<1> DEFINE D == {d \in Dispatchers : HostOf[d] = i}
<1>1. /\ UNCHANGED <<status, totals, posted, rows, received, raced>>
      /\ faults' # 0
  BY DEF Crash, Fault, msgVars, ackVars, IInv, TypeOK
<1>2. ASSUME NEW d \in Dispatchers
      PROVE  \/ pc'[d] \in {"idle", "done"}
             \/ /\ pc'[d] = pc[d] /\ cur'[d] = cur[d]
                /\ todo'[d] = todo[d] /\ fanout'[d] = fanout[d]
  BY <1>2 DEF Crash
<1>3. InHand'
  BY <1>2 DEF InHand, Going, Sending, Looping, IInv
<1> QED BY <1>1, <1>2, <1>3, QuietStep DEF Going, Sending, Looping

(* A dispatch that ends, whatever it read or whatever failed, without a new outcome. *)
LEMMA LeaveInv ==
  ASSUME IInv, TypeOK', NEW d \in Dispatchers, Leave({d}),
         UNCHANGED <<status, totals, posted, rows, received, raced>>,
         faults' = 0 => faults = 0
  PROVE  IInv'
<1>1. ASSUME NEW e \in Dispatchers
      PROVE  \/ pc'[e] \in {"next", "done"}
             \/ /\ pc'[e] = pc[e] /\ cur'[e] = cur[e]
                /\ todo'[e] = todo[e] /\ fanout'[e] = fanout[e]
  BY <1>1 DEF Leave
<1>2. InHand'
  BY <1>1 DEF InHand, Going, Sending, Looping, IInv
<1> QED BY <1>1, <1>2, QuietStep DEF Going, Sending, Looping

-----------------------------------------------------------------------------
(* The dispatch. *)

(* What a step of dispatcher d outside a fault leaves of the others. *)
LEMMA OtherDispatchers ==
  ASSUME IInv, TypeOK', NEW d \in Dispatchers,
         \A e \in Dispatchers \ {d} :
           pc'[e] = pc[e] /\ cur'[e] = cur[e] /\ todo'[e] = todo[e] /\ fanout'[e] = fanout[e],
         \A b \in Broadcasts : rows[b] \subseteq rows'[b],
         \A b \in Broadcasts, u \in Users : posted[b][u] > 0 => posted'[b][u] > 0,
         faults' = 0 => faults = 0
  PROVE  \A e \in Dispatchers \ {d} :
           /\ Done(e)'
           /\ faults' = 0 /\ pc'[e] \in Looping => Cardinality(Reached(e)') >= fanout'[e].size
<1> SUFFICES ASSUME NEW e \in Dispatchers \ {d}
             PROVE  /\ Done(e)'
                    /\ faults' = 0 /\ pc'[e] \in Looping
                         => Cardinality(Reached(e)') >= fanout'[e].size
  OBVIOUS
<1>1. /\ Done(e)'
      /\ pc[e] \in Looping => Cardinality(Reached(e)') >= Cardinality(Reached(e))
  BY OthersStay DEF IInv, InHand, Going, Sending, Looping
<1>2. ASSUME faults' = 0, pc'[e] \in Looping
      PROVE  Cardinality(Reached(e)') >= fanout'[e].size
  <2>1. Cardinality(Reached(e)) >= fanout[e].size
    BY <1>2 DEF IInv, Reach
  <2>2. Reached(e)' \in SUBSET Users /\ Reached(e) \in SUBSET Users
    BY <1>2 DEF IInv, Reached, TypeOK, InHand, Going, Sending
  <2>3. fanout[e].size \in Nat
    BY DEF IInv, TypeOK
  <2> QED BY <1>1, <1>2, <2>1, <2>2, <2>3, FiniteUsers
<1> QED BY <1>1, <1>2

(* Two that read the status before either marks it are a race. *)
LEMMA ReadInv ==
  ASSUME IInv, TypeOK', NEW d \in Dispatchers, ReadStatus(d)
  PROVE  IInv'
<1> USE DEF Goto, msgVars, ackVars, ReadStatus
<1> PICK c \in Broadcasts : c = cur[d].msg
  BY DEF IInv, InHand
<1>1. CASE Leave({d}) /\ UNCHANGED raced
  BY <1>1, LeaveInv
<1>2. CASE ~(Leave({d}) /\ UNCHANGED raced)
  <2>1. /\ pc[d] = "read" /\ status[c] \in Unsent
        /\ pc' = [pc EXCEPT ![d] = "claim"]
        /\ raced' = raced \cup {x \in {c} : \E e \in Working(c) : pc[e] = "claim"}
        /\ UNCHANGED <<status, totals, posted, rows, received, cur, todo, fanout, faults>>
    BY <1>2 DEF IInv, InHand, Unsent
  <2>2. pc'[d] = "claim" /\ \A e \in Dispatchers \ {d} : pc'[e] = pc[e]
    BY <2>1 DEF IInv, TypeOK
  <2> HIDE <1>2 DEF ReadStatus
  <2>3. InHand'
    BY <2>1, <2>2 DEF IInv, InHand, Going, Sending, Looping
  <2>4. ASSUME NEW b \in Broadcasts, b # c PROVE OneDispatcher(b)'
    BY <2>1, <2>2, <2>4, OneDispatcherStays DEF IInv, Holds
  <2>5. OneDispatcher(c)'
    <3> SUFFICES ASSUME c \notin raced' PROVE OneDispatcher(c)'
      BY <2>1 DEF OneDispatcher
    <3>1. c \notin raced /\ \A e \in Dispatchers : ~(pc[e] = "claim" /\ cur[e].msg = c)
      BY <2>1 DEF Working
    <3>2. \A e \in Dispatchers : ~Holds(e, c)
      BY <2>1, <3>1 DEF IInv, OneDispatcher, Holds
    <3>3. \A e \in Dispatchers : Holds(e, c)' => e = d
      BY <2>1, <2>2, <3>2 DEF Holds
    <3>4. /\ status'[c] \in Unsent => \A u \in Users : posted'[c][u] = 0
          /\ \A u \in Users : posted'[c][u] <= 1
      BY <2>1, <3>1 DEF IInv, OneDispatcher
    <3> QED BY <2>1, <2>2, <3>3, <3>4 DEF OneDispatcher, Looping
  <2>6. ASSUME NEW b \in Broadcasts PROVE Books(b)'
    BY <2>1, BooksStay DEF IInv
  <2>7. Done(d)' /\ pc'[d] \notin Looping
    BY <2>2 DEF Done, Looping
  <2>8. \A e \in Dispatchers \ {d} :
          /\ Done(e)'
          /\ faults' = 0 /\ pc'[e] \in Looping => Cardinality(Reached(e)') >= fanout'[e].size
    BY <2>1, <2>2, OtherDispatchers
  <2>9. Reach'
    BY <2>1, <2>7, <2>8 DEF Reach, IInv
  <2>10. ASSUME NEW e \in Dispatchers PROVE Done(e)'
    BY <2>7, <2>8
  <2>11. ASSUME NEW b \in Broadcasts PROVE OneDispatcher(b)'
    BY <2>4, <2>5
  <2> QED BY <2>3, <2>6, <2>9, <2>10, <2>11 DEF IInv
<1> QED BY <1>1, <1>2

(* Whoever marks the broadcast is alone with it, unless it is raced. *)
LEMMA MarkInv ==
  ASSUME IInv, TypeOK', NEW d \in Dispatchers, MarkSending(d)
  PROVE  IInv'
<1> PICK c \in Broadcasts : c = cur[d].msg
  BY DEF MarkSending, IInv, InHand, Going
<1>1. /\ pc[d] = "claim" /\ pc'[d] = "list"
      /\ status'[c] = "sending" /\ \A b \in Broadcasts : b # c => status'[b] = status[b]
      /\ \A e \in Dispatchers \ {d} : pc'[e] = pc[e]
      /\ UNCHANGED <<totals, posted, rows, received, raced, cur, todo, fanout, faults>>
  BY DEF MarkSending, Goto, ackVars, IInv, TypeOK, InHand, Going
<1>2. InHand'
  BY <1>1 DEF IInv, InHand, Going, Sending, Looping
<1>3. ASSUME NEW b \in Broadcasts, b # c PROVE OneDispatcher(b)'
  BY <1>1, <1>3, OneDispatcherStays DEF IInv, Holds
<1>4. OneDispatcher(c)'
  <2> SUFFICES ASSUME c \notin raced PROVE OneDispatcher(c)'
    BY <1>1 DEF OneDispatcher
  <2>1. Holds(d, c) /\ \A e \in Dispatchers : Holds(e, c) => e = d
    BY <1>1 DEF IInv, OneDispatcher, Holds, Going
  <2>2. \A e \in Dispatchers : Holds(e, c)' => e = d
    BY <1>1, <2>1 DEF Holds
  <2>3. \A u \in Users : posted[c][u] = 0
    BY <1>1, <2>1 DEF IInv, OneDispatcher
  <2> QED BY <1>1, <2>2, <2>3 DEF OneDispatcher, Unsent, Looping
<1>5. ASSUME NEW b \in Broadcasts PROVE Books(b)'
  BY <1>1, BooksStay DEF IInv
<1>6. Done(d)' /\ pc'[d] \notin Looping
  BY <1>1 DEF Done, Looping
<1>7. \A e \in Dispatchers \ {d} :
        /\ Done(e)'
        /\ faults' = 0 /\ pc'[e] \in Looping => Cardinality(Reached(e)') >= fanout'[e].size
  BY <1>1, OtherDispatchers
<1>8. Reach'
  BY <1>1, <1>6, <1>7 DEF Reach, IInv
<1>9. ASSUME NEW e \in Dispatchers PROVE Done(e)'
  BY <1>6, <1>7
<1>10. ASSUME NEW b \in Broadcasts PROVE OneDispatcher(b)'
  BY <1>3, <1>4
<1> QED BY <1>2, <1>5, <1>8, <1>9, <1>10 DEF IInv

LEMMA RecipientsInv ==
  ASSUME IInv, TypeOK', NEW d \in Dispatchers, ReadRecipients(d)
  PROVE  IInv'
<1> PICK c \in Broadcasts : c = cur[d].msg
  BY DEF ReadRecipients, IInv, InHand, Going, Sending
<1>1. /\ pc[d] = "list" /\ pc'[d] = "each"
      /\ todo'[d] = members /\ fanout'[d] = [size |-> Cardinality(members), delivered |-> 0]
      /\ \A e \in Dispatchers \ {d} :
           pc'[e] = pc[e] /\ todo'[e] = todo[e] /\ fanout'[e] = fanout[e]
      /\ UNCHANGED <<totals, posted, rows, received, raced, cur, faults, status>>
  BY DEF ReadRecipients, Goto, ackVars, msgVars, IInv, TypeOK, InHand, Going, Sending
<1>2. InHand'
  BY <1>1 DEF IInv, InHand, Going, Sending, Looping
<1>3. ASSUME NEW b \in Broadcasts, b # c PROVE OneDispatcher(b)'
  BY <1>1, <1>3, OneDispatcherStays DEF IInv, Holds
<1>4. OneDispatcher(c)'
  <2> SUFFICES ASSUME c \notin raced PROVE OneDispatcher(c)'
    BY <1>1 DEF OneDispatcher
  <2>1. Holds(d, c) /\ \A e \in Dispatchers : Holds(e, c) => e = d
    BY <1>1 DEF IInv, OneDispatcher, Holds, Going, Sending
  <2>2. \A e \in Dispatchers : Holds(e, c)' => e = d
    BY <1>1, <2>1 DEF Holds
  <2>3. (\A u \in Users : posted[c][u] = 0) /\ status[c] \notin Unsent /\ members \subseteq Users
    BY <1>1, <2>1 DEF IInv, OneDispatcher, TypeOK
  <2> QED BY <1>1, <2>2, <2>3 DEF OneDispatcher, Looping
<1>5. ASSUME NEW b \in Broadcasts PROVE Books(b)'
  BY <1>1, BooksStay DEF IInv
<1>6. Done(d)'
  BY <1>1 DEF Done, Looping
<1>7. Cardinality(Reached(d)') >= fanout'[d].size
  <2>1. members \subseteq Reached(d)' /\ Reached(d)' \in SUBSET Users
    BY <1>1 DEF Reached, IInv, TypeOK
  <2>2. Cardinality(members) <= Cardinality(Reached(d)')
    BY <2>1, FiniteUsers, FS_Subset
  <2> QED BY <1>1, <2>1, <2>2, FiniteUsers
<1>8. \A e \in Dispatchers \ {d} :
        /\ Done(e)'
        /\ faults' = 0 /\ pc'[e] \in Looping => Cardinality(Reached(e)') >= fanout'[e].size
  BY <1>1, OtherDispatchers
<1>9. Reach'
  BY <1>1, <1>7, <1>8 DEF Reach, IInv
<1>10. ASSUME NEW e \in Dispatchers PROVE Done(e)'
  BY <1>6, <1>8
<1>11. ASSUME NEW b \in Broadcasts PROVE OneDispatcher(b)'
  BY <1>3, <1>4
<1> QED BY <1>2, <1>5, <1>9, <1>10, <1>11 DEF IInv

(* One message more is one element more of the set of messages. *)
LEMMA OneMoreMessage ==
  ASSUME TypeOK, NEW c \in Broadcasts, Books(c), NEW u \in Users,
         posted' = [posted EXCEPT ![c][u] = @ + 1]
  PROVE  /\ MessagesOf(c) \subseteq MessagesOf(c)'
         /\ IsFiniteSet(MessagesOf(c)')
         /\ Cardinality(MessagesOf(c)) <= Cardinality(MessagesOf(c)')
<1> DEFINE n == posted[c][u]
           new == <<u, n + 1>>
<1>1. n \in Nat /\ \A v \in Users : posted[c][v] \in Nat
  BY DEF TypeOK
<1>2. /\ posted'[c][u] = n + 1
      /\ \A v \in Users : v # u => posted'[c][v] = posted[c][v]
  BY DEF TypeOK
<1> HIDE DEF n
<1>3. 1 .. n + 1 = (1 .. n) \cup {n + 1}
  BY <1>1
<1>4. n = posted[c][u]
  BY DEF n
<1>5. MessagesOf(c)' = MessagesOf(c) \cup {new}
  <2>1. ASSUME NEW v \in Users
        PROVE  {v} \X (1 .. posted'[c][v]) =
                 IF v = u THEN ({v} \X (1 .. posted[c][v])) \cup {new}
                          ELSE {v} \X (1 .. posted[c][v])
    BY <1>2, <1>3, <1>4, <2>1
  <2> QED BY <2>1 DEF MessagesOf
<1>6. IsFiniteSet(MessagesOf(c))
  BY DEF Books
<1>7. IsFiniteSet(MessagesOf(c) \cup {new})
  BY <1>6, FS_AddElement
<1> QED BY <1>5, <1>7, FS_Subset

(* Recipient u is taken from the list of d, and the message is sent or the statement
   fails. *)
LEMMA ServeInv ==
  ASSUME IInv, TypeOK', NEW d \in Dispatchers, NEW u \in todo[d],
         pc[d] = "each", todo' = [todo EXCEPT ![d] = @ \ {u}],
         UNCHANGED <<status, totals, rows, received, raced, fanout>>,
         cur'[d].msg = cur[d].msg,
         \A e \in Dispatchers \ {d} : pc'[e] = pc[e] /\ cur'[e] = cur[e],
         \/ /\ posted' = [posted EXCEPT ![cur[d].msg][u] = @ + 1]
            /\ pc'[d] = "deliver" /\ cur'[d].to = u /\ faults' = faults
         \/ /\ UNCHANGED posted \/ posted' = [posted EXCEPT ![cur[d].msg][u] = @ + 1]
            /\ pc'[d] = "each" /\ faults' # 0
  PROVE  IInv'
<1> PICK c \in Broadcasts : c = cur[d].msg
  BY DEF IInv, InHand, Going, Sending, Looping
<1>1. u \in Users /\ \A b \in Broadcasts, v \in Users : posted[b][v] \in Nat
  BY DEF IInv, TypeOK
<1>2. /\ todo'[d] = todo[d] \ {u} /\ todo[d] \subseteq Users
      /\ \A e \in Dispatchers \ {d} : todo'[e] = todo[e]
  BY DEF IInv, TypeOK
<1>3. /\ \A b \in Broadcasts : b # c => posted'[b] = posted[b]
      /\ \A v \in Users : v # u => posted'[c][v] = posted[c][v]
      /\ posted'[c][u] \in {posted[c][u], posted[c][u] + 1}
  BY <1>1 DEF IInv, TypeOK
<1>4. InHand'
  BY <1>1 DEF IInv, InHand, Going, Sending, Looping
<1>5. ASSUME NEW b \in Broadcasts, b # c PROVE OneDispatcher(b)'
  BY <1>2, <1>3, <1>5, OneDispatcherStays DEF IInv, Holds
<1>6. OneDispatcher(c)'
  <2> SUFFICES ASSUME c \notin raced PROVE OneDispatcher(c)'
    BY DEF OneDispatcher
  <2>1. Holds(d, c) /\ \A e \in Dispatchers : Holds(e, c) => e = d
    BY DEF IInv, OneDispatcher, Holds, Going, Sending, Looping
  <2>2. \A e \in Dispatchers : Holds(e, c)' => e = d
    BY <2>1 DEF Holds
  <2>3. posted[c][u] = 0 /\ status[c] \notin Unsent
    BY <2>1 DEF IInv, OneDispatcher, Looping
  <2>4. \A v \in todo'[d] : posted'[c][v] = 0
    BY <1>2, <1>3, <2>1 DEF IInv, OneDispatcher, Looping
  <2>5. \A v \in Users : posted'[c][v] <= 1
    BY <1>1, <1>3, <2>3 DEF IInv, OneDispatcher
  <2> QED BY <2>2, <2>3, <2>4, <2>5 DEF OneDispatcher, Looping
<1>7. ASSUME NEW b \in Broadcasts, posted'[b] = posted[b] PROVE Books(b)'
  BY <1>7, BooksStay DEF IInv
<1>8. ASSUME posted' = [posted EXCEPT ![c][u] = @ + 1] PROVE Books(c)'
  <2>1. /\ MessagesOf(c) \subseteq MessagesOf(c)'
        /\ IsFiniteSet(MessagesOf(c)')
        /\ Cardinality(MessagesOf(c)) <= Cardinality(MessagesOf(c)')
    BY <1>1, <1>8, OneMoreMessage DEF IInv
  <2>2. totals[c].delivered <= Cardinality(MessagesOf(c)')
    <3>1. totals[c].delivered \in Nat /\ Cardinality(MessagesOf(c)) \in Nat
      BY FS_CardinalityType DEF IInv, TypeOK, Books
    <3>2. Cardinality(MessagesOf(c)') \in Nat
      BY <2>1, FS_CardinalityType
    <3> QED BY <2>1, <3>1, <3>2 DEF IInv, Books
  <2>3. ASSUME NEW v \in rows[c] PROVE posted'[c][v] > 0
    <3>1. v \in Users /\ posted[c][v] > 0
      BY DEF IInv, Books, TypeOK
    <3> QED BY <1>1, <1>3, <3>1
  <2> QED BY <2>1, <2>2, <2>3 DEF IInv, Books
<1>9. ASSUME NEW b \in Broadcasts PROVE Books(b)'
  BY <1>3, <1>7, <1>8
<1>10. Done(d)'
  <2>1. fanout[d].delivered > 0 => rows[c] # {}
    BY DEF IInv, Done, Looping
  <2>2. pc'[d] = "deliver" => posted'[c][u] > 0
    BY <1>1 DEF IInv, TypeOK
  <2> QED BY <2>1, <2>2 DEF Done, Looping
<1>11. ASSUME faults' = 0 PROVE Cardinality(Reached(d)') >= fanout'[d].size
  <2>1. Reached(d)' = Reached(d)
    BY <1>1, <1>2, <1>11 DEF Reached
  <2>2. Cardinality(Reached(d)) >= fanout[d].size
    BY <1>11 DEF IInv, Reach, Looping
  <2> QED BY <2>1, <2>2
<1>12. \A e \in Dispatchers \ {d} :
         /\ Done(e)'
         /\ faults' = 0 /\ pc'[e] \in Looping => Cardinality(Reached(e)') >= fanout'[e].size
  <2>1. \A b \in Broadcasts, v \in Users : posted[b][v] > 0 => posted'[b][v] > 0
    BY <1>1, <1>3
  <2> QED BY <1>2, <2>1, OtherDispatchers
<1>13. Reach'
  BY <1>11, <1>12 DEF Reach, IInv
<1>14. ASSUME NEW e \in Dispatchers PROVE Done(e)'
  BY <1>10, <1>12
<1>15. ASSUME NEW b \in Broadcasts PROVE OneDispatcher(b)'
  BY <1>5, <1>6
<1> QED BY <1>4, <1>9, <1>13, <1>14, <1>15 DEF IInv
(* The row of a delivery is written, or the statement fails. *)
LEMMA DeliverInv ==
  ASSUME IInv, TypeOK', NEW d \in Dispatchers, pc[d] = "deliver",
         UNCHANGED <<status, totals, posted, received, raced, todo, fanout>>,
         cur'[d].msg = cur[d].msg,
         \A e \in Dispatchers \ {d} : pc'[e] = pc[e] /\ cur'[e] = cur[e],
         \/ /\ rows' = [rows EXCEPT ![cur[d].msg] = @ \cup {cur[d].to}]
            /\ pc'[d] = "notify" /\ cur'[d].to = cur[d].to /\ faults' = faults
         \/ /\ UNCHANGED rows \/ rows' = [rows EXCEPT ![cur[d].msg] = @ \cup {cur[d].to}]
            /\ pc'[d] = "each" /\ faults' # 0
  PROVE  IInv'
<1> PICK c \in Broadcasts : c = cur[d].msg
  BY DEF IInv, InHand, Going, Sending, Looping
<1> PICK u \in Users : u = cur[d].to
  BY DEF IInv, InHand
<1>1. /\ \A b \in Broadcasts : b # c => rows'[b] = rows[b]
      /\ rows'[c] \in {rows[c], rows[c] \cup {u}}
      /\ \A b \in Broadcasts : rows[b] \subseteq rows'[b]
  <2>1. UNCHANGED rows \/ rows' = [rows EXCEPT ![c] = @ \cup {u}]
    OBVIOUS
  <2>2. rows \in [Broadcasts -> SUBSET Users]
    BY DEF IInv, TypeOK
  <2>3. \A b \in Broadcasts : b # c => rows'[b] = rows[b]
    BY <2>1, <2>2
  <2>4. rows'[c] \in {rows[c], rows[c] \cup {u}}
    BY <2>1, <2>2
  <2> QED BY <2>3, <2>4
<1>2. posted[c][u] > 0
  BY DEF IInv, Done
<1>3. InHand'
  BY DEF IInv, InHand, Going, Sending, Looping
<1>4. ASSUME NEW b \in Broadcasts, b # c PROVE OneDispatcher(b)'
  BY <1>4, OneDispatcherStays DEF IInv, Holds
<1>5. OneDispatcher(c)'
  <2> SUFFICES ASSUME c \notin raced PROVE OneDispatcher(c)'
    BY DEF OneDispatcher
  <2>1. Holds(d, c) /\ \A e \in Dispatchers : Holds(e, c) => e = d
    BY DEF IInv, OneDispatcher, Holds, Going, Sending, Looping
  <2>2. \A e \in Dispatchers : Holds(e, c)' => e = d
    BY <2>1 DEF Holds
  <2>3. /\ status[c] \notin Unsent
        /\ \A v \in todo[d] : posted[c][v] = 0
        /\ \A v \in Users : posted[c][v] <= 1
    BY <2>1 DEF IInv, OneDispatcher, Looping
  <2> QED BY <2>2, <2>3 DEF OneDispatcher, Looping
<1>6. ASSUME NEW b \in Broadcasts PROVE Books(b)'
  <2>1. MessagesOf(b)' = MessagesOf(b)
    BY DEF MessagesOf
  <2>2. \A v \in rows'[b] : posted[b][v] > 0
    BY <1>1, <1>2 DEF IInv, Books
  <2>3. rows[b] # {} => rows'[b] # {}
    BY <1>1
  <2> QED BY <2>1, <2>2, <2>3 DEF IInv, Books
<1>7. Done(d)'
  <2>1. fanout[d].delivered > 0 => rows'[c] # {}
    BY <1>1 DEF IInv, Done, Looping
  <2>2. pc'[d] = "notify" => u \in rows'[c]
    BY DEF IInv, TypeOK
  <2> QED BY <2>1, <2>2 DEF Done, Looping
<1>8. ASSUME faults' = 0 PROVE Cardinality(Reached(d)') >= fanout'[d].size
  <2>1. rows'[c] = rows[c] \cup {u}
    BY <1>8 DEF IInv, TypeOK
  <2>2. Reached(d)' = Reached(d)
    BY <1>8, <2>1 DEF Reached
  <2>3. Cardinality(Reached(d)) >= fanout[d].size
    BY <1>8 DEF IInv, Reach, Looping
  <2> QED BY <2>2, <2>3
<1>9. \A e \in Dispatchers \ {d} :
        /\ Done(e)'
        /\ faults' = 0 /\ pc'[e] \in Looping => Cardinality(Reached(e)') >= fanout'[e].size
  BY <1>1, OtherDispatchers
<1>10. Reach'
  <2>1. ASSUME NEW b \in Broadcasts, faults' = 0, status[b] = "sent"
        PROVE  Cardinality(rows'[b]) >= totals[b].recipients
    <3>1. Cardinality(rows[b]) >= totals[b].recipients
      BY <2>1 DEF IInv, Reach
    <3>2. rows[b] \subseteq rows'[b] /\ rows'[b] \in SUBSET Users /\ totals[b].recipients \in Nat
      BY <1>1 DEF IInv, TypeOK
    <3>3. Cardinality(rows[b]) <= Cardinality(rows'[b])
      BY <3>2, FiniteUsers, FS_Subset
    <3> QED BY <3>1, <3>2, <3>3, FiniteUsers
  <2> QED BY <1>8, <1>9, <2>1 DEF Reach
<1>11. ASSUME NEW e \in Dispatchers PROVE Done(e)'
  BY <1>7, <1>9
<1>12. ASSUME NEW b \in Broadcasts PROVE OneDispatcher(b)'
  BY <1>4, <1>5
<1> QED BY <1>3, <1>6, <1>10, <1>11, <1>12 DEF IInv

(* The recipient is told, or the statement fails: the loop goes on. *)
LEMMA NotifyInv ==
  ASSUME IInv, TypeOK', NEW d \in Dispatchers, pc[d] = "notify", pc'[d] = "each",
         UNCHANGED <<status, totals, posted, rows, received, raced, todo>>,
         cur'[d].msg = cur[d].msg, fanout'[d].size = fanout[d].size,
         \A e \in Dispatchers \ {d} :
           pc'[e] = pc[e] /\ cur'[e] = cur[e] /\ fanout'[e] = fanout[e],
         faults' = 0 => faults = 0
  PROVE  IInv'
<1> PICK c \in Broadcasts : c = cur[d].msg
  BY DEF IInv, InHand, Going, Sending, Looping
<1>1. InHand'
  BY DEF IInv, InHand, Going, Sending, Looping
<1>2. ASSUME NEW b \in Broadcasts PROVE OneDispatcher(b)'
  <2>1. \A e \in Dispatchers : Holds(e, b)' <=> Holds(e, b)
    BY DEF Holds, Going, Sending, Looping
  <2> QED BY <2>1 DEF IInv, OneDispatcher, Looping
<1>3. ASSUME NEW b \in Broadcasts PROVE Books(b)'
  BY BooksStay DEF IInv
<1>4. Done(d)'
  BY DEF IInv, Done, Looping
<1>5. ASSUME faults' = 0 PROVE Cardinality(Reached(d)') >= fanout'[d].size
  <2>1. Reached(d)' = Reached(d)
    BY DEF Reached
  <2>2. Cardinality(Reached(d)) >= fanout[d].size
    BY <1>5 DEF IInv, Reach, Looping
  <2> QED BY <2>1, <2>2
<1>6. \A e \in Dispatchers \ {d} :
        /\ Done(e)'
        /\ faults' = 0 /\ pc'[e] \in Looping => Cardinality(Reached(e)') >= fanout'[e].size
  BY OtherDispatchers
<1>7. Reach'
  BY <1>5, <1>6 DEF Reach, IInv
<1>8. ASSUME NEW e \in Dispatchers PROVE Done(e)'
  BY <1>4, <1>6
<1> QED BY <1>1, <1>2, <1>3, <1>7, <1>8 DEF IInv

(* A dispatcher leaves a broadcast with another status. *)
LEMMA OutcomeInv ==
  ASSUME IInv, TypeOK', NEW d \in Dispatchers, pc[d] \in Going, Leave({d}),
         NEW c \in Broadcasts, c = cur[d].msg, NEW s \in {"sending", "sent", "failed"},
         status' = [status EXCEPT ![c] = s],
         UNCHANGED <<posted, rows, received, raced>>,
         \A b \in Broadcasts \ {c} : totals'[b] = totals[b],
         totals'[c].delivered \in {0, totals[c].delivered},
         s = "sent" => rows[c] # {},
         faults' = 0 => faults = 0,
         faults' = 0 /\ s = "sent" => Cardinality(rows[c]) >= totals'[c].recipients
  PROVE  IInv'
<1>1. /\ pc'[d] \in {"next", "done"}
      /\ \A e \in Dispatchers \ {d} :
           pc'[e] = pc[e] /\ cur'[e] = cur[e] /\ todo'[e] = todo[e] /\ fanout'[e] = fanout[e]
  BY DEF Leave
<1>2. status'[c] = s /\ \A b \in Broadcasts \ {c} : status'[b] = status[b]
  BY DEF IInv, TypeOK
<1>3. InHand'
  BY <1>1 DEF IInv, InHand, Going, Sending, Looping
<1>4. ASSUME NEW b \in Broadcasts, b # c PROVE OneDispatcher(b)'
  BY <1>1, <1>2, <1>4, OneDispatcherStays DEF IInv, Holds, Going, Sending, Looping
<1>5. OneDispatcher(c)'
  <2> SUFFICES ASSUME c \notin raced PROVE OneDispatcher(c)'
    BY DEF OneDispatcher
  <2>1. \A e \in Dispatchers : Holds(e, c) => e = d
    BY DEF IInv, OneDispatcher, Holds
  <2>2. \A e \in Dispatchers : ~Holds(e, c)'
    BY <1>1, <2>1 DEF Holds, Going, Sending, Looping
  <2>3. \A u \in Users : posted[c][u] <= 1
    BY DEF IInv, OneDispatcher
  <2> QED BY <1>2, <2>2, <2>3 DEF OneDispatcher, Unsent
<1>6. ASSUME NEW b \in Broadcasts, b # c PROVE Books(b)'
  BY <1>2, <1>6, BooksStay DEF IInv
<1>7. Books(c)'
  <2>1. MessagesOf(c)' = MessagesOf(c)
    BY DEF MessagesOf
  <2>2. Cardinality(MessagesOf(c)) \in Nat
    BY FS_CardinalityType DEF IInv, Books
  <2>3. totals'[c].delivered <= Cardinality(MessagesOf(c))
    BY <2>2 DEF IInv, Books
  <2> QED BY <1>2, <2>1, <2>3 DEF IInv, Books
<1>8. Done(d)' /\ pc'[d] \notin Looping
  BY <1>1 DEF Done, Looping
<1>9. \A e \in Dispatchers \ {d} :
        /\ Done(e)'
        /\ faults' = 0 /\ pc'[e] \in Looping => Cardinality(Reached(e)') >= fanout'[e].size
  BY <1>1, OtherDispatchers
<1>10. Reach'
  BY <1>2, <1>8, <1>9 DEF Reach, IInv
<1>11. ASSUME NEW e \in Dispatchers PROVE Done(e)'
  BY <1>8, <1>9
<1>12. ASSUME NEW b \in Broadcasts PROVE OneDispatcher(b)' /\ Books(b)'
  BY <1>4, <1>5, <1>6, <1>7
<1> QED BY <1>3, <1>10, <1>11, <1>12 DEF IInv
LEMMA FinishInv ==
  ASSUME IInv, TypeOK', NEW d \in Dispatchers, Finish(d)
  PROVE  IInv'
<1> PICK c \in Broadcasts : c = cur[d].msg
  BY DEF Finish, IInv, InHand, Going, Sending, Looping
<1> PICK s \in {"sent", "failed"} : s = IF fanout[d].delivered > 0 THEN "sent" ELSE "failed"
  OBVIOUS
<1>1. /\ pc[d] = "each" /\ todo[d] = {} /\ Leave({d})
      /\ status' = [status EXCEPT ![c] = s]
      /\ totals' = [totals EXCEPT ![c] = [recipients |-> fanout[d].size, delivered |-> 0]]
      /\ UNCHANGED <<posted, rows, received, raced, faults>>
  BY DEF Finish, ackVars
<1>2. /\ \A b \in Broadcasts \ {c} : totals'[b] = totals[b]
      /\ totals'[c].delivered = 0 /\ totals'[c].recipients = fanout[d].size
  BY <1>1 DEF IInv, TypeOK
<1>3. s = "sent" => rows[c] # {}
  BY <1>1 DEF IInv, Done, Looping
<1>4. faults = 0 => Cardinality(rows[c]) >= fanout[d].size
  <2>1. Reached(d) = rows[c]
    BY <1>1 DEF Reached
  <2> QED BY <1>1, <2>1 DEF IInv, Reach, Looping
<1> QED BY <1>1, <1>2, <1>3, <1>4, OutcomeInv DEF Going, Sending, Looping

LEMMA DispatchInv ==
  ASSUME IInv, TypeOK', NEW d \in Dispatchers, Dispatch(d)
  PROVE  IInv'
<1>1. CASE PostMessage(d)
  <2>1. PICK u \in todo[d] : /\ todo' = [todo EXCEPT ![d] = @ \ {u}]
                             /\ cur' = [cur EXCEPT ![d].to = u]
                             /\ posted' = [posted EXCEPT ![cur[d].msg][u] = @ + 1]
    BY <1>1 DEF PostMessage
  <2>2. /\ pc[d] = "each" /\ pc'[d] = "deliver"
        /\ cur'[d].msg = cur[d].msg /\ cur'[d].to = u
        /\ \A e \in Dispatchers \ {d} : pc'[e] = pc[e] /\ cur'[e] = cur[e]
    BY <1>1, <2>1 DEF PostMessage, Goto, IInv, TypeOK
  <2> QED BY <1>1, <2>1, <2>2, ServeInv DEF PostMessage, ackVars
<1>2. CASE CreateDelivery(d)
  <2>1. /\ pc'[d] = "notify" /\ \A e \in Dispatchers \ {d} : pc'[e] = pc[e]
    BY <1>2 DEF CreateDelivery, Goto, IInv, TypeOK
  <2> QED BY <1>2, <2>1, DeliverInv DEF CreateDelivery, ackVars
<1>3. CASE Notify(d)
  <2>1. /\ pc'[d] = "each"
        /\ cur'[d].msg = cur[d].msg /\ fanout'[d].size = fanout[d].size
        /\ \A e \in Dispatchers \ {d} :
             pc'[e] = pc[e] /\ cur'[e] = cur[e] /\ fanout'[e] = fanout[e]
    BY <1>3 DEF Notify, Goto, IInv, TypeOK
  <2> QED BY <1>3, <2>1, NotifyInv DEF Notify, msgVars, ackVars
<1> QED BY <1>1, <1>2, <1>3, ReadInv, MarkInv, RecipientsInv, FinishInv DEF Dispatch

LEMMA DispatchFailsInv ==
  ASSUME IInv, TypeOK', NEW d \in Dispatchers, DispatchFails(d)
  PROVE  IInv'
<1>1. faults' # 0 /\ Leave({d}) /\ UNCHANGED <<posted, rows, received, raced>>
  BY DEF DispatchFails, Fault, ackVars, IInv, TypeOK
<1>2. CASE UNCHANGED <<status, totals>>
  BY <1>1, <1>2, LeaveInv
<1>3. CASE pc[d] = "claim" /\ UNCHANGED totals
           /\ status' = [status EXCEPT ![cur[d].msg] = "sending"]
  <2> PICK c \in Broadcasts : c = cur[d].msg
    BY <1>3 DEF IInv, InHand, Going
  <2> QED BY <1>1, <1>3, OutcomeInv DEF Going
<1>4. CASE /\ pc[d] = "each" /\ todo[d] = {}
           /\ status' = [status EXCEPT ![cur[d].msg] = IF fanout[d].delivered > 0
                                                         THEN "sent" ELSE "failed"]
           /\ totals' = [totals EXCEPT ![cur[d].msg] = [recipients |-> fanout[d].size,
                                                        delivered |-> 0]]
  <2> PICK c \in Broadcasts : c = cur[d].msg
    BY <1>4 DEF IInv, InHand, Going, Sending, Looping
  <2> PICK s \in {"sent", "failed"} : s = IF fanout[d].delivered > 0 THEN "sent" ELSE "failed"
    OBVIOUS
  <2>1. /\ \A b \in Broadcasts \ {c} : totals'[b] = totals[b]
        /\ totals'[c].delivered = 0
    BY <1>4 DEF IInv, TypeOK
  <2>2. s = "sent" => rows[c] # {}
    BY <1>4 DEF IInv, Done, Looping
  <2> QED BY <1>1, <1>4, <2>1, <2>2, OutcomeInv DEF Going, Sending, Looping
<1> QED BY <1>2, <1>3, <1>4 DEF DispatchFails

LEMMA RecipientFailsInv ==
  ASSUME IInv, TypeOK', NEW d \in Dispatchers, RecipientFails(d)
  PROVE  IInv'
<1>1. /\ faults' # 0 /\ pc'[d] = "each" /\ cur'[d].msg = cur[d].msg
      /\ \A e \in Dispatchers \ {d} : pc'[e] = pc[e] /\ cur'[e] = cur[e]
      /\ UNCHANGED <<status, totals, received, raced, fanout>>
  BY DEF RecipientFails, Fault, Goto, ackVars, IInv, TypeOK
<1>2. CASE /\ pc[d] = "each" /\ UNCHANGED rows
           /\ \E u \in todo[d] :
                /\ todo' = [todo EXCEPT ![d] = @ \ {u}]
                /\ \/ UNCHANGED posted
                   \/ posted' = [posted EXCEPT ![cur[d].msg][u] = @ + 1]
  BY <1>1, <1>2, ServeInv
<1>3. CASE /\ pc[d] = "deliver" /\ UNCHANGED <<todo, posted>>
           /\ UNCHANGED rows \/ rows' = [rows EXCEPT ![cur[d].msg] = @ \cup {cur[d].to}]
  BY <1>1, <1>3, DeliverInv
<1>4. CASE pc[d] = "notify" /\ UNCHANGED <<todo, posted, rows>>
  BY <1>1, <1>4, NotifyInv
<1> QED BY <1>2, <1>3, <1>4 DEF RecipientFails

-----------------------------------------------------------------------------
(* The receipts. *)

(* The dispatchers and the statuses do not depend on the receipts. *)
LEMMA ReceiptStep ==
  ASSUME IInv, TypeOK', \A b \in Broadcasts : Books(b)',
         UNCHANGED <<status, posted, rows, raced, dispVars>>,
         \A b \in Broadcasts : totals'[b].recipients = totals[b].recipients,
         faults' = faults
  PROVE  IInv'
<1> USE DEF dispVars, IInv
<1>1. InHand'
  BY DEF InHand
<1>2. ASSUME NEW b \in Broadcasts PROVE OneDispatcher(b)'
  BY DEF OneDispatcher, Holds
<1>3. ASSUME NEW d \in Dispatchers PROVE Done(d)'
  BY DEF Done
<1>4. ASSUME NEW d \in Dispatchers PROVE Reached(d)' = Reached(d)
  BY DEF Reached
<1>5. Reach'
  BY <1>4 DEF Reach
<1> QED BY <1>1, <1>2, <1>3, <1>5

LEMMA ReceiptInv ==
  ASSUME IInv, TypeOK', NEW u \in Users, Acknowledge(u) \/ RefreshTotals(u)
  PROVE  IInv'
<1>1. CASE Acknowledge(u)
  <2>1. PICK b \in Broadcasts : \E n \in 1 .. posted[b][u] :
          received' = [received EXCEPT ![b] = @ \cup {<<u, n>>}]
    BY <1>1 DEF Acknowledge
  <2>2. PICK n \in 1 .. posted[b][u] : received' = [received EXCEPT ![b] = @ \cup {<<u, n>>}]
    BY <2>1
  <2>3. UNCHANGED <<status, totals, posted, rows, raced, dispVars, faults>>
    BY <1>1 DEF Acknowledge, msgVars
  <2>4. ASSUME NEW c \in Broadcasts PROVE Books(c)'
    <3>1. MessagesOf(c)' = MessagesOf(c)
      BY <2>3 DEF MessagesOf
    <3>2. <<u, n>> \in MessagesOf(b)
      BY <2>2 DEF MessagesOf
    <3>3. received'[c] \subseteq MessagesOf(c)
      BY <2>2, <3>2 DEF IInv, Books, TypeOK
    <3> QED BY <2>3, <3>1, <3>3 DEF IInv, Books
  <2> QED BY <2>3, <2>4, ReceiptStep
<1>2. CASE RefreshTotals(u)
  <2>1. PICK b \in Broadcasts : b = ack[u]
    BY <1>2 DEF RefreshTotals, IInv, TypeOK
  <2>2. UNCHANGED <<status, posted, rows, received, raced, dispVars, faults>>
    BY <1>2 DEF RefreshTotals
  <2>3. totals' = [totals EXCEPT ![b].delivered = Cardinality(received[b])]
    BY <1>2, <2>1 DEF RefreshTotals
  <2>4. /\ totals'[b].delivered = Cardinality(received[b])
        /\ \A c \in Broadcasts : c # b => totals'[c] = totals[c]
        /\ \A c \in Broadcasts : totals'[c].recipients = totals[c].recipients
    BY <2>3 DEF IInv, TypeOK
  <2>5. ASSUME NEW c \in Broadcasts PROVE Books(c)'
    <3>1. MessagesOf(c)' = MessagesOf(c)
      BY <2>2 DEF MessagesOf
    <3>2. Cardinality(received[b]) <= Cardinality(MessagesOf(b))
      BY FS_Subset DEF IInv, Books
    <3>3. totals'[c].delivered <= Cardinality(MessagesOf(c))
      BY <2>4, <3>2 DEF IInv, Books
    <3> QED BY <2>2, <3>1, <3>3 DEF IInv, Books
  <2> QED BY <2>2, <2>4, <2>5, ReceiptStep
<1> QED BY <1>1, <1>2

-----------------------------------------------------------------------------
(* The invariant is one. *)

LEMMA InitIInv ==
  Init => IInv
<1> SUFFICES ASSUME Init PROVE IInv
  OBVIOUS
<1> USE DEF Init
<1>1. TypeOK
  <2>1. lock \in BOOLEAN
    BY DEF JobLock!LockInit
  <2>2. faults \in 0 .. MaxFaults
    BY BroadcastAssumption
  <2>3. /\ cur \in [Dispatchers -> [msg: Broadcasts \cup {Nothing}, to: Users \cup {Nothing}]]
        /\ fanout \in [Dispatchers -> [size: Nat, delivered: Nat]]
    BY DEF NoWork, NoFanout
  <2> QED BY <2>1, <2>2, <2>3 DEF TypeOK, Statuses, Pcs
<1>2. InHand /\ \A d \in Dispatchers : Done(d)
  BY DEF InHand, Done, Going, Sending, Looping
<1>3. ASSUME NEW b \in Broadcasts PROVE OneDispatcher(b)
  BY DEF OneDispatcher, Holds, Going, Sending, Looping
<1>4. ASSUME NEW b \in Broadcasts PROVE Books(b)
  <2>1. MessagesOf(b) = {}
    BY DEF MessagesOf
  <2> QED BY <2>1, FS_EmptySet DEF Books
<1>5. Reach
  BY DEF Reach, Looping
<1> QED BY <1>1, <1>2, <1>3, <1>4, <1>5 DEF IInv

LEMMA NextIInv ==
  IInv /\ [Next]_vars => IInv'
<1> SUFFICES ASSUME IInv, [Next]_vars PROVE IInv'
  OBVIOUS
<1>1. TypeOK'
  BY NextTypes
<1>2. CASE UNCHANGED vars
  <2>1. UNCHANGED <<status, totals, posted, rows, received, raced, dispVars, faults>>
    BY <1>2 DEF vars, msgVars, ackVars
  <2>2. ASSUME NEW b \in Broadcasts PROVE Books(b)'
    BY <2>1, BooksStay DEF IInv
  <2> QED BY <1>1, <2>1, <2>2, ReceiptStep
<1>3. CASE Next
  BY <1>1, <1>3, SurroundingsInv, RequestInv, RunInv, DispatchInv, DispatchFailsInv,
     RecipientFailsInv, ReceiptInv, CrashInv DEF Next
<1> QED BY <1>2, <1>3

THEOREM Invariance ==
  Spec => []IInv
<1> QED BY InitIInv, NextIInv, PTL DEF Spec

(* Whatever runs, requests, handlers and faults interleave, every variable keeps to its
   type: whoever dispatches has a broadcast of the table and recipients of the list. *)
THEOREM TypeCorrect ==
  Spec => []TypeOK
<1>1. IInv => TypeOK
  BY DEF IInv
<1> QED BY <1>1, Invariance, PTL

(* Whatever crashes, failed statements, ticks and changes of the list: a recipient has a
   broadcast twice only if two dispatchers read its status before either wrote
   'sending'. *)
THEOREM NoOtherDuplicate ==
  Spec => []DuplicateNeedsRace
<1>1. IInv => DuplicateNeedsRace
  <2> SUFFICES ASSUME IInv, NEW b \in Broadcasts, NEW u \in Users,
                      posted[b][u] > 1, b \notin raced
               PROVE  FALSE
    BY DEF DuplicateNeedsRace
  <2>1. posted[b][u] <= 1 /\ posted[b][u] \in Nat
    BY DEF IInv, OneDispatcher, TypeOK
  <2> QED BY <2>1
<1> QED BY <1>1, Invariance, PTL

(* No step leaves the total of the delivered behind the receipts, but those that put the broadcast
   among the uncounted. *)
LEMMA NextCounted ==
  ASSUME IInv, TypeOK', DeliveredIsCounted, [Next]_vars
  PROVE  DeliveredIsCounted'
<1> USE DEF IInv, DeliveredIsCounted
<1>1. ASSUME UNCHANGED <<totals, received, ack, uncounted>>
      PROVE  DeliveredIsCounted'
  BY <1>1
<1>2. ASSUME NEW d \in Dispatchers, NEW c \in Broadcasts, NEW n \in Nat,
             totals' = [totals EXCEPT ![c] = [recipients |-> n, delivered |-> 0]],
             uncounted' = Forgotten(c), UNCHANGED <<received, ack>>
      PROVE  DeliveredIsCounted'
  <2> SUFFICES ASSUME NEW b \in Broadcasts, b \notin uncounted', \A u \in Users : ack[u] # b
               PROVE  totals'[b].delivered = Cardinality(received[b])
    BY <1>2
  <2>1. b \notin uncounted
    BY <1>2 DEF Forgotten
  <2>2. CASE b = c
    <3>1. received[b] = {}
      BY <1>2, <2>2 DEF Forgotten
    <3>2. totals'[b].delivered = 0
      BY <1>2, <2>2 DEF TypeOK
    <3> QED BY <3>1, <3>2, FS_EmptySet
  <2>3. CASE b # c
    BY <1>2, <2>1, <2>3 DEF TypeOK
  <2> QED BY <2>2, <2>3
<1>3. ASSUME NEW u \in Users, Acknowledge(u)
      PROVE  DeliveredIsCounted'
  <2>1. PICK c \in Broadcasts : \E n \in 1 .. posted[c][u] :
          /\ received' = [received EXCEPT ![c] = @ \cup {<<u, n>>}]
          /\ ack' = [ack EXCEPT ![u] = c]
    BY <1>3 DEF Acknowledge
  <2>2. ack[u] = Nothing /\ UNCHANGED <<totals, uncounted>>
    BY <1>3 DEF Acknowledge, msgVars
  <2> SUFFICES ASSUME NEW b \in Broadcasts, b \notin uncounted', \A v \in Users : ack'[v] # b
               PROVE  totals'[b].delivered = Cardinality(received'[b])
    OBVIOUS
  <2>3. b # c
    BY <2>1 DEF TypeOK
  <2>4. received'[b] = received[b]
    BY <2>1, <2>3 DEF TypeOK
  <2>5. \A v \in Users : ack[v] # b
    BY <2>1, <2>2, BroadcastAssumption DEF TypeOK
  <2> QED BY <2>2, <2>4, <2>5
<1>4. ASSUME NEW u \in Users, RefreshTotals(u)
      PROVE  DeliveredIsCounted'
  <2>1. PICK c \in Broadcasts : c = ack[u]
    BY <1>4 DEF RefreshTotals, TypeOK
  <2>2. /\ totals' = [totals EXCEPT ![c].delivered = Cardinality(received[c])]
        /\ ack' = [ack EXCEPT ![u] = Nothing]
        /\ uncounted' = uncounted \ {c}
        /\ UNCHANGED received
    BY <1>4, <2>1 DEF RefreshTotals
  <2> SUFFICES ASSUME NEW b \in Broadcasts, b \notin uncounted', \A v \in Users : ack'[v] # b
               PROVE  totals'[b].delivered = Cardinality(received[b])
    BY <2>2
  <2>3. CASE b = c
    BY <2>2, <2>3 DEF TypeOK
  <2>4. CASE b # c
    <3>1. totals'[b] = totals[b] /\ b \notin uncounted
      BY <2>2, <2>4 DEF TypeOK
    <3>2. \A v \in Users : ack[v] # b
      BY <2>1, <2>2, <2>4 DEF TypeOK
    <3> QED BY <3>1, <3>2
  <2> QED BY <2>3, <2>4
<1>5. ASSUME NEW u \in Users, SyncFails(u)
      PROVE  DeliveredIsCounted'
  <2>1. /\ ack' = [ack EXCEPT ![u] = Nothing]
        /\ uncounted' = uncounted \cup {ack[u]}
        /\ UNCHANGED <<totals, received>>
    BY <1>5 DEF SyncFails, msgVars
  <2> SUFFICES ASSUME NEW b \in Broadcasts, b \notin uncounted', \A v \in Users : ack'[v] # b
               PROVE  totals[b].delivered = Cardinality(received[b])
    BY <2>1
  <2>2. \A v \in Users : ack[v] # b
    BY <2>1 DEF TypeOK
  <2> QED BY <2>1, <2>2
<1>6. ASSUME NEW d \in Dispatchers, Finish(d) \/ DispatchFails(d)
      PROVE  DeliveredIsCounted'
  <2>1. CASE UNCHANGED <<totals, uncounted>>
    BY <1>1, <1>6, <2>1 DEF Finish, DispatchFails
  <2>2. CASE /\ pc[d] = "each" /\ uncounted' = Forgotten(cur[d].msg)
             /\ totals' = [totals EXCEPT ![cur[d].msg] = [recipients |-> fanout[d].size,
                                                          delivered |-> 0]]
    <3>1. cur[d].msg \in Broadcasts
      BY <2>2 DEF InHand, Going, Sending, Looping
    <3>2. fanout[d].size \in Nat
      BY DEF TypeOK
    <3>3. UNCHANGED <<received, ack>>
      BY <1>6 DEF Finish, DispatchFails
    <3> QED BY <1>2, <2>2, <3>1, <3>2, <3>3
  <2> QED BY <1>6, <2>1, <2>2 DEF Finish, DispatchFails
<1>7. ASSUME NEW d \in Dispatchers, Dispatch(d) \/ RecipientFails(d), ~Finish(d)
      PROVE  DeliveredIsCounted'
  BY <1>1, <1>7 DEF Dispatch, ReadStatus, MarkSending, ReadRecipients, PostMessage, CreateDelivery,
                    Notify, RecipientFails, msgVars, ackVars
<1>8. ASSUME \/ \E u \in Users : AddRecipient(u) \/ RemoveRecipient(u)
             \/ \E b \in Broadcasts : SendMessage(b) \/ Vence(b) \/ CheckFuture(b)
             \/ \E w \in Runs : IniciarCorrida(w) \/ RunStep(w) \/ FindDueFails(w)
             \/ ExpiraLock \/ ClaimReplyLost
             \/ \E i \in Instances : Crash(i)
             \/ UNCHANGED vars
      PROVE  DeliveredIsCounted'
  BY <1>1, <1>8 DEF AddRecipient, RemoveRecipient, SendMessage, Vence, CheckFuture, IniciarCorrida,
                    RunStep, FindDue, NextDue, EndRun, FindDueFails, ExpiraLock, ClaimReplyLost,
                    Crash, vars, msgVars, ackVars
<1> QED BY <1>3, <1>4, <1>5, <1>6, <1>7, <1>8 DEF Next

(* What the sender reads has happened: each delivery row is of a message, a broadcast that is
   'sent' without a fault reached as many as were on its list, and its total of the delivered is
   that of the receipts, unless they came before the dispatch put it back to 0, or the counting
   failed, and no other has been counted since. *)
THEOREM BooksAreTrue ==
  Spec => []BooksTellTheTruth
<1>1. IInv /\ DeliveredIsCounted => BooksTellTheTruth
  BY DEF IInv, Books, Reach, BooksTellTheTruth, BooksMatchMessages, SentReachesAll
<1>2. Init => DeliveredIsCounted
  BY FS_EmptySet DEF Init, DeliveredIsCounted
<1>3. IInv /\ IInv' /\ DeliveredIsCounted /\ [Next]_vars => DeliveredIsCounted'
  BY NextCounted DEF IInv
<1> QED BY <1>1, <1>2, <1>3, Invariance, PTL DEF Spec
===============================================================================
