----------------------------- MODULE Broadcast -----------------------------
(***************************************************************************)
(* Broadcast lists (services/broadcast.service.ts): a broadcast is sent to   *)
(* each recipient of a list as a direct message, at once by the request     *)
(* that creates it or later by the `scheduled-broadcasts` job, while the      *)
(* recipients' clients acknowledge the messages they already have.          *)
(*                                                                         *)
(* One action is the code between two awaits.  Dispatchers are the runs of   *)
(* the job and, for each broadcast, the request that creates it.  All the    *)
(* broadcasts here belong to one list.                                      *)
(*                                                                         *)
(* Abstracted: bodies, attachments and names; the finding or creation of the *)
(* direct conversation (part of PostMessage); total_read and the dates in    *)
(* the delivery rows, which follow total_delivered; LIMIT 50 and the order   *)
(* of the due broadcasts.                                                   *)
(***************************************************************************)
EXTENDS Integers, FiniteSets

CONSTANTS
  Broadcasts,  \* rows of broadcast_messages, each with the request creating it
  Users,       \* those who may be recipients
  Instances,   \* backend processes
  Runs,        \* executions of the job that may be in progress at once
  HostOf,      \* HostOf[d]: the instance that executes dispatcher d
  Redis,       \* TRUE iff REDIS_URL is configured
  MaxFaults,   \* bound on crashes and failed statements
  Nothing      \* no broadcast or user in hand

Dispatchers == Runs \cup Broadcasts

ASSUME BroadcastAssumption ==
  /\ Runs \cap Broadcasts = {}
  /\ Nothing \notin Broadcasts \cup Users
  /\ IsFiniteSet(Users)
  /\ HostOf \in [Dispatchers -> Instances]
  /\ Redis \in BOOLEAN
  /\ MaxFaults \in Nat

VARIABLES
  status,      \* status[b], "none" before the row exists
  due,         \* the broadcasts whose scheduled_at has passed
  totals,      \* totals[b]: the columns total_recipients and total_delivered
  members,     \* the recipients on the list
  posted,      \* posted[b][u]: direct messages of b in u's conversation
  rows,        \* rows[b]: the recipients with a row in broadcast_deliveries
  received,    \* received[b]: those messages with a row in message_receipts
  ack,         \* ack[u]: the broadcast whose receipt u's handler has stored and
               \* not yet counted
  uncounted,   \* history: broadcasts whose total was put back to 0 under a receipt, or whose
               \* counting failed, and no count has come since
  lock,        \* the job's lock in Redis
  pc,          \* pc[d]: where dispatcher d is
  batch,       \* batch[w]: the due broadcasts run w has read and not begun
  cur,         \* cur[d]: the broadcast and the recipient d is working on
  todo,        \* todo[d]: recipients d has read and not begun
  fanout,      \* fanout[d]: recipients read, and those delivered so far
  raced,       \* history: broadcasts let through by two dispatchers at once
  faults       \* crashes and failed statements so far

msgVars  == <<status, due, totals, members, posted, rows>>
ackVars  == <<received, ack, uncounted>>
dispVars == <<pc, batch, cur, todo, fanout>>
vars     == <<msgVars, ackVars, lock, dispVars, raced, faults>>

JobLock == INSTANCE JobLock

Statuses == {"none", "draft", "scheduled", "sending", "sent", "failed"}
Pcs == {"idle", "check", "find", "next", "read", "claim", "list", "each",
        "deliver", "notify", "done"}

TypeOK ==
  /\ status \in [Broadcasts -> Statuses]
  /\ due \subseteq Broadcasts
  /\ totals \in [Broadcasts -> [recipients: Nat, delivered: Nat]]
  /\ members \subseteq Users
  /\ posted \in [Broadcasts -> [Users -> Nat]]
  /\ rows \in [Broadcasts -> SUBSET Users]
  /\ received \in [Broadcasts -> SUBSET (Users \X Nat)]
  /\ ack \in [Users -> Broadcasts \cup {Nothing}]
  /\ uncounted \subseteq Broadcasts
  /\ lock \in BOOLEAN
  /\ pc \in [Dispatchers -> Pcs]
  /\ batch \in [Runs -> SUBSET Broadcasts]
  /\ cur \in [Dispatchers -> [msg: Broadcasts \cup {Nothing}, to: Users \cup {Nothing}]]
  /\ todo \in [Dispatchers -> SUBSET Users]
  /\ fanout \in [Dispatchers -> [size: Nat, delivered: Nat]]
  /\ raced \subseteq Broadcasts
  /\ faults \in 0 .. MaxFaults

NoWork == [msg |-> Nothing, to |-> Nothing]
NoFanout == [size |-> 0, delivered |-> 0]

Init ==
  /\ status = [b \in Broadcasts |-> "none"]
  /\ due = {}
  /\ totals = [b \in Broadcasts |-> [recipients |-> 0, delivered |-> 0]]
  /\ members \in SUBSET Users
  /\ posted = [b \in Broadcasts |-> [u \in Users |-> 0]]
  /\ rows = [b \in Broadcasts |-> {}]
  /\ received = [b \in Broadcasts |-> {}]
  /\ ack = [u \in Users |-> Nothing]
  /\ uncounted = {}
  /\ JobLock!LockInit
  /\ pc = [d \in Dispatchers |-> "idle"]
  /\ batch = [w \in Runs |-> {}]
  /\ cur = [d \in Dispatchers |-> NoWork]
  /\ todo = [d \in Dispatchers |-> {}]
  /\ fanout = [d \in Dispatchers |-> NoFanout]
  /\ raced = {}
  /\ faults = 0

-----------------------------------------------------------------------------
(* The list. *)

AddRecipient(u) ==
  /\ u \notin members
  /\ members' = members \cup {u}
  /\ UNCHANGED <<status, due, totals, posted, rows, ackVars, lock, dispVars, raced, faults>>

RemoveRecipient(u) ==
  /\ u \in members
  /\ members' = members \ {u}
  /\ UNCHANGED <<status, due, totals, posted, rows, ackVars, lock, dispVars, raced, faults>>

-----------------------------------------------------------------------------
(* The request that creates a broadcast. *)

Goto(d, label) == pc' = [pc EXCEPT ![d] = label]

(* createMessage: 'scheduled' iff scheduled_at is still to come. *)
SendMessage(b) ==
  /\ status[b] = "none"
  /\ \E s \in {"draft", "scheduled"} : status' = [status EXCEPT ![b] = s]
  /\ Goto(b, "check")
  /\ UNCHANGED <<due, totals, members, posted, rows, ackVars, lock, batch, cur, todo,
                 fanout, raced, faults>>

(* scheduled_at passes. *)
Vence(b) ==
  /\ status[b] = "scheduled"
  /\ b \notin due
  /\ due' = due \cup {b}
  /\ UNCHANGED <<status, totals, members, posted, rows, ackVars, lock, dispVars, raced, faults>>

(* sendMessage looks at the clock again, after the insert. *)
CheckFuture(b) ==
  /\ pc[b] = "check"
  /\ IF status[b] = "scheduled" /\ b \notin due
       THEN Goto(b, "done") /\ UNCHANGED cur
       ELSE Goto(b, "read") /\ cur' = [cur EXCEPT ![b] = [msg |-> b, to |-> Nothing]]
  /\ UNCHANGED <<msgVars, ackVars, lock, batch, todo, fanout, raced, faults>>

-----------------------------------------------------------------------------
(* A run of the job. *)

IniciarCorrida(w) ==
  /\ pc[w] = "idle"
  /\ JobLock!Claim
  /\ Goto(w, "find")
  /\ UNCHANGED <<msgVars, ackVars, batch, cur, todo, fanout, raced, faults>>

ExpiraLock ==
  /\ JobLock!Expire
  /\ UNCHANGED <<msgVars, ackVars, dispVars, raced, faults>>

(* The SELECT that looks for the wrong status. *)
FindDueBorradores(w) ==
  /\ pc[w] = "find"
  /\ batch' = [batch EXCEPT ![w] = {b \in due : status[b] = "draft"}]
  /\ Goto(w, "next")
  /\ UNCHANGED <<msgVars, ackVars, lock, cur, todo, fanout, raced, faults>>

(* A plain SELECT of what is due. *)
FindDue(w) ==
  /\ pc[w] = "find"
  /\ batch' = [batch EXCEPT ![w] = {b \in due : status[b] = "scheduled"}]
  /\ Goto(w, "next")
  /\ UNCHANGED <<msgVars, ackVars, lock, cur, todo, fanout, raced, faults>>

NextDue(w) ==
  /\ pc[w] = "next"
  /\ \E b \in batch[w] :
       /\ batch' = [batch EXCEPT ![w] = @ \ {b}]
       /\ cur' = [cur EXCEPT ![w] = [msg |-> b, to |-> Nothing]]
  /\ Goto(w, "read")
  /\ UNCHANGED <<msgVars, ackVars, lock, todo, fanout, raced, faults>>

EndRun(w) ==
  /\ pc[w] = "next"
  /\ batch[w] = {}
  /\ Goto(w, "idle")
  /\ UNCHANGED <<msgVars, ackVars, lock, batch, cur, todo, fanout, raced, faults>>

-----------------------------------------------------------------------------
(* dispatchMessage, by dispatcher d. *)

Working(b) == {d \in Dispatchers : cur[d].msg = b /\ pc[d] # "read"}

(* dispatchMessage returns or throws: a run goes on with its batch, a request
   ends. *)
Leave(D) ==
  /\ pc' = [d \in Dispatchers |->
              IF d \notin D THEN pc[d] ELSE IF d \in Runs THEN "next" ELSE "done"]
  /\ cur' = [d \in Dispatchers |-> IF d \in D THEN NoWork ELSE cur[d]]
  /\ todo' = [d \in Dispatchers |-> IF d \in D THEN {} ELSE todo[d]]
  /\ fanout' = [d \in Dispatchers |-> IF d \in D THEN NoFanout ELSE fanout[d]]

(* The dispatch that forgets to look at the status. *)
ReadSinMirar(d) ==
  LET b == cur[d].msg IN
  /\ pc[d] = "read"
  /\ Goto(d, "claim")
  /\ raced' = raced \cup {x \in {b} : \E e \in Working(b) : pc[e] = "claim"}
  /\ UNCHANGED <<msgVars, ackVars, lock, batch, cur, todo, fanout, faults>>

(* Only a draft or a scheduled broadcast goes on, by the status just read. *)
ReadStatus(d) ==
  LET b == cur[d].msg IN
  /\ pc[d] = "read"
  /\ IF status[b] \in {"draft", "scheduled"}
       THEN /\ Goto(d, "claim")
            /\ raced' = raced \cup {x \in {b} : \E e \in Working(b) : pc[e] = "claim"}
            /\ UNCHANGED <<cur, todo, fanout>>
       ELSE Leave({d}) /\ UNCHANGED raced
  /\ UNCHANGED <<msgVars, ackVars, lock, batch, faults>>

(* 'sending' is written whatever the status is by now. *)
MarkSending(d) ==
  /\ pc[d] = "claim"
  /\ status' = [status EXCEPT ![cur[d].msg] = "sending"]
  /\ Goto(d, "list")
  /\ UNCHANGED <<due, totals, members, posted, rows, ackVars, lock, batch, cur, todo,
                 fanout, raced, faults>>

ReadRecipients(d) ==
  /\ pc[d] = "list"
  /\ todo' = [todo EXCEPT ![d] = members]
  /\ fanout' = [fanout EXCEPT ![d] = [size |-> Cardinality(members), delivered |-> 0]]
  /\ Goto(d, "each")
  /\ UNCHANGED <<msgVars, ackVars, lock, batch, cur, raced, faults>>

(* The delivery recorded before the message is stored. *)
AnotarAntes(d) ==
  /\ pc[d] = "each"
  /\ \E u \in todo[d] :
       /\ todo' = [todo EXCEPT ![d] = @ \ {u}]
       /\ cur' = [cur EXCEPT ![d].to = u]
       /\ rows' = [rows EXCEPT ![cur[d].msg] = @ \cup {u}]
  /\ Goto(d, "deliver")
  /\ UNCHANGED <<status, due, totals, members, posted, ackVars, lock, batch, fanout, raced, faults>>

(* The direct conversation and the message in it. *)
PostMessage(d) ==
  /\ pc[d] = "each"
  /\ \E u \in todo[d] :
       /\ todo' = [todo EXCEPT ![d] = @ \ {u}]
       /\ cur' = [cur EXCEPT ![d].to = u]
       /\ posted' = [posted EXCEPT ![cur[d].msg][u] = @ + 1]
  /\ Goto(d, "deliver")
  /\ UNCHANGED <<status, due, totals, members, rows, ackVars, lock, batch, fanout, raced, faults>>

(* createDelivery, an upsert. *)
CreateDelivery(d) ==
  /\ pc[d] = "deliver"
  /\ rows' = [rows EXCEPT ![cur[d].msg] = @ \cup {cur[d].to}]
  /\ Goto(d, "notify")
  /\ UNCHANGED <<status, due, totals, members, posted, ackVars, lock, batch, cur, todo,
                 fanout, raced, faults>>

(* The notification, the live events and delivered++. *)
Notify(d) ==
  /\ pc[d] = "notify"
  /\ fanout' = [fanout EXCEPT ![d].delivered = @ + 1]
  /\ cur' = [cur EXCEPT ![d].to = Nothing]
  /\ Goto(d, "each")
  /\ UNCHANGED <<msgVars, ackVars, lock, batch, todo, raced, faults>>

(* The receipts that b has by now are left out of its total. *)
Forgotten(b) == uncounted \cup {x \in {b} : received[x] # {}}

(* An outcome the schema's CHECK does not know. *)
FinishParcial(d) ==
  LET b == cur[d].msg IN
  /\ pc[d] = "each"
  /\ todo[d] = {}
  /\ status' = [status EXCEPT ![b] = IF fanout[d].delivered = fanout[d].size
                                       THEN "sent" ELSE "partial"]
  /\ totals' = [totals EXCEPT ![b] = [recipients |-> fanout[d].size, delivered |-> 0]]
  /\ uncounted' = Forgotten(b)
  /\ Leave({d})
  /\ UNCHANGED <<due, members, posted, rows, received, ack, lock, batch, raced, faults>>

(* The outcome, and the totals back to 0. *)
Finish(d) ==
  LET b == cur[d].msg IN
  /\ pc[d] = "each"
  /\ todo[d] = {}
  /\ status' = [status EXCEPT ![b] = IF fanout[d].delivered > 0 THEN "sent" ELSE "failed"]
  /\ totals' = [totals EXCEPT ![b] = [recipients |-> fanout[d].size, delivered |-> 0]]
  /\ uncounted' = Forgotten(b)
  /\ Leave({d})
  /\ UNCHANGED <<due, members, posted, rows, received, ack, lock, batch, raced, faults>>

-----------------------------------------------------------------------------
(* The messages of b, each one with its recipient. *)
MessagesOf(b) == UNION {{u} \X (1 .. posted[b][u]) : u \in Users}

(* A recipient's client acknowledges a message, perhaps not for the first time: the
   receipt is stored (addReceipt, an upsert) and the handler goes on to
   syncFromMessageReceipt, which first dates the delivery row. *)
Acknowledge(u) ==
  /\ ack[u] = Nothing
  /\ \E b \in Broadcasts : \E n \in 1 .. posted[b][u] :
       /\ received' = [received EXCEPT ![b] = @ \cup {<<u, n>>}]
       /\ ack' = [ack EXCEPT ![u] = b]
  /\ UNCHANGED <<msgVars, uncounted, lock, dispVars, raced, faults>>

(* One UPDATE that counts the receipts. *)
RefreshTotals(u) ==
  /\ ack[u] # Nothing
  /\ totals' = [totals EXCEPT ![ack[u]].delivered = Cardinality(received[ack[u]])]
  /\ ack' = [ack EXCEPT ![u] = Nothing]
  /\ uncounted' = uncounted \ {ack[u]}
  /\ UNCHANGED <<status, due, members, posted, rows, received, lock, dispVars, raced, faults>>

-----------------------------------------------------------------------------
(* Faults. *)

Fault ==
  /\ faults < MaxFaults
  /\ faults' = faults + 1

ClaimReplyLost ==
  /\ Fault
  /\ JobLock!ClaimReplyLost
  /\ UNCHANGED <<msgVars, ackVars, dispVars, raced>>

(* findDueScheduledMessages throws: the run ends. *)
FindDueFails(w) ==
  /\ Fault
  /\ pc[w] = "find"
  /\ Goto(w, "idle")
  /\ UNCHANGED <<msgVars, ackVars, lock, batch, cur, todo, fanout, raced>>

(* A statement of dispatchMessage outside the loop over recipients throws, applied
   or not. *)
DispatchFails(d) ==
  LET b == cur[d].msg IN
  /\ Fault
  /\ \/ /\ pc[d] \in {"read", "claim", "list"}
        /\ UNCHANGED <<status, totals, uncounted>>
     \/ /\ pc[d] = "claim"
        /\ status' = [status EXCEPT ![b] = "sending"]
        /\ UNCHANGED <<totals, uncounted>>
     \/ /\ pc[d] = "each"
        /\ todo[d] = {}
        /\ \/ UNCHANGED <<status, totals, uncounted>>
           \/ /\ status' = [status EXCEPT ![b] = IF fanout[d].delivered > 0
                                                   THEN "sent" ELSE "failed"]
              /\ totals' = [totals EXCEPT ![b] = [recipients |-> fanout[d].size,
                                                  delivered |-> 0]]
              /\ uncounted' = Forgotten(b)
  /\ Leave({d})
  /\ UNCHANGED <<due, members, posted, rows, received, ack, lock, batch, raced>>

(* A statement for one recipient throws, applied or not: the loop goes on with the
   next one. *)
RecipientFails(d) ==
  /\ Fault
  /\ \/ /\ pc[d] = "each"
        /\ \E u \in todo[d] :
             /\ todo' = [todo EXCEPT ![d] = @ \ {u}]
             /\ \/ UNCHANGED posted
                \/ posted' = [posted EXCEPT ![cur[d].msg][u] = @ + 1]
        /\ UNCHANGED rows
     \/ /\ pc[d] = "deliver"
        /\ \/ UNCHANGED rows
           \/ rows' = [rows EXCEPT ![cur[d].msg] = @ \cup {cur[d].to}]
        /\ UNCHANGED <<todo, posted>>
     \/ /\ pc[d] = "notify"
        /\ UNCHANGED <<todo, posted, rows>>
  /\ cur' = [cur EXCEPT ![d].to = Nothing]
  /\ Goto(d, "each")
  /\ UNCHANGED <<status, due, totals, members, ackVars, lock, batch, fanout, raced>>

(* syncFromMessageReceipt throws before its effect, or the instance of the recipient's
   socket dies. *)
SyncFails(u) ==
  /\ Fault
  /\ ack[u] # Nothing
  /\ ack' = [ack EXCEPT ![u] = Nothing]
  /\ uncounted' = uncounted \cup {ack[u]}
  /\ UNCHANGED <<msgVars, received, lock, dispVars, raced>>

(* An instance dies with its runs and the requests it was serving. *)
Crash(i) ==
  LET D == {d \in Dispatchers : HostOf[d] = i} IN
  /\ Fault
  /\ \E d \in D : pc[d] \notin {"idle", "done"}
  /\ pc' = [d \in Dispatchers |->
              IF d \notin D \/ pc[d] = "idle" THEN pc[d]
              ELSE IF d \in Runs THEN "idle" ELSE "done"]
  /\ batch' = [w \in Runs |-> IF w \in D THEN {} ELSE batch[w]]
  /\ cur' = [d \in Dispatchers |-> IF d \in D THEN NoWork ELSE cur[d]]
  /\ todo' = [d \in Dispatchers |-> IF d \in D THEN {} ELSE todo[d]]
  /\ fanout' = [d \in Dispatchers |-> IF d \in D THEN NoFanout ELSE fanout[d]]
  /\ UNCHANGED <<msgVars, ackVars, lock, raced>>

-----------------------------------------------------------------------------
Dispatch(d) ==
  \/ ReadStatus(d) \/ MarkSending(d) \/ ReadRecipients(d)
  \/ PostMessage(d) \/ CreateDelivery(d) \/ Notify(d) \/ Finish(d)

RunStep(w) == FindDue(w) \/ NextDue(w) \/ EndRun(w)

Next ==
  \/ \E u \in Users : AddRecipient(u) \/ RemoveRecipient(u)
  \/ \E b \in Broadcasts : SendMessage(b) \/ Vence(b) \/ CheckFuture(b)
  \/ \E w \in Runs : IniciarCorrida(w) \/ RunStep(w) \/ FindDueFails(w)
  \/ \E d \in Dispatchers : Dispatch(d) \/ DispatchFails(d) \/ RecipientFails(d)
  \/ \E u \in Users : Acknowledge(u) \/ RefreshTotals(u) \/ SyncFails(u)
  \/ ExpiraLock
  \/ ClaimReplyLost
  \/ \E i \in Instances : Crash(i)

(* As for ScheduledMessages: cron keeps firing, the lock's TTL runs out and what is
   not interrupted goes on.  Users owe nothing. *)
Fairness ==
  /\ \A b \in Broadcasts : WF_vars(CheckFuture(b))
  /\ \A w \in Runs : WF_vars(RunStep(w))
  /\ \A d \in Dispatchers : WF_vars(Dispatch(d))
  /\ WF_vars(\E w \in Runs : IniciarCorrida(w))
  /\ WF_vars(ExpiraLock)

Spec == Init /\ [][Next]_vars /\ Fairness

-----------------------------------------------------------------------------
(* What must hold. *)

(* No recipient gets a broadcast twice, except when two dispatchers read the same
   status before either wrote 'sending': no crash, failed statement, retry by the
   next tick or change of the list does it. *)
DuplicateNeedsRace ==
  \A b \in Broadcasts, u \in Users : posted[b][u] > 1 => b \in raced

(* What the sender reads of a broadcast has happened: a delivery row is only there
   for a message that exists, and 'sent' only if some recipient has it. *)
BooksMatchMessages ==
  \A b \in Broadcasts :
    /\ \A u \in rows[b] : posted[b][u] > 0
    /\ totals[b].delivered <= Cardinality(MessagesOf(b))
    /\ status[b] = "sent" => rows[b] # {}

(* Nobody on the list when the dispatch read it is left out, unless a statement
   failed, whoever joins or leaves meanwhile. *)
SentReachesAll ==
  \A b \in Broadcasts :
    faults = 0 /\ status[b] = "sent" => Cardinality(rows[b]) >= totals[b].recipients

(* Once no receipt is waiting to be counted, the total of the delivered is that of the receipts:
   unless the dispatch ended after they came, and put it back to 0, or a counting failed, and no
   other receipt has been counted since. *)
DeliveredIsCounted ==
  \A b \in Broadcasts \ uncounted :
    (\A u \in Users : ack[u] # b) => totals[b].delivered = Cardinality(received[b])

(* What the sender is told of a broadcast is so: its books match the messages, "sent" means that
   everybody on the list has it, and the delivered are those whose client said so. *)
BooksTellTheTruth == BooksMatchMessages /\ SentReachesAll /\ DeliveredIsCounted

(* A scheduled broadcast goes out, or is found to have nobody to go to, once its time
   comes, unless a crash or a failed statement intervened. *)
DueIsDispatched ==
  \A b \in Broadcasts :
    b \in due ~> status[b] \in {"sent", "failed"} \/ faults > 0
=============================================================================
