-------------------------- MODULE ScheduledMessages --------------------------
(***************************************************************************)
(* Scheduled messages and reminders: the rows users leave in the database  *)
(* (services/scheduled.service.ts, repositories/scheduled.repository.ts),   *)
(* and the `scheduled-messages` job that every backend instance starts each *)
(* minute (jobs/index.ts, jobs/scheduledMessages.job.ts).                   *)
(*                                                                         *)
(* One action is the code between two awaits, so that sweeps, cancels,     *)
(* membership changes and crashes of other actors fall in between.  A      *)
(* database statement may fail, with or without having been applied; such  *)
(* faults and the crashes of instances are counted in `faults`.            *)
(*                                                                         *)
(* Abstracted: the text of messages and notes, the encryption of bodies,   *)
(* ON DELETE CASCADE of a conversation or user, and the order in which due  *)
(* rows are taken (scheduled_at): each sweep takes any full batch of them.  *)
(* Membership and is_read_only may change at any time, so what a run reads   *)
(* of them is any value, whatever the sender was when the row was left.     *)
(***************************************************************************)
EXTENDS Integers, FiniteSets

CONSTANTS
  Rows,        \* rows of scheduled_messages
  Reminders,   \* rows of message_reminders
  Instances,   \* backend processes
  Runs,        \* executions of the job that may be in progress at once
  HostOf,      \* HostOf[w]: the instance that executes run w
  Limit,       \* LIMIT of tomarVencidos
  Redis,       \* TRUE iff REDIS_URL is configured
  MaxFaults,   \* bound on crashes and failed statements
  Nothing      \* no row in hand

Items == Rows \cup Reminders

ASSUME ScheduledAssumption ==
  /\ Rows \cap Reminders = {}
  /\ Nothing \notin Items
  /\ HostOf \in [Runs -> Instances]
  /\ Limit \in Nat \ {0}
  /\ Redis \in BOOLEAN
  /\ MaxFaults \in Nat

VARIABLES
  status,      \* status[i]: the row's status column, "none" before it exists
  due,         \* the items whose scheduled_at or remind_at has passed
  out,         \* out[i]: messages posted for a row, live events for a reminder
  sentId,      \* the rows whose sent_message_id is set
  notices,     \* notices[r]: outcome events emitted to the sender of r
  lock,        \* the job's lock in Redis
  pc,          \* pc[w]: where run w is
  batch,       \* batch[w]: claimed items that run w has not started
  cur,         \* cur[w]: the item run w is working on
  faults       \* crashes and failed statements so far

rowVars  == <<status, due, out, sentId, notices>>
runVars  == <<pc, batch, cur>>
vars     == <<rowVars, lock, runVars, faults>>

JobLock == INSTANCE JobLock

Statuses == {"none", "pending", "sending", "sent", "cancelled", "failed", "done"}
SendPcs  == {"asMember", "asAdmin", "insert", "mark", "fail"}
Pcs      == {"idle", "sweep", "loop", "reminders", "announce"} \cup SendPcs

TypeOK ==
  /\ status \in [Items -> Statuses]
  /\ due \subseteq Items
  /\ out \in [Items -> Nat]
  /\ sentId \subseteq Rows
  /\ notices \in [Rows -> SUBSET {"sent", "failed"}]
  /\ lock \in BOOLEAN
  /\ pc \in [Runs -> Pcs]
  /\ batch \in [Runs -> SUBSET Items]
  /\ cur \in [Runs -> Items \cup {Nothing}]
  /\ faults \in 0 .. MaxFaults

Init ==
  /\ status = [i \in Items |-> "none"]
  /\ due = {}
  /\ out = [i \in Items |-> 0]
  /\ sentId = {}
  /\ notices = [r \in Rows |-> {}]
  /\ JobLock!LockInit
  /\ pc = [w \in Runs |-> "idle"]
  /\ batch = [w \in Runs |-> {}]
  /\ cur = [w \in Runs |-> Nothing]
  /\ faults = 0

-----------------------------------------------------------------------------
(* What users do. *)

Programar(r) ==
  /\ status[r] = "none"
  /\ status' = [status EXCEPT ![r] = "pending"]
  /\ UNCHANGED <<due, out, sentId, notices, lock, runVars, faults>>

Recordar(m) ==
  /\ status[m] = "none"
  /\ status' = [status EXCEPT ![m] = "pending"]
  /\ UNCHANGED <<due, out, sentId, notices, lock, runVars, faults>>

(* The cancel that writes a status the schema does not know. *)
CancelarMalEscrito(i) ==
  /\ status[i] = "pending"
  /\ status' = [status EXCEPT ![i] = "canceled"]
  /\ UNCHANGED <<due, out, sentId, notices, lock, runVars, faults>>

(* cancelar: one UPDATE guarded by the owner and by status = 'pending'.  When it
   finds no row the caller is told there is nothing to cancel. *)
CancelarPendiente(i) ==
  /\ status[i] = "pending"
  /\ status' = [status EXCEPT ![i] = "cancelled"]
  /\ UNCHANGED <<due, out, sentId, notices, lock, runVars, faults>>

CancelarProgramado(r) == r \in Rows /\ CancelarPendiente(r)

CancelarRecordatorio(m) == m \in Reminders /\ CancelarPendiente(m)

(* The item's time comes. *)
Vence(i) ==
  /\ status[i] = "pending"
  /\ i \notin due
  /\ due' = due \cup {i}
  /\ UNCHANGED <<status, out, sentId, notices, lock, runVars, faults>>

-----------------------------------------------------------------------------
(* A run of the job. *)

Goto(w, label) == pc' = [pc EXCEPT ![w] = label]

(* The cron callback fires on an instance and claimRun allows the run. *)
IniciarCorrida(w) ==
  /\ pc[w] = "idle"
  /\ JobLock!Claim
  /\ Goto(w, "sweep")
  /\ UNCHANGED <<rowVars, batch, cur, faults>>

ExpiraLock ==
  /\ JobLock!Expire
  /\ UNCHANGED <<rowVars, runVars, faults>>

(* The batches one sweep may take: as many due items as LIMIT allows. *)
Vencidos(S, limit) ==
  LET D == {i \in S : status[i] = "pending" /\ i \in due}
  IN  {B \in SUBSET D : \/ B = D /\ Cardinality(D) <= limit
                        \/ Cardinality(B) = limit}

(* The sweep that forgets to mark what it takes. *)
TomarSinMarcar(w, S, taken, next) ==
  /\ \E B \in Vencidos(S, Limit) : batch' = [batch EXCEPT ![w] = B]
  /\ Goto(w, next)
  /\ UNCHANGED <<status, due, out, sentId, notices, lock, cur, faults>>

(* tomarVencidos: one UPDATE ... RETURNING that marks the due items and hands
   them to the run that executed it. *)
TomarVencidos(w, S, taken, next) ==
  /\ \E B \in Vencidos(S, Limit) :
       /\ batch' = [batch EXCEPT ![w] = B]
       /\ status' = [i \in Items |-> IF i \in B THEN taken ELSE status[i]]
  /\ Goto(w, next)
  /\ UNCHANGED <<due, out, sentId, notices, lock, cur, faults>>

Sweep(w) ==
  /\ pc[w] = "sweep"
  /\ TomarVencidos(w, Rows, "sending", "loop")

(* Next row of the batch: send reads the sender's membership. *)
BeginSend(w) ==
  /\ pc[w] = "loop"
  /\ \E r \in batch[w] :
       /\ batch' = [batch EXCEPT ![w] = @ \ {r}]
       /\ cur' = [cur EXCEPT ![w] = r]
  /\ \E label \in {"fail", "asMember", "asAdmin"} : Goto(w, label)
  /\ UNCHANGED <<rowVars, lock, faults>>

(* send reads the conversation and applies "only admins write" to the role it
   read before. *)
CheckReadOnly(w) ==
  /\ pc[w] \in {"asMember", "asAdmin"}
  /\ \E isReadOnly \in BOOLEAN :
       Goto(w, IF isReadOnly /\ pc[w] = "asMember" THEN "fail" ELSE "insert")
  /\ UNCHANGED <<rowVars, lock, batch, cur, faults>>

(* send stores the message, reads it back and emits message:new. *)
InsertMessage(w) ==
  /\ pc[w] = "insert"
  /\ out' = [out EXCEPT ![cur[w]] = @ + 1]
  /\ Goto(w, "mark")
  /\ UNCHANGED <<status, due, sentId, notices, lock, batch, cur, faults>>

(* marcarEnviado that does not store sent_message_id. *)
MarcarSinId(w) ==
  /\ pc[w] = "mark"
  /\ status' = [status EXCEPT ![cur[w]] = "sent"]
  /\ notices' = [notices EXCEPT ![cur[w]] = @ \cup {"sent"}]
  /\ cur' = [cur EXCEPT ![w] = Nothing]
  /\ Goto(w, "loop")
  /\ UNCHANGED <<due, out, sentId, lock, batch, faults>>

(* marcarEnviado, by id alone, and the scheduled:sent event. *)
MarcarEnviado(w) ==
  /\ pc[w] = "mark"
  /\ status' = [status EXCEPT ![cur[w]] = "sent"]
  /\ sentId' = sentId \cup {cur[w]}
  /\ notices' = [notices EXCEPT ![cur[w]] = @ \cup {"sent"}]
  /\ cur' = [cur EXCEPT ![w] = Nothing]
  /\ Goto(w, "loop")
  /\ UNCHANGED <<due, out, lock, batch, faults>>

(* marcarFallido from the catch, by id alone, and the scheduled:failed event. *)
MarcarFallido(w) ==
  /\ pc[w] = "fail"
  /\ status' = [status EXCEPT ![cur[w]] = "failed"]
  /\ notices' = [notices EXCEPT ![cur[w]] = @ \cup {"failed"}]
  /\ cur' = [cur EXCEPT ![w] = Nothing]
  /\ Goto(w, "loop")
  /\ UNCHANGED <<due, out, sentId, lock, batch, faults>>

SweepReminders(w) ==
  /\ pc[w] = "loop"
  /\ batch[w] = {}
  /\ TomarVencidos(w, Reminders, "done", "reminders")

BeginReminder(w) ==
  /\ pc[w] = "reminders"
  /\ \E m \in batch[w] :
       /\ batch' = [batch EXCEPT ![w] = @ \ {m}]
       /\ cur' = [cur EXCEPT ![w] = m]
  /\ Goto(w, "announce")
  /\ UNCHANGED <<rowVars, lock, faults>>

(* The in-app notification, unless shouldNotifyInApp says no, and in any case
   the notification:new event. *)
Announce(w) ==
  /\ pc[w] = "announce"
  /\ out' = [out EXCEPT ![cur[w]] = @ + 1]
  /\ cur' = [cur EXCEPT ![w] = Nothing]
  /\ Goto(w, "reminders")
  /\ UNCHANGED <<status, due, sentId, notices, lock, batch, faults>>

EndRun(w) ==
  /\ pc[w] = "reminders"
  /\ batch[w] = {}
  /\ Goto(w, "idle")
  /\ UNCHANGED <<rowVars, lock, batch, cur, faults>>

Step(w) ==
  \/ Sweep(w) \/ BeginSend(w) \/ CheckReadOnly(w) \/ InsertMessage(w)
  \/ MarcarEnviado(w) \/ MarcarFallido(w)
  \/ SweepReminders(w) \/ BeginReminder(w) \/ Announce(w) \/ EndRun(w)

-----------------------------------------------------------------------------
(* Faults.  A statement fails, and it may have been applied all the same. *)

Fault ==
  /\ faults < MaxFaults
  /\ faults' = faults + 1

(* The run ends where it stands: what it held stays as the database has it. *)
Abandon(W) ==
  /\ pc' = [w \in Runs |-> IF w \in W THEN "idle" ELSE pc[w]]
  /\ batch' = [w \in Runs |-> IF w \in W THEN {} ELSE batch[w]]
  /\ cur' = [w \in Runs |-> IF w \in W THEN Nothing ELSE cur[w]]

ClaimReplyLost ==
  /\ Fault
  /\ JobLock!ClaimReplyLost
  /\ UNCHANGED <<rowVars, runVars>>

(* tomarVencidos throws: the run ends, and the rows it marked, if it did, are in
   nobody's hands. *)
SweepFails(w) ==
  /\ Fault
  /\ \/ /\ pc[w] = "sweep"
        /\ \E B \in Vencidos(Rows, Limit) \cup {{}} :
             status' = [i \in Items |-> IF i \in B THEN "sending" ELSE status[i]]
     \/ /\ pc[w] = "loop"
        /\ batch[w] = {}
        /\ \E B \in Vencidos(Reminders, Limit) \cup {{}} :
             status' = [i \in Items |-> IF i \in B THEN "done" ELSE status[i]]
  /\ Abandon({w})
  /\ UNCHANGED <<due, out, sentId, notices, lock>>

(* The membership read of the next row throws. *)
BeginSendFails(w) ==
  /\ Fault
  /\ pc[w] = "loop"
  /\ \E r \in batch[w] :
       /\ batch' = [batch EXCEPT ![w] = @ \ {r}]
       /\ cur' = [cur EXCEPT ![w] = r]
  /\ Goto(w, "fail")
  /\ UNCHANGED <<rowVars, lock>>

(* Any await of send throws: a check, the insert (applied or not) or the reads that
   follow it. *)
SendFails(w) ==
  /\ Fault
  /\ pc[w] \in {"asMember", "asAdmin", "insert"}
  /\ \/ UNCHANGED out
     \/ pc[w] = "insert" /\ out' = [out EXCEPT ![cur[w]] = @ + 1]
  /\ Goto(w, "fail")
  /\ UNCHANGED <<status, due, sentId, notices, lock, batch, cur>>

(* scheduled:sent emitted before the row is marked. *)
AvisarAntes(w) ==
  /\ Fault
  /\ pc[w] = "mark"
  /\ notices' = [notices EXCEPT ![cur[w]] = @ \cup {"sent"}]
  /\ Goto(w, "fail")
  /\ UNCHANGED <<status, due, out, sentId, lock, batch, cur>>

(* marcarEnviado throws, applied or not: the catch takes over. *)
MarcarEnviadoFails(w) ==
  /\ Fault
  /\ pc[w] = "mark"
  /\ \/ UNCHANGED <<status, sentId>>
     \/ /\ status' = [status EXCEPT ![cur[w]] = "sent"]
        /\ sentId' = sentId \cup {cur[w]}
  /\ Goto(w, "fail")
  /\ UNCHANGED <<due, out, notices, lock, batch, cur>>

(* marcarFallido throws inside the catch: the loop and the run end, reminders
   included. *)
MarcarFallidoFails(w) ==
  /\ Fault
  /\ pc[w] = "fail"
  /\ \/ UNCHANGED status
     \/ status' = [status EXCEPT ![cur[w]] = "failed"]
  /\ Abandon({w})
  /\ UNCHANGED <<due, out, sentId, notices, lock>>

(* The preferences or the notification fail: the error is logged and the next
   reminder follows. *)
AnnounceFails(w) ==
  /\ Fault
  /\ pc[w] = "announce"
  /\ cur' = [cur EXCEPT ![w] = Nothing]
  /\ Goto(w, "reminders")
  /\ UNCHANGED <<rowVars, lock, batch>>

(* An instance dies, or shuts down without waiting for its runs.  Until it is
   started again it fires no tick, as any instance may for a while. *)
Crash(i) ==
  /\ Fault
  /\ \E w \in Runs : HostOf[w] = i /\ pc[w] # "idle"
  /\ Abandon({w \in Runs : HostOf[w] = i})
  /\ UNCHANGED <<rowVars, lock>>

FaultStep(w) ==
  \/ SweepFails(w) \/ BeginSendFails(w) \/ SendFails(w)
  \/ MarcarEnviadoFails(w) \/ MarcarFallidoFails(w) \/ AnnounceFails(w)

-----------------------------------------------------------------------------
Next ==
  \/ \E r \in Rows : Programar(r) \/ CancelarProgramado(r)
  \/ \E m \in Reminders : Recordar(m) \/ CancelarRecordatorio(m)
  \/ \E i \in Items : Vence(i)
  \/ \E w \in Runs : IniciarCorrida(w) \/ Step(w) \/ FaultStep(w)
  \/ ExpiraLock
  \/ ClaimReplyLost
  \/ \E i \in Instances : Crash(i)

(* Cron keeps firing on some instance, the lock's TTL runs out, and a run that is
   not interrupted goes on. *)
Fairness ==
  /\ \A w \in Runs : WF_vars(Step(w))
  /\ WF_vars(\E w \in Runs : IniciarCorrida(w))
  /\ WF_vars(ExpiraLock)

Spec == Init /\ [][Next]_vars /\ Fairness

-----------------------------------------------------------------------------
(* What must hold. *)

(* The items run w is still to deal with. *)
Holding(w) == batch[w] \cup ({cur[w]} \ {Nothing})

(* Two instances, or two runs that overlap, never have the same row in hand:
   the UPDATE of tomarVencidos gives each row to one of them. *)
OneOwner ==
  \A w1, w2 \in Runs : w1 # w2 => Holding(w1) \cap Holding(w2) = {}

(* A scheduled message is posted at most once and a reminder rings at most once,
   whatever runs overlap, crash or fail; one that was cancelled never went out
   and never will, and only a row whose message exists is marked sent. *)
AtMostOnce ==
  \A i \in Items :
    /\ out[i] <= 1
    /\ status[i] = "cancelled" => out[i] = 0
    /\ status[i] \in {"none", "pending"} => out[i] = 0
    /\ status[i] = "sent" => out[i] = 1 /\ i \in sentId

(* The sender never gets contradictory news: what was announced is what the row
   says, and at most one outcome is announced. *)
NoticeMatchesRow ==
  \A r \in Rows :
    notices[r] # {} => notices[r] = {status[r]}

(* An outcome the sender was told of, a cancellation and a failure are final:
   marcarEnviado and marcarFallido write by id, without looking at the status. *)
OutcomeIsFinal ==
  [][\A r \in Rows :
       (notices[r] # {} \/ status[r] \in {"cancelled", "failed"})
         => status'[r] = status[r]]_vars

(* Whatever was left for later is settled once its time comes, unless a crash or
   a failed statement intervened. *)
DueIsSettled ==
  \A i \in Items :
    i \in due ~> \/ status[i] \in {"sent", "failed", "cancelled"}
                 \/ i \in Reminders /\ out[i] = 1
                 \/ faults > 0

(* Each row and reminder lives by the promise of TimedDelivery. *)
StageOf(s) ==
  CASE s = "none"               -> "absent"
    [] s = "pending"            -> "waiting"
    [] s = "cancelled"          -> "withdrawn"
    [] s \in {"sending", "done"} -> "taken"
    [] s = "sent"               -> "delivered"
    [] s = "failed"             -> "failed"

Stage == [i \in Items |-> StageOf(status[i])]

Promise == INSTANCE TimedDelivery WITH stage <- Stage

KeepsPromise == Promise!Spec
============================================================================
