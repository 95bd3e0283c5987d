----------------------- MODULE ScheduledMessages_proofs -----------------------
(***************************************************************************)
(* For any number of rows, reminders, instances and overlapping runs: at    *)
(* most one run holds a row, nothing goes out twice, the sender's news are  *)
(* right, outcomes are final, and the job implements TimedDelivery.         *)
(***************************************************************************)
EXTENDS ScheduledMessages, TLAPS

(* What run w may rely on about the items it holds. *)
RunInv(w) ==
  /\ cur[w] = Nothing <=> pc[w] \in {"idle", "sweep", "loop", "reminders"}
  /\ pc[w] \in {"idle", "sweep"} => batch[w] = {}
  /\ cur[w] \notin batch[w]
  /\ pc[w] \in {"loop"} \cup SendPcs => Holding(w) \subseteq Rows
  /\ pc[w] \in {"reminders", "announce"} => Holding(w) \subseteq Reminders
  /\ \A i \in batch[w] :
       out[i] = 0 /\ status[i] = IF i \in Rows THEN "sending" ELSE "done"
  /\ \A r \in Holding(w) \cap Rows : notices[r] = {}
  /\ pc[w] \in {"asMember", "asAdmin", "insert"} =>
       status[cur[w]] = "sending" /\ out[cur[w]] = 0
  /\ pc[w] = "mark" => status[cur[w]] = "sending" /\ out[cur[w]] = 1
  /\ pc[w] = "fail" => status[cur[w]] \in {"sending", "sent"} /\ out[cur[w]] <= 1
  /\ pc[w] = "announce" => status[cur[w]] = "done" /\ out[cur[w]] = 0

RunsInv == \A w \in Runs : RunInv(w)

(* The inductive invariant. *)
IInv == TypeOK /\ OneOwner /\ RunsInv /\ AtMostOnce /\ NoticeMatchesRow

-----------------------------------------------------------------------------
(* A sweep takes waiting items of the table it reads. *)
LEMMA SweptArePending ==
  ASSUME NEW S \in SUBSET Items, NEW B \in Vencidos(S, Limit)
  PROVE  B \subseteq S /\ \A i \in B : status[i] = "pending" /\ i \in due
BY DEF Vencidos

LEMMA InitIInv == Init => IInv
<1> SUFFICES ASSUME Init PROVE IInv
  OBVIOUS
<1> USE ScheduledAssumption DEF Init, Items
<1>1. TypeOK
  <2>1. lock \in BOOLEAN
    BY Zenon DEF JobLock!LockInit
  <2>2. faults \in 0 .. MaxFaults
    BY SMT
  <2>3. "none" \in Statuses /\ "idle" \in Pcs
    BY DEF Statuses, Pcs
  <2>4. cur \in [Runs -> (Rows \cup Reminders) \cup {Nothing}]
    OBVIOUS
  <2> QED BY <2>1, <2>2, <2>3, <2>4 DEF TypeOK
<1>2. OneOwner
  BY DEF OneOwner, Holding
<1>3. RunsInv
  BY DEF RunsInv, RunInv, Holding, SendPcs
<1>4. AtMostOnce /\ NoticeMatchesRow
  BY DEF AtMostOnce, NoticeMatchesRow
<1> QED BY <1>1, <1>2, <1>3, <1>4 DEF IInv

(* Programar, the cancels and the clock touch only items that no run holds. *)
LEMMA UserStepIInv ==
  ASSUME IInv,
         \/ \E r \in Rows : Programar(r) \/ CancelarProgramado(r)
         \/ \E m \in Reminders : Recordar(m) \/ CancelarRecordatorio(m)
         \/ \E i \in Items : Vence(i)
  PROVE  IInv'
<1> USE ScheduledAssumption DEF rowVars, runVars, Items
<1>1. ASSUME NEW i \in Items,
             \/ status[i] = "none" /\ status' = [status EXCEPT ![i] = "pending"]
             \/ status[i] = "pending" /\ status' = [status EXCEPT ![i] = "cancelled"],
             UNCHANGED <<due, out, sentId, notices, lock, runVars, faults>>
      PROVE  IInv'
  <2>1. \A w \in Runs : i \notin Holding(w)
    BY <1>1 DEF IInv, RunsInv, RunInv, Holding, TypeOK, Pcs, SendPcs
  <2>2. TypeOK'
    BY <1>1 DEF IInv, TypeOK, Statuses
  <2>3. OneOwner'
    BY <1>1 DEF IInv, OneOwner, Holding
  <2>4. RunsInv'
    BY <1>1, <2>1 DEF IInv, RunsInv, RunInv, Holding, TypeOK, Pcs, SendPcs
  <2>5. (AtMostOnce /\ NoticeMatchesRow)'
    BY <1>1 DEF IInv, AtMostOnce, NoticeMatchesRow, TypeOK
  <2> QED BY <2>2, <2>3, <2>4, <2>5 DEF IInv
<1>2. ASSUME NEW i \in Items, Vence(i)
      PROVE  IInv'
  BY <1>2 DEF Vence, IInv, TypeOK, OneOwner, RunsInv, RunInv, AtMostOnce,
              NoticeMatchesRow, Holding
<1> QED
  BY <1>1, <1>2 DEF Programar, Recordar, CancelarProgramado, CancelarRecordatorio,
                    CancelarPendiente

(* A step that leaves alone what a run has in hand, and where it stands, keeps
   what that run relies on. *)
LEMMA Undisturbed ==
  ASSUME TypeOK, NEW v \in Runs, RunInv(v),
         pc'[v] = pc[v], batch'[v] = batch[v], cur'[v] = cur[v],
         \A i \in Holding(v) : status'[i] = status[i] /\ out'[i] = out[i],
         \A r \in Holding(v) \cap Rows : notices'[r] = notices[r]
  PROVE  RunInv(v)'
<1>1. Holding(v)' = Holding(v)
  BY DEF Holding
<1>2. \A i \in batch[v] : i \in Holding(v)
  BY DEF Holding
<1>3. pc[v] \in SendPcs \cup {"announce"} => cur[v] \in Holding(v)
  BY DEF RunInv, Holding, SendPcs
<1> QED
  BY <1>1, <1>2, <1>3, ScheduledAssumption DEF RunInv, SendPcs

(* A run's step on the item it has in hand. *)
LEMMA HeldItemStep ==
  ASSUME IInv, NEW w \in Runs, cur[w] # Nothing,
         TypeOK', RunInv(w)',
         cur'[w] \in {cur[w], Nothing}, batch'[w] \subseteq batch[w],
         \A v \in Runs \ {w} :
            pc'[v] = pc[v] /\ batch'[v] = batch[v] /\ cur'[v] = cur[v],
         \A i \in Items \ {cur[w]} : status'[i] = status[i] /\ out'[i] = out[i],
         \A r \in Rows \ {cur[w]} : notices'[r] = notices[r]
  PROVE  OneOwner' /\ RunsInv'
<1>1. cur[w] \in Holding(w) /\ \A v \in Runs : Holding(v) \subseteq Items
  BY DEF Holding, IInv, TypeOK, Items
<1>2. Holding(w)' \subseteq Holding(w) /\ \A v \in Runs \ {w} : Holding(v)' = Holding(v)
  BY DEF Holding
<1>3. OneOwner'
  BY <1>2 DEF IInv, OneOwner
<1>4. ASSUME NEW v \in Runs \ {w} PROVE RunInv(v)'
  <2>1. cur[w] \notin Holding(v)
    BY <1>1 DEF IInv, OneOwner
  <2> QED
    BY <1>1, <2>1, Undisturbed DEF IInv, RunsInv, Items
<1> QED
  BY <1>3, <1>4 DEF RunsInv

(* The steps of send, of the two marks and of a reminder keep the invariant. *)
LEMMA HeldItemStepIInv ==
  ASSUME IInv, NEW w \in Runs,
         \/ CheckReadOnly(w) \/ InsertMessage(w) \/ MarcarEnviado(w)
         \/ MarcarFallido(w) \/ Announce(w)
         \/ SendFails(w) \/ MarcarEnviadoFails(w) \/ MarcarFallidoFails(w)
         \/ AnnounceFails(w)
  PROVE  IInv'
<1> USE ScheduledAssumption DEF rowVars, runVars, Items, Goto, Fault, IInv, RunsInv
<1>1. RunInv(w) /\ cur[w] # Nothing /\ cur[w] \in Items
  BY DEF TypeOK, RunInv, CheckReadOnly, InsertMessage, MarcarEnviado, MarcarFallido,
         Announce, SendFails, MarcarEnviadoFails, MarcarFallidoFails, AnnounceFails
<1>2. CASE CheckReadOnly(w)
  <2>1. TypeOK'
    BY <1>2 DEF CheckReadOnly, TypeOK, Pcs, SendPcs
  <2>2. RunInv(w)'
    BY <1>1, <1>2 DEF CheckReadOnly, TypeOK, RunInv, Holding, SendPcs
  <2>3. (AtMostOnce /\ NoticeMatchesRow)'
    BY <1>2 DEF CheckReadOnly, AtMostOnce, NoticeMatchesRow
  <2>4. OneOwner' /\ RunsInv'
    BY <1>1, <1>2, <2>1, <2>2, HeldItemStep DEF CheckReadOnly, TypeOK
  <2> QED BY <2>1, <2>3, <2>4
<1>3. CASE InsertMessage(w)
  <2>1. TypeOK'
    BY <1>1, <1>3 DEF InsertMessage, TypeOK, Pcs, SendPcs
  <2>2. RunInv(w)'
    BY <1>1, <1>3 DEF InsertMessage, TypeOK, RunInv, Holding, SendPcs
  <2>3. (AtMostOnce /\ NoticeMatchesRow)'
    BY <1>1, <1>3 DEF InsertMessage, TypeOK, AtMostOnce, NoticeMatchesRow, RunInv
  <2>4. OneOwner' /\ RunsInv'
    BY <1>1, <1>3, <2>1, <2>2, HeldItemStep DEF InsertMessage, TypeOK
  <2> QED BY <2>1, <2>3, <2>4
<1>4. CASE MarcarEnviado(w)
  <2>0. cur[w] \in Rows
    BY <1>1, <1>4 DEF MarcarEnviado, RunInv, Holding, SendPcs
  <2>1. TypeOK'
    BY <1>1, <1>4, <2>0 DEF MarcarEnviado, TypeOK, Statuses, Pcs, SendPcs
  <2>2. RunInv(w)'
    BY <1>1, <1>4, <2>0 DEF MarcarEnviado, TypeOK, RunInv, Holding, SendPcs
  <2>3. (AtMostOnce /\ NoticeMatchesRow)'
    BY <1>1, <1>4, <2>0 DEF MarcarEnviado, TypeOK, AtMostOnce, NoticeMatchesRow, RunInv, Holding
  <2>4. OneOwner' /\ RunsInv'
    BY <1>1, <1>4, <2>1, <2>2, HeldItemStep DEF MarcarEnviado, TypeOK
  <2> QED BY <2>1, <2>3, <2>4
<1>5. CASE MarcarFallido(w)
  <2>0. cur[w] \in Rows
    BY <1>1, <1>5 DEF MarcarFallido, RunInv, Holding, SendPcs
  <2>1. TypeOK'
    BY <1>1, <1>5, <2>0 DEF MarcarFallido, TypeOK, Statuses, Pcs, SendPcs
  <2>2. RunInv(w)'
    BY <1>1, <1>5, <2>0 DEF MarcarFallido, TypeOK, RunInv, Holding, SendPcs
  <2>3. (AtMostOnce /\ NoticeMatchesRow)'
    BY <1>1, <1>5, <2>0 DEF MarcarFallido, TypeOK, AtMostOnce, NoticeMatchesRow, RunInv, Holding
  <2>4. OneOwner' /\ RunsInv'
    BY <1>1, <1>5, <2>1, <2>2, HeldItemStep DEF MarcarFallido, TypeOK
  <2> QED BY <2>1, <2>3, <2>4
<1>6. CASE Announce(w) \/ AnnounceFails(w)
  <2>1. TypeOK'
    BY <1>1, <1>6 DEF Announce, AnnounceFails, TypeOK, Pcs, SendPcs
  <2>2. RunInv(w)'
    BY <1>1, <1>6 DEF Announce, AnnounceFails, TypeOK, RunInv, Holding, SendPcs
  <2>3. (AtMostOnce /\ NoticeMatchesRow)'
    BY <1>1, <1>6 DEF Announce, AnnounceFails, TypeOK, AtMostOnce, NoticeMatchesRow, RunInv
  <2>4. OneOwner' /\ RunsInv'
    BY <1>1, <1>6, <2>1, <2>2, HeldItemStep DEF Announce, AnnounceFails, TypeOK
  <2> QED BY <2>1, <2>3, <2>4
<1>7. CASE SendFails(w)
  <2>1. TypeOK'
    BY <1>1, <1>7 DEF SendFails, TypeOK, Pcs, SendPcs
  <2>2. RunInv(w)'
    BY <1>1, <1>7 DEF SendFails, TypeOK, RunInv, Holding, SendPcs
  <2>3. (AtMostOnce /\ NoticeMatchesRow)'
    BY <1>1, <1>7 DEF SendFails, TypeOK, AtMostOnce, NoticeMatchesRow, RunInv
  <2>4. OneOwner' /\ RunsInv'
    BY <1>1, <1>7, <2>1, <2>2, HeldItemStep DEF SendFails, TypeOK
  <2> QED BY <2>1, <2>3, <2>4
<1>8. CASE MarcarEnviadoFails(w)
  <2>0. cur[w] \in Rows
    BY <1>1, <1>8 DEF MarcarEnviadoFails, RunInv, Holding, SendPcs
  <2>1. TypeOK'
    BY <1>1, <1>8, <2>0 DEF MarcarEnviadoFails, TypeOK, Statuses, Pcs, SendPcs
  <2>2. RunInv(w)'
    BY <1>1, <1>8, <2>0 DEF MarcarEnviadoFails, TypeOK, RunInv, Holding, SendPcs
  <2>3. (AtMostOnce /\ NoticeMatchesRow)'
    BY <1>1, <1>8, <2>0 DEF MarcarEnviadoFails, TypeOK, AtMostOnce, NoticeMatchesRow, RunInv, Holding
  <2>4. OneOwner' /\ RunsInv'
    BY <1>1, <1>8, <2>1, <2>2, HeldItemStep DEF MarcarEnviadoFails, TypeOK
  <2> QED BY <2>1, <2>3, <2>4
<1>9. CASE MarcarFallidoFails(w)
  <2>0. cur[w] \in Rows
    BY <1>1, <1>9 DEF MarcarFallidoFails, RunInv, Holding, SendPcs
  <2>1. TypeOK'
    BY <1>1, <1>9, <2>0 DEF MarcarFallidoFails, Abandon, TypeOK, Statuses, Pcs, SendPcs
  <2>2. RunInv(w)'
    BY <1>1, <1>9, <2>0 DEF MarcarFallidoFails, Abandon, TypeOK, RunInv, Holding, SendPcs
  <2>3. (AtMostOnce /\ NoticeMatchesRow)'
    BY <1>1, <1>9, <2>0 DEF MarcarFallidoFails, TypeOK, AtMostOnce, NoticeMatchesRow, RunInv, Holding
  <2>4. OneOwner' /\ RunsInv'
    BY <1>1, <1>9, <2>1, <2>2, HeldItemStep DEF MarcarFallidoFails, Abandon, TypeOK
  <2> QED BY <2>1, <2>3, <2>4
<1> QED
  BY <1>2, <1>3, <1>4, <1>5, <1>6, <1>7, <1>8, <1>9

(* A sweep hands a run items that no run holds; a run that starts, ends or dies
   takes nothing from the others. *)
LEMMA SweepIInv ==
  ASSUME IInv, NEW w \in Runs, Sweep(w) \/ SweepReminders(w) \/ SweepFails(w)
  PROVE  IInv'
<1> USE ScheduledAssumption DEF rowVars, runVars, Items, IInv, RunsInv
<1>1. PICK B \in SUBSET {i \in Items : status[i] = "pending"}, taken \in {"sending", "done"} :
        /\ status' = [i \in Items |-> IF i \in B THEN taken ELSE status[i]]
        /\ \/ pc[w] = "sweep" /\ B \subseteq Rows /\ taken = "sending"
           \/ pc[w] = "loop" /\ batch[w] = {} /\ B \subseteq Reminders /\ taken = "done"
        /\ \/ /\ batch' = [batch EXCEPT ![w] = B]
              /\ pc' = [pc EXCEPT ![w] = IF pc[w] = "sweep" THEN "loop" ELSE "reminders"]
              /\ UNCHANGED <<cur, faults>>
           \/ /\ Abandon({w})
              /\ faults' \in 0 .. MaxFaults
        /\ UNCHANGED <<due, out, sentId, notices, lock>>
  <2>1. \A S \in SUBSET Items : \A B \in Vencidos(S, Limit) \cup {{}} :
          B \in SUBSET {i \in Items : status[i] = "pending"} /\ B \subseteq S
    BY SweptArePending
  <2>2. CASE Sweep(w)
    BY <2>1, <2>2 DEF Sweep, TomarVencidos, Goto
  <2>3. CASE SweepReminders(w)
    BY <2>1, <2>3 DEF SweepReminders, TomarVencidos, Goto
  <2>4. CASE SweepFails(w)
    <3>1. faults' \in 0 .. MaxFaults
      BY <2>4 DEF SweepFails, Fault, TypeOK
    <3> QED BY <2>1, <2>4, <3>1 DEF SweepFails
  <2> QED BY <2>2, <2>3, <2>4
<1>2. \A v \in Runs : B \cap Holding(v) = {}
  BY DEF RunInv, Holding, TypeOK, Pcs, SendPcs
<1>3. Holding(w) = {}
  BY <1>1 DEF RunInv, Holding
<1>4. TypeOK'
  BY <1>1 DEF Abandon, TypeOK, Statuses, Pcs
<1>5. Holding(w)' \subseteq B /\ \A v \in Runs \ {w} : Holding(v)' = Holding(v)
  BY <1>1, <1>3 DEF Abandon, Holding, TypeOK
<1>6. OneOwner'
  BY <1>2, <1>5 DEF OneOwner
<1>7. RunInv(w)'
  BY <1>1 DEF Abandon, TypeOK, RunInv, Holding, AtMostOnce, NoticeMatchesRow, SendPcs
<1>8. ASSUME NEW v \in Runs \ {w} PROVE RunInv(v)'
  <2>1. /\ pc'[v] = pc[v] /\ batch'[v] = batch[v] /\ cur'[v] = cur[v]
        /\ \A i \in Holding(v) : status'[i] = status[i] /\ out'[i] = out[i]
    BY <1>1, <1>2 DEF Abandon, TypeOK, Holding
  <2> QED BY <1>1, <2>1, Undisturbed
<1>9. (AtMostOnce /\ NoticeMatchesRow)'
  BY <1>1 DEF AtMostOnce, NoticeMatchesRow, TypeOK
<1> QED BY <1>4, <1>6, <1>7, <1>8, <1>9

(* So do the steps that start, advance, end or kill a run. *)
LEMMA RunControlIInv ==
  ASSUME IInv,
         \/ \E w \in Runs : \/ IniciarCorrida(w) \/ BeginSend(w) \/ BeginSendFails(w)
                            \/ BeginReminder(w) \/ EndRun(w)
         \/ ExpiraLock \/ ClaimReplyLost
         \/ \E i \in Instances : Crash(i)
  PROVE  IInv'
<1> USE ScheduledAssumption DEF rowVars, runVars, Items, IInv, RunsInv
<1>1. (AtMostOnce /\ NoticeMatchesRow)'
  BY DEF IniciarCorrida, BeginSend, BeginSendFails, BeginReminder, EndRun, ExpiraLock,
         ClaimReplyLost, Crash, AtMostOnce, NoticeMatchesRow
<1>2. CASE ExpiraLock \/ ClaimReplyLost
  <2>1. lock' \in BOOLEAN
    BY <1>2, Zenon DEF ExpiraLock, ClaimReplyLost, JobLock!Expire, JobLock!ClaimReplyLost
  <2>2. TypeOK'
    BY <1>2, <2>1 DEF ExpiraLock, ClaimReplyLost, Fault, TypeOK
  <2>3. OneOwner' /\ RunsInv'
    BY <1>2 DEF ExpiraLock, ClaimReplyLost, OneOwner, RunInv, Holding
  <2> QED BY <1>1, <2>2, <2>3
<1>3. ASSUME NEW w \in Runs, IniciarCorrida(w) PROVE IInv'
  <2>1. lock' \in BOOLEAN
    BY <1>3, Zenon DEF IniciarCorrida, JobLock!Claim, TypeOK
  <2>2. TypeOK'
    BY <1>3, <2>1 DEF IniciarCorrida, Goto, TypeOK, Pcs
  <2>3. OneOwner' /\ RunsInv'
    BY <1>3 DEF IniciarCorrida, Goto, TypeOK, OneOwner, RunInv, Holding, SendPcs
  <2> QED BY <1>1, <2>2, <2>3
<1>4. ASSUME NEW w \in Runs, BeginSend(w) \/ BeginSendFails(w) \/ BeginReminder(w)
      PROVE  IInv'
  <2>1. TypeOK'
    BY <1>4 DEF BeginSend, BeginSendFails, BeginReminder, Goto, Fault, TypeOK, Pcs, SendPcs
  <2>2. PICK i \in batch[w] : /\ batch' = [batch EXCEPT ![w] = @ \ {i}]
                              /\ cur' = [cur EXCEPT ![w] = i]
    BY <1>4 DEF BeginSend, BeginSendFails, BeginReminder
  <2>3. \A v \in Runs : Holding(v)' = Holding(v)
    BY <1>4, <2>2 DEF BeginSend, BeginSendFails, BeginReminder, TypeOK, RunInv, Holding
  <2>4. OneOwner'
    BY <2>3 DEF OneOwner
  <2>5. RunInv(w)'
    <3>1. CASE BeginSend(w) \/ BeginSendFails(w)
      BY <2>2, <3>1 DEF BeginSend, BeginSendFails, Goto, TypeOK, RunInv, Holding, SendPcs
    <3>2. CASE BeginReminder(w)
      BY <2>2, <3>2 DEF BeginReminder, Goto, TypeOK, RunInv, Holding, SendPcs
    <3> QED BY <1>4, <3>1, <3>2
  <2>6. ASSUME NEW v \in Runs \ {w} PROVE RunInv(v)'
    BY <1>4, <2>2, Undisturbed
       DEF BeginSend, BeginSendFails, BeginReminder, Goto, TypeOK
  <2> QED BY <1>1, <2>1, <2>4, <2>5, <2>6
<1>5. ASSUME NEW W \in SUBSET Runs, Abandon(W), faults' \in 0 .. MaxFaults,
             UNCHANGED <<rowVars, lock>>
      PROVE  IInv'
  <2>1. TypeOK'
    BY <1>5 DEF Abandon, TypeOK, Pcs
  <2>2. OneOwner' /\ RunsInv'
    BY <1>5 DEF Abandon, TypeOK, OneOwner, RunInv, Holding, SendPcs
  <2>3. (AtMostOnce /\ NoticeMatchesRow)'
    BY <1>5 DEF AtMostOnce, NoticeMatchesRow
  <2> QED BY <2>1, <2>2, <2>3
<1>6. ASSUME NEW w \in Runs, EndRun(w) PROVE IInv'
  <2>1. TypeOK'
    BY <1>6 DEF EndRun, Goto, TypeOK, Pcs
  <2>2. OneOwner' /\ RunsInv'
    BY <1>6 DEF EndRun, Goto, TypeOK, OneOwner, RunInv, Holding, SendPcs
  <2> QED BY <1>1, <2>1, <2>2
<1>7. ASSUME NEW i \in Instances, Crash(i) PROVE IInv'
  <2>1. faults' \in 0 .. MaxFaults
    BY <1>7 DEF Crash, Fault, TypeOK
  <2> QED BY <1>5, <1>7, <2>1 DEF Crash
<1> QED BY <1>2, <1>3, <1>4, <1>6, <1>7

-----------------------------------------------------------------------------
LEMMA NextIInv == IInv /\ [Next]_vars => IInv'
<1> SUFFICES ASSUME IInv, [Next]_vars PROVE IInv'
  OBVIOUS
<1>1. CASE UNCHANGED vars
  BY <1>1 DEF vars, rowVars, runVars, IInv, TypeOK, OneOwner, RunsInv, RunInv, Holding,
              AtMostOnce, NoticeMatchesRow
<1>2. CASE Next
  BY <1>2, UserStepIInv, HeldItemStepIInv, SweepIInv, RunControlIInv
     DEF Next, Step, FaultStep
<1> QED BY <1>1, <1>2

LEMMA Invariance == Spec => []IInv
BY InitIInv, NextIInv, PTL DEF Spec

-----------------------------------------------------------------------------
(* Every variable keeps its type. *)
THEOREM TypeCorrect == Spec => []TypeOK
BY Invariance, PTL DEF IInv

(* No two runs, of one instance or of several, ever hold the same row. *)
THEOREM Exclusive == Spec => []OneOwner
BY Invariance, PTL DEF IInv

(* No interleaving of sweeps, cancels, crashes and failed statements posts a
   message twice, posts a cancelled one, or marks as sent a row that was not. *)
THEOREM NeverTwice == Spec => []AtMostOnce
BY Invariance, PTL DEF IInv

(* What the sender was told is what the row says. *)
THEOREM TruthfulNews == Spec => []NoticeMatchesRow
BY Invariance, PTL DEF IInv

-----------------------------------------------------------------------------
(* The status of a row changes only in these ways, and its messages with it. *)
LEMMA StatusSteps ==
  ASSUME IInv, Next
  PROVE  \/ UNCHANGED <<status, out>>
         \/ /\ UNCHANGED out
            /\ \E i \in Items :
                 \/ status[i] = "none" /\ status' = [status EXCEPT ![i] = "pending"]
                 \/ status[i] = "pending" /\ status' = [status EXCEPT ![i] = "cancelled"]
                 \/ /\ status[i] = "sending" /\ out[i] = 1 /\ notices[i] = {} /\ i \in Rows
                    /\ status' = [status EXCEPT ![i] = "sent"]
                 \/ /\ status[i] \in {"sending", "sent"} /\ notices[i] = {} /\ i \in Rows
                    /\ status' = [status EXCEPT ![i] = "failed"]
         \/ /\ UNCHANGED out
            /\ \E B \in SUBSET Items, taken \in {"sending", "done"} :
                 /\ \A i \in B : status[i] = "pending"
                 /\ status' = [i \in Items |-> IF i \in B THEN taken ELSE status[i]]
         \/ /\ UNCHANGED status
            /\ \E i \in Items : /\ status[i] \in {"sending", "done"} /\ out[i] = 0
                                /\ out' = [out EXCEPT ![i] = 1]
<1> USE ScheduledAssumption DEF Items, IInv, RunsInv, rowVars
<1>1. ASSUME NEW w \in Runs, Sweep(w) \/ SweepReminders(w) \/ SweepFails(w)
      PROVE  /\ UNCHANGED out
             /\ \E B \in SUBSET Items, taken \in {"sending", "done"} :
                  /\ \A i \in B : status[i] = "pending"
                  /\ status' = [i \in Items |-> IF i \in B THEN taken ELSE status[i]]
  <2>1. \A S \in SUBSET Items : \A B \in Vencidos(S, Limit) \cup {{}} :
          B \in SUBSET Items /\ \A i \in B : status[i] = "pending"
    BY SweptArePending
  <2> QED
    <3>1. CASE Sweep(w) \/ SweepReminders(w)
      <4>1. PICK S \in SUBSET Items, taken \in {"sending", "done"} :
              \E B \in Vencidos(S, Limit) :
                status' = [i \in Items |-> IF i \in B THEN taken ELSE status[i]]
        <5>1. CASE Sweep(w)
          BY <5>1 DEF Sweep, TomarVencidos
        <5>2. CASE SweepReminders(w)
          BY <5>2 DEF SweepReminders, TomarVencidos
        <5> QED BY <3>1, <5>1, <5>2
      <4>2. PICK B \in Vencidos(S, Limit) :
              status' = [i \in Items |-> IF i \in B THEN taken ELSE status[i]]
        BY <4>1
      <4>3. B \in SUBSET Items /\ \A i \in B : status[i] = "pending"
        BY <2>1
      <4>4. UNCHANGED out
        BY <3>1 DEF Sweep, SweepReminders, TomarVencidos
      <4> QED BY <4>2, <4>3, <4>4
    <3>2. CASE SweepFails(w)
      <4>1. PICK B \in Vencidos(Rows, Limit) \cup Vencidos(Reminders, Limit) \cup {{}},
                 taken \in {"sending", "done"} :
              status' = [i \in Items |-> IF i \in B THEN taken ELSE status[i]]
        BY <3>2 DEF SweepFails
      <4>2. B \in SUBSET Items /\ \A i \in B : status[i] = "pending"
        BY <2>1
      <4> QED
        BY <3>2, <4>1, <4>2 DEF SweepFails
    <3> QED BY <1>1, <3>1, <3>2
<1>2. ASSUME NEW w \in Runs, Step(w) \/ FaultStep(w), UNCHANGED status
      PROVE  \/ UNCHANGED out
             \/ \E i \in Items : /\ status[i] \in {"sending", "done"} /\ out[i] = 0
                                 /\ out' = [out EXCEPT ![i] = 1]
  <2>1. CASE UNCHANGED out
    BY <2>1
  <2>2. CASE InsertMessage(w) \/ SendFails(w) \/ Announce(w)
    BY <2>2 DEF InsertMessage, SendFails, Announce, RunInv, TypeOK
  <2> QED
    BY <1>2, <2>1, <2>2
       DEF Step, FaultStep, Sweep, BeginSend, CheckReadOnly, MarcarEnviado, MarcarFallido,
           SweepReminders, BeginReminder, EndRun, TomarVencidos, SweepFails,
           BeginSendFails, MarcarEnviadoFails, MarcarFallidoFails, AnnounceFails
<1>3. ASSUME NEW w \in Runs,
             MarcarEnviado(w) \/ MarcarFallido(w) \/ MarcarEnviadoFails(w) \/ MarcarFallidoFails(w)
      PROVE  /\ UNCHANGED out
             /\ \/ UNCHANGED status
                \/ \E i \in Rows :
                     /\ notices[i] = {}
                     /\ \/ /\ status[i] = "sending" /\ out[i] = 1
                           /\ status' = [status EXCEPT ![i] = "sent"]
                        \/ /\ status[i] \in {"sending", "sent"}
                           /\ status' = [status EXCEPT ![i] = "failed"]
  BY <1>3 DEF MarcarEnviado, MarcarFallido, MarcarEnviadoFails, MarcarFallidoFails,
              RunInv, TypeOK, Holding, SendPcs
<1> QED
  BY <1>1, <1>2, <1>3
     DEF Next, Step, FaultStep, Programar, Recordar, CancelarProgramado, CancelarRecordatorio,
         CancelarPendiente, Vence, IniciarCorrida, ExpiraLock, ClaimReplyLost, Crash,
         runVars, BeginSend, CheckReadOnly, InsertMessage, BeginReminder, Announce, EndRun,
         BeginSendFails, SendFails, AnnounceFails

(* A cancellation, a failure and an outcome the sender was told of are final. *)
THEOREM FinalOutcomes == Spec => OutcomeIsFinal
<1>1. IInv /\ [Next]_vars => \A r \in Rows :
         (notices[r] # {} \/ status[r] \in {"cancelled", "failed"})
           => status'[r] = status[r]
  <2> SUFFICES ASSUME IInv, [Next]_vars, NEW r \in Rows,
                      notices[r] # {} \/ status[r] \in {"cancelled", "failed"}
               PROVE  status'[r] = status[r]
    OBVIOUS
  <2>1. CASE UNCHANGED vars
    BY <2>1 DEF vars, rowVars
  <2>2. status[r] \in {"cancelled", "failed", "sent", "sending"}
    <3>1. notices[r] # {} => status[r] \in {"sent", "failed"}
      BY DEF IInv, NoticeMatchesRow, TypeOK
    <3> QED BY <3>1
  <2>3. CASE Next
    BY <2>2, <2>3, StatusSteps DEF IInv, TypeOK, Items
  <2> QED BY <2>1, <2>3
<1> QED BY <1>1, Invariance, PTL DEF Spec, OutcomeIsFinal

(* Where each status stands in the life of an item. *)
LEMMA StageFacts ==
  /\ StageOf("none") = "absent" /\ StageOf("pending") = "waiting"
  /\ StageOf("cancelled") = "withdrawn"
  /\ StageOf("sending") = "taken" /\ StageOf("done") = "taken"
  /\ StageOf("sent") = "delivered" /\ StageOf("failed") = "failed"
BY DEF StageOf

(* The job implements the promise of TimedDelivery: every step of the system is a
   step of an item's life there, or changes nothing it can see. *)
THEOREM Implements == Spec => KeepsPromise
<1> USE StageFacts DEF Items
<1>1. Init => Promise!Init
  BY DEF Init, Promise!Init, Stage
<1>2. IInv /\ [Next]_vars => [Promise!Next]_Promise!vars
  <2> SUFFICES ASSUME IInv, [Next]_vars PROVE [Promise!Next]_Promise!vars
    OBVIOUS
  <2>1. CASE UNCHANGED <<status, out>>
    BY <2>1 DEF Promise!vars, Stage
  <2>2. ASSUME NEW i \in Items, NEW s \in Statuses,
               status' = [status EXCEPT ![i] = s], UNCHANGED out,
               \/ status[i] = "none" /\ s = "pending"
               \/ status[i] = "pending" /\ s = "cancelled"
               \/ status[i] = "sending" /\ out[i] = 1 /\ s = "sent"
               \/ status[i] \in {"sending", "sent"} /\ s = "failed"
        PROVE  Promise!Next
    <3>1. Stage' = [Stage EXCEPT ![i] = StageOf(s)]
      BY <2>2 DEF Stage, IInv, TypeOK
    <3>2. Stage[i] = StageOf(status[i])
      BY DEF Stage
    <3>3. \/ StageOf(status[i]) = "absent" /\ StageOf(s) = "waiting"
          \/ StageOf(status[i]) = "waiting" /\ StageOf(s) = "withdrawn"
          \/ StageOf(status[i]) = "taken" /\ out[i] = 1 /\ StageOf(s) = "delivered"
          \/ StageOf(status[i]) \in {"taken", "delivered"} /\ StageOf(s) = "failed"
      BY <2>2
    <3> QED
      BY <2>2, <3>1, <3>2, <3>3
         DEF Promise!Next, Promise!Leave, Promise!Withdraw, Promise!RecordDelivered,
             Promise!RecordFailed
  <2>3. ASSUME NEW B \in SUBSET Items, NEW taken \in {"sending", "done"},
               UNCHANGED out,
               \A i \in B : status[i] = "pending",
               status' = [i \in Items |-> IF i \in B THEN taken ELSE status[i]]
        PROVE  Promise!Next
    <3>1. Stage' = [i \in Items |-> IF i \in B THEN "taken" ELSE Stage[i]]
      BY <2>3 DEF Stage
    <3>2. B \in SUBSET {i \in Items : Stage[i] = "waiting"}
      BY <2>3 DEF Stage
    <3> QED
      BY <2>3, <3>1, <3>2 DEF Promise!Next, Promise!Take
  <2>4. CASE \E i \in Items : /\ UNCHANGED status
                              /\ status[i] \in {"sending", "done"} /\ out[i] = 0
                              /\ out' = [out EXCEPT ![i] = 1]
    BY <2>4 DEF Promise!Next, Promise!GoOut, Stage
  <2>5. CASE UNCHANGED vars
    BY <2>1, <2>5 DEF vars, rowVars
  <2>6. CASE Next
    BY <2>1, <2>2, <2>3, <2>4, <2>6, StatusSteps DEF Statuses
  <2> QED BY <2>5, <2>6
<1> QED BY <1>1, <1>2, Invariance, PTL DEF Spec, KeepsPromise, Promise!Spec
============================================================================
