--------------------------- MODULE Presence_proofs ---------------------------
(***************************************************************************)
(* For any number of instances, tabs, tasks, requests and mishaps: a choice   *)
(* of the person is replaced, and an 'away' of the job goes without its mark, *)
(* only where two writers crossed or after a mishap.                        *)
(***************************************************************************)
EXTENDS Presence, TLAPS

(* The person's choice stands in the row, and no mark was left on a choice. *)
Heeded == Chosen /\ ~markKept

(* What the decision of task t rests on holds as long as nobody overtook it. *)
Grounded(t) ==
  tasks[t].basis =>
    /\ tasks[t].op \in {"clear", "write"} /\ tasks[t].by \in {"heartbeat", "connection"} => ~Heeded
    /\ tasks[t].op = "mark" => ~Heeded
    /\ tasks[t].op = "write" /\ tasks[t].by = "user" => "redis" \notin marks
    /\ tasks[t].op = "rewrite" => tasks[t].want = presence
    /\ tasks[t].op = "expire" => absence = "due"

(* The mark is only there for what the person did not choose. *)
MarkIsTheJobs == "redis" \in marks => ~Heeded

(* An 'away' that nobody chose is marked, or a task is about to mark or to replace it. *)
AwayIsTended ==
  presence = "away" /\ origin # "user" =>
    "redis" \in marks \/ \E t \in Tasks : tasks[t].op \in {"mark", "write"}

(* A task in flight runs on an instance, and what it writes goes with whose it is. *)
Fits(task) ==
  /\ task.op # "idle" => task.at \in Instances
  /\ task.op = "ask" => task.by = "heartbeat" /\ task.want = "online"
  /\ task.op = "offline" => task.by = "timer" /\ task.want = "offline"
  /\ task.op = "restore" => task.by = "connection"
  /\ task.op = "rewrite" => task.by = "connection" /\ task.want \in Presences \ {"offline"}
  /\ task.op \in {"mark", "expire"} => task.by = "job"
  /\ task.op \in {"clear", "write"} =>
       \/ task.by = "user"
       \/ task.by \in {"heartbeat", "connection"} /\ task.want = "online"
       \/ task.by = "timer" /\ task.want = "offline"

InFlight == \A t \in Tasks : Fits(tasks[t])

Straight ==
  (overridden => markKept) /\ MarkIsTheJobs /\ AwayIsTended /\ \A t \in Tasks : Grounded(t)

(* The offline timer goes by who is connected as long as nobody came. *)
Trusts(task) == task.basis /\ task.by = "timer" /\ task.op \in {"clear", "write"}

NobodyCame == \A t \in Tasks : Trusts(tasks[t]) => ~Connected

(* Who is connected and 'offline' has a task that is about to look or to write. *)
Looks(task) == task.by # "timer" /\ task.op \in {"restore", "clear", "write"}

Attended ==
  Connected /\ presence = "offline" /\ origin \notin {"user", "session"} =>
    \E t \in Tasks : Looks(tasks[t])

(* The inductive invariant: its parts, and the whole. *)
Sound == TypeOK /\ InFlight
Apart == raced # {} \/ mishaps > 0 \/ Straight
Shown == "timer" \in raced \/ mishaps > 0 \/ (NobodyCame /\ Attended)

IInv == Sound /\ Apart /\ Shown

-----------------------------------------------------------------------------
(* Types. *)

TaskType == [op : Ops, at : Instances \cup {"none"}, want : Presences \cup {"absence"},
             by : Writers, basis : BOOLEAN]

LEMMA TaskTypes ==
  /\ \A op \in Ops, i \in Instances \cup {"none"}, p \in Presences \cup {"absence"},
        by \in Writers :
       Task(op, i, p, by) \in TaskType
  /\ Idle \in TaskType /\ Idle.op = "idle"
BY DEF Task, Idle, TaskType, Ops, Presences, Writers

(* A task goes on. *)
LEMMA ThenTypes ==
  ASSUME TypeOK, NEW t \in Tasks, NEW op \in Ops
  PROVE  /\ [tasks EXCEPT ![t].op = op] \in [Tasks -> TaskType]
         /\ [tasks EXCEPT ![t].op = op, ![t].want = presence] \in [Tasks -> TaskType]
         /\ [tasks EXCEPT ![t].op = op, ![t].want = "online"] \in [Tasks -> TaskType]
<1>1. tasks \in [Tasks -> TaskType] /\ presence \in Presences /\ "online" \in Presences
  BY DEF TypeOK, TaskType, Presences
<1>2. ASSUME NEW w \in Presences
      PROVE  /\ [tasks[t] EXCEPT !.op = op] \in TaskType
             /\ [tasks[t] EXCEPT !.op = op, !.want = w] \in TaskType
  BY <1>1 DEF TaskType
<1> QED BY <1>1, <1>2

(* A statement of t overtakes the others: what they had read no longer counts. *)
LEMMA OvertakeTasks ==
  ASSUME TypeOK, NEW t, NEW task \in TaskType, tasks' = Overtake(t, task)
  PROVE  /\ tasks' \in [Tasks -> TaskType]
         /\ \A u \in Tasks : u = t => tasks'[u] = task
         /\ \A u \in Tasks : u # t =>
              /\ tasks'[u].op = tasks[u].op /\ tasks'[u].want = tasks[u].want
              /\ tasks'[u].by = tasks[u].by
              /\ tasks'[u].at = tasks[u].at
              /\ tasks'[u].basis => tasks[u].basis /\ ~Holding(tasks[u])
<1>1. tasks \in [Tasks -> TaskType]
  BY DEF TypeOK, TaskType
<1>2. ASSUME NEW u \in Tasks, NEW b \in BOOLEAN
      PROVE  [tasks[u] EXCEPT !.basis = b] \in TaskType
  BY <1>1 DEF TaskType
<1>3. ASSUME NEW u \in Tasks, u # t
      PROVE  tasks'[u] = [tasks[u] EXCEPT !.basis = @ /\ ~Holding(tasks[u])]
  BY <1>3 DEF Overtake
<1>4. ASSUME NEW u \in Tasks
      PROVE  (tasks[u].basis /\ ~Holding(tasks[u])) \in BOOLEAN
  OBVIOUS
<1>5. ASSUME NEW u \in Tasks, u = t PROVE tasks'[u] = task
  BY <1>5 DEF Overtake
<1>6. ASSUME NEW u \in Tasks PROVE tasks'[u] \in TaskType
  BY <1>2, <1>3, <1>4, <1>5
<1>7. ASSUME NEW u \in Tasks, u # t
      PROVE  /\ tasks'[u].op = tasks[u].op /\ tasks'[u].want = tasks[u].want
             /\ tasks'[u].by = tasks[u].by /\ tasks'[u].at = tasks[u].at
             /\ tasks'[u].basis => tasks[u].basis /\ ~Holding(tasks[u])
  <2>1. /\ DOMAIN tasks[u] = {"op", "at", "want", "by", "basis"}
        /\ tasks'[u] = [tasks[u] EXCEPT !.basis = tasks[u].basis /\ ~Holding(tasks[u])]
    BY <1>1, <1>3, <1>7 DEF TaskType
  <2> DEFINE b == tasks[u].basis /\ ~Holding(tasks[u])
  <2>2. b => tasks[u].basis /\ ~Holding(tasks[u])
    OBVIOUS
  <2> HIDE DEF b
  <2>3. tasks'[u] = [tasks[u] EXCEPT !.basis = b]
    BY <2>1 DEF b
  <2> QED BY <2>1, <2>2, <2>3
<1> QED BY <1>5, <1>6, <1>7 DEF Overtake

(* A connection takes the ground from the timer that found nobody. *)
LEMMA ConnectTasks ==
  ASSUME TypeOK, NEW t \in Tasks, NEW s, NEW i \in Instances, Connect(t, s, i)
  PROVE  /\ tasks' \in [Tasks -> TaskType]
         /\ tasks'[t] = Task("restore", i, "online", "connection")
         /\ \A u \in Tasks \ {t} :
              /\ tasks'[u].op = tasks[u].op /\ tasks'[u].want = tasks[u].want
              /\ tasks'[u].by = tasks[u].by /\ tasks'[u].at = tasks[u].at
              /\ tasks'[u].basis =>
                   tasks[u].basis /\ ~(tasks[u].by = "timer" /\ tasks[u].op # "offline")
<1>1. tasks \in [Tasks -> TaskType]
  BY DEF TypeOK, TaskType
<1>2. Task("restore", i, "online", "connection") \in TaskType
  BY TaskTypes DEF Ops, Presences, Writers
<1>3. /\ tasks' = [u \in Tasks |->
                 IF u = t THEN Task("restore", i, "online", "connection")
                 ELSE [tasks[u] EXCEPT !.basis =
                        tasks[u].basis /\ ~(tasks[u].by = "timer" /\ tasks[u].op # "offline")]]
  BY <1>1 DEF Connect, TaskType
<1>4. ASSUME NEW u \in Tasks \ {t}
      PROVE  /\ tasks'[u].op = tasks[u].op /\ tasks'[u].want = tasks[u].want
             /\ tasks'[u].by = tasks[u].by /\ tasks'[u].at = tasks[u].at
             /\ tasks'[u] \in TaskType
             /\ tasks'[u].basis =>
                  tasks[u].basis /\ ~(tasks[u].by = "timer" /\ tasks[u].op # "offline")
  <2> DEFINE b == tasks[u].basis /\ ~(tasks[u].by = "timer" /\ tasks[u].op # "offline")
  <2>1. b \in BOOLEAN
        /\ (b => tasks[u].basis /\ ~(tasks[u].by = "timer" /\ tasks[u].op # "offline"))
    OBVIOUS
  <2>2. tasks'[u] = [tasks[u] EXCEPT !.basis = b]
    BY <1>3
  <2> HIDE DEF b
  <2> QED BY <1>1, <2>1, <2>2 DEF TaskType
<1>5. tasks'[t] = Task("restore", i, "online", "connection")
  BY <1>3
<1> QED BY <1>2, <1>3, <1>4, <1>5

LEMMA StatementTypes ==
  ASSUME TypeOK
  PROVE  /\ \A p \in Presences, by \in Writers \cup {"session"} :
              UpdatePresence(p, by) =>
                /\ presence' \in Presences /\ seen' \in {"fresh", "stale"}
                /\ absence' \in {"none", "set", "due"} /\ origin' \in Writers \cup {"session"}
         /\ SetAwayState \/ ClearAwayState =>
                /\ presence' \in Presences /\ seen' \in {"fresh", "stale"}
                /\ absence' \in {"none", "set", "due"} /\ origin' \in Writers \cup {"session"}
BY DEF TypeOK, UpdatePresence, SetAwayState, ClearAwayState, Presences, Writers

LEMMA PersonTypes ==
  ASSUME TypeOK, Person
  PROVE  TypeOK'
<1> USE PresenceAssumption DEF row, around, Request
<1> tasks \in [Tasks -> TaskType]
  BY DEF TypeOK, TaskType
<1>1. ASSUME Request PROVE requests' \in 0 .. MaxRequests
  BY <1>1 DEF TypeOK
<1>2. CASE \E t \in Tasks, i \in up, p \in Choices : SetPresence(t, i, p)
  <2>1. tasks' \in [Tasks -> TaskType]
    BY <1>2, TaskTypes DEF SetPresence, Begin, Ops, TypeOK, Writers
  <2> QED BY <1>1, <1>2, <2>1 DEF SetPresence, TypeOK, TaskType
<1>3. CASE \E t \in Tasks, i \in up : SetAway(t, i)
  <2>1. tasks' \in [Tasks -> TaskType]
    BY <1>3, TaskTypes DEF SetAway, Begin, Ops, TypeOK, Writers
  <2> QED BY <1>1, <1>3, <2>1 DEF SetAway, TypeOK, TaskType
<1>4. CASE ClearAway
  <2>1. tasks' \in [Tasks -> TaskType]
    BY <1>4, TaskTypes, OvertakeTasks DEF ClearAway
  <2> QED BY <1>1, <1>4, <2>1, StatementTypes DEF ClearAway, TypeOK, TaskType
<1>5. CASE \E p \in Choices : UpdateProfile(p)
  <2>1. tasks' \in [Tasks -> TaskType]
    BY <1>5, TaskTypes, OvertakeTasks DEF UpdateProfile
  <2>2. markKept' \in BOOLEAN
    BY <1>5 DEF UpdateProfile
  <2> QED BY <1>1, <1>5, <2>1, <2>2 DEF UpdateProfile, TypeOK, TaskType, Writers
<1>6. CASE \E p \in {"online", "offline"} : LogInOut(p)
  <2>1. tasks' \in [Tasks -> TaskType]
    BY <1>6, TaskTypes, OvertakeTasks DEF LogInOut
  <2> QED BY <1>1, <1>6, <2>1, StatementTypes DEF LogInOut, TypeOK, TaskType, Presences
<1>7. CASE \E t \in Tasks, s \in Sockets, i \in up : Connect(t, s, i)
  <2> PICK t \in Tasks, s \in Sockets, i \in up : Connect(t, s, i)
    BY <1>7
  <2>1. tasks' \in [Tasks -> TaskType]
    BY ConnectTasks DEF TypeOK
  <2> QED BY <2>1 DEF Connect, TypeOK, TaskType
<1>8. CASE \E t \in Tasks, s \in Sockets : Heartbeat(t, s)
  <2>1. tasks' \in [Tasks -> TaskType]
    BY <1>8, TaskTypes DEF Heartbeat, Begin, Ops, TypeOK, Presences, Writers
  <2> QED BY <1>8, <2>1 DEF Heartbeat, TypeOK, TaskType
<1>9. CASE \E s \in Sockets : Disconnect(s)
  BY <1>9 DEF Disconnect, TypeOK
<1> QED BY <1>2, <1>3, <1>4, <1>5, <1>6, <1>7, <1>8, <1>9 DEF Person

LEMMA RunTypes ==
  ASSUME TypeOK, InFlight, NEW t \in Tasks, Run(t)
  PROVE  TypeOK'
<1> USE PresenceAssumption DEF row, around
<1>1. tasks \in [Tasks -> TaskType]
  BY DEF TypeOK, TaskType
<1>2. ASSUME NEW ok \in BOOLEAN, Redis(ok) PROVE mishaps' \in 0 .. MaxMishaps
  BY <1>2 DEF Redis, TypeOK
<1>3. ASSUME Done(t) PROVE tasks' \in [Tasks -> TaskType]
  BY <1>1, <1>3, TaskTypes DEF Done
<1>4. ASSUME tasks' = Overtake(t, Idle) PROVE tasks' \in [Tasks -> TaskType]
  BY <1>4, TaskTypes, OvertakeTasks
<1>5. ASSUME Race(t) PROVE raced' \subseteq {"timer", "other"}
  BY <1>5 DEF Race, TypeOK
<1>6. ASSUME NEW p, Override(p) PROVE overridden' \in BOOLEAN /\ markKept' \in BOOLEAN
  BY <1>6 DEF Override, TypeOK
<1>7. CASE \E ok \in BOOLEAN : AskMark(t, ok)
  <2> PICK ok \in BOOLEAN : AskMark(t, ok)
    BY <1>7
  <2>1. tasks' \in [Tasks -> TaskType]
    BY ThenTypes DEF AskMark, Ask, Then, Ops
  <2> QED BY <1>2, <2>1 DEF AskMark, Ask, TypeOK, TaskType
<1>8. CASE \E ok \in BOOLEAN : ClearMark(t, ok)
  <2> PICK ok \in BOOLEAN : ClearMark(t, ok)
    BY <1>8
  <2>1. tasks' \in [Tasks -> TaskType]
    BY ThenTypes DEF ClearMark, Then, Ops
  <2> QED BY <1>2, <2>1 DEF ClearMark, clearAutoAway, TypeOK, TaskType
<1>9. CASE \E ok \in BOOLEAN : MarkAway(t, ok)
  <2> PICK ok \in BOOLEAN : MarkAway(t, ok)
    BY <1>9
  <2>1. marks' \subseteq Instances \cup {"redis"}
    BY DEF MarkAway, markAutoAway, TypeOK, InFlight, Fits
  <2> QED BY <1>2, <1>4, <1>5, <2>1 DEF MarkAway, TypeOK, TaskType
<1>10. CASE TouchLastSeen(t)
  BY <1>3, <1>10 DEF TouchLastSeen, TypeOK, TaskType
<1>11. CASE WritePresence(t)
  <2> USE <1>11 DEF WritePresence, Write
  <2>1. /\ presence' \in Presences /\ seen' \in {"fresh", "stale"}
        /\ absence' \in {"none", "set", "due"} /\ origin' \in Writers \cup {"session"}
    <3>1. CASE tasks[t].want = "absence"
      BY <3>1, StatementTypes
    <3>2. CASE tasks[t].want # "absence"
      <4>1. tasks[t].want \in Presences
        BY <1>1, <3>2 DEF TaskType
      <4> QED BY <1>1, <3>2, <4>1, StatementTypes DEF WantedPresence, TaskType
    <3> QED BY <3>1, <3>2
  <2>2. overridden' \in BOOLEAN /\ markKept' \in BOOLEAN
    BY <1>6 DEF TypeOK
  <2> QED BY <1>4, <1>5, <2>1, <2>2 DEF TypeOK, TaskType
<1>12. CASE ReadPresence(t)
  <2>1. tasks' \in [Tasks -> TaskType]
    BY <1>12, ThenTypes DEF ReadPresence, Ops
  <2> QED BY <1>12, <2>1 DEF ReadPresence, TypeOK, TaskType
<1>13. CASE RewritePresence(t)
  <2>1. tasks[t].want \in Presences
    BY <1>13 DEF RewritePresence, InFlight, Fits
  <2>2. /\ presence' \in Presences /\ seen' \in {"fresh", "stale"}
        /\ absence' \in {"none", "set", "due"} /\ origin' \in Writers \cup {"session"}
    BY <1>13, <2>1, StatementTypes DEF RewritePresence, TypeOK, Writers
  <2> QED BY <1>4, <1>5, <1>6, <1>13, <2>2 DEF RewritePresence, TypeOK, TaskType
<1>14. CASE FetchSockets(t)
  <2>1. tasks' \in [Tasks -> TaskType]
    <3>1. CASE Done(t)
      BY <1>3, <3>1
    <3>2. CASE Then(t, "clear")
      BY <3>2, ThenTypes DEF Then, Ops
    <3> QED BY <1>14, <3>1, <3>2 DEF FetchSockets
  <2> QED BY <1>14, <2>1 DEF FetchSockets, TypeOK, TaskType
<1>15. CASE ExpireAway(t)
  <2>1. overridden' \in BOOLEAN /\ markKept' \in BOOLEAN
    BY <1>6, <1>15 DEF ExpireAway, TypeOK
  <2> QED BY <1>4, <1>5, <1>15, <2>1, StatementTypes DEF ExpireAway, TypeOK, TaskType
<1> QED BY <1>7, <1>8, <1>9, <1>10, <1>11, <1>12, <1>13, <1>14, <1>15 DEF Run
LEMMA SurroundingTypes ==
  ASSUME TypeOK,
         \/ TimeoutJob \/ ExpiryJob \/ GrowStale \/ FallDue \/ Mishap
         \/ \E t \in Tasks, i \in Instances : OfflineTimer(t, i)
         \/ \E i \in Instances : Restart(i)
  PROVE  TypeOK'
<1> USE PresenceAssumption DEF row, around
<1>1. tasks \in [Tasks -> TaskType] /\ up \subseteq Instances
  BY DEF TypeOK, TaskType
<1>2. CASE TimeoutJob
  <2>1. PICK t \in Tasks, i \in up : MarkStaleOnlineAsAway(t, i)
    BY <1>2 DEF TimeoutJob
  <2>2. Task("mark", i, "away", "job") \in TaskType
    BY <1>1, TaskTypes DEF Ops, Presences, Writers
  <2>3. tasks' \in [Tasks -> TaskType]
    BY <2>1, <2>2, OvertakeTasks DEF MarkStaleOnlineAsAway, StaleAway
  <2> QED BY <2>1, <2>3
          DEF MarkStaleOnlineAsAway, StaleAway, TypeOK, TaskType, Presences, Writers
<1>3. CASE ExpiryJob
  <2>1. PICK t \in Tasks, i \in up : FindExpiredAway(t, i)
    BY <1>3 DEF ExpiryJob
  <2>2. Task("expire", i, "online", "job") \in TaskType
    BY <1>1, TaskTypes DEF Ops, Presences, Writers
  <2> QED BY <1>1, <2>1, <2>2 DEF FindExpiredAway, Begin, TypeOK, TaskType
<1>4. CASE GrowStale \/ FallDue
  BY <1>4 DEF GrowStale, FallDue, TypeOK
<1>5. CASE MarkExpires
  BY <1>5 DEF MarkExpires, TypeOK
<1>6. CASE \E t \in Tasks : Fail(t)
  <2> PICK t \in Tasks : Fail(t)
    BY <1>6
  <2>1. [tasks EXCEPT ![t].op = "clear", ![t].want = "online"] \in [Tasks -> TaskType]
    BY ThenTypes DEF Ops
  <2>2. [tasks EXCEPT ![t] = Idle] \in [Tasks -> TaskType]
    BY <1>1, TaskTypes
  <2>3. tasks' \in [Tasks -> TaskType]
    BY <2>1, <2>2 DEF Fail, Done
  <2> QED BY <2>3 DEF Fail, TypeOK, TaskType
<1>7. CASE \E i \in Instances : Stop(i)
  <2>1. tasks' \in [Tasks -> TaskType]
    BY <1>1, <1>7, TaskTypes DEF Stop
  <2> QED BY <1>7, <2>1 DEF Stop, TypeOK, TaskType
<1>8. CASE \E t \in Tasks, i \in Instances : OfflineTimer(t, i)
  <2>1. PICK t \in Tasks, i \in Instances : OfflineTimer(t, i)
    BY <1>8
  <2>2. Task("offline", i, "offline", "timer") \in TaskType
    BY <1>1, TaskTypes DEF Ops, Presences, Writers
  <2> QED BY <1>1, <2>1, <2>2 DEF OfflineTimer, Begin, TypeOK, TaskType
<1>9. CASE \E i \in Instances : Restart(i)
  BY <1>9 DEF Restart, TypeOK
<1> QED BY <1>2, <1>3, <1>4, <1>5, <1>6, <1>7, <1>8, <1>9 DEF Mishap

LEMMA NextTypes ==
  ASSUME TypeOK, InFlight, [Next]_vars
  PROVE  TypeOK'
<1>1. CASE UNCHANGED vars
  BY <1>1 DEF vars, TypeOK
<1> QED BY <1>1, PersonTypes, RunTypes, SurroundingTypes DEF Next
-----------------------------------------------------------------------------
(* What a step leaves of the tasks that are not its own: where they are, and perhaps the
   ground they stand on. *)
Stays(u) ==
  /\ tasks'[u].op = tasks[u].op /\ tasks'[u].want = tasks[u].want
  /\ tasks'[u].by = tasks[u].by /\ tasks'[u].at = tasks[u].at
  /\ tasks'[u].basis => tasks[u].basis

LEMMA FitStays ==
  ASSUME NEW u, Fits(tasks[u]), Stays(u)
  PROVE  Fits(tasks'[u])
BY DEF Stays, Fits

(* A step of one task that writes nothing in the row: what it leaves of the mark and where
   it goes must fit what was read. *)
LEMMA OwnStep ==
  ASSUME IInv, NEW t \in Tasks, \A u \in Tasks \ {t} : Stays(u), TypeOK',
         UNCHANGED <<presence, absence, origin, overridden, raced, markKept>>,
         mishaps' >= mishaps,
         "redis" \in marks' => "redis" \in marks,
         Fits(tasks'[t]),
         raced = {} /\ mishaps' = 0 /\ Straight => Grounded(t)',
         mishaps' = 0 /\ (tasks[t].op \in {"mark", "write"} \/ "redis" \in marks \ marks')
           => tasks'[t].op \in {"mark", "write"}
  PROVE  Sound' /\ Apart'
<1>1. InFlight'
  BY FitStays DEF IInv, Sound, InFlight
<1>2. ASSUME raced = {}, ~(mishaps' > 0) PROVE Straight'
  <2>1. mishaps = 0 /\ mishaps' = 0 /\ Straight
    BY <1>2 DEF IInv, Sound, Apart, TypeOK
  <2>2. ASSUME NEW u \in Tasks PROVE Grounded(u)'
    <3>1. CASE u = t
      BY <1>2, <2>1, <3>1
    <3>2. CASE u # t
      <4>1. Stays(u) /\ Grounded(u)
        BY <2>1, <3>2 DEF Straight
      <4>2. tasks'[u].op = "write" /\ tasks'[u].by = "user" /\ tasks'[u].basis => "redis" \notin marks'
        BY <4>1 DEF Stays, Grounded
      <4> QED BY <4>1, <4>2 DEF Stays, Grounded, Heeded, Chosen
    <3> QED BY <3>1, <3>2
  <2>3. MarkIsTheJobs'
    BY <2>1 DEF Straight, MarkIsTheJobs, Heeded, Chosen
  <2>4. AwayIsTended'
    <3> SUFFICES ASSUME presence = "away", origin # "user", "redis" \notin marks'
                 PROVE  \E u \in Tasks : tasks'[u].op \in {"mark", "write"}
      BY DEF AwayIsTended
    <3>1. CASE "redis" \in marks
      BY <2>1, <3>1
    <3>2. CASE "redis" \notin marks
      <4>1. PICK u \in Tasks : tasks[u].op \in {"mark", "write"}
        BY <2>1, <3>2 DEF Straight, AwayIsTended
      <4> QED BY <2>1, <4>1 DEF Stays
    <3> QED BY <3>1, <3>2
  <2>5. overridden' => markKept'
    BY <2>1 DEF Straight
  <2> QED BY <2>2, <2>3, <2>4, <2>5 DEF Straight
<1> QED BY <1>1, <1>2 DEF Sound, Apart

(* A statement, by task t or by a request: the others no longer rest on anything. *)
LEMMA OvertakingStep ==
  ASSUME IInv, TypeOK', NEW t, NEW task \in TaskType, tasks' = Overtake(t, task),
         task.op \in {"idle", "mark"}, Fits(task), task.op = "mark" => ~Heeded',
         raced \subseteq raced', mishaps' >= mishaps,
         raced' = {} /\ mishaps' = 0 /\ Straight =>
           (overridden' => markKept') /\ MarkIsTheJobs' /\ AwayIsTended'
  PROVE  Sound' /\ Apart'
<1>1. /\ \A u \in Tasks : u = t => tasks'[u] = task
      /\ \A u \in Tasks : u # t => Stays(u) /\ (tasks'[u].basis => ~Holding(tasks[u]))
  BY OvertakeTasks DEF IInv, Sound, Stays
<1>2. InFlight'
  BY <1>1, FitStays DEF IInv, Sound, InFlight
<1>3. ASSUME NEW u \in Tasks PROVE Grounded(u)'
  <2>1. CASE u = t
    BY <1>1, <2>1 DEF Grounded
  <2>2. CASE u # t
    <3>1. Fits(tasks[u]) /\ Stays(u) /\ (tasks'[u].basis => ~Holding(tasks[u]))
      BY <1>1, <2>2 DEF IInv, Sound, InFlight
    <3> QED BY <3>1 DEF Fits, Stays, Holding, Grounded
  <2> QED BY <2>1, <2>2
<1>4. ASSUME raced' = {}, ~(mishaps' > 0) PROVE Straight'
  <2>0. raced = {}
    BY <1>4
  <2>1. mishaps = 0 /\ mishaps' = 0 /\ Straight
    BY <1>4, <2>0 DEF IInv, Sound, Apart, TypeOK
  <2> QED BY <1>3, <1>4, <2>1 DEF Straight
<1> QED BY <1>2, <1>4 DEF Sound, Apart

(* A step that leaves the row, the tasks and Redis alone. *)
LEMMA IdleStep ==
  ASSUME IInv, TypeOK', UNCHANGED <<presence, origin, overridden, raced, markKept, tasks, mishaps>>,
         absence' \in {absence, "due"}, "redis" \in marks' <=> "redis" \in marks
  PROVE  Sound' /\ Apart'
<1>1. InFlight'
  BY DEF IInv, Sound, InFlight
<1>2. ASSUME Straight PROVE Straight'
  <2>1. ASSUME NEW t \in Tasks PROVE Grounded(t)'
    BY <1>2 DEF Straight, Grounded, Heeded, Chosen
  <2> QED BY <1>2, <2>1 DEF Straight, MarkIsTheJobs, AwayIsTended, Heeded, Chosen
<1> QED BY <1>1, <1>2 DEF IInv, Sound, Apart

LEMMA Overriding ==
  ASSUME NEW p, Override(p), overridden => markKept, ~(Heeded /\ presence # p)
  PROVE  overridden' => markKept'
BY DEF Override, Heeded

LEMMA Racing ==
  ASSUME TypeOK, NEW t \in Tasks, Race(t)
  PROVE  /\ raced \subseteq raced'
         /\ mishaps = 0 /\ raced' = {} => tasks[t].basis
         /\ mishaps = 0 /\ tasks[t].by = "timer" /\ "timer" \notin raced' => tasks[t].basis
<1> tasks[t].basis \in BOOLEAN /\ ~(mishaps = 0 /\ mishaps > 0)
  BY DEF TypeOK
<1> QED BY DEF Race

-----------------------------------------------------------------------------
(* Requests and what starts a task. *)

LEMMA BeginInv ==
  ASSUME IInv, TypeOK', NEW t \in Tasks, NEW task \in TaskType, Begin(t, task),
         UNCHANGED <<presence, absence, origin, overridden, raced, markKept, mishaps, marks>>,
         task.op \in {"ask", "restore", "offline", "clear", "expire"}, Fits(task),
         task.op = "clear" => task.by = "user",
         task.op = "expire" => absence = "due"
  PROVE  Sound' /\ Apart'
<1>1. /\ tasks'[t] = task /\ \A u \in Tasks \ {t} : tasks'[u] = tasks[u]
      /\ tasks[t] = Idle
  BY DEF Begin, Free, IInv, Sound, TypeOK
<1>2. Grounded(t)'
  BY <1>1 DEF Grounded
<1>3. mishaps' >= mishaps
  BY DEF IInv, Sound, TypeOK
<1>4. tasks[t].op = "idle"
  BY <1>1, TaskTypes
<1>5. \A u \in Tasks \ {t} : Stays(u)
  BY <1>1 DEF Stays
<1> QED BY <1>1, <1>2, <1>3, <1>4, <1>5, OwnStep

LEMMA TaskFields ==
  ASSUME NEW op, NEW i, NEW p, NEW by
  PROVE  /\ Task(op, i, p, by).op = op /\ Task(op, i, p, by).at = i
         /\ Task(op, i, p, by).by = by /\ Task(op, i, p, by).want = p
BY DEF Task

LEMMA PersonInv ==
  ASSUME IInv, TypeOK', Person
  PROVE  Sound' /\ Apart'
<1> USE DEF row, around
<1>0. up \subseteq Instances /\ Choices \subseteq Presences /\ mishaps >= mishaps
  BY PresenceAssumption DEF IInv, Sound, TypeOK
<1>9. Fits(Idle) /\ Idle \in TaskType /\ Idle.op = "idle"
  BY TaskTypes DEF Fits
<1>1. CASE \E t \in Tasks, i \in up, p \in Choices : SetPresence(t, i, p)
  <2> PICK t \in Tasks, i \in up, p \in Choices : SetPresence(t, i, p)
    BY <1>1
  <2>1. Task("clear", i, p, "user") \in TaskType
    BY <1>0, TaskTypes DEF Ops, Writers
  <2>2. Fits(Task("clear", i, p, "user"))
    BY <1>0, TaskFields DEF Fits
  <2> QED BY <2>1, <2>2, TaskFields, BeginInv DEF SetPresence, Request
<1>2. CASE \E t \in Tasks, i \in up : SetAway(t, i)
  <2> PICK t \in Tasks, i \in up : SetAway(t, i)
    BY <1>2
  <2>1. Task("clear", i, "absence", "user") \in TaskType
    BY <1>0, TaskTypes DEF Ops, Writers
  <2>2. Fits(Task("clear", i, "absence", "user"))
    BY <1>0, TaskFields DEF Fits
  <2> QED BY <2>1, <2>2, TaskFields, BeginInv DEF SetAway, Request
<1>3. CASE ClearAway
  <2>1. MarkIsTheJobs => MarkIsTheJobs' /\ AwayIsTended'
    BY <1>3 DEF ClearAway, ClearAwayState, Request, MarkIsTheJobs, AwayIsTended, Heeded, Chosen
  <2>2. /\ raced' = raced /\ mishaps' = mishaps /\ overridden' = overridden
        /\ tasks' = Overtake("none", Idle) /\ markKept' = markKept
    BY <1>3 DEF ClearAway, Request
  <2> QED BY <1>0, <1>9, <2>1, <2>2, OvertakingStep DEF Straight
<1>4. CASE \E p \in Choices : UpdateProfile(p)
  <2>1. /\ mishaps' = 0 => MarkIsTheJobs'
        /\ AwayIsTended' /\ (markKept => markKept')
    BY <1>4 DEF UpdateProfile, Request, MarkIsTheJobs, AwayIsTended, Heeded, Chosen
  <2>2. /\ raced' = raced /\ mishaps' = mishaps /\ overridden' = overridden
        /\ tasks' = Overtake("none", Idle)
    BY <1>4 DEF UpdateProfile, Request
  <2> QED BY <1>0, <1>9, <2>1, <2>2, OvertakingStep DEF Straight
<1>5. CASE \E p \in {"online", "offline"} : LogInOut(p)
  <2>1. MarkIsTheJobs' /\ AwayIsTended'
    BY <1>5 DEF LogInOut, UpdatePresence, MarkIsTheJobs, AwayIsTended, Heeded, Chosen
  <2>2. /\ raced' = raced /\ mishaps' = mishaps /\ overridden' = overridden
        /\ tasks' = Overtake("none", Idle) /\ markKept' = markKept
    BY <1>5 DEF LogInOut, Request
  <2> QED BY <1>0, <1>9, <2>1, <2>2, OvertakingStep DEF Straight
<1>6. CASE \E t \in Tasks, s \in Sockets, i \in up : Connect(t, s, i)
  <2> PICK t \in Tasks, s \in Sockets, i \in up : Connect(t, s, i)
    BY <1>6
  <2> DEFINE task == Task("restore", i, "online", "connection")
  <2>1. tasks'[t] = task /\ \A u \in Tasks \ {t} : Stays(u)
    BY <1>0, ConnectTasks DEF IInv, Sound, Stays
  <2>2. Fits(task) /\ task.op = "restore"
    BY <1>0, TaskFields DEF Fits
  <2>3. Grounded(t)'
    BY <2>1, <2>2 DEF Grounded
  <2>4. tasks[t].op = "idle"
    BY TaskTypes DEF Connect, Free
  <2>5. UNCHANGED <<presence, absence, origin, overridden, raced, markKept, mishaps, marks>>
    BY DEF Connect
  <2> HIDE DEF task
  <2> QED BY <1>0, <2>1, <2>2, <2>3, <2>4, <2>5, OwnStep
<1>7. CASE \E t \in Tasks, s \in Sockets : Heartbeat(t, s)
  <2> PICK t \in Tasks, s \in Sockets : Heartbeat(t, s)
    BY <1>7
  <2>1. sockets[s] \in Instances
    BY DEF Heartbeat, IInv, Sound, TypeOK
  <2>2. Task("ask", sockets[s], "online", "heartbeat") \in TaskType
    BY <2>1, TaskTypes DEF Ops, Presences, Writers
  <2>3. Fits(Task("ask", sockets[s], "online", "heartbeat"))
    BY <2>1, TaskFields DEF Fits
  <2> QED BY <2>2, <2>3, TaskFields, BeginInv DEF Heartbeat
<1>8. CASE \E s \in Sockets : Disconnect(s)
  BY <1>8, IdleStep DEF Disconnect
<1> QED BY <1>1, <1>2, <1>3, <1>4, <1>5, <1>6, <1>7, <1>8 DEF Person

LEMMA SurroundingsInv ==
  ASSUME IInv, TypeOK',
         \/ TimeoutJob \/ ExpiryJob \/ GrowStale \/ FallDue
         \/ \E t \in Tasks, i \in Instances : OfflineTimer(t, i)
         \/ \E i \in Instances : Restart(i)
  PROVE  Sound' /\ Apart'
<1> USE DEF row, around
<1>0. up \subseteq Instances /\ mishaps >= mishaps
  BY DEF IInv, Sound, TypeOK
<1>1. CASE TimeoutJob
  <2> PICK t \in Tasks, i \in up : MarkStaleOnlineAsAway(t, i)
    BY <1>1 DEF TimeoutJob
  <2> DEFINE task == Task("mark", i, "away", "job")
  <2>1. task \in TaskType
    BY <1>0, TaskTypes DEF Ops, Presences, Writers
  <2>2. tasks' = Overtake(t, task)
        /\ UNCHANGED <<marks, mishaps, raced, overridden, markKept>> /\ origin' = "job"
    BY DEF MarkStaleOnlineAsAway, StaleAway
  <2>3. task.op = "mark" /\ Fits(task)
    BY <1>0, TaskFields DEF Fits
  <2>4. tasks'[t].op = "mark"
    BY <2>1, <2>2, <2>3, OvertakeTasks DEF IInv, Sound
  <2>5. ~Heeded' /\ MarkIsTheJobs' /\ AwayIsTended'
    BY <2>2, <2>4 DEF Heeded, Chosen, MarkIsTheJobs, AwayIsTended
  <2> HIDE DEF task
  <2> QED BY <1>0, <2>1, <2>2, <2>3, <2>5, OvertakingStep DEF Straight
<1>2. CASE ExpiryJob
  <2> PICK t \in Tasks, i \in up : FindExpiredAway(t, i)
    BY <1>2 DEF ExpiryJob
  <2>1. Task("expire", i, "online", "job") \in TaskType
    BY <1>0, TaskTypes DEF Ops, Presences, Writers
  <2>2. Fits(Task("expire", i, "online", "job"))
    BY <1>0, TaskFields DEF Fits
  <2> QED BY <2>1, <2>2, TaskFields, BeginInv DEF FindExpiredAway
<1>3. CASE GrowStale \/ FallDue
  BY <1>3, IdleStep DEF GrowStale, FallDue
<1>4. CASE \E t \in Tasks, i \in Instances : OfflineTimer(t, i)
  <2> PICK t \in Tasks, i \in Instances : OfflineTimer(t, i)
    BY <1>4
  <2>1. Task("offline", i, "offline", "timer") \in TaskType
    BY TaskTypes DEF Ops, Presences, Writers
  <2>2. Fits(Task("offline", i, "offline", "timer"))
    BY TaskFields DEF Fits
  <2> QED BY <2>1, <2>2, TaskFields, BeginInv DEF OfflineTimer
<1>5. CASE \E i \in Instances : Restart(i)
  BY <1>5, IdleStep DEF Restart
<1> QED BY <1>1, <1>2, <1>3, <1>4, <1>5

(* After a mishap the tasks only have to be somewhere. *)
LEMMA MishapInv ==
  ASSUME IInv, TypeOK', Mishap
  PROVE  Sound' /\ mishaps' > 0
<1> USE DEF row, around
<1>1. mishaps' > 0
  <2>1. mishaps \in Nat
    BY DEF IInv, Sound, TypeOK
  <2>2. mishaps' = mishaps + 1
    BY DEF Mishap, MarkExpires, Fail, Stop
  <2> QED BY <2>1, <2>2
<1>2. ASSUME NEW t \in Tasks PROVE Fits(tasks'[t])
  <2>1. Fits(tasks[t]) /\ Fits(Idle)
    BY TaskTypes DEF IInv, Sound, InFlight, Fits
  <2>2. CASE MarkExpires
    BY <2>1, <2>2 DEF MarkExpires
  <2>3. CASE \E u \in Tasks : Fail(u)
    <3> PICK u \in Tasks : Fail(u)
      BY <2>3
    <3>1. tasks \in [Tasks -> TaskType]
      BY DEF IInv, Sound, TypeOK, TaskType
    <3>2. CASE Done(u)
      BY <2>1, <3>1, <3>2 DEF Done
    <3>3. CASE tasks[u].op \in {"restore", "rewrite"}
               /\ tasks' = [tasks EXCEPT ![u].op = "clear", ![u].want = "online"]
      <4>1. CASE t # u
        BY <2>1, <3>1, <3>3, <4>1
      <4>2. CASE t = u
        <5>1. /\ tasks'[t].op = "clear" /\ tasks'[t].want = "online"
              /\ tasks'[t].by = tasks[t].by /\ tasks'[t].at = tasks[t].at
          BY <3>1, <3>3, <4>2 DEF TaskType
        <5> QED BY <2>1, <3>3, <4>2, <5>1 DEF Fits
      <4> QED BY <4>1, <4>2
    <3> QED BY <3>2, <3>3 DEF Fail
  <2>4. CASE \E i \in Instances : Stop(i)
    <3>1. tasks'[t] \in {tasks[t], Idle}
      BY <2>4 DEF Stop
    <3> QED BY <2>1, <3>1
  <2> QED BY <2>2, <2>3, <2>4 DEF Mishap
<1> QED BY <1>1, <1>2 DEF Sound, InFlight

-----------------------------------------------------------------------------
(* The steps of a task. *)

(* Those that only move the task on. *)
LEMMA MoveInv ==
  ASSUME IInv, TypeOK', NEW t \in Tasks,
         \/ \E ok \in BOOLEAN : AskMark(t, ok) \/ ClearMark(t, ok)
         \/ TouchLastSeen(t) \/ ReadPresence(t) \/ FetchSockets(t)
  PROVE  Sound' /\ Apart'
<1> USE DEF row, around, Stays
<1>1. /\ Fits(tasks[t]) /\ mishaps \in Nat /\ mishaps' \in Nat /\ tasks \in [Tasks -> TaskType]
      /\ presence \in Presences
  BY DEF IInv, Sound, InFlight, TypeOK, TaskType
<1>2. tasks[t] \in [op : Ops, at : Instances \cup {"none"}, want : Presences \cup {"absence"},
                    by : Writers, basis : BOOLEAN]
  BY <1>1 DEF TaskType
<1>3. CASE \E ok \in BOOLEAN : AskMark(t, ok)
  <2> PICK ok \in BOOLEAN : AskMark(t, ok)
    BY <1>3
  <2>1. /\ tasks[t].op = "ask" /\ \A u \in Tasks \ {t} : tasks'[u] = tasks[u]
        /\ UNCHANGED <<presence, absence, origin, overridden, raced, markKept, marks>>
        /\ tasks'[t].op \in {"clear", "touch"} /\ tasks'[t].at = tasks[t].at
        /\ tasks'[t].by = tasks[t].by /\ tasks'[t].want = tasks[t].want
        /\ mishaps' >= mishaps
    BY <1>1, <1>2 DEF AskMark, Ask, Then, Redis
  <2>2. ASSUME mishaps' = 0, tasks'[t].op = "clear" PROVE "redis" \in marks
    <3>1. ok = TRUE
      BY <1>1, <2>2 DEF AskMark, Ask, Redis
    <3>2. isAutoAway(tasks[t].at, ok)
      BY <1>1, <1>2, <2>2 DEF AskMark, Ask, Then
    <3> QED BY <3>1, <3>2 DEF isAutoAway
  <2>3. mishaps' = 0 /\ Straight => Grounded(t)'
    BY <2>1, <2>2 DEF Straight, MarkIsTheJobs, Grounded, Heeded, Chosen
  <2>4. Fits(tasks'[t])
    BY <1>1, <2>1 DEF Fits
  <2> QED BY <1>1, <2>1, <2>3, <2>4, OwnStep
<1>4. CASE \E ok \in BOOLEAN : ClearMark(t, ok)
  <2> PICK ok \in BOOLEAN : ClearMark(t, ok)
    BY <1>4
  <2>1. /\ tasks[t].op = "clear" /\ \A u \in Tasks \ {t} : tasks'[u] = tasks[u]
        /\ UNCHANGED <<presence, absence, origin, overridden, raced, markKept>>
        /\ tasks'[t].op = "write" /\ tasks'[t].at = tasks[t].at
        /\ tasks'[t].by = tasks[t].by /\ tasks'[t].basis = tasks[t].basis
        /\ tasks'[t].want = tasks[t].want /\ mishaps' >= mishaps
    BY <1>1, <1>2 DEF ClearMark, Then, Redis
  <2>2. marks' \subseteq marks /\ (mishaps' = 0 => "redis" \notin marks')
    BY <1>1 DEF ClearMark, clearAutoAway, Redis
  <2>3. Straight /\ mishaps' = 0 => Grounded(t)'
    BY <2>1, <2>2 DEF Straight, Grounded, Heeded, Chosen
  <2>4. Fits(tasks'[t])
    BY <1>1, <2>1 DEF Fits
  <2> QED BY <1>1, <2>1, <2>2, <2>3, <2>4, OwnStep
<1>5. CASE TouchLastSeen(t)
  <2>1. /\ tasks[t].op = "touch" /\ \A u \in Tasks \ {t} : tasks'[u] = tasks[u]
        /\ UNCHANGED <<presence, absence, origin, overridden, raced, markKept, marks, mishaps>>
        /\ tasks'[t].op = "idle"
    BY <1>1, <1>5, TaskTypes DEF TouchLastSeen, Done
  <2>2. Grounded(t)' /\ Fits(tasks'[t])
    BY <2>1 DEF Grounded, Fits
  <2> QED BY <1>1, <2>1, <2>2, OwnStep
<1>6. CASE ReadPresence(t)
  <2>1. /\ tasks[t].op = "restore" /\ \A u \in Tasks \ {t} : tasks'[u] = tasks[u]
        /\ UNCHANGED <<presence, absence, origin, overridden, raced, markKept, marks, mishaps>>
        /\ tasks'[t].at = tasks[t].at /\ tasks'[t].by = tasks[t].by
    BY <1>1, <1>2, <1>6 DEF ReadPresence
  <2>2. \/ tasks'[t].op = "clear" /\ presence = "offline" /\ tasks'[t].want = "online"
        \/ tasks'[t].op = "rewrite" /\ tasks'[t].want = presence /\ presence # "offline"
    BY <1>1, <1>2, <1>6 DEF ReadPresence
  <2>3. Grounded(t)'
    BY <2>1, <2>2 DEF Grounded, Heeded, Chosen
  <2>4. Fits(tasks'[t])
    BY <1>1, <2>1, <2>2 DEF Fits
  <2> QED BY <1>1, <2>1, <2>2, <2>3, <2>4, OwnStep
<1>7. CASE FetchSockets(t)
  <2>1. /\ tasks[t].op = "offline" /\ \A u \in Tasks \ {t} : tasks'[u] = tasks[u]
        /\ UNCHANGED <<presence, absence, origin, overridden, raced, markKept, marks, mishaps>>
    BY <1>1, <1>7 DEF FetchSockets, Done, Then
  <2>2. \/ tasks'[t].op = "idle"
        \/ /\ tasks'[t].op = "clear" /\ tasks'[t].at = tasks[t].at
           /\ tasks'[t].by = tasks[t].by /\ tasks'[t].want = tasks[t].want
    <3>1. CASE Done(t)
      BY <1>1, <3>1, TaskTypes DEF Done
    <3>2. CASE Then(t, "clear")
      BY <1>1, <1>2, <3>2 DEF Then
    <3> QED BY <1>7, <3>1, <3>2 DEF FetchSockets
  <2>3. Fits(tasks'[t]) /\ (tasks'[t].op # "idle" => tasks'[t].by = "timer")
    BY <1>1, <2>1, <2>2 DEF Fits
  <2>4. Grounded(t)'
    BY <2>2, <2>3 DEF Grounded
  <2> QED BY <1>1, <2>1, <2>2, <2>3, <2>4, OwnStep
<1> QED BY <1>3, <1>4, <1>5, <1>6, <1>7

LEMMA MarkAwayInv ==
  ASSUME IInv, TypeOK', NEW t \in Tasks, NEW ok \in BOOLEAN, MarkAway(t, ok)
  PROVE  Sound' /\ Apart'
<1>1. /\ tasks' = Overtake(t, Idle) /\ tasks[t].op = "mark" /\ Race(t)
      /\ UNCHANGED <<presence, absence, origin, overridden, markKept>> /\ mishaps' >= mishaps
  BY DEF MarkAway, Redis, row, IInv, Sound, TypeOK
<1>2. raced \subseteq raced'
  BY <1>1, Racing DEF IInv, Sound
<1>3. ASSUME raced' = {}, mishaps' = 0, Straight
      PROVE  (overridden' => markKept') /\ MarkIsTheJobs' /\ AwayIsTended'
  <2>0. mishaps = 0
    BY <1>1, <1>3 DEF IInv, Sound, TypeOK
  <2>1. tasks[t].basis
    BY <1>1, <1>3, <2>0, Racing DEF IInv, Sound
  <2>2. ~Heeded
    BY <1>1, <1>3, <2>1 DEF Straight, Grounded
  <2>3. "redis" \in marks'
    BY <1>3 DEF MarkAway, Redis, markAutoAway, IInv, Sound, TypeOK
  <2> QED BY <1>1, <1>3, <2>2, <2>3 DEF Straight, MarkIsTheJobs, AwayIsTended, Heeded, Chosen
<1>4. Fits(Idle) /\ Idle \in TaskType /\ Idle.op = "idle"
  BY TaskTypes DEF Fits
<1> QED BY <1>1, <1>2, <1>3, <1>4, OvertakingStep

LEMMA WriteInv ==
  ASSUME IInv, TypeOK', NEW t \in Tasks, WritePresence(t)
  PROVE  Sound' /\ Apart'
<1>1. /\ tasks' = Overtake(t, Idle) /\ tasks[t].op = "write" /\ Race(t) /\ Fits(tasks[t])
      /\ UNCHANGED <<marks, mishaps>> /\ mishaps' >= mishaps
  BY DEF WritePresence, Write, around, IInv, Sound, InFlight, TypeOK
<1>2. raced \subseteq raced'
  BY <1>1, Racing DEF IInv, Sound
<1>3. /\ tasks[t].by = "user" => origin' = "user"
      /\ tasks[t].by # "user" => origin' # "user" /\ presence' \in {"online", "offline"}
  BY <1>1 DEF WritePresence, Write, WantedPresence, UpdatePresence, SetAwayState, Fits
<1>4. ASSUME raced' = {}, mishaps' = 0, Straight
      PROVE  (overridden' => markKept') /\ MarkIsTheJobs' /\ AwayIsTended'
  <2>0. mishaps = 0 /\ raced = {}
    BY <1>1, <1>2, <1>4 DEF IInv, Sound, TypeOK
  <2>1. tasks[t].basis
    BY <1>1, <1>4, <2>0, Racing DEF IInv, Sound
  <2>2. /\ tasks[t].by = "user" => "redis" \notin marks
        /\ tasks[t].by \in {"heartbeat", "connection"} => ~Heeded
        /\ tasks[t].by = "timer" => ~Connected
    BY <1>1, <1>4, <2>0, <2>1 DEF Straight, Grounded, IInv, Shown, NobodyCame, Trusts
  <2>3. overridden' => markKept'
    <3>1. CASE tasks[t].by \in {"heartbeat", "connection"}
      <4>1. Override(tasks[t].want)
        BY <3>1 DEF WritePresence, Write
      <4> QED BY <1>4, <2>2, <3>1, <4>1, Overriding DEF Straight
    <3>2. CASE tasks[t].by \in {"user", "timer"}
      BY <1>4, <2>2, <3>2 DEF WritePresence, Write, Straight
    <3> QED BY <1>1, <3>1, <3>2 DEF Fits
  <2> QED BY <1>1, <1>3, <2>2, <2>3 DEF MarkIsTheJobs, AwayIsTended, Heeded, Chosen
<1>5. Fits(Idle) /\ Idle \in TaskType /\ Idle.op = "idle"
  BY TaskTypes DEF Fits
<1> QED BY <1>1, <1>2, <1>4, <1>5, OvertakingStep

LEMMA RewriteInv ==
  ASSUME IInv, TypeOK', NEW t \in Tasks, RewritePresence(t)
  PROVE  Sound' /\ Apart'
<1>1. /\ tasks' = Overtake(t, Idle) /\ tasks[t].op = "rewrite" /\ Race(t)
      /\ UNCHANGED <<marks, mishaps>> /\ mishaps' >= mishaps
      /\ UpdatePresence(tasks[t].want, IF tasks[t].want = presence THEN origin ELSE "connection")
      /\ Override(tasks[t].want) /\ markKept' = markKept
  BY DEF RewritePresence, Override, around, IInv, Sound, TypeOK
<1>2. raced \subseteq raced'
  BY <1>1, Racing DEF IInv, Sound
<1>3. ASSUME raced' = {}, mishaps' = 0, Straight
      PROVE  (overridden' => markKept') /\ MarkIsTheJobs' /\ AwayIsTended'
  <2>1. tasks[t].basis
    BY <1>1, <1>3, Racing DEF IInv, Sound
  <2>2. tasks[t].want = presence
    BY <1>1, <1>3, <2>1 DEF Straight, Grounded
  <2>3. presence' = presence /\ origin' = origin
    BY <1>1, <2>2 DEF UpdatePresence
  <2>4. overridden' => markKept'
    BY <1>1, <1>3, <2>2, Overriding DEF Straight
  <2>5. MarkIsTheJobs'
    BY <1>1, <1>3, <2>3 DEF Straight, MarkIsTheJobs, Heeded, Chosen
  <2>6. ASSUME NEW u \in Tasks, tasks[u].op \in {"mark", "write"}
        PROVE  tasks'[u].op = tasks[u].op
    BY <1>1, <2>6, TaskTypes, OvertakeTasks DEF IInv, Sound
  <2>7. AwayIsTended'
    BY <1>1, <1>3, <2>3, <2>6 DEF Straight, AwayIsTended
  <2> QED BY <2>4, <2>5, <2>7
<1>4. Fits(Idle) /\ Idle \in TaskType /\ Idle.op = "idle"
  BY TaskTypes DEF Fits
<1> QED BY <1>1, <1>2, <1>3, <1>4, OvertakingStep

LEMMA ExpireInv ==
  ASSUME IInv, TypeOK', NEW t \in Tasks, ExpireAway(t)
  PROVE  Sound' /\ Apart'
<1>1. /\ tasks' = Overtake(t, Idle) /\ tasks[t].op = "expire" /\ Race(t)
      /\ UNCHANGED <<marks, mishaps>> /\ mishaps' >= mishaps /\ ClearAwayState
  BY DEF ExpireAway, around, IInv, Sound, TypeOK
<1>2. raced \subseteq raced'
  BY <1>1, Racing DEF IInv, Sound
<1>3. ASSUME raced' = {}, mishaps' = 0, Straight
      PROVE  (overridden' => markKept') /\ MarkIsTheJobs' /\ AwayIsTended'
  <2>1. tasks[t].basis
    BY <1>1, <1>3, Racing DEF IInv, Sound
  <2>2. absence = "due"
    BY <1>1, <1>3, <2>1 DEF Straight, Grounded
  <2>3. overridden' = overridden /\ markKept' = markKept
    BY <2>2 DEF ExpireAway
  <2> QED BY <1>1, <1>3, <2>3
          DEF Straight, MarkIsTheJobs, AwayIsTended, Heeded, Chosen, ClearAwayState
<1>4. Fits(Idle) /\ Idle \in TaskType /\ Idle.op = "idle"
  BY TaskTypes DEF Fits
<1> QED BY <1>1, <1>2, <1>3, <1>4, OvertakingStep

-----------------------------------------------------------------------------
(* Who is connected and who is shown. *)

(* A step that leaves the row alone. *)
LEMMA OwnShown ==
  ASSUME IInv, TypeOK', NEW t \in Tasks, \A u \in Tasks \ {t} : Stays(u),
         UNCHANGED <<presence, origin, raced>>, mishaps' >= mishaps, Connected' => Connected,
         Trusts(tasks'[t]) => Trusts(tasks[t]) \/ ~Connected',
         presence = "offline" /\ Looks(tasks[t]) => Looks(tasks'[t])
  PROVE  Shown'
<1> SUFFICES ASSUME "timer" \notin raced', ~(mishaps' > 0)
             PROVE  NobodyCame' /\ Attended'
  BY DEF Shown
<1>1. NobodyCame /\ Attended
  BY DEF IInv, Shown, Sound, TypeOK
<1>2. ASSUME NEW u \in Tasks, Trusts(tasks'[u]) PROVE ~Connected'
  BY <1>1, <1>2 DEF NobodyCame, Stays, Trusts
<1>3. ASSUME NEW u \in Tasks, presence = "offline", Looks(tasks[u]) PROVE Looks(tasks'[u])
  BY <1>3 DEF Stays, Looks
<1>4. Attended'
  BY <1>1, <1>3 DEF Attended
<1> QED BY <1>2, <1>4 DEF NobodyCame

(* A step that leaves the tasks alone too. *)
LEMMA ShownAlone ==
  ASSUME IInv, TypeOK', UNCHANGED <<presence, origin, raced, tasks>>, mishaps' >= mishaps,
         Connected' => Connected
  PROVE  Shown'
BY DEF IInv, Shown, Sound, TypeOK, NobodyCame, Attended

(* A statement. *)
LEMMA OvertakingShown ==
  ASSUME IInv, TypeOK', NEW t, NEW task \in TaskType, tasks' = Overtake(t, task),
         task.op \in {"idle", "mark"}, sockets' = sockets, raced \subseteq raced',
         mishaps' >= mishaps,
         "timer" \notin raced' /\ mishaps' = 0 /\ NobodyCame =>
           \/ presence' # "offline" \/ ~Connected
           \/ origin' \in {"user", "session"}
           \/ /\ presence' = presence /\ origin' = origin
              /\ \A u \in Tasks : u = t => ~Looks(tasks[u])
  PROVE  Shown'
<1> SUFFICES ASSUME "timer" \notin raced', ~(mishaps' > 0)
             PROVE  NobodyCame' /\ Attended'
  BY DEF Shown
<1>1. NobodyCame /\ Attended /\ mishaps' = 0
  BY DEF IInv, Shown, Sound, TypeOK
<1>2. /\ \A u \in Tasks : u = t => tasks'[u] = task
      /\ \A u \in Tasks : u # t => Stays(u)
  BY OvertakeTasks DEF IInv, Sound, Stays
<1>3. Connected' <=> Connected
  BY DEF Connected
<1>4. ASSUME NEW u \in Tasks, Trusts(tasks'[u]) PROVE ~Connected'
  BY <1>1, <1>2, <1>3, <1>4 DEF NobodyCame, Stays, Trusts
<1>5. ASSUME NEW u \in Tasks, u # t, Looks(tasks[u]) PROVE Looks(tasks'[u])
  BY <1>2, <1>5 DEF Stays, Looks
<1>6. Attended'
  BY <1>1, <1>3, <1>5 DEF Attended
<1> QED BY <1>4, <1>6 DEF NobodyCame

LEMMA PersonShown ==
  ASSUME IInv, TypeOK', Person
  PROVE  Shown'
<1> USE DEF row, around
<1>0. /\ up \subseteq Instances /\ mishaps >= mishaps /\ tasks \in [Tasks -> TaskType]
      /\ Idle \in TaskType /\ Idle.op = "idle" /\ "none" \notin Tasks
  BY PresenceAssumption, TaskTypes DEF IInv, Sound, TypeOK, TaskType
<1>1. ASSUME NEW t \in Tasks, NEW task, Begin(t, task), ~Trusts(task),
             UNCHANGED <<presence, origin, raced, mishaps, sockets>>
      PROVE  Shown'
  <2>1. /\ tasks'[t] = task /\ \A u \in Tasks \ {t} : Stays(u)
        /\ tasks[t].op = "idle" /\ (Connected' <=> Connected)
    BY <1>0, <1>1 DEF Begin, Free, Stays, Connected
  <2> QED BY <1>0, <1>1, <2>1, OwnShown DEF Looks
<1>2. CASE \E t \in Tasks, i \in up, p \in Choices : SetPresence(t, i, p)
  BY <1>1, <1>2, TaskFields DEF SetPresence, Request, Trusts
<1>3. CASE \E t \in Tasks, i \in up : SetAway(t, i)
  BY <1>1, <1>3, TaskFields DEF SetAway, Request, Trusts
<1>4. CASE ClearAway
  <2>1. presence' # "offline" \/ (presence' = presence /\ origin' = origin)
    BY <1>4 DEF ClearAway, ClearAwayState
  <2>2. /\ raced' = raced /\ mishaps' = mishaps /\ sockets' = sockets
        /\ tasks' = Overtake("none", Idle)
    BY <1>4 DEF ClearAway, Request
  <2> QED BY <1>0, <2>1, <2>2, OvertakingShown
<1>5. CASE (\E p \in Choices : UpdateProfile(p)) \/ (\E p \in {"online", "offline"} : LogInOut(p))
  <2>1. origin' \in {"user", "session"}
    BY <1>5 DEF UpdateProfile, LogInOut, UpdatePresence
  <2>2. /\ raced' = raced /\ mishaps' = mishaps /\ sockets' = sockets
        /\ tasks' = Overtake("none", Idle)
    BY <1>5 DEF UpdateProfile, LogInOut, Request
  <2> QED BY <1>0, <2>1, <2>2, OvertakingShown
<1>6. CASE \E t \in Tasks, s \in Sockets, i \in up : Connect(t, s, i)
  <2> PICK t \in Tasks, s \in Sockets, i \in up : Connect(t, s, i)
    BY <1>6
  <2>1. /\ tasks'[t] = Task("restore", i, "online", "connection")
        /\ \A u \in Tasks \ {t} :
              /\ tasks'[u].op = tasks[u].op /\ tasks'[u].by = tasks[u].by
              /\ tasks'[u].basis => ~(tasks[u].by = "timer" /\ tasks[u].op # "offline")
    BY <1>0, ConnectTasks DEF IInv, Sound
  <2>2. ASSUME NEW u \in Tasks PROVE ~Trusts(tasks'[u])
    BY <2>1, TaskFields DEF Trusts
  <2>3. Looks(tasks'[t])
    BY <2>1, TaskFields DEF Looks
  <2> QED BY <2>2, <2>3 DEF Shown, NobodyCame, Attended
<1>7. CASE \E t \in Tasks, s \in Sockets : Heartbeat(t, s)
  BY <1>1, <1>7, TaskFields DEF Heartbeat, Trusts
<1>8. CASE \E s \in Sockets : Disconnect(s)
  <2>1. UNCHANGED <<presence, origin, raced, tasks, mishaps>> /\ (Connected' => Connected)
    BY <1>8 DEF Disconnect, Connected
  <2> QED BY <1>0, <2>1, ShownAlone
<1> QED BY <1>2, <1>3, <1>4, <1>5, <1>6, <1>7, <1>8 DEF Person

LEMMA SurroundingsShown ==
  ASSUME IInv, TypeOK',
         \/ TimeoutJob \/ ExpiryJob \/ GrowStale \/ FallDue
         \/ \E t \in Tasks, i \in Instances : OfflineTimer(t, i)
         \/ \E i \in Instances : Restart(i)
  PROVE  Shown'
<1> USE DEF row, around
<1>0. up \subseteq Instances /\ mishaps >= mishaps /\ tasks \in [Tasks -> TaskType]
  BY DEF IInv, Sound, TypeOK, TaskType
<1>1. ASSUME NEW t \in Tasks, NEW task, Begin(t, task), ~Trusts(task),
             UNCHANGED <<presence, origin, raced, mishaps, sockets>>
      PROVE  Shown'
  <2>1. /\ tasks'[t] = task /\ \A u \in Tasks \ {t} : Stays(u)
        /\ tasks[t].op = "idle" /\ (Connected' <=> Connected)
    BY <1>0, <1>1, TaskTypes DEF Begin, Free, Stays, Connected
  <2> QED BY <1>0, <1>1, <2>1, OwnShown DEF Looks
<1>2. CASE TimeoutJob
  <2> PICK t \in Tasks, i \in up : MarkStaleOnlineAsAway(t, i)
    BY <1>2 DEF TimeoutJob
  <2> DEFINE task == Task("mark", i, "away", "job")
  <2>1. task \in TaskType /\ task.op = "mark"
    BY <1>0, TaskTypes, TaskFields DEF Ops, Presences, Writers
  <2>2. /\ tasks' = Overtake(t, task) /\ presence' = "away"
        /\ UNCHANGED <<sockets, mishaps, raced>>
    BY DEF MarkStaleOnlineAsAway, StaleAway
  <2> HIDE DEF task
  <2> QED BY <1>0, <2>1, <2>2, OvertakingShown
<1>3. CASE ExpiryJob
  BY <1>0, <1>1, <1>3, TaskFields DEF ExpiryJob, FindExpiredAway, Trusts
<1>4. CASE (GrowStale \/ FallDue) \/ \E i \in Instances : Restart(i)
  <2>1. UNCHANGED <<presence, origin, raced, tasks, mishaps>> /\ (Connected' => Connected)
    BY <1>4 DEF GrowStale, FallDue, Restart, Connected
  <2> QED BY <1>0, <2>1, ShownAlone
<1>5. CASE \E t \in Tasks, i \in Instances : OfflineTimer(t, i)
  BY <1>1, <1>5, TaskFields DEF OfflineTimer, Trusts
<1> QED BY <1>2, <1>3, <1>4, <1>5

LEMMA RunShown ==
  ASSUME IInv, TypeOK', NEW t \in Tasks, Run(t)
  PROVE  Shown'
<1> USE DEF row, around
<1>0. /\ Fits(tasks[t]) /\ tasks \in [Tasks -> TaskType] /\ mishaps \in Nat /\ mishaps' \in Nat
      /\ Idle \in TaskType /\ Idle.op = "idle"
  BY TaskTypes DEF IInv, Sound, InFlight, TypeOK, TaskType
<1>1. CASE \/ \E ok \in BOOLEAN : AskMark(t, ok) \/ ClearMark(t, ok)
           \/ TouchLastSeen(t) \/ ReadPresence(t) \/ FetchSockets(t)
  <2>1. /\ \A u \in Tasks \ {t} : tasks'[u] = tasks[u]
        /\ UNCHANGED <<presence, origin, raced, sockets>> /\ mishaps' >= mishaps
    BY <1>0, <1>1 DEF AskMark, Ask, ClearMark, TouchLastSeen, ReadPresence, FetchSockets, Redis,
                      Then, Done
  <2>2. (\A u \in Tasks \ {t} : Stays(u)) /\ (Connected' <=> Connected)
    BY <2>1 DEF Stays, Connected
  <2>3. (Trusts(tasks'[t]) => Trusts(tasks[t]) \/ ~Connected)
        /\ (presence = "offline" /\ Looks(tasks[t]) => Looks(tasks'[t]))
    <3>1. CASE \E ok \in BOOLEAN : AskMark(t, ok)
      <4>1. tasks[t].op = "ask" /\ tasks'[t].by = tasks[t].by
        BY <1>0, <3>1 DEF AskMark, Ask, Then, TaskType
      <4> QED BY <1>0, <4>1 DEF Fits, Trusts, Looks
    <3>2. CASE \E ok \in BOOLEAN : ClearMark(t, ok)
      <4>1. /\ tasks[t].op = "clear" /\ tasks'[t].op = "write" /\ tasks'[t].by = tasks[t].by
            /\ tasks'[t].basis = tasks[t].basis
        BY <1>0, <3>2 DEF ClearMark, Then, TaskType
      <4> QED BY <4>1 DEF Trusts, Looks
    <3>3. CASE TouchLastSeen(t)
      <4>1. tasks[t].op = "touch" /\ tasks'[t].op = "idle"
        BY <1>0, <3>3 DEF TouchLastSeen, Done
      <4> QED BY <4>1 DEF Trusts, Looks
    <3>4. CASE ReadPresence(t)
      <4>1. /\ tasks[t].op = "restore" /\ tasks'[t].by = tasks[t].by
            /\ presence = "offline" => tasks'[t].op = "clear"
        BY <1>0, <3>4 DEF ReadPresence, TaskType
      <4> QED BY <1>0, <4>1 DEF Fits, Trusts, Looks
    <3>5. CASE FetchSockets(t)
      <4>1. tasks[t].op = "offline" /\ (tasks'[t].op = "idle" \/ ~Connected)
        BY <1>0, <3>5 DEF FetchSockets, Done
      <4> QED BY <4>1 DEF Trusts, Looks
    <3> QED BY <1>1, <3>1, <3>2, <3>3, <3>4, <3>5
  <2> QED BY <2>1, <2>2, <2>3, OwnShown
<1>2. CASE \E ok \in BOOLEAN : MarkAway(t, ok)
  <2>1. /\ tasks' = Overtake(t, Idle) /\ tasks[t].op = "mark" /\ Race(t)
        /\ UNCHANGED <<presence, origin, sockets>> /\ mishaps' >= mishaps
    BY <1>0, <1>2 DEF MarkAway, Redis
  <2>2. raced \subseteq raced' /\ ~Looks(tasks[t])
    BY <2>1, Racing DEF IInv, Sound, Looks
  <2> QED BY <1>0, <2>1, <2>2, OvertakingShown
<1>3. CASE WritePresence(t)
  <2>1. /\ tasks' = Overtake(t, Idle) /\ tasks[t].op = "write" /\ Race(t)
        /\ UNCHANGED <<sockets, mishaps>> /\ mishaps' >= mishaps
    BY <1>0, <1>3 DEF WritePresence, Write
  <2>2. raced \subseteq raced'
    BY <2>1, Racing DEF IInv, Sound
  <2>3. /\ tasks[t].by = "user" => origin' = "user"
        /\ tasks[t].by \in {"heartbeat", "connection"} => presence' = "online"
    BY <1>0, <1>3, <2>1 DEF WritePresence, Write, WantedPresence, UpdatePresence, SetAwayState, Fits
  <2>4. "timer" \notin raced' /\ mishaps' = 0 /\ NobodyCame /\ tasks[t].by = "timer" => ~Connected
    BY <2>1, Racing DEF IInv, Sound, NobodyCame, Trusts
  <2>5. tasks[t].by \in {"user", "heartbeat", "connection", "timer"}
    BY <1>0, <2>1 DEF Fits
  <2> QED BY <1>0, <2>1, <2>2, <2>3, <2>4, <2>5, OvertakingShown
<1>4. CASE RewritePresence(t)
  <2>1. /\ tasks' = Overtake(t, Idle) /\ tasks[t].op = "rewrite" /\ Race(t)
        /\ presence' = tasks[t].want
        /\ UNCHANGED <<sockets, mishaps>> /\ mishaps' >= mishaps
    BY <1>0, <1>4 DEF RewritePresence, UpdatePresence
  <2>2. raced \subseteq raced' /\ presence' # "offline"
    BY <1>0, <2>1, Racing DEF IInv, Sound, Fits
  <2> QED BY <1>0, <2>1, <2>2, OvertakingShown
<1>5. CASE ExpireAway(t)
  <2>1. /\ tasks' = Overtake(t, Idle) /\ tasks[t].op = "expire" /\ Race(t)
        /\ presence' # "offline" \/ (presence' = presence /\ origin' = origin)
        /\ UNCHANGED <<sockets, mishaps>> /\ mishaps' >= mishaps
    BY <1>0, <1>5 DEF ExpireAway, ClearAwayState
  <2>2. raced \subseteq raced' /\ ~Looks(tasks[t])
    BY <2>1, Racing DEF IInv, Sound, Looks
  <2> QED BY <1>0, <2>1, <2>2, OvertakingShown
<1> QED BY <1>1, <1>2, <1>3, <1>4, <1>5 DEF Run

-----------------------------------------------------------------------------
(* The invariant is one. *)

LEMMA InitIInv ==
  Init => IInv
<1> SUFFICES ASSUME Init PROVE IInv
  OBVIOUS
<1>1. tasks \in [Tasks -> TaskType] /\ \A t \in Tasks : tasks[t].op = "idle"
  BY TaskTypes DEF Init
<1>2. TypeOK
  <2>1. overridden \in BOOLEAN /\ raced \subseteq {"timer", "other"} /\ markKept \in BOOLEAN
    BY Zenon DEF Init
  <2>2. requests \in 0 .. MaxRequests /\ mishaps \in 0 .. MaxMishaps
    BY PresenceAssumption DEF Init
  <2>3. presence \in Presences /\ origin \in Writers \cup {"session"}
    BY DEF Init, Presences, Writers
  <2> QED BY <1>1, <2>1, <2>2, <2>3 DEF Init, TypeOK, TaskType
<1>3. Straight
  BY <1>1 DEF Init, Straight, MarkIsTheJobs, AwayIsTended, Grounded
<1>4. NobodyCame /\ Attended
  BY <1>1 DEF Init, NobodyCame, Attended, Trusts, Connected
<1>5. InFlight
  BY <1>1, TaskTypes DEF Init, InFlight, Fits
<1> QED BY <1>2, <1>3, <1>4, <1>5 DEF IInv, Sound, Apart, Shown

LEMMA NextIInv ==
  IInv /\ [Next]_vars => IInv'
<1> SUFFICES ASSUME IInv, [Next]_vars PROVE IInv'
  OBVIOUS
<1>1. TypeOK'
  BY NextTypes DEF IInv, Sound
<1>2. CASE UNCHANGED vars
  <2>1. Sound' /\ Apart'
    BY <1>1, <1>2, IdleStep DEF vars
  <2>2. mishaps' >= mishaps /\ (Connected' <=> Connected)
    BY <1>2 DEF IInv, Sound, TypeOK, vars, Connected
  <2>3. UNCHANGED <<presence, origin, raced, tasks>>
    BY <1>2 DEF vars
  <2>4. Shown'
    BY <1>1, <2>2, <2>3, ShownAlone
  <2> QED BY <2>1, <2>4 DEF IInv
<1>3. ASSUME NEW t \in Tasks, Run(t) PROVE Sound' /\ Apart' /\ Shown'
  BY <1>1, <1>3, MoveInv, MarkAwayInv, WriteInv, RewriteInv, ExpireInv, RunShown DEF Run
<1>4. CASE Mishap
  BY <1>1, <1>4, MishapInv DEF IInv, Apart, Shown
<1> QED BY <1>1, <1>2, <1>3, <1>4, PersonInv, SurroundingsInv, PersonShown, SurroundingsShown
        DEF Next, IInv

THEOREM Invariance ==
  Spec => []IInv
<1> QED BY InitIInv, NextIInv, PTL DEF Spec

(* Whatever handlers and jobs cross and whatever stops, every variable keeps to its type: no
   task writes 'absence' where a presence belongs, and no mark is held by nobody. *)
THEOREM TypeCorrect ==
  Spec => []TypeOK
<1>1. IInv => TypeOK
  BY DEF IInv, Sound
<1> QED BY <1>1, Invariance, PTL

(* With any number of tabs, instances and handlers in flight: the server replaces what
   somebody who is there chose, and an 'away' that nobody chose lacks the mark that lets
   activity lift it, only where two writers crossed, after a mishap, or - the choice alone -
   when PATCH /me left a mark on it; and who is connected stays 'offline' only by his own
   choice or log-out, when the timer wrote after a tab had come, or after a mishap. *)
THEOREM ChoicesAndJobsApart ==
  Spec => []PresenceIsTheirs
<1>1. IInv => ChoiceLostNeedsRace
  BY DEF IInv, Apart, Straight, ChoiceLostNeedsRace
<1>2. IInv => JobAwayIsMarked
  BY TaskTypes DEF IInv, Apart, Straight, AwayIsTended, JobAwayIsMarked, AtRest
<1>3. IInv => PresentIsShown
  BY TaskTypes DEF IInv, Shown, Attended, Looks, PresentIsShown, AtRest
<1> QED BY <1>1, <1>2, <1>3, Invariance, PTL DEF PresenceIsTheirs
===============================================================================
