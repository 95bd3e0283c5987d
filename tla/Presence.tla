------------------------------ MODULE Presence ------------------------------
(***************************************************************************)
(* The presence of one account (socket.ts, config/presenceStore.ts, the jobs *)
(* presenceTimeout and awayExpiry, user.service.ts): the column in the       *)
(* database, the mark that says that an 'away' was set by the job and not by  *)
(* the person, and everybody who reads one and then writes the other.         *)
(*                                                                         *)
(* A task is one asynchronous handler or job run, at one of its awaits; what *)
(* a single statement does is one action.  Abstracted: the texts of an        *)
(* absence, the minutes (seen and absence say only what the statements ask),  *)
(* the 'presence:changed' news, and the other accounts of a job's batch,      *)
(* which it serves one by one and whose failures it keeps apart.              *)
(***************************************************************************)
EXTENDS Integers, FiniteSets

CONSTANTS
  Instances,     \* backend processes
  Sockets,       \* tabs of the account
  Tasks,         \* handlers and job runs in flight at once
  Choices,       \* what the person picks in Settings
  MaxRequests,   \* bound: requests of the person, log-ins and log-outs
  MaxMishaps     \* bound: stopped instances, failed statements, expired marks

Presences == {"online", "away", "busy", "dnd", "offline"}

ASSUME PresenceAssumption ==
  /\ Choices \subseteq Presences
  /\ "none" \notin Tasks \cup Instances /\ "redis" \notin Instances
  /\ MaxRequests \in Nat /\ MaxMishaps \in Nat

VARIABLES
  presence,   \* users.presence
  seen,       \* users.last_seen_at: "fresh", or "stale" for the timeout job
  absence,    \* users.away_until: "none", "set" (with an end or without), or "due"
  marks,      \* where the auto-away mark is held: "redis" or an instance's own Set
  sockets,    \* sockets[s]: the instance that serves s, or "none"
  timers,     \* instances with an offline timer for the account
  tasks,      \* tasks[t]: the handler or run t, Idle when there is none
  up,         \* running instances
  requests, mishaps,   \* the bounded counters
  origin,     \* history: who wrote the presence last
  overridden, \* history: the server replaced a choice of somebody who is there
  raced,      \* history: the timer or another wrote on the basis of what had changed
  markKept    \* history: a choice was made by PATCH /me, which leaves the mark behind

vars == <<presence, seen, absence, marks, sockets, timers, tasks, up, requests, mishaps,
          origin, overridden, raced, markKept>>
row == <<presence, seen, absence, origin, overridden, markKept>>
around == <<marks, sockets, timers>>

Task(op, i, want, by) == [op |-> op, at |-> i, want |-> want, by |-> by, basis |-> TRUE]
Idle == Task("idle", "none", "online", "job")

Ops == {"idle", "ask", "touch", "clear", "write", "restore", "rewrite", "offline", "mark", "expire"}

(* Whose task it is, and who may have written the row: the log-ins and log-outs too. *)
Writers == {"user", "heartbeat", "connection", "timer", "job"}

(* Where a task goes by what it found: a request of the person from when it has cleared the
   mark, the offline timer by who is connected and not by the row. *)
Holding(task) ==
  /\ task.op \in {"clear", "write", "rewrite", "mark", "expire"}
  /\ task.by # "timer" /\ (task.by = "user" => task.op = "write")

TypeOK ==
  /\ presence \in Presences
  /\ seen \in {"fresh", "stale"}
  /\ absence \in {"none", "set", "due"}
  /\ marks \subseteq Instances \cup {"redis"}
  /\ sockets \in [Sockets -> Instances \cup {"none"}]
  /\ timers \subseteq Instances
  /\ tasks \in [Tasks -> [op : Ops, at : Instances \cup {"none"},
                          want : Presences \cup {"absence"},
                          by : Writers, basis : BOOLEAN]]
  /\ up \subseteq Instances
  /\ requests \in 0..MaxRequests /\ mishaps \in 0..MaxMishaps
  /\ origin \in Writers \cup {"session"}
  /\ overridden \in BOOLEAN /\ raced \subseteq {"timer", "other"} /\ markKept \in BOOLEAN

(* Nobody is connected; the person may have left an absence behind. *)
Init ==
  /\ absence \in {"none", "set"}
  /\ presence = IF absence = "set" THEN "away" ELSE "offline"
  /\ origin = IF absence = "set" THEN "user" ELSE "timer"
  /\ seen = "fresh" /\ marks = {} /\ timers = {} /\ up = Instances
  /\ sockets = [s \in Sockets |-> "none"]
  /\ tasks = [t \in Tasks |-> Idle]
  /\ requests = 0 /\ mishaps = 0
  /\ overridden = FALSE /\ raced = {} /\ markKept = FALSE

Connected == \E s \in Sockets : sockets[s] # "none"

-----------------------------------------------------------------------------
(* The mark (presenceStore): in Redis, or in the instance's Set when Redis fails.  ok says
   whether Redis answers, and a failure counts as a mishap. *)
Redis(ok) == mishaps' = mishaps + (IF ok THEN 0 ELSE 1) /\ mishaps' <= MaxMishaps

markAutoAway(i, ok) == marks' = marks \cup {IF ok THEN "redis" ELSE i}

isAutoAway(i, ok) == IF ok THEN "redis" \in marks ELSE i \in marks

clearAutoAway(i, ok) == marks' = marks \ ({i} \cup IF ok THEN {"redis"} ELSE {})

(* EX hours after it was set, the key is gone. *)
MarkExpires ==
  /\ "redis" \in marks /\ mishaps < MaxMishaps
  /\ marks' = marks \ {"redis"} /\ mishaps' = mishaps + 1
  /\ UNCHANGED <<row, sockets, timers, tasks, up, requests, raced>>

-----------------------------------------------------------------------------
(* The statements.  Each of them overtakes what the other tasks have read. *)
Overtake(t, task) ==
  [u \in Tasks |-> IF u = t THEN task
                     ELSE [tasks[u] EXCEPT !.basis = @ /\ ~Holding(tasks[u])]]

(* The row is what the person chose in Settings. *)
Chosen == origin = "user" /\ presence \in {"away", "busy", "dnd"}

(* Somebody else replaces a choice of the person. *)
Override(p) ==
  /\ overridden' = (overridden \/ (Chosen /\ presence # p /\ mishaps = 0))
  /\ UNCHANGED markKept

(* updatePresence: the value, and the account was active now. *)
UpdatePresence(p, by) == presence' = p /\ origin' = by /\ seen' = "fresh" /\ UNCHANGED absence

(* setAwayState: away and absent; the last activity stays. *)
SetAwayState == presence' = "away" /\ origin' = "user" /\ absence' = "set" /\ UNCHANGED seen

(* clearAwayState, whatever the absence is by now: only an 'away' becomes 'online'. *)
ClearAwayState ==
  /\ presence' = IF presence = "away" THEN "online" ELSE presence
  /\ origin' = IF presence = "away" THEN "job" ELSE origin
  /\ absence' = "none" /\ UNCHANGED seen

-----------------------------------------------------------------------------
(* What starts a task, in a free slot, and what a single statement does. *)
Free(t, i) == tasks[t] = Idle /\ i \in up

Begin(t, task) == Free(t, task.at) /\ tasks' = [tasks EXCEPT ![t] = task]

Request ==
  /\ requests < MaxRequests /\ requests' = requests + 1
  /\ UNCHANGED <<around, up, mishaps, raced>>

(* PUT /me/presence and /me/away, user.service: first the mark, then the row. *)
SetPresence(t, i, p) == Begin(t, Task("clear", i, p, "user")) /\ Request /\ UNCHANGED row

SetAway(t, i) == Begin(t, Task("clear", i, "absence", "user")) /\ Request /\ UNCHANGED row

(* DELETE /me/away leaves the mark alone. *)
ClearAway ==
  /\ ClearAwayState /\ Request
  /\ tasks' = Overtake("none", Idle) /\ UNCHANGED <<overridden, markKept>>

(* PATCH or PUT /me may carry a presence, a choice like any other: but the mark stays. *)
UpdateProfile(p) ==
  /\ presence' = p /\ origin' = "user"
  /\ markKept' = (markKept \/ ("redis" \in marks /\ mishaps = 0))
  /\ Request /\ tasks' = Overtake("none", Idle) /\ UNCHANGED <<seen, absence, overridden>>

(* _createSession and logout write the presence themselves, whatever was chosen. *)
LogInOut(p) ==
  /\ UpdatePresence(p, "session") /\ Request
  /\ tasks' = Overtake("none", Idle) /\ UNCHANGED <<overridden, markKept>>

(* A tab connects: the handler joins its rooms, and goes on to restore the presence.  An
   offline timer that found nobody goes by what is no longer so. *)
Connect(t, s, i) ==
  /\ sockets[s] = "none" /\ Free(t, i)
  /\ tasks' = [u \in Tasks |->
                 IF u = t THEN Task("restore", i, "online", "connection")
                 ELSE [tasks[u] EXCEPT !.basis =
                        @ /\ ~(tasks[u].by = "timer" /\ tasks[u].op # "offline")]]
  /\ sockets' = [sockets EXCEPT ![s] = i]
  /\ UNCHANGED <<row, marks, timers, up, requests, mishaps, raced>>

(* A tab is gone: its instance gives it two seconds and a half. *)
Disconnect(s) ==
  /\ sockets[s] # "none"
  /\ timers' = timers \cup {sockets[s]}
  /\ sockets' = [sockets EXCEPT ![s] = "none"]
  /\ UNCHANGED <<row, marks, tasks, up, requests, mishaps, raced>>

OfflineTimer(t, i) ==
  /\ i \in timers /\ Begin(t, Task("offline", i, "offline", "timer"))
  /\ timers' = timers \ {i}
  /\ UNCHANGED <<row, marks, sockets, up, requests, mishaps, raced>>

(* presence:active, from a connected tab. *)
Heartbeat(t, s) ==
  /\ sockets[s] # "none" /\ Begin(t, Task("ask", sockets[s], "online", "heartbeat"))
  /\ UNCHANGED <<row, around, up, requests, mishaps, raced>>

(* The timeout job: one statement sets the idle account away, the mark comes next. *)
StaleAway(t, i, age, next) ==
  /\ presence = "online" /\ seen = age /\ Free(t, i)
  /\ presence' = "away" /\ origin' = "job"
  /\ tasks' = Overtake(t, next)
  /\ UNCHANGED <<seen, absence, overridden, markKept, around, up, requests, mishaps, raced>>

(* The job that compares the wrong way round. *)
MarkStaleAlReves(t, i) == StaleAway(t, i, "fresh", Task("mark", i, "away", "job"))

MarkStaleOnlineAsAway(t, i) == StaleAway(t, i, "stale", Task("mark", i, "away", "job"))

(* The expiry job finds the absence due. *)
FindExpiredAway(t, i) ==
  /\ absence = "due" /\ Begin(t, Task("expire", i, "online", "job"))
  /\ UNCHANGED <<row, around, up, requests, mishaps, raced>>

-----------------------------------------------------------------------------
(* The steps of a task. *)
Then(t, op) == tasks' = [tasks EXCEPT ![t].op = op]
Done(t) == tasks' = [tasks EXCEPT ![t] = Idle]

(* A write on a basis that is gone.  After a mishap it is not recorded: that excuses all. *)
Race(t) ==
  raced' = raced \cup IF tasks[t].basis \/ mishaps > 0 THEN {}
                     ELSE {IF tasks[t].by = "timer" THEN "timer" ELSE "other"}

(* The heartbeat asks whether the job set the 'away', and either restores 'online' or
   keeps the presence. *)
Ask(t, ok, lift) ==
  /\ tasks[t].op = "ask" /\ Redis(ok)
  /\ Then(t, IF lift THEN "clear" ELSE "touch")
  /\ UNCHANGED <<row, around, up, requests, raced>>

(* It lifts any 'away'. *)
AskMarkSinMarca(t, ok) == Ask(t, ok, presence = "away")

AskMark(t, ok) == Ask(t, ok, isAutoAway(tasks[t].at, ok))

TouchLastSeen(t) ==
  /\ tasks[t].op = "touch" /\ seen' = "fresh" /\ Done(t)
  /\ UNCHANGED <<presence, absence, origin, overridden, markKept, around, up, requests, mishaps,
                 raced>>

(* An explicit presence clears the mark first. *)
ClearMark(t, ok) ==
  /\ tasks[t].op = "clear" /\ Redis(ok)
  /\ clearAutoAway(tasks[t].at, ok) /\ Then(t, "write")
  /\ UNCHANGED <<row, sockets, timers, up, requests, raced>>

(* The timer may replace the choice of somebody who has left, the others of nobody. *)
Write(t, statement) ==
  /\ tasks[t].op = "write" /\ statement
  /\ IF tasks[t].by = "user" \/ (tasks[t].by = "timer" /\ ~Connected)
       THEN UNCHANGED <<overridden, markKept>>
       ELSE Override(tasks[t].want)
  /\ Race(t) /\ tasks' = Overtake(t, Idle)
  /\ UNCHANGED <<around, up, requests, mishaps>>

WantedPresence(t) == UpdatePresence(tasks[t].want, tasks[t].by)

(* An absence written as if it were a presence. *)
WritePresenceTalCual(t) == Write(t, WantedPresence(t))

WritePresence(t) ==
  Write(t, IF tasks[t].want = "absence" THEN SetAwayState ELSE WantedPresence(t))

(* The connection calls its instance's timer off and reads the presence: an 'offline'
   becomes 'online', anything else is written back as it was read. *)
ReadPresence(t) ==
  /\ tasks[t].op = "restore"
  /\ timers' = timers \ {tasks[t].at}
  /\ tasks' = [tasks EXCEPT ![t].op = IF presence = "offline" THEN "clear" ELSE "rewrite",
                            ![t].want = IF presence = "offline" THEN "online" ELSE presence]
  /\ UNCHANGED <<row, marks, sockets, up, requests, mishaps, raced>>

RewritePresence(t) ==
  /\ tasks[t].op = "rewrite"
  /\ UpdatePresence(tasks[t].want, IF tasks[t].want = presence THEN origin ELSE "connection")
  /\ Override(tasks[t].want) /\ Race(t) /\ tasks' = Overtake(t, Idle)
  /\ UNCHANGED <<around, up, requests, mishaps>>

(* The offline timer asks every instance who is connected. *)
FetchSockets(t) ==
  /\ tasks[t].op = "offline"
  /\ IF Connected THEN Done(t) ELSE Then(t, "clear")
  /\ UNCHANGED <<row, around, up, requests, mishaps, raced>>

MarkAway(t, ok) ==
  /\ tasks[t].op = "mark" /\ Redis(ok)
  /\ markAutoAway(tasks[t].at, ok) /\ Race(t) /\ tasks' = Overtake(t, Idle)
  /\ UNCHANGED <<row, sockets, timers, up, requests>>

ExpireAway(t) ==
  /\ tasks[t].op = "expire" /\ ClearAwayState
  /\ IF absence # "due" /\ presence = "away"
       THEN Override("online") ELSE UNCHANGED <<overridden, markKept>>
  /\ Race(t) /\ tasks' = Overtake(t, Idle)
  /\ UNCHANGED <<around, up, requests, mishaps>>

-----------------------------------------------------------------------------
(* A statement of a task, or its question to the other instances, fails.  Its handler logs
   it and gives up; the one of a connection that could not restore writes 'online'. *)
Fail(t) ==
  /\ mishaps < MaxMishaps /\ mishaps' = mishaps + 1
  /\ \/ tasks[t].op \in {"write", "touch", "offline", "expire"} /\ Done(t) /\ UNCHANGED timers
     \/ /\ tasks[t].op \in {"restore", "rewrite"}
        /\ tasks' = [tasks EXCEPT ![t].op = "clear", ![t].want = "online"]
        /\ timers' = timers \ {tasks[t].at}
  /\ UNCHANGED <<row, marks, sockets, up, requests, raced>>

(* An instance stops, through closeSocket or by a crash: its tabs, its timers, its Set and
   what it had in flight are gone. *)
Stop(i) ==
  /\ i \in up /\ mishaps < MaxMishaps
  /\ up' = up \ {i} /\ mishaps' = mishaps + 1
  /\ timers' = timers \ {i} /\ marks' = marks \ {i}
  /\ sockets' = [s \in Sockets |-> IF sockets[s] = i THEN "none" ELSE sockets[s]]
  /\ tasks' = [t \in Tasks |-> IF tasks[t].at = i THEN Idle ELSE tasks[t]]
  /\ UNCHANGED <<row, requests, raced>>

Restart(i) ==
  /\ i \in Instances \ up /\ up' = up \cup {i}
  /\ UNCHANGED <<row, around, tasks, requests, mishaps, raced>>

(* Time passes. *)
GrowStale ==
  /\ seen = "fresh" /\ seen' = "stale"
  /\ UNCHANGED <<presence, absence, origin, overridden, markKept, around, tasks, up, requests,
                 mishaps, raced>>

FallDue ==
  /\ absence = "set" /\ absence' = "due"
  /\ UNCHANGED <<presence, seen, origin, overridden, markKept, around, tasks, up, requests,
                 mishaps, raced>>

-----------------------------------------------------------------------------
Person ==
  \/ \E t \in Tasks, i \in up :
       \/ \E p \in Choices : SetPresence(t, i, p)
       \/ SetAway(t, i)
  \/ ClearAway
  \/ \E p \in Choices : UpdateProfile(p)
  \/ \E p \in {"online", "offline"} : LogInOut(p)
  \/ \E t \in Tasks, s \in Sockets :
       \/ \E i \in up : Connect(t, s, i)
       \/ Heartbeat(t, s)
  \/ \E s \in Sockets : Disconnect(s)

Run(t) ==
  \/ \E ok \in BOOLEAN : AskMark(t, ok) \/ ClearMark(t, ok) \/ MarkAway(t, ok)
  \/ TouchLastSeen(t) \/ WritePresence(t) \/ ReadPresence(t) \/ RewritePresence(t)
  \/ FetchSockets(t) \/ ExpireAway(t)

TimeoutJob == \E t \in Tasks, i \in up : MarkStaleOnlineAsAway(t, i)
ExpiryJob == \E t \in Tasks, i \in up : FindExpiredAway(t, i)
Mishap == MarkExpires \/ (\E t \in Tasks : Fail(t)) \/ (\E i \in Instances : Stop(i))

Next ==
  \/ Person \/ TimeoutJob \/ ExpiryJob \/ GrowStale \/ FallDue
  \/ \E t \in Tasks : Run(t)
  \/ \E t \in Tasks, i \in Instances : OfflineTimer(t, i)
  \/ Mishap
  \/ \E i \in Instances : Restart(i)

(* Handlers go on, timers fire, the jobs keep coming, time passes, and a stopped instance
   comes back. *)
Fairness ==
  /\ WF_vars(\E t \in Tasks : Run(t))
  /\ WF_vars(\E t \in Tasks, i \in Instances : OfflineTimer(t, i))
  /\ WF_vars(\E i \in Instances : Restart(i))
  /\ WF_vars(TimeoutJob) /\ WF_vars(GrowStale)

Spec == Init /\ [][Next]_vars /\ Fairness

-----------------------------------------------------------------------------
AtRest == \A t \in Tasks : tasks[t] = Idle

(* The heartbeat, a reconnection, the offline timer or the expiry job replace what somebody
   who is there chose in Settings only when they decided before the choice was written,
   after a mishap, or when PATCH /me had left the mark of the job on the choice. *)
ChoiceLostNeedsRace == overridden => raced # {} \/ mishaps > 0 \/ markKept

(* An 'away' that the person did not choose carries the mark that lets the next activity
   lift it, unless a mishap took the mark away or two writers crossed: without it the account
   stays away however active it is. *)
JobAwayIsMarked ==
  presence = "away" /\ origin # "user" /\ AtRest => "redis" \in marks \/ raced # {} \/ mishaps > 0

(* Who is connected is not left 'offline', except by his own choice or log-out, or when the
   timer wrote after a tab had come that it did not find. *)
PresentIsShown ==
  Connected /\ presence = "offline" /\ AtRest =>
    origin \in {"user", "session"} \/ "timer" \in raced \/ mishaps > 0

(* What was chosen, what the server set and who is there are told apart, whatever crosses. *)
PresenceIsTheirs == ChoiceLostNeedsRace /\ JobAwayIsMarked /\ PresentIsShown

(* Whoever leaves does not stay 'online' for ever: the timer says so, or, if its instance
   died with it, the timeout job. *)
NobodyLeftOnline == (~Connected) ~> (Connected \/ presence # "online")
=============================================================================
