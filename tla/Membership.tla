----------------------------- MODULE Membership -----------------------------
(***************************************************************************)
(* Who is in a conversation and what they may do there: direct conversations, *)
(* a channel with its settings, its join requests and its counter of members  *)
(* (services/conversation, channel and message, and the trigger on            *)
(* conversation_members).                                                     *)
(*                                                                         *)
(* A request is the list of the statements it has still to run, with an await *)
(* between any two.  A check is a statement: what it found may have changed   *)
(* when the next one runs.  Any statement may be the last: nothing is rolled  *)
(* back.                                                                      *)
(*                                                                         *)
(* Abstracted: names, topics, mutes, pins and the other personal settings,    *)
(* groups (a channel without settings nor requests), games (they post as a    *)
(* poll does, and in direct conversations only), forward (a send for each     *)
(* conversation it is for), and the news.                                     *)
(***************************************************************************)
EXTENDS Naturals, Sequences, FiniteSets

CONSTANTS
  Users,
  Directs,       \* direct conversations that may be created
  Channel,
  Asks,          \* join requests that may be created
  Granted,       \* the roles that a change of role gives
  Slots,         \* requests in flight at once
  MaxRequests, MaxMishaps,   \* bounds: requests of the run, requests cut short
  None

Convs == Directs \cup {Channel}
Roles == {"owner", "admin", "moderator", "member", "viewer"}
Modes == {"open", "request", "invite_only"}

ASSUME MembershipAssumption ==
  /\ IsFiniteSet(Users) /\ Channel \notin Directs /\ Granted \subseteq Roles
  /\ None \notin Users \cup Convs \cup Asks \cup Roles \cup Modes \cup {"direct", "channel"}
  /\ MaxRequests \in Nat /\ MaxMishaps \in Nat

VARIABLES
  made,        \* conversations
  role,        \* role[c][u]: the role in the row of conversation_members, None without row
  in,          \* in[c]: members that have not left
  settings,    \* channel_settings: exists, mode (join_mode), count (member_count)
  readOnly,    \* conversations with is_read_only
  asks,        \* asks[k]: channel_join_requests
  requests,    \* requests[s]: see Idle
  started, mishaps,
  lapped,      \* history: the last change of members overlapped another
  crossed,     \* history: pairs whose requests for a conversation, or to join, overlapped
  enlarged,    \* history: direct conversations to which somebody was added once they were open
  touched,     \* history: requests whose author's place in the conversation, or is_read_only, changed
  failed       \* history: join requests whose review was cut short

members == <<role, in>>
channel == <<settings, readOnly, asks>>
vars == <<made, members, channel, requests, started, mishaps, lapped, crossed, enlarged, touched, failed>>

(* A request: what it has to run, who makes it and for whom, the conversation, the role,
   mode or verdict it carries (of one that opens a conversation, its type), the join
   request, and the members that it has counted. *)
Idle == [todo |-> <<>>, by |-> None, who |-> None, conv |-> None, arg |-> None, ask |-> None,
         n |-> 0, lap |-> FALSE]

AddMember == <<"count", "add">>
Kinds == [direct |-> <<"findDirect", "create", "countOwner", "addOwner", "count", "add">>,
          channel |-> <<"create", "settings", "countOwner", "addOwner", "count", "add">>,
          invite |-> <<"manage", "count", "add">>,
          expel |-> <<"manage", "count", "leave">>,
          leave |-> <<"count", "leave">>,
          grant |-> <<"administer", "setRole">>,
          change |-> <<"setRole">>,
          restrict |-> <<"administer", "setReadOnly">>,
          mode |-> <<"manage", "setMode">>,
          join |-> <<"notMember", "byMode">>,
          review |-> <<"manage", "pending", "review">>,
          post |-> <<"member", "writable", "insert">>,
          poll |-> <<"member", "insertPoll">>]

TypeOK ==
  /\ made \subseteq Convs
  /\ role \in [Convs -> [Users -> Roles \cup {None}]] /\ in \in [Convs -> SUBSET Users]
  /\ \A c \in Convs : in[c] \subseteq {u \in Users : role[c][u] # None} /\ ((\E u \in Users : role[c][u] # None) => c \in made)
  /\ settings \in [exists : BOOLEAN, mode : Modes, count : 0..Cardinality(Users)]
  /\ readOnly \subseteq made
  /\ asks \in [Asks -> [user : Users \cup {None}, status : {"none", "pending", "approved", "rejected"}]]
  /\ \A s \in Slots : /\ {requests[s].by, requests[s].who} \subseteq Users \cup {None}
                      /\ requests[s].conv \in Convs \cup {None}
                      /\ requests[s].n \in 0..Cardinality(Users)
  /\ started \in 0..MaxRequests /\ mishaps \in 0..MaxMishaps /\ lapped \in BOOLEAN
  /\ crossed \subseteq {{u, v} : u, v \in Users} /\ enlarged \subseteq Directs
  /\ touched \subseteq Slots /\ failed \subseteq Asks

Init ==
  /\ made = {} /\ readOnly = {} /\ lapped = FALSE
  /\ crossed = {} /\ enlarged = {} /\ touched = {} /\ failed = {}
  /\ role = [c \in Convs |-> [u \in Users |-> None]] /\ in = [c \in Convs |-> {}]
  /\ settings = [exists |-> FALSE, mode |-> "open", count |-> 0]
  /\ asks = [k \in Asks |-> [user |-> None, status |-> "none"]]
  /\ requests = [s \in Slots |-> Idle] /\ started = 0 /\ mishaps = 0

-----------------------------------------------------------------------------
Busy(s) == requests[s].todo # <<>>
At(s, name) == Busy(s) /\ Head(requests[s].todo) = name
Rest(s) == Tail(requests[s].todo)

Rank(u, c) == IF u \in in[c] THEN role[c][u] ELSE None
Admins == {"owner", "admin"}
Managers == Admins \cup {"moderator"}
Writes(u, c) == u \in in[c] /\ (c \in readOnly => role[c][u] \in Admins)

Begin(s, kind, c, u, v, arg, ask) ==
  LET rivals == {t \in Slots : /\ Busy(t) /\ kind \in {"direct", "join"}
                               /\ {requests[t].by, requests[t].who} = {u, v}}
  IN
  /\ ~Busy(s) /\ s = (CHOOSE t \in Slots : ~Busy(t))
  /\ started < MaxRequests /\ started' = started + 1
  /\ requests' = [requests EXCEPT ![s] = [Idle EXCEPT
       !.todo = Kinds[kind], !.conv = c, !.by = u, !.who = v, !.arg = arg, !.ask = ask]]
  /\ crossed' = crossed \cup {{u, v} : t \in rivals} /\ touched' = touched \ {s}
  /\ UNCHANGED <<made, members, channel, mishaps, lapped, enlarged, failed>>

(* A channel is found through its settings, a direct conversation by who is or has been in
   it; what is asked of a conversation does not look at its type. *)
Reaches(u, c) == IF c = Channel THEN settings.exists ELSE role[c][u] # None

CreateDirect(s, u, v) == u # v /\ Begin(s, "direct", None, u, v, "direct", None)
CreateChannel(s, u, v) ==
  Channel \notin made /\ u # v /\ (\A t \in Slots : requests[t].conv # Channel)
  /\ Begin(s, "channel", Channel, u, v, "channel", None)
AddMembers(s, c, u, v) == Reaches(u, c) /\ Begin(s, "invite", c, u, v, None, None)
Remove(s, c, u, v) ==
  Reaches(u, c) /\ Begin(s, IF u = v THEN "leave" ELSE "expel", c, u, v, None, None)
UpdateMember(s, c, u, v, r) ==
  Reaches(u, c) /\ Begin(s, IF u = v THEN "change" ELSE "grant", c, u, v, r, None)
Update(s, c, u) == Reaches(u, c) /\ Begin(s, "restrict", c, u, u, None, None)
UpdateSettings(s, u, mode) == settings.exists /\ Begin(s, "mode", Channel, u, u, mode, None)
Join(s, u) == settings.exists /\ Begin(s, "join", Channel, u, u, None, None)
ReviewJoinRequest(s, u, k, verdict) ==
  asks[k].status = "pending" /\ Begin(s, "review", Channel, u, asks[k].user, verdict, k)
Send(s, c, u) == Reaches(u, c) /\ Begin(s, "post", c, u, u, None, None)
CreatePoll(s, c, u) == Reaches(u, c) /\ Begin(s, "poll", c, u, u, None, None)

-----------------------------------------------------------------------------
(* Slot s goes on as r; nothing left to run ends the request. *)
Continue(s, r) == requests' = [requests EXCEPT ![s] = IF r.todo = <<>> THEN Idle ELSE r]
Go(s) == Continue(s, [requests[s] EXCEPT !.todo = Rest(s)])
history == <<lapped, crossed, enlarged, touched>>
(* The requests of them about c that are in flight see it change. *)
Touch(c, them) ==
  touched' = touched \cup {t \in Slots : Busy(t) /\ requests[t].conv = c /\ requests[t].by \in them}

(* A statement that only reads: the request goes on if it finds what it needs. *)
Check(s, name, ok) ==
  /\ At(s, name) /\ (IF ok THEN Go(s) ELSE Continue(s, Idle))
  /\ UNCHANGED <<made, members, channel, history>>

FindDirectBetween(s) ==
  Check(s, "findDirect", \A d \in Directs : ~({requests[s].by, requests[s].who} \subseteq in[d]))
RequireManageRole(s) == Check(s, "manage", Rank(requests[s].by, requests[s].conv) \in Managers)
RequireRole(s) == Check(s, "administer", Rank(requests[s].by, requests[s].conv) \in Admins)
NotMember(s) == Check(s, "notMember", requests[s].by \notin in[Channel])
Pending(s) == Check(s, "pending", asks[requests[s].ask].status = "pending")
PendingOf(u) == {k \in Asks : asks[k] = [user |-> u, status |-> "pending"]}
FindPendingRequest(s) == Check(s, "noPending", PendingOf(requests[s].by) = {})

Create(s) ==
  LET r == requests[s] IN
  /\ At(s, "create")
  /\ \E c \in (IF r.conv = None THEN Directs ELSE {Channel}) \ made :
       /\ made' = made \cup {c}
       /\ Continue(s, [r EXCEPT !.todo = Rest(s), !.conv = c])
  /\ UNCHANGED <<members, channel, history>>

CreateSettings(s) ==
  /\ At(s, "settings") /\ Go(s)
  /\ \E mode \in Modes : settings' = [exists |-> TRUE, mode |-> mode, count |-> 0]
  /\ UNCHANGED <<made, members, readOnly, asks, history>>

(* addMember and removeMember write the row, which locks it, and the trigger counts the
   members it sees: those of the transactions that have committed, and its own. *)
Target(r) == IF Head(Tail(r.todo)) = "addOwner" THEN r.by ELSE r.who
Committing(t) == At(t, "add") \/ At(t, "addOwner") \/ At(t, "leave")
Changes(t) == IF At(t, "addOwner") THEN requests[t].by ELSE requests[t].who

Count(s) ==
  LET r == requests[s]
      others == {t \in Slots \ {s} : Committing(t) /\ requests[t].conv = r.conv}
      leaving == Head(Rest(s)) = "leave"
      after == IF leaving THEN in[r.conv] \ {r.who} ELSE in[r.conv] \cup {Target(r)}
  IN
  /\ At(s, "count") \/ At(s, "countOwner")
  /\ \A t \in others : Changes(t) # Target(r)
  /\ IF leaving /\ r.who \notin in[r.conv] THEN Continue(s, Idle)
     ELSE requests' = [t \in Slots |->
            IF t = s THEN [r EXCEPT !.todo = Rest(s), !.n = Cardinality(after), !.lap = others # {}]
            ELSE [requests[t] EXCEPT !.lap = @ \/ t \in others]]
  /\ UNCHANGED <<made, members, channel, history>>

(* ... and commits, with the counter of the channel, if it has its settings. *)
Commit(s, u, after, newRole, n) ==
  LET r == requests[s] IN
  /\ Go(s)
  /\ in' = [in EXCEPT ![r.conv] = after]
  /\ role' = [role EXCEPT ![r.conv][u] = newRole]
  /\ IF r.conv = Channel /\ settings.exists
     THEN settings' = [settings EXCEPT !.count = n] /\ lapped' = r.lap
     ELSE UNCHANGED <<settings, lapped>>
  /\ Touch(r.conv, {u}) /\ UNCHANGED <<made, readOnly, asks, crossed>>

(* An upsert: who had left comes back, and whoever is in gets the new role. *)
Enter(s, u, newRole, n) ==
  LET r == requests[s] IN
  /\ Commit(s, u, in[r.conv] \cup {u}, newRole, n)
  /\ enlarged' = IF r.arg = "direct" THEN enlarged ELSE enlarged \cup ({r.conv} \cap Directs)

(* A trigger that adds one. *)
AddSumandoUno(s) == At(s, "add") /\ Enter(s, requests[s].who, "member", settings.count + 1)

Add(s) == At(s, "add") /\ Enter(s, requests[s].who, "member", requests[s].n)
AddOwner(s) == At(s, "addOwner") /\ Enter(s, requests[s].by, "owner", requests[s].n)

Depart(s, n) ==
  LET r == requests[s] IN
  /\ At(s, "leave") /\ Commit(s, r.who, in[r.conv] \ {r.who}, role[r.conv][r.who], n)
  /\ UNCHANGED enlarged

(* A trigger on inserts only. *)
LeaveSinDisparador(s) == Depart(s, settings.count)

Leave(s) == Depart(s, requests[s].n)

SetRole(s) ==
  LET r == requests[s] IN
  /\ At(s, "setRole") /\ Go(s)
  /\ role' = IF r.who \in in[r.conv] THEN [role EXCEPT ![r.conv][r.who] = r.arg] ELSE role
  /\ Touch(r.conv, {r.who}) /\ UNCHANGED <<made, in, channel, lapped, crossed, enlarged>>

SetReadOnly(s) ==
  LET c == requests[s].conv IN
  /\ At(s, "setReadOnly") /\ Go(s) /\ readOnly' \in {readOnly \cup {c}, readOnly \ {c}}
  /\ Touch(c, Users) /\ UNCHANGED <<made, members, settings, asks, lapped, crossed, enlarged>>

SetMode(s) ==
  /\ At(s, "setMode") /\ Go(s) /\ settings' = [settings EXCEPT !.mode = requests[s].arg]
  /\ UNCHANGED <<made, members, readOnly, asks, history>>

(* join: in at once, by a request, or not at all. *)
ByMode(s) ==
  /\ At(s, "byMode")
  /\ Continue(s, [requests[s] EXCEPT !.todo =
       CASE settings.mode = "open" -> AddMember
         [] settings.mode = "request" -> <<"noPending", "ask">>
         [] OTHER -> <<>>])
  /\ UNCHANGED <<made, members, channel, history>>

CreateJoinRequest(s) ==
  LET free == {k \in Asks : asks[k].status = "none"} IN
  /\ At(s, "ask") /\ Go(s) /\ free # {}
  /\ asks' = [asks EXCEPT ![CHOOSE k \in free : TRUE] = [user |-> requests[s].by, status |-> "pending"]]
  /\ UNCHANGED <<made, members, settings, readOnly, history>>

(* An update of the pending row only: of two reviews the first one counts. *)
Review(s) ==
  LET r == requests[s]
      first == asks[r.ask].status = "pending"
  IN
  /\ At(s, "review")
  /\ asks' = IF first THEN [asks EXCEPT ![r.ask].status = r.arg] ELSE asks
  /\ Continue(s, [r EXCEPT !.todo = IF first /\ r.arg = "approved" THEN AddMember ELSE <<>>])
  /\ UNCHANGED <<made, members, settings, readOnly, history>>

(* send reads the role, then the conversation, and then writes the message. *)
GetMember(s) ==
  LET r == requests[s] IN
  /\ At(s, "member")
  /\ Continue(s, [r EXCEPT !.todo = IF r.by \in in[r.conv] THEN Rest(s) ELSE <<>>, !.arg = Rank(r.by, r.conv)])
  /\ UNCHANGED <<made, members, channel, history>>

(* Without looking at is_read_only. *)
WritableSiempre(s) == Check(s, "writable", TRUE)

Writable(s) == Check(s, "writable", requests[s].conv \in readOnly => requests[s].arg \in Admins)

Insert(s) == Check(s, "insert", TRUE)

(* createPoll reads the member only: nothing there looks at is_read_only. *)
InsertPoll(s) == Check(s, "insertPoll", TRUE)

(* A statement fails or the instance stops. *)
Fail(s) ==
  /\ Busy(s) /\ mishaps < MaxMishaps /\ mishaps' = mishaps + 1
  /\ Continue(s, Idle) /\ failed' = failed \cup ({requests[s].ask} \ {None})
  /\ UNCHANGED <<made, members, channel, started, history>>

Arrive(s) ==
  \E u, v \in Users :
    \/ CreateDirect(s, u, v) \/ CreateChannel(s, u, v)
    \/ \E c \in Convs : \/ AddMembers(s, c, u, v) \/ Remove(s, c, u, v)
                        \/ \E r \in Granted : UpdateMember(s, c, u, v, r)
                        \/ u = v /\ (Update(s, c, u) \/ Send(s, c, u) \/ CreatePoll(s, c, u))
    \/ \E k \in Asks, verdict \in {"approved", "rejected"} : ReviewJoinRequest(s, u, k, verdict)
    \/ u = v /\ (Join(s, u) \/ \E mode \in Modes : UpdateSettings(s, u, mode))

Statement(s) ==
  \/ FindDirectBetween(s) \/ RequireManageRole(s) \/ RequireRole(s) \/ NotMember(s) \/ Pending(s)
  \/ FindPendingRequest(s) \/ Create(s) \/ CreateSettings(s) \/ Count(s) \/ Add(s) \/ AddOwner(s)
  \/ Leave(s) \/ SetRole(s) \/ SetReadOnly(s) \/ SetMode(s) \/ ByMode(s) \/ CreateJoinRequest(s)
  \/ Review(s) \/ GetMember(s) \/ Writable(s) \/ Insert(s) \/ InsertPoll(s)

Next ==
  \E s \in Slots : Arrive(s) \/ (Statement(s) /\ UNCHANGED <<started, mishaps, failed>>) \/ Fail(s)

Spec == Init /\ [][Next]_vars

-----------------------------------------------------------------------------
(* member_count is the number of members, unless the last change of members overlapped
   another: each one counts without the other, and the last to commit is one off. *)
CountIsRight == settings.exists /\ ~lapped => settings.count = Cardinality(in[Channel])

(* Two people are together in one direct conversation, unless they opened it at once or
   somebody was added to an open one: adding does not look for the other. *)
OneDirectEach ==
  \A d, e \in Directs \ enlarged :
    d # e => \A u, v \in in[d] \cap in[e] : u # v => {u, v} \in crossed

(* A user has one pending request to join, unless two requests to join overlapped. *)
OnePendingEach == \A u \in Users : Cardinality(PendingOf(u)) > 1 => {u} \in crossed

(* Who was let in is or has been in, unless the review was cut short half-way. *)
ApprovedAreIn ==
  \A k \in Asks : asks[k].status = "approved" =>
    \/ role[Channel][asks[k].user] # None \/ k \in failed
    \/ \E s \in Slots : requests[s].ask = k

RegistersAgree == CountIsRight /\ OneDirectEach /\ OnePendingEach /\ ApprovedAreIn

(* Who is not in posts nothing, and who may only read posts no message (a poll, yes), unless
   their place in the conversation or the setting changed while the request was under way. *)
PostsWereAllowed ==
  [][\A s \in Slots :
       /\ Insert(s) => Writes(requests[s].by, requests[s].conv) \/ s \in touched
       /\ InsertPoll(s) => requests[s].by \in in[requests[s].conv] \/ s \in touched]_vars
=============================================================================
