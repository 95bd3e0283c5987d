--------------------------- MODULE CallSignalling ---------------------------
(***************************************************************************)
(* Voice and video calls among the members of a conversation, as the         *)
(* clients live them: each member's client (frontend stores/callStore.ts)   *)
(* and the call:* handlers of the socket server (socket.ts,                  *)
(* registerCallHandlers).                                                    *)
(*                                                                         *)
(* A client's events reach the server in order, and the server's reach a     *)
(* client in order.  Code runs to its next await in one step.                 *)
(*                                                                         *)
(* Abstracted: media, WebRTC negotiation, call:peers and call:media, on      *)
(* which only the tiles on the screen depend (whether a group call has any    *)
(* left is a free choice); names and timestamps; a second press on a button   *)
(* whose first press is still waiting for the microphone.  Every member has   *)
(* one client.  What goes to the database is in CallRecords, and what is       *)
(* assumed of the constants in Calls, that puts both together.                *)
(***************************************************************************)
EXTENDS Integers, Sequences, FiniteSets

CONSTANTS
  Users,       \* the members of the conversation
  Calls,       \* rows of calls
  GroupCalls,  \* those started from a group, which the same members may share
  MaxFaults,   \* bound on lost connections
  Nothing      \* no call

VARIABLES
  ui,          \* ui[u]: the status of u's callStore
  call,        \* call[u]: the call it is in
  incoming,    \* incoming[u]: the call it was told of
  timers,      \* timers[u]: calls with a ring timeout pending at u
  ringTimer,   \* ringTimer[u]: the timeout u can still clear
  accepting,   \* accepting[u]: calls u accepted and awaits the media for
  caller,      \* caller[c]: who started c
  opening,     \* calls whose startCall is at its awaits
  toServer,    \* toServer[u]: events emitted by u, in order
  toClient,    \* toClient[u]: events on their way to u, in order
  room,        \* room[c]: the users whose socket is in call:{c}
  joins,       \* call:accept handlers at fetchSockets
  faults       \* lost connections so far

clientVars == <<ui, call, incoming, timers, ringTimer, accepting, caller, opening>>
serverVars == <<room, joins>>
vars == <<clientVars, toServer, toClient, serverVars, faults>>

(* The caller is told; a callee counts who takes part. *)
IsGroup(u, c) == IF caller[c] = u THEN c \in GroupCalls ELSE Cardinality(Users) > 2
Callees(c) == Users \ {caller[c]}

(* Events, with the fields their receivers look at. *)
ToServer == [type: {"start", "accept", "reject", "busy", "cancel", "leave"}, call: Calls]
ToClient == [type: {"incoming"}, call: Calls]
              \cup [type: {"cancelled", "peer-joined", "peer-left", "declined", "busy"}]

TypeOK ==
  /\ ui \in [Users -> {"idle", "incoming", "outgoing", "active"}]
  /\ call \in [Users -> Calls \cup {Nothing}]
  /\ incoming \in [Users -> Calls \cup {Nothing}]
  /\ timers \in [Users -> SUBSET Calls]
  /\ ringTimer \in [Users -> Calls \cup {Nothing}]
  /\ accepting \in [Users -> SUBSET Calls]
  /\ caller \in [Calls -> Users \cup {Nothing}]
  /\ opening \subseteq Calls
  /\ toServer \in [Users -> Seq(ToServer)]
  /\ toClient \in [Users -> Seq(ToClient)]
  /\ room \in [Calls -> SUBSET Users]
  /\ joins \subseteq [user: Users, call: Calls, alive: BOOLEAN]
  /\ faults \in 0 .. MaxFaults

Init ==
  /\ ui = [u \in Users |-> "idle"]
  /\ call = [u \in Users |-> Nothing]
  /\ incoming = [u \in Users |-> Nothing]
  /\ timers = [u \in Users |-> {}]
  /\ ringTimer = [u \in Users |-> Nothing]
  /\ accepting = [u \in Users |-> {}]
  /\ caller = [c \in Calls |-> Nothing]
  /\ opening = {}
  /\ toServer = [u \in Users |-> <<>>]
  /\ toClient = [u \in Users |-> <<>>]
  /\ room = [c \in Calls |-> {}]
  /\ joins = {}
  /\ faults = 0

-----------------------------------------------------------------------------
(* The client. *)

Emit(u, msgs) == toServer' = [toServer EXCEPT ![u] = @ \o msgs]

Event(type, c) == [type |-> type, call |-> c]
News(type) == [type |-> type]

SetUi(u, s) == ui' = [ui EXCEPT ![u] = s]

(* _cleanup: status, call and incoming are left to whoever calls it. *)
Cleanup(u) ==
  /\ timers' = [timers EXCEPT ![u] = @ \ {ringTimer[u]}]
  /\ ringTimer' = [ringTimer EXCEPT ![u] = Nothing]

NoCleanup == UNCHANGED <<timers, ringTimer>>

(* startCall, to its first await: it is idle now. *)
StartCall(u, c) ==
  /\ ui[u] = "idle"
  /\ caller[c] = Nothing
  /\ caller' = [caller EXCEPT ![c] = u]
  /\ opening' = opening \cup {c}
  /\ UNCHANGED <<ui, call, incoming, timers, ringTimer, accepting, toServer,
                 toClient, serverVars, faults>>

(* The members, the media and the row are there: startCall rings, whatever the status
   has become meanwhile. *)
CallOpened(c) ==
  LET u == caller[c] IN
  /\ c \in opening
  /\ opening' = opening \ {c}
  /\ SetUi(u, "outgoing")
  /\ call' = [call EXCEPT ![u] = c]
  /\ Emit(u, <<Event("start", c)>>)
  /\ timers' = [timers EXCEPT ![u] = @ \cup {c}]
  /\ ringTimer' = [ringTimer EXCEPT ![u] = c]
  /\ UNCHANGED <<incoming, accepting, caller, toClient, serverVars, faults>>

(* The microphone is denied, there is nobody to call or a request fails: startCall's
   catch. *)
CallDenied(c) ==
  /\ c \in opening
  /\ opening' = opening \ {c}
  /\ Cleanup(caller[c])
  /\ SetUi(caller[c], "idle")
  /\ UNCHANGED <<call, incoming, accepting, caller, toServer, toClient, serverVars, faults>>

(* hangup, from the overlay or from the ring timeout. *)
HangUpFrom(u) ==
  LET c == call[u]
      cancel == IF ui[u] = "outgoing" THEN <<Event("cancel", c)>> ELSE <<>>
  IN  /\ c # Nothing
      /\ Emit(u, cancel \o <<Event("leave", c)>>)
      /\ SetUi(u, "idle")
      /\ call' = [call EXCEPT ![u] = Nothing]
      /\ incoming' = [incoming EXCEPT ![u] = Nothing]

Hangup(u) ==
  /\ ui[u] \in {"outgoing", "active"}
  /\ HangUpFrom(u)
  /\ Cleanup(u)
  /\ UNCHANGED <<accepting, caller, opening, toClient, serverVars, faults>>

(* A timeout that only goes away. *)
RingTimeoutSinColgar(u, c) ==
  /\ c \in timers[u]
  /\ timers' = [timers EXCEPT ![u] = @ \ {c}]
  /\ UNCHANGED <<ui, call, incoming, ringTimer, accepting, caller, opening, toServer,
                 toClient, serverVars, faults>>

(* The 35 s pass: the caller hangs up if it is still ringing, in whatever call. *)
RingTimeout(u, c) ==
  /\ c \in timers[u]
  /\ IF ui[u] = "outgoing"
       THEN /\ HangUpFrom(u)
            /\ timers' = [timers EXCEPT ![u] = @ \ {c, ringTimer[u]}]
            /\ ringTimer' = [ringTimer EXCEPT ![u] = Nothing]
       ELSE /\ timers' = [timers EXCEPT ![u] = @ \ {c}]
            /\ UNCHANGED <<ui, call, incoming, ringTimer, toServer>>
  /\ UNCHANGED <<accepting, caller, opening, toClient, serverVars, faults>>

(* acceptCall, to the await of the microphone. *)
AcceptCall(u) ==
  /\ ui[u] = "incoming"
  /\ incoming[u] # Nothing
  /\ accepting' = [accepting EXCEPT ![u] = @ \cup {incoming[u]}]
  /\ UNCHANGED <<ui, call, incoming, timers, ringTimer, caller, opening, toServer,
                 toClient, serverVars, faults>>

(* The rest of acceptCall, whatever happened to the call meanwhile. *)
MediaReady(u, c) ==
  /\ c \in accepting[u]
  /\ accepting' = [accepting EXCEPT ![u] = @ \ {c}]
  /\ SetUi(u, "active")
  /\ call' = [call EXCEPT ![u] = c]
  /\ incoming' = [incoming EXCEPT ![u] = Nothing]
  /\ Emit(u, <<Event("accept", c)>>)
  /\ NoCleanup
  /\ UNCHANGED <<caller, opening, toClient, serverVars, faults>>

(* rejectCall: it turns down the call it is being told of by now, if any. *)
RejectFrom(u) ==
  /\ IF incoming[u] = Nothing
       THEN UNCHANGED toServer
       ELSE Emit(u, <<Event("reject", incoming[u])>>)
  /\ Cleanup(u)
  /\ SetUi(u, "idle")
  /\ incoming' = [incoming EXCEPT ![u] = Nothing]

RejectCall(u) ==
  /\ ui[u] = "incoming"
  /\ RejectFrom(u)
  /\ UNCHANGED <<call, accepting, caller, opening, toClient, serverVars, faults>>

(* acceptCall's catch. *)
MediaDenied(u, c) ==
  /\ c \in accepting[u]
  /\ accepting' = [accepting EXCEPT ![u] = @ \ {c}]
  /\ RejectFrom(u)
  /\ UNCHANGED <<call, caller, opening, toClient, serverVars, faults>>

-----------------------------------------------------------------------------
(* The client's listeners.  None of them but _onIncoming looks at the callId. *)

OnIncoming(u, m) ==
  /\ m.type = "incoming"
  /\ IF ui[u] # "idle"
       THEN Emit(u, <<Event("busy", m.call)>>) /\ UNCHANGED <<ui, incoming>>
       ELSE SetUi(u, "incoming") /\ incoming' = [incoming EXCEPT ![u] = m.call] /\ UNCHANGED toServer
  /\ NoCleanup
  /\ UNCHANGED call

OnPeerJoined(u, m) ==
  /\ m.type = "peer-joined"
  /\ IF ui[u] = "outgoing"
       THEN SetUi(u, "active") /\ timers' = [timers EXCEPT ![u] = @ \ {ringTimer[u]}]
       ELSE UNCHANGED <<ui, timers>>
  /\ UNCHANGED <<call, incoming, ringTimer, toServer>>

(* The call is over when it was a call of two, or nobody is left. *)
OnPeerLeft(u, m) ==
  /\ m.type = "peer-left"
  /\ \/ /\ Cleanup(u)
        /\ SetUi(u, "idle")
        /\ call' = [call EXCEPT ![u] = Nothing]
     \/ /\ call[u] # Nothing /\ IsGroup(u, call[u])
        /\ NoCleanup
        /\ UNCHANGED <<ui, call>>
  /\ UNCHANGED <<incoming, toServer>>

OnRejected(u, m) ==
  /\ m.type \in {"declined", "busy"}
  /\ IF ui[u] = "outgoing" /\ ~IsGroup(u, call[u])
       THEN /\ Cleanup(u)
            /\ SetUi(u, "idle")
            /\ call' = [call EXCEPT ![u] = Nothing]
       ELSE NoCleanup /\ UNCHANGED <<ui, call>>
  /\ UNCHANGED <<incoming, toServer>>

OnCancelled(u, m) ==
  /\ m.type = "cancelled"
  /\ IF ui[u] = "incoming"
       THEN /\ Cleanup(u)
            /\ SetUi(u, "idle")
            /\ incoming' = [incoming EXCEPT ![u] = Nothing]
       ELSE NoCleanup /\ UNCHANGED <<ui, incoming>>
  /\ UNCHANGED <<call, toServer>>

Receive(u) ==
  /\ toClient[u] # <<>>
  /\ toClient' = [toClient EXCEPT ![u] = Tail(@)]
  /\ LET m == Head(toClient[u])
     IN  \/ OnIncoming(u, m) \/ OnPeerJoined(u, m)
         \/ OnPeerLeft(u, m) \/ OnRejected(u, m) \/ OnCancelled(u, m)
  /\ UNCHANGED <<accepting, caller, opening, serverVars, faults>>

-----------------------------------------------------------------------------
(* The socket server. *)

Send(to, m) == [u \in Users |-> IF u \in to THEN Append(toClient[u], m) ELSE toClient[u]]

(* The handler without its socket.join. *)
OnStartSinUnirse(u, m) ==
  /\ m.type = "start"
  /\ toClient' = Send(Callees(m.call), Event("incoming", m.call))
  /\ UNCHANGED <<room, joins>>

OnStart(u, m) ==
  /\ m.type = "start"
  /\ room' = [room EXCEPT ![m.call] = @ \cup {u}]
  /\ toClient' = Send(Callees(m.call), Event("incoming", m.call))
  /\ UNCHANGED joins

(* call:accept, to the await of fetchSockets. *)
OnAccept(u, m) ==
  /\ m.type = "accept"
  /\ joins' = joins \cup {[user |-> u, call |-> m.call, alive |-> TRUE]}
  /\ UNCHANGED <<room, toClient>>

OnReject(u, m) ==
  /\ m.type \in {"reject", "busy"}
  /\ toClient' = Send(room[m.call], News(IF m.type = "busy" THEN "busy" ELSE "declined"))
  /\ UNCHANGED <<room, joins>>

(* Once to each callee, and once to each socket in the room. *)
OnCancel(u, m) ==
  LET x == News("cancelled") IN
  /\ m.type = "cancel"
  /\ toClient' = [v \in Users |->
                    toClient[v] \o (IF v \in Callees(m.call) THEN <<x>> ELSE <<>>)
                                \o (IF v \in room[m.call] THEN <<x>> ELSE <<>>)]
  /\ UNCHANGED <<room, joins>>

OnLeave(u, m) ==
  /\ m.type = "leave"
  /\ toClient' = Send(room[m.call] \ {u}, News("peer-left"))
  /\ room' = [room EXCEPT ![m.call] = @ \ {u}]
  /\ UNCHANGED joins

Handle(u) ==
  /\ toServer[u] # <<>>
  /\ toServer' = [toServer EXCEPT ![u] = Tail(@)]
  /\ LET m == Head(toServer[u])
     IN  \/ OnStart(u, m) \/ OnAccept(u, m) \/ OnReject(u, m)
         \/ OnCancel(u, m) \/ OnLeave(u, m)
  /\ UNCHANGED <<clientVars, faults>>

(* The rest of call:accept: joining is nothing to a socket that is gone. *)
FinishAccept(j) ==
  /\ j \in joins
  /\ joins' = joins \ {j}
  /\ room' = IF j.alive THEN [room EXCEPT ![j.call] = @ \cup {j.user}] ELSE room
  /\ toClient' = Send(room[j.call] \ {j.user}, News("peer-joined"))
  /\ UNCHANGED <<clientVars, toServer, faults>>

-----------------------------------------------------------------------------
(* Lost connections. *)

Fault ==
  /\ faults < MaxFaults
  /\ faults' = faults + 1

(* 'disconnecting' tells each room the socket was in, and what was on its way to the
   client is lost. *)
SocketGone(u) ==
  LET shared(v) == Cardinality({c \in Calls : {u, v} \subseteq room[c]})
  IN  /\ room' = [c \in Calls |-> room[c] \ {u}]
      /\ joins' = {[j EXCEPT !.alive = @ /\ j.user # u] : j \in joins}
      /\ toClient' = [v \in Users |->
           IF v = u THEN <<>> ELSE toClient[v] \o [i \in 1 .. shared(v) |-> News("peer-left")]]

(* The connection drops and comes back: the store stays as it was, and what it emitted
   is lost or sent later. *)
Reconnect(u) ==
  /\ Fault
  /\ SocketGone(u)
  /\ \/ toServer' = [toServer EXCEPT ![u] = <<>>]
     \/ toServer[u] # <<>> /\ UNCHANGED toServer
  /\ UNCHANGED clientVars

(* The tab is closed or reloaded. *)
CloseTab(u) ==
  LET mine == {c \in opening : caller[c] = u} IN
  /\ Fault
  /\ SocketGone(u)
  /\ toServer' = [toServer EXCEPT ![u] = <<>>]
  /\ SetUi(u, "idle")
  /\ call' = [call EXCEPT ![u] = Nothing]
  /\ incoming' = [incoming EXCEPT ![u] = Nothing]
  /\ timers' = [timers EXCEPT ![u] = {}]
  /\ ringTimer' = [ringTimer EXCEPT ![u] = Nothing]
  /\ accepting' = [accepting EXCEPT ![u] = {}]
  /\ opening' = opening \ mine
  /\ UNCHANGED caller

-----------------------------------------------------------------------------
Next ==
  \/ \E u \in Users, c \in Calls :
       StartCall(u, c) \/ RingTimeout(u, c) \/ MediaReady(u, c) \/ MediaDenied(u, c)
  \/ \E c \in Calls : CallOpened(c) \/ CallDenied(c)
  \/ \E u \in Users :
       \/ Hangup(u) \/ AcceptCall(u) \/ RejectCall(u)
       \/ Receive(u) \/ Handle(u) \/ Reconnect(u) \/ CloseTab(u)
  \/ \E j \in joins : FinishAccept(j)

Spec == Init /\ [][Next]_vars

-----------------------------------------------------------------------------
(* What must hold. *)

(* Whoever shows a call hears what happens in it: its socket is in the call's room, or
   what puts it there is on its way, as long as no connection was lost. *)
OnItsWay(u, c) ==
  \/ \E i \in DOMAIN toServer[u] : toServer[u][i] \in {Event("start", c), Event("accept", c)}
  \/ \E j \in joins : j.user = u /\ j.call = c

InCallHears ==
  \A u \in Users :
    faults = 0 /\ ui[u] \in {"outgoing", "active"}
      => u \in room[call[u]] \/ OnItsWay(u, call[u])

(* The overlay always has the call it shows, and its buttons the call they act on. *)
OverlayHasItsCall ==
  \A u \in Users :
    /\ ui[u] = "incoming" => incoming[u] # Nothing
    /\ ui[u] \in {"outgoing", "active"} => call[u] # Nothing

(* What the overlay shows is so: there is a call behind it, and its events arrive. *)
OverlayTellsTheTruth == InCallHears /\ OverlayHasItsCall
=============================================================================
