------------------------------ MODULE PeerMesh ------------------------------
(***************************************************************************)
(* The media of a call of two (frontend stores/callStore): each client has a  *)
(* connection to the other, negotiated by the "perfect negotiation" pattern,   *)
(* and may share its screen.  Calls follow each other.                         *)
(*                                                                         *)
(* A connection (RTCPeerConnection) does one thing at a time, in order, and     *)
(* takes its time; events go on meanwhile.  It is the browser's, and modelled   *)
(* as far as the store relies on it.                                          *)
(*                                                                         *)
(* Abstracted: SDP (the tracks that it describes), ICE (a candidate only makes *)
(* a connection where there is none), the camera, which like the screen is a    *)
(* track added later, mute and names.  How calls ring is in CallSignalling.     *)
(***************************************************************************)
EXTENDS Naturals, Sequences, FiniteSets

CONSTANTS
  Users,
  Polite,      \* the one with the lesser id, who gives way
  MaxCalls,    \* bound: calls, one after the other
  MaxTurns,    \* bound: screens shared, candidates and departures, all together
  None

VARIABLES
  inCall,      \* inCall[u]: the call u is in, with its microphone; 0 outside
  screen,      \* screen[u]: u's screenStream, by its number; 0 if none
  sharing,     \* sharing[u]: sharingScreen, what u's button says
  picking,     \* picking[u]: u's browser asks which screen to share
  callee,      \* who may still accept the last call
  peer,        \* peer[u]: peers.get(other)
  tile,        \* tile[u]: the screen of the other that u shows; 0 if none
  queue,       \* queue[u]: events on their way to u
  calls, screens, turns,
  late,        \* history: whose connection a signal of another call has reached
  missed,      \* history: who ignored an offer while it was applying an answer
  stray,       \* history: who chose a screen when the call was over, and still has it
  cut          \* history: who stopped a screen that the other had not seen yet

callVars == <<inCall, screen, sharing, picking, calls, screens, callee>>
history == <<late, missed, stray, cut>>
vars == <<callVars, peer, tile, queue, turns, history>>

Other(u) == CHOOSE v \in Users : v # u
Screens == 1..MaxTurns
Mic == 0
Tracks == SUBSET ({Mic} \cup Screens)

(* A connection: signalingState, the operations it has to do, _makingOffer, the tracks that are
   added to it, those it has last agreed on or offers, and those of the other. *)
Fresh(tracks) == [state |-> "stable", chain |-> <<>>, making |-> FALSE,
                  sent |-> tracks, agreed |-> {}, offer |-> {}, remote |-> {}]

TypeOK ==
  /\ inCall \in [Users -> 0..MaxCalls] /\ screen \in [Users -> 0..MaxTurns]
  /\ tile \in [Users -> 0..MaxTurns] /\ calls \in 0..MaxCalls /\ turns \in 0..MaxTurns
  /\ \A u \in Users : LET p == peer[u] IN p # None =>
       /\ p.state \in {"stable", "have-local-offer", "have-remote-offer"}
       /\ p.making \in BOOLEAN /\ {p.sent, p.agreed, p.offer, p.remote} \subseteq Tracks
       /\ p.making = (\E i \in DOMAIN p.chain : p.chain[i].op = "offer")
  /\ \A u \in Users : sharing[u] => screen[u] # 0 /\ screen[u] <= screens
  /\ callee \in Users \cup {None} /\ late \cup missed \cup stray \cup cut \subseteq Users
  /\ sharing \in [Users -> BOOLEAN] /\ picking \in [Users -> BOOLEAN]

Init ==
  /\ inCall = [u \in Users |-> 0] /\ screen = inCall /\ tile = inCall
  /\ sharing = [u \in Users |-> FALSE] /\ picking = sharing
  /\ peer = [u \in Users |-> None] /\ queue = [u \in Users |-> <<>>]
  /\ calls = 0 /\ callee = None /\ screens = 0 /\ turns = 0 /\ late = {} /\ missed = {}
  /\ stray = {} /\ cut = {}

-----------------------------------------------------------------------------
Turn == turns < MaxTurns /\ turns' = turns + 1

(* call:signal goes to the other whatever call it is in. *)
Signal(u, type, tracks) == [type |-> type, call |-> inCall[u], tracks |-> tracks, on |-> FALSE]
To(v, m) == queue' = [queue EXCEPT ![v] = Append(@, m)]
News(type, on) == [type |-> type, call |-> 0, tracks |-> {}, on |-> on]

(* The tracks of localStream and screenStream. *)
LocalTracks(u) == (IF inCall[u] = 0 THEN {} ELSE {Mic}) \cup ({screen[u]} \ {0})

(* _ensurePeer: the connection there is, or a new one with the tracks of the moment. *)
EnsurePeer(u) == IF peer[u] = None THEN Fresh(LocalTracks(u)) ELSE peer[u]

(* startCall, or acceptCall of a call in which the other still is: the other is told, and who
   joins is told of the other.  Both take back sharingScreen, and leave screenStream. *)
StartCall(u) ==
  /\ inCall[u] = 0 /\ inCall[Other(u)] = 0 /\ calls < MaxCalls
  /\ calls' = calls + 1 /\ callee' = Other(u) /\ inCall' = [inCall EXCEPT ![u] = calls + 1]
  /\ sharing' = [sharing EXCEPT ![u] = FALSE]
  /\ UNCHANGED <<screen, picking, screens, peer, tile, queue, turns, history>>

AcceptCall(u) ==
  /\ inCall[u] = 0 /\ callee = u /\ inCall[Other(u)] = calls /\ callee' = None
  /\ inCall' = [inCall EXCEPT ![u] = calls] /\ sharing' = [sharing EXCEPT ![u] = FALSE]
  /\ queue' = [v \in Users |-> Append(queue[v], News("peer", TRUE))]
  /\ UNCHANGED <<screen, picking, calls, screens, peer, tile, turns, history>>

(* _cleanup: nothing is left of the call but a picker that is open. *)
Cleanup(u) ==
  /\ inCall' = [inCall EXCEPT ![u] = 0] /\ screen' = [screen EXCEPT ![u] = 0]
  /\ sharing' = [sharing EXCEPT ![u] = FALSE]
  /\ peer' = [peer EXCEPT ![u] = None] /\ tile' = [tile EXCEPT ![u] = 0]
  /\ late' = late \ {u} /\ missed' = missed \ {u}
  /\ stray' = stray \ {u} /\ cut' = cut \ {u}
  /\ UNCHANGED <<picking, calls, screens, callee>>

Hangup(u) ==
  /\ inCall[u] # 0 /\ Turn /\ Cleanup(u)
  /\ IF inCall[Other(u)] = inCall[u] THEN To(Other(u), News("left", TRUE)) ELSE UNCHANGED queue

-----------------------------------------------------------------------------
(* onnegotiationneeded: the browser asks when the connection is at rest and its tracks are not
   those agreed on; what the offer describes is taken now. *)
NegotiationNeeded(u) ==
  LET p == peer[u] IN
  /\ p # None /\ p.state = "stable" /\ p.chain = <<>> /\ p.sent # p.agreed
  /\ peer' = [peer EXCEPT ![u] = [p EXCEPT !.making = TRUE,
       !.chain = <<[op |-> "offer", tracks |-> p.sent]>>]]
  /\ UNCHANGED <<callVars, tile, queue, turns, history>>

(* What describes a screen not seen so far shows it (ontrack). *)
OnTrack(u, tracks) ==
  LET new == (tracks \ peer[u].remote) \ {Mic} IN
  tile' = IF new = {} THEN tile ELSE [tile EXCEPT ![u] = CHOOSE n \in new : \A k \in new : k <= n]

Done(p) == [p EXCEPT !.chain = Tail(p.chain)]

(* setLocalDescription of an offer ends, and the offer goes. *)
OfferGoes(u, making) ==
  LET p == peer[u] IN
  /\ p # None /\ p.chain # <<>> /\ Head(p.chain).op = "offer"
  /\ peer' = [peer EXCEPT ![u] = [Done(p) EXCEPT !.making = making,
       !.state = "have-local-offer", !.offer = Head(p.chain).tracks]]
  /\ To(Other(u), Signal(u, "offer", Head(p.chain).tracks))
  /\ UNCHANGED <<callVars, tile, turns, history>>

(* The finally is forgotten. *)
OfferMadeSinFinally(u) == OfferGoes(u, TRUE)

OfferMade(u) == OfferGoes(u, FALSE)

(* setRemoteDescription of an offer ends, an offer of its own being rolled back, and an answer
   is to be made. *)
OfferApplied(u) ==
  LET p == peer[u] IN
  /\ p # None /\ p.chain # <<>> /\ Head(p.chain).op = "remoteOffer"
  /\ peer' = [peer EXCEPT ![u] = [Done(p) EXCEPT !.state = "have-remote-offer", !.offer = {},
       !.remote = Head(p.chain).tracks, !.chain = Append(@, [op |-> "answer", tracks |-> {}])]]
  /\ OnTrack(u, Head(p.chain).tracks)
  /\ UNCHANGED <<callVars, queue, turns, history>>

(* setLocalDescription of the answer ends: of the tracks not agreed on before, which of the screens
   find a place in what was offered is free. *)
AnswerMade(u) ==
  LET p == peer[u] IN
  /\ p # None /\ p.chain # <<>> /\ Head(p.chain).op = "answer" /\ p.state = "have-remote-offer"
  /\ \E tracks \in SUBSET p.sent :
       /\ (p.agreed \cup {Mic}) \cap p.sent \subseteq tracks
       /\ peer' = [peer EXCEPT ![u] = [Done(p) EXCEPT !.state = "stable", !.agreed = tracks]]
       /\ To(Other(u), Signal(u, "answer", tracks))
  /\ UNCHANGED <<callVars, tile, turns, history>>

(* setRemoteDescription of the answer ends; it is refused where no offer is out. *)
AnswerApplied(u) ==
  LET p == peer[u] IN
  /\ p # None /\ p.chain # <<>> /\ Head(p.chain).op = "remoteAnswer"
  /\ IF p.state = "have-local-offer"
     THEN /\ peer' = [peer EXCEPT ![u] = [Done(p) EXCEPT !.state = "stable", !.agreed = p.offer,
               !.remote = Head(p.chain).tracks]]
          /\ OnTrack(u, Head(p.chain).tracks)
     ELSE peer' = [peer EXCEPT ![u] = Done(p)] /\ UNCHANGED tile
  /\ UNCHANGED <<callVars, queue, turns, history>>

(* The answer of an offer that another took the place of finds nothing to answer, and makes an
   offer. *)
AnswerTooMany(u) ==
  LET p == peer[u] IN
  /\ p # None /\ p.chain # <<>> /\ Head(p.chain).op = "answer" /\ p.state # "have-remote-offer"
  /\ peer' = [peer EXCEPT ![u] = [Done(p) EXCEPT !.state = "have-local-offer", !.offer = p.sent]]
  /\ To(Other(u), Signal(u, "offer", p.sent))
  /\ UNCHANGED <<callVars, tile, turns, history>>

-----------------------------------------------------------------------------
(* Offers that cross: the one who does not give way ignores that of the other. *)
Collision(p) == p.making \/ p.state # "stable"

(* Neither gives way. *)
IgnoresSinCortesia(u, m) == m.type = "offer" /\ Collision(EnsurePeer(u))

Ignores(u, m) == m.type = "offer" /\ Collision(EnsurePeer(u)) /\ u # Polite

Applying(p) == \E i \in DOMAIN p.chain : p.chain[i].op = "remoteAnswer"

(* _onSignal, to its first await. *)
OnSignal(u, m) ==
  LET p == EnsurePeer(u)
      op == IF m.type = "offer" THEN "remoteOffer" ELSE "remoteAnswer"
  IN
  /\ m.type \in {"offer", "answer", "candidate"}
  /\ IF m.type = "candidate" \/ Ignores(u, m) THEN peer' = [peer EXCEPT ![u] = p]
     ELSE peer' = [peer EXCEPT ![u] =
            [p EXCEPT !.chain = Append(@, [op |-> op, tracks |-> m.tracks])]]
  /\ missed' = IF Ignores(u, m) /\ Applying(p) THEN missed \cup {u} ELSE missed
  /\ late' = IF m.call # inCall[u] \/ m.call = 0 THEN late \cup {u} ELSE late
  /\ UNCHANGED <<callVars, tile, stray, cut>>

(* _onPeers and _onPeerJoined. *)
OnPeer(u, m) ==
  /\ m.type = "peer" /\ peer' = [peer EXCEPT ![u] = EnsurePeer(u)]
  /\ late' = (IF inCall[u] = 0 THEN late \cup {u} ELSE late)
  /\ UNCHANGED <<callVars, tile, missed, stray, cut>>

(* _onPeerLeft: a call of two is over. *)
OnPeerLeft(u, m) == m.type = "left" /\ Cleanup(u)

(* _onRemoteMedia: only the end of a screen counts. *)
OnRemoteMedia(u, m) ==
  /\ m.type = "screen" /\ tile' = (IF m.on THEN tile ELSE [tile EXCEPT ![u] = 0])
  /\ UNCHANGED <<callVars, peer, history>>

Receive(u) ==
  /\ queue[u] # <<>> /\ queue' = [queue EXCEPT ![u] = Tail(@)] /\ UNCHANGED turns
  /\ LET m == Head(queue[u])
     IN OnSignal(u, m) \/ OnPeer(u, m) \/ OnPeerLeft(u, m) \/ OnRemoteMedia(u, m)

(* A candidate is found, however late. *)
Candidate(u) ==
  /\ peer[u] # None /\ Turn /\ To(Other(u), Signal(u, "candidate", {}))
  /\ UNCHANGED <<callVars, peer, tile, history>>

-----------------------------------------------------------------------------
Swap(u, old, new) ==
  IF peer[u] = None THEN peer ELSE [peer EXCEPT ![u].sent = (@ \ ({old} \ {Mic})) \cup ({new} \ {0})]

(* call:media goes to those in the call, and to nobody without one. *)
ToRoom(u, m) ==
  IF inCall[u] # 0 /\ inCall[Other(u)] = inCall[u] THEN To(Other(u), m) ELSE UNCHANGED queue

(* toggleScreenShare asks the browser, whose dialog is modal ... *)
PressShare(u) ==
  /\ inCall[u] # 0 /\ ~sharing[u] /\ ~picking[u] /\ Turn
  /\ picking' = [picking EXCEPT ![u] = TRUE]
  /\ UNCHANGED <<inCall, screen, sharing, calls, screens, callee, peer, tile, queue, history>>

(* ... and goes on with the answer, whatever call there is by then or none. *)
ShareScreen(u) ==
  /\ picking[u] /\ picking' = [picking EXCEPT ![u] = FALSE]
  /\ screens' = screens + 1 /\ screen' = [screen EXCEPT ![u] = screens + 1]
  /\ sharing' = [sharing EXCEPT ![u] = TRUE]
  /\ peer' = Swap(u, 0, screens + 1) /\ ToRoom(u, News("screen", TRUE))
  /\ stray' = (IF inCall[u] = 0 THEN stray \cup {u} ELSE stray)
  /\ UNCHANGED <<inCall, calls, callee, tile, turns, late, missed, cut>>

CancelPicker(u) ==
  /\ picking[u] /\ picking' = [picking EXCEPT ![u] = FALSE]
  /\ UNCHANGED <<inCall, screen, sharing, calls, screens, callee, peer, tile, queue, turns, history>>

Seen(u) == peer[Other(u)] # None /\ screen[u] \in peer[Other(u)].remote

(* From the button, or from the bar that the browser shows while the screen is captured. *)
StopScreenShare(u) ==
  /\ screen[u] # 0 /\ Turn
  /\ screen' = [screen EXCEPT ![u] = 0] /\ sharing' = [sharing EXCEPT ![u] = FALSE]
  /\ peer' = Swap(u, screen[u], 0) /\ ToRoom(u, News("screen", FALSE))
  /\ cut' = (IF Seen(u) THEN cut ELSE cut \cup {u})
  /\ UNCHANGED <<inCall, picking, calls, callee, screens, tile, late, missed, stray>>

Operate(u) ==
  NegotiationNeeded(u) \/ OfferMade(u) \/ OfferApplied(u) \/ AnswerMade(u) \/ AnswerApplied(u)
    \/ AnswerTooMany(u)

Next ==
  \E u \in Users :
    \/ StartCall(u) \/ AcceptCall(u) \/ Hangup(u) \/ Receive(u) \/ Candidate(u)
    \/ NegotiationNeeded(u) \/ OfferMade(u) \/ OfferApplied(u) \/ AnswerMade(u)
    \/ AnswerApplied(u) \/ AnswerTooMany(u)
    \/ PressShare(u) \/ ShareScreen(u) \/ CancelPicker(u) \/ StopScreenShare(u)

(* Events arrive and connections do what they have to. *)
Fairness == \A u \in Users : WF_vars(Receive(u)) /\ WF_vars(Operate(u))

Spec == Init /\ [][Next]_vars /\ Fairness

-----------------------------------------------------------------------------
Together == \A u \in Users : inCall[u] # 0 /\ inCall[u] = inCall[Other(u)]
Busy(p) == p # None /\ (p.chain # <<>> \/ (p.state = "stable" /\ p.sent # p.agreed))
Quiet == \A u \in Users : queue[u] = <<>> /\ ~Busy(peer[u])

(* Each has all that the other sends; that is its microphone and the screen it knows it shares,
   which is the screen that is shown, and no other: unless an offer was ignored while an answer was
   being applied, a signal of another call came in, the screen was chosen when its call was over,
   or it was stopped before it was seen. *)
MediaFlows ==
  Together /\ late = {} /\ missed = {} =>
    \A u \in Users :
      LET p == peer[u]  q == peer[Other(u)]  shared == IF sharing[Other(u)] THEN screen[Other(u)] ELSE 0 IN
      /\ p # None /\ q # None /\ p.state = "stable" /\ p.remote = q.sent
      /\ Other(u) \in stray \/ q.sent = {Mic, shared}
      /\ Other(u) \in stray \cup cut \/ tile[u] = shared

(* Two who offer at once neither wait for each other nor go on offering for ever: the negotiation
   ends, and whenever it has ended, two who are in the same call hear and see each other. *)
MediaArrives == []<>(Quiet /\ MediaFlows)
=============================================================================
