------------------------ MODULE InteractiveMessages ------------------------
(***************************************************************************)
(* A message that people act on: a poll or a game for two (services/poll,     *)
(* services/game, their repositories and the rules in games/).                *)
(*                                                                         *)
(* A request is the list of the statements it has still to run, with an await *)
(* between any two: what it read may have changed when it writes.  Any        *)
(* statement may be the last.                                                 *)
(*                                                                         *)
(* Abstracted: texts, anonymity, the hour at which a poll closes by itself,   *)
(* what a player is shown of the other's move or of the word, and membership  *)
(* (module Membership).  A word is the set of its letters.                    *)
(***************************************************************************)
EXTENDS Naturals, Sequences, FiniteSets

CONSTANTS
  Users,                     \* who votes
  Options,
  Played,                    \* bound: the cells of the board that are played
  Word, OtherLetters,        \* of the hangman
  Slots,                     \* requests in flight at once
  MaxRequests, MaxMishaps,   \* bounds: requests about the poll, requests cut short
  None

ASSUME InteractiveAssumption ==
  /\ IsFiniteSet(Users) /\ IsFiniteSet(Options) /\ None \notin Users
  /\ MaxRequests \in Nat /\ MaxMishaps \in Nat /\ Played \subseteq 0..8 /\ Word # {} /\ Word \cap OtherLetters = {}

Polls == {"single", "multiple"}
Games == {"tictactoe", "rps", "hangman"}
Players == {"player1", "player2"}
Cells == 0..8
Choices == {"rock", "paper", "scissors"}
MaxWrong == 6

VARIABLES
  kind,        \* of the message: a kind of poll or of game
  options,     \* poll_options
  votes,       \* poll_votes: <<user, option>>
  counts,      \* vote_count of each option
  closed,      \* is_closed
  shown,       \* what the clients show: counts and closed; None before message:new
  game,        \* games.state: the moves of each player, whose turn it is, the winner; None before
  requests,    \* requests[s]: see Idle
  started, mishaps,
  doubled,     \* history: users with two votes in flight at once
  outdated,    \* history: the poll changed under the last request, or one was cut short
  raced        \* history: a move was played on a game that another move had changed

poll == <<options, votes, counts, closed, shown>>
history == <<doubled, outdated, raced>>
vars == <<kind, poll, game, requests, started, mishaps, history>>

(* A request: what it has to run, of whom, the options or the move it carries, what it has
   read, is_closed as it read it, and (history) whether the poll changed since then. *)
Idle == [todo |-> <<>>, by |-> None, what |-> None, seen |-> None, was |-> FALSE, late |-> FALSE]

NewGame == [moves |-> [p \in Players |-> {}], turn |-> "player1", winner |-> None]
Count(o, set) == Cardinality({v \in set : v[2] = o})
Zero == [o \in Options |-> 0]

-----------------------------------------------------------------------------
(* The rules of the games. *)
Lines == {{0, 1, 2}, {3, 4, 5}, {6, 7, 8}, {0, 3, 6}, {1, 4, 7}, {2, 5, 8}, {0, 4, 8}, {2, 4, 6}}
Beats == [rock |-> "scissors", paper |-> "rock", scissors |-> "paper"]
Rival(p) == IF p = "player1" THEN "player2" ELSE "player1"
Taken(g) == g.moves["player1"] \cup g.moves["player2"]

Mark(moves) ==
  IF \E p \in Players : \E line \in Lines : line \subseteq moves[p]
  THEN CHOOSE p \in Players : \E line \in Lines : line \subseteq moves[p]
  ELSE IF moves["player1"] \cup moves["player2"] = Cells THEN "draw" ELSE None

Round(choices) ==
  IF \E p \in Players : choices[p] = {} THEN None
  ELSE IF choices["player1"] = choices["player2"] THEN "draw"
  ELSE CHOOSE p \in Players : choices[Rival(p)] = {Beats[c] : c \in choices[p]}

Guessed(letters) ==
  IF Word \subseteq letters THEN "player2"
  ELSE IF Cardinality(letters \ Word) >= MaxWrong THEN "player1" ELSE None

Winner(moves) ==
  CASE kind = "tictactoe" -> Mark(moves)
    [] kind = "rps" -> Round(moves)
    [] kind = "hangman" -> Guessed(moves["player2"])

MovesOf == [tictactoe |-> Played, rps |-> Choices, hangman |-> Word \cup OtherLetters]

(* applyMove, applyChoice and applyGuess throw unless: *)
Allowed(g, p, move, turns) ==
  /\ g.winner = None
  /\ CASE kind = "tictactoe" -> g.turn \in turns /\ move \notin Taken(g)
       [] kind = "rps" -> g.moves[p] = {}
       [] kind = "hangman" -> p = "player2" /\ move \notin Taken(g)

(* Out of turn. *)
LegalSinTurno(g, p, move) == Allowed(g, p, move, Players)

Legal(g, p, move) == Allowed(g, p, move, {p})

Apply(g, p, move) ==
  LET moves == [g.moves EXCEPT ![p] = @ \cup {move}]
      w == Winner(moves)
  IN [moves |-> moves, winner |-> w,
      turn |-> IF kind = "tictactoe" /\ w = None THEN Rival(p) ELSE g.turn]

-----------------------------------------------------------------------------
(* Legal positions: alternate marks, and a winner when and only when the rules say so. *)
LegalGame ==
  game # None =>
    LET n(p) == Cardinality(game.moves[p]) IN
    /\ \A p \in Players : game.moves[p] \subseteq MovesOf[kind]
    /\ game.winner = Winner(game.moves)
    /\ kind = "tictactoe" =>
         /\ game.moves["player1"] \cap game.moves["player2"] = {}
         /\ n("player1") \in {n("player2"), n("player2") + 1}
         /\ game.winner = None => (game.turn = "player1" <=> n("player1") = n("player2"))
    /\ kind = "rps" => \A p \in Players : n(p) <= 1
    /\ kind = "hangman" => game.moves["player1"] = {}

TypeOK ==
  /\ kind \in Polls \cup Games /\ options \subseteq Options
  /\ votes \subseteq Users \X options /\ counts \in [Options -> 0..Cardinality(Users)]
  /\ closed \in BOOLEAN
  /\ shown = None \/ shown \in [counts : [Options -> 0..Cardinality(Users)], closed : BOOLEAN]
  /\ LegalGame
  /\ started \in 0..MaxRequests /\ mishaps \in 0..MaxMishaps
  /\ doubled \subseteq Users /\ outdated \in BOOLEAN /\ raced \in BOOLEAN

Init ==
  /\ kind \in Polls \cup Games
  /\ options = {} /\ votes = {} /\ counts = Zero /\ closed = FALSE /\ shown = None /\ game = None
  /\ requests = [s \in Slots |-> Idle] /\ started = 0 /\ mishaps = 0
  /\ doubled = {} /\ outdated = FALSE /\ raced = FALSE

-----------------------------------------------------------------------------
Busy(s) == requests[s].todo # <<>>
At(s, name) == Busy(s) /\ Head(requests[s].todo) = name
Rest(s) == Tail(requests[s].todo)
Continue(s, r) == requests' = [requests EXCEPT ![s] = IF r.todo = <<>> THEN Idle ELSE r]
Go(s) == Continue(s, [requests[s] EXCEPT !.todo = Rest(s)])

(* The request goes on, and the others see the poll change. *)
Change(s, todo) ==
  requests' = [t \in Slots |->
    IF t = s THEN [requests[s] EXCEPT !.todo = todo]
    ELSE [requests[t] EXCEPT !.late = Busy(t)]]

Tell == <<"options", "emit">>

Begin(s, todo, by, what) ==
  /\ ~Busy(s) /\ s = (CHOOSE t \in Slots : ~Busy(t))
  /\ started < MaxRequests /\ started' = started + 1
  /\ Continue(s, [Idle EXCEPT !.todo = todo, !.by = by, !.what = what, !.was = closed])
  /\ UNCHANGED <<kind, poll, game, mishaps, outdated, raced>>

(* createPoll: the message, the poll and then its options, one by one. *)
CreatePoll(s) ==
  /\ kind \in Polls /\ started = 0 /\ Begin(s, <<"addOptions">>, None, None) /\ UNCHANGED doubled

AddOption(s) ==
  /\ At(s, "addOptions")
  /\ \E o \in Options \ options : options' = options \cup {o}
  /\ Change(s, IF Cardinality(options) + 1 = Cardinality(Options) THEN Tell ELSE <<"addOptions">>)
  /\ UNCHANGED <<votes, counts, closed, shown, game, history>>

(* Only options of the poll, and one of them unless it is multiple. *)
Vote(s, u, chosen) ==
  /\ chosen \subseteq options /\ chosen # {} /\ (kind = "single" => Cardinality(chosen) = 1)
  /\ Begin(s, <<"open">>, u, chosen)
  /\ doubled' = IF \E t \in Slots : requests[t].by = u THEN doubled \cup {u} ELSE doubled

(* Whether the poll is closed or not. *)
Retract(s, u, todo) ==
  /\ options # {} /\ Begin(s, todo, u, {})
  /\ doubled' = IF \E t \in Slots : requests[t].by = u THEN doubled \cup {u} ELSE doubled

(* The counters as they were. *)
RetractSinRecuento(s, u) == Retract(s, u, <<"clear", "options", "emit">>)

RetractVote(s, u) == Retract(s, u, <<"clear", "count", "write", "options", "emit">>)

ClosePoll(s) == options # {} /\ Begin(s, <<"close", "options", "emit">>, None, None) /\ UNCHANGED doubled

(* A vote on the way in: is_closed is read here and nowhere else. *)
FindOpen(s, open) ==
  /\ At(s, "open")
  /\ IF ~open THEN Continue(s, Idle)
     ELSE Continue(s, [requests[s] EXCEPT !.late = FALSE, !.was = closed, !.todo =
            IF kind = "single" THEN <<"clear", "put", "count", "write", "options", "emit">>
            ELSE <<"put", "count", "write", "options", "emit">>])
  /\ UNCHANGED <<poll, game, history>>

(* A poll that nobody can close. *)
FindOpenSiempre(s) == FindOpen(s, TRUE)

FindPoll(s) == FindOpen(s, ~closed)

(* The previous votes of the user go first. *)
DeleteVotes(s) ==
  /\ At(s, "clear") /\ votes' = {v \in votes : v[1] # requests[s].by} /\ Change(s, Rest(s))
  /\ UNCHANGED <<options, counts, closed, shown, game, history>>

InsertVote(s) ==
  LET r == requests[s] IN
  /\ At(s, "put")
  /\ \E o \in r.what :
       /\ votes' = votes \cup {<<r.by, o>>}
       /\ requests' = [t \in Slots |->
            IF t # s THEN [requests[t] EXCEPT !.late = Busy(t)]
            ELSE [r EXCEPT !.what = @ \ {o}, !.todo = IF r.what = {o} THEN Rest(s) ELSE @]]
  /\ UNCHANGED <<options, counts, closed, shown, game, history>>

(* _recount: the votes that the statement sees, and the row that it then writes. *)
CountVotes(s) ==
  /\ At(s, "count")
  /\ Continue(s, [requests[s] EXCEPT !.todo = Rest(s), !.seen = [o \in Options |-> Count(o, votes)]])
  /\ UNCHANGED <<poll, game, history>>

WriteCounts(s) ==
  /\ At(s, "write") /\ counts' = requests[s].seen /\ Change(s, Rest(s))
  /\ UNCHANGED <<options, votes, closed, shown, game, history>>

Close(s) ==
  /\ At(s, "close") /\ closed' = TRUE /\ Change(s, Rest(s))
  /\ UNCHANGED <<options, votes, counts, shown, game, history>>

(* What the clients are told: the counts of now, and is_closed as it was read at the beginning,
   but for who closes the poll and reads it again. *)
GetOptions(s) ==
  /\ At(s, "options")
  /\ Continue(s, [requests[s] EXCEPT !.todo = Rest(s), !.seen =
       [counts |-> counts, closed |-> IF requests[s].by = None THEN closed ELSE requests[s].was]])
  /\ UNCHANGED <<poll, game, history>>

EmitPollUpdate(s) ==
  LET r == requests[s] IN
  /\ At(s, "emit") /\ Go(s) /\ shown' = r.seen
  /\ outdated' = (r.late \/ (outdated /\ r.by = None))
  /\ UNCHANGED <<options, votes, counts, closed, game, doubled, raced>>

-----------------------------------------------------------------------------
CreateGame ==
  /\ kind \in Games /\ game = None /\ game' = NewGame
  /\ UNCHANGED <<kind, poll, requests, started, mishaps, history>>

(* move reads the game, and answers with an error unless the rules allow it (bound: no new
   move after one that was played on an old game) ... *)
Move(s, p, move) ==
  /\ ~Busy(s) /\ s = (CHOOSE t \in Slots : ~Busy(t))
  /\ game # None /\ ~raced /\ Legal(game, p, move)
  /\ Continue(s, [Idle EXCEPT !.todo = <<"updateState">>, !.by = p, !.what = move, !.seen = game])
  /\ UNCHANGED <<kind, poll, game, started, mishaps, history>>

(* ... and writes what the move makes of what it read. *)
Play(s) ==
  LET r == requests[s] IN
  /\ At(s, "updateState") /\ Go(s)
  /\ game' = Apply(r.seen, r.by, r.what)
  /\ raced' = (raced \/ game # r.seen)
  /\ UNCHANGED <<poll, doubled, outdated>>

(* A statement fails or the instance stops.  A move has only one that writes: nothing is left. *)
Fail(s) ==
  /\ kind \in Polls /\ Busy(s) /\ mishaps < MaxMishaps /\ mishaps' = mishaps + 1
  /\ Continue(s, Idle) /\ outdated' = TRUE
  /\ UNCHANGED <<kind, poll, game, started, doubled, raced>>

Arrive(s) ==
  \/ CreatePoll(s) \/ ClosePoll(s)
  \/ \E u \in Users : RetractVote(s, u) \/ \E chosen \in SUBSET Options : Vote(s, u, chosen)
  \/ kind \in Games /\ \E p \in Players, move \in MovesOf[kind] : Move(s, p, move)

Statement(s) ==
  \/ AddOption(s) \/ FindPoll(s) \/ DeleteVotes(s) \/ InsertVote(s) \/ CountVotes(s)
  \/ WriteCounts(s) \/ Close(s) \/ GetOptions(s) \/ EmitPollUpdate(s) \/ Play(s)

Next ==
  \/ CreateGame
  \/ \E s \in Slots : Arrive(s) \/ (Statement(s) /\ UNCHANGED <<kind, started, mishaps>>) \/ Fail(s)

Spec == Init /\ [][Next]_vars

-----------------------------------------------------------------------------
(* A poll of one choice has one vote of each user, unless two of their requests overlapped. *)
OneVoteEach ==
  kind = "single" => \A u \in Users \ doubled : Cardinality({v \in votes : v[1] = u}) <= 1

(* Once the requests are over, the counters are those of the votes and the clients show them,
   and whether the poll is closed, unless the poll changed under the last request or a request
   was cut short. *)
CountsMatchVotes ==
  (\A s \in Slots : ~Busy(s)) /\ shown # None /\ ~outdated =>
    /\ counts = [o \in Options |-> Count(o, votes)]
    /\ shown = [counts |-> counts, closed |-> closed]

PollAgrees == OneVoteEach /\ CountsMatchVotes

(* A closed poll takes no vote, a game that is over does not go on, and no move is lost: unless
   the vote or the move had begun before. *)
OverIsOver ==
  [][/\ closed /\ ~(votes' \subseteq votes) => \E s \in Slots : requests[s].late /\ InsertVote(s)
     /\ game # None =>
          \/ raced'
          \/ /\ \A p \in Players : game.moves[p] \subseteq game'.moves[p]
             /\ game.winner # None => game' = game]_vars
=============================================================================
