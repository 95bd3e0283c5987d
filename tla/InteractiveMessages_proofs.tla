--------------------- MODULE InteractiveMessages_proofs ---------------------
(***************************************************************************)
(* However many requests about a poll are under way, and wherever they are    *)
(* cut short, its counters and what the clients show are those of its votes;  *)
(* however the moves of a game overlap, it stays within its rules.            *)
(*                                                                         *)
(* The statements that a request has left tell what it has read: the          *)
(* invariant says what of it is still so, unless the poll is known to have    *)
(* changed since.                                                            *)
(***************************************************************************)
EXTENDS InteractiveMessages, FiniteSetTheorems, TLAPS

-----------------------------------------------------------------------------
(* The statements of a request, from its first one on; what is left is a suffix. *)
Paths ==
  {<<"addOptions">>, <<"open">>, <<"updateState">>, <<"close", "options", "emit">>,
   <<"clear", "put", "count", "write", "options", "emit">>,
   <<"put", "count", "write", "options", "emit">>,
   <<"clear", "count", "write", "options", "emit">>, <<"options", "emit">>}

Suffix(p, i) == [j \in {k \in 1..6 : k + i - 1 \in DOMAIN p} |-> p[j + i - 1]]
Todos == {Suffix(p, i) : p \in Paths, i \in 1..7}

Names(todo) == {todo[i] : i \in DOMAIN todo}
Left(s) == Names(requests[s].todo)

(* What the counters should say, what they can say, and what the clients can be told. *)
Tally == [o \in Options |-> Count(o, votes)]
Tallies == [Options -> 0..Cardinality(Users)]
News == [counts : Tallies, closed : BOOLEAN]

Request(r) ==
  /\ r = [todo |-> r.todo, by |-> r.by, what |-> r.what, seen |-> r.seen, was |-> r.was, late |-> r.late]
  /\ r.todo \in Todos /\ r.was \in BOOLEAN /\ r.late \in BOOLEAN
  /\ r.todo = <<>> => r = Idle

Typed ==
  /\ kind \in Polls \cup Games /\ options \subseteq Options
  /\ votes \subseteq Users \X options /\ counts \in Tallies /\ closed \in BOOLEAN
  /\ shown = None \/ shown \in News
  /\ started \in 0..MaxRequests /\ mishaps \in 0..MaxMishaps
  /\ doubled \subseteq Users /\ outdated \in BOOLEAN /\ raced \in BOOLEAN
  /\ requests = [s \in Slots |-> requests[s]] /\ \A s \in Slots : Request(requests[s])

(* A position that the rules can lead to; LegalGame says it of the game. *)
Position(g) ==
  LET n(p) == Cardinality(g.moves[p]) IN
  /\ g.moves \in [Players -> SUBSET MovesOf[kind]]
  /\ g.winner = Winner(g.moves)
  /\ kind = "tictactoe" =>
       /\ g.moves["player1"] \cap g.moves["player2"] = {}
       /\ n("player1") \in {n("player2"), n("player2") + 1}
       /\ g.winner = None => (g.turn = "player1" <=> n("player1") = n("player2"))
  /\ kind = "rps" => \A p \in Players : n(p) <= 1
  /\ kind = "hangman" => g.moves["player1"] = {}

(* A move about to be written is legal on the game as it was read. *)
Playing(s) ==
  LET r == requests[s] IN
  "updateState" \in Left(s) =>
    /\ kind \in Games /\ r.by \in Players /\ r.what \in MovesOf[kind]
    /\ Position(r.seen) /\ Legal(r.seen, r.by, r.what)

(* What a request carries, and what it has read. *)
OfUser == {"open", "clear", "put", "count", "write"}
OfNobody == {"addOptions", "close"}
MakesSense(s) ==
  LET r == requests[s] IN
  /\ "emit" \in Left(s) => r.by \in Users \cup {None}
  /\ Left(s) \cap OfUser # {} => r.by \in Users
  /\ Left(s) \cap OfNobody # {} => r.by = None
  /\ Left(s) \cap {"open", "put"} # {} =>
       r.what \subseteq options /\ r.what # {} /\ (kind = "single" => \E o \in options : r.what = {o})
  /\ "write" \in Left(s) /\ "count" \notin Left(s) => r.seen \in Tallies
  /\ "emit" \in Left(s) /\ "options" \notin Left(s) => r.seen \in News

(* What a request has read is still so, unless the poll has changed since. *)
Fresh(s) ==
  LET r == requests[s] IN
  "emit" \in Left(s) /\ ~r.late =>
    /\ "put" \in Left(s) => ~closed
    /\ r.by \in Users => r.was = closed
    /\ "write" \in Left(s) /\ "count" \notin Left(s) => r.seen = Tally
    /\ r.by \in Users /\ "write" \notin Left(s) => counts = Tally
    /\ "options" \notin Left(s) => r.seen = [counts |-> counts, closed |-> closed]

(* Between the removal of the votes of a user and the new one there is none, and two requests
   of a user at once are known. *)
Cleared(s) ==
  LET r == requests[s] IN
  kind = "single" /\ "put" \in Left(s) /\ "clear" \notin Left(s) /\ r.by \notin doubled
    => \A v \in votes : v[1] # r.by

VotesAreOne ==
  /\ kind = "single" => \A v, w \in votes : v[1] = w[1] /\ v[1] \notin doubled => v = w
  /\ kind = "single" => \A s, t \in Slots :
       s # t /\ requests[s].by = requests[t].by /\ requests[s].by \in Users
         => requests[s].by \in doubled
  /\ \A s \in Slots : Cleared(s)

(* What is shown is what there is, or somebody is about to tell: who knows that the poll has
   changed, or writes the counters first, or finds them right. *)
Shown ==
  /\ counts = Tally
  /\ shown = None \/ shown = [counts |-> counts, closed |-> closed]
Tells(s) == "emit" \in Left(s) /\ (requests[s].late \/ requests[s].by \in Users \/ counts = Tally)
CountsAreShown == outdated \/ Shown \/ \E s \in Slots : Tells(s)

(* The inductive invariant. *)
IInv ==
  /\ Typed /\ VotesAreOne /\ CountsAreShown
  /\ game # None => Position(game)
  /\ \A s \in Slots : Playing(s) /\ MakesSense(s) /\ Fresh(s)
-----------------------------------------------------------------------------
(* What is left of a request. *)
All == {p[i] : p \in Paths, i \in 1..6}

LEMMA PathsShort ==
  ASSUME NEW p \in Paths
  PROVE  \E n \in 1..6 : DOMAIN p = 1..n /\ \A i \in 1..n : p[i] \in All
<1>1. PICK n \in 1..6 : DOMAIN p = 1..n
  BY DEF Paths
<1>2. \A i \in 1..n : p[i] \in All
  BY <1>1 DEF All
<1> QED BY <1>1, <1>2

LEMMA PathIsSuffix == ASSUME NEW p \in Paths PROVE p \in Todos
<1>1. p = Suffix(p, 1)
  BY DEF Suffix, Paths
<1> QED BY <1>1 DEF Todos

(* Statement i of a path is the first of its i-th suffix. *)
LEMMA Suffixes ==
  ASSUME NEW p \in Paths, NEW n \in 1..6, DOMAIN p = 1..n, NEW i \in 1..7
  PROVE  /\ Suffix(p, i) # <<>> <=> i <= n
         /\ i <= n => Head(Suffix(p, i)) = p[i] /\ Tail(Suffix(p, i)) = Suffix(p, i + 1)
         /\ Names(Suffix(p, i)) = {p[j] : j \in i .. n}
<1> DEFINE q == Suffix(p, i)
<1>1. \A j \in 1..n : p[j] \in All
  BY PathsShort
<1>2. q = [j \in 1 .. n + 1 - i |-> p[j + i - 1]]
  <2>1. {j \in 1..6 : j + i - 1 \in DOMAIN p} = 1 .. n + 1 - i
    OBVIOUS
  <2> QED BY <2>1 DEF Suffix
<1>3. q \in Seq(All)
  BY <1>1, <1>2
<1>4. q # <<>> <=> i <= n
  BY <1>2, <1>3
<1>5. ASSUME i <= n PROVE Head(q) = p[i] /\ Tail(q) = Suffix(p, i + 1)
  <2>1. Len(q) = n + 1 - i
    BY <1>2, <1>3, <1>5
  <2>2. Suffix(p, i + 1) = [j \in 1 .. n + 1 - (i + 1) |-> p[j + (i + 1) - 1]]
    <3>1. {j \in 1..6 : j + (i + 1) - 1 \in DOMAIN p} = 1 .. n + 1 - (i + 1)
      OBVIOUS
    <3> QED BY <3>1 DEF Suffix
  <2> QED BY <1>2, <1>3, <1>5, <2>1, <2>2
<1>6. Names(q) = {p[j] : j \in i .. n}
  <2>1. ASSUME NEW x \in Names(q) PROVE x \in {p[j] : j \in i .. n}
    BY <1>2 DEF Names
  <2>2. ASSUME NEW j \in i .. n PROVE p[j] \in Names(q)
    <3>1. j - i + 1 \in 1 .. n + 1 - i /\ j - i + 1 + i - 1 = j
      OBVIOUS
    <3> QED BY <1>2, <3>1 DEF Names
  <2> QED BY <2>1, <2>2
<1> QED BY <1>4, <1>5, <1>6

(* The statement after each. *)
Ending == {"addOptions", "open", "updateState", "emit"}

LEMMA Orders ==
  ASSUME NEW p \in Paths, NEW i \in DOMAIN p
  PROVE  /\ p[i] \in Ending => i + 1 \notin DOMAIN p
         /\ p[i] = "options" => i + 1 \in DOMAIN p /\ p[i + 1] = "emit"
         /\ p[i] \in {"write", "close"} => i + 1 \in DOMAIN p /\ p[i + 1] = "options"
         /\ p[i] = "count" => i + 1 \in DOMAIN p /\ p[i + 1] = "write"
         /\ p[i] = "put" => i + 1 \in DOMAIN p /\ p[i + 1] = "count"
         /\ p[i] = "clear" => i + 1 \in DOMAIN p /\ p[i + 1] \in {"put", "count"}
<1>1. p[i] \in Ending => i + 1 \notin DOMAIN p
  BY DEF Paths, Ending
<1>2. p[i] = "options" => i + 1 \in DOMAIN p
  BY DEF Paths
<1>3. p[i] = "options" => p[i + 1] = "emit"
  BY DEF Paths
<1>4. p[i] \in {"write", "close"} => i + 1 \in DOMAIN p
  BY DEF Paths
<1>5. p[i] \in {"write", "close"} => p[i + 1] = "options"
  BY DEF Paths
<1>6. p[i] = "count" => i + 1 \in DOMAIN p
  BY DEF Paths
<1>7. p[i] = "count" => p[i + 1] = "write"
  BY DEF Paths
<1>8. p[i] = "put" => i + 1 \in DOMAIN p
  BY DEF Paths
<1>9. p[i] = "put" => p[i + 1] = "count"
  BY DEF Paths
<1>10. p[i] = "clear" => i + 1 \in DOMAIN p
  BY DEF Paths
<1>11. p[i] = "clear" => p[i + 1] \in {"put", "count"}
  BY DEF Paths
<1> QED BY <1>1, <1>2, <1>3, <1>4, <1>5, <1>6, <1>7, <1>8, <1>9, <1>10, <1>11

LEMMA Successor ==
  ASSUME NEW t \in Todos, t # <<>>
  PROVE  /\ Tail(t) \in Todos /\ Names(t) = {Head(t)} \cup Names(Tail(t))
         /\ Head(t) \in Ending => Tail(t) = <<>>
         /\ Head(t) = "options" => Tail(t) # <<>> /\ Head(Tail(t)) = "emit"
         /\ Head(t) \in {"write", "close"} => Tail(t) # <<>> /\ Head(Tail(t)) = "options"
         /\ Head(t) = "count" => Tail(t) # <<>> /\ Head(Tail(t)) = "write"
         /\ Head(t) = "put" => Tail(t) # <<>> /\ Head(Tail(t)) = "count"
         /\ Head(t) = "clear" => Tail(t) # <<>> /\ Head(Tail(t)) \in {"put", "count"}
<1>1. PICK p \in Paths, i \in 1..7 : t = Suffix(p, i)
  BY DEF Todos
<1>2. PICK n \in 1..6 : DOMAIN p = 1..n
  BY <1>1, PathsShort
<1>3. i <= n
  BY <1>1, <1>2, Suffixes
<1>4. i \in 1..6 /\ i + 1 \in 1..7 /\ i \in DOMAIN p
  BY <1>1, <1>2, <1>3
<1>5. Head(t) = p[i] /\ Tail(t) = Suffix(p, i + 1)
  BY <1>1, <1>2, <1>3, Suffixes
<1>6. /\ Suffix(p, i + 1) # <<>> <=> i + 1 <= n
      /\ i + 1 <= n => Head(Suffix(p, i + 1)) = p[i + 1]
      /\ Names(Suffix(p, i + 1)) = {p[j] : j \in i + 1 .. n}
  BY <1>1, <1>2, <1>4, Suffixes
<1>7. Names(t) = {p[j] : j \in i .. n}
  BY <1>1, <1>2, <1>4, Suffixes
<1>8. Names(t) = {Head(t)} \cup Names(Tail(t))
  <2>1. i .. n = {i} \cup (i + 1 .. n)
    BY <1>2, <1>3, <1>4
  <2>2. Names(Tail(t)) = {p[j] : j \in i + 1 .. n}
    BY <1>5, <1>6
  <2>3. {p[j] : j \in i .. n} = {p[i]} \cup {p[j] : j \in i + 1 .. n}
    BY <2>1
  <2> QED BY <1>5, <1>7, <2>2, <2>3
<1>9. Tail(t) \in Todos
  BY <1>1, <1>4, <1>5 DEF Todos
<1>10. i + 1 \in DOMAIN p <=> i + 1 <= n
  BY <1>2, <1>4
<1>11. Tail(t) # <<>> <=> i + 1 \in DOMAIN p
  BY <1>5, <1>6, <1>10
<1>12. i + 1 \in DOMAIN p => Head(Tail(t)) = p[i + 1]
  BY <1>5, <1>6, <1>10
<1>13. /\ p[i] \in Ending => i + 1 \notin DOMAIN p
       /\ p[i] = "options" => i + 1 \in DOMAIN p /\ p[i + 1] = "emit"
       /\ p[i] \in {"write", "close"} => i + 1 \in DOMAIN p /\ p[i + 1] = "options"
       /\ p[i] = "count" => i + 1 \in DOMAIN p /\ p[i + 1] = "write"
       /\ p[i] = "put" => i + 1 \in DOMAIN p /\ p[i + 1] = "count"
       /\ p[i] = "clear" => i + 1 \in DOMAIN p /\ p[i + 1] \in {"put", "count"}
  BY <1>1, <1>4, Orders
<1> DEFINE h == p[i]
           f == p[i + 1]
           more == i + 1 \in DOMAIN p
<1>14. Head(t) = h /\ (Tail(t) # <<>> <=> more) /\ (more => Head(Tail(t)) = f)
  BY <1>5, <1>11, <1>12
<1> HIDE DEF h, f, more
<1>15. /\ h \in Ending => ~more
       /\ h = "options" => more /\ f = "emit"
       /\ h \in {"write", "close"} => more /\ f = "options"
       /\ h = "count" => more /\ f = "write"
       /\ h = "put" => more /\ f = "count"
       /\ h = "clear" => more /\ f \in {"put", "count"}
  BY <1>13 DEF h, f, more
<1> QED BY <1>8, <1>9, <1>14, <1>15

LEMMA NothingLeft == /\ <<>> \in Todos
                     /\ \A t \in Todos : t = <<>> <=> Names(t) = {}
<1>1. \A t \in Todos : t # <<>> => Names(t) # {}
  BY Successor
<1>2. Names(<<>>) = {}
  BY DEF Names
<1>3. <<>> \in Todos
  <2> DEFINE t == <<"open">>
  <2>1. t \in Paths
    BY DEF Paths
  <2>2. DOMAIN t = 1..1 /\ 1 \in 1..6 /\ 7 \in 1..7 /\ ~(7 <= 1)
    OBVIOUS
  <2> HIDE DEF t
  <2>3. Suffix(t, 7) # <<>> <=> 7 <= 1
    BY <2>1, <2>2, Suffixes
  <2> QED BY <2>1, <2>2, <2>3 DEF Todos
<1> QED BY <1>1, <1>2, <1>3

(* So the first statement tells all the others. *)
LEMMA Rests ==
  ASSUME NEW t \in Todos, t # <<>>
  PROVE  /\ Tail(t) \in Todos /\ Names(t) = {Head(t)} \cup Names(Tail(t))
         /\ Head(t) \in Ending => Tail(t) = <<>> /\ Names(t) = {Head(t)}
         /\ Head(t) = "options" => Names(Tail(t)) = {"emit"}
         /\ Head(t) \in {"write", "close"} => Names(Tail(t)) = {"options", "emit"}
         /\ Head(t) = "count" => Names(Tail(t)) = {"write", "options", "emit"}
         /\ Head(t) = "put" => Names(Tail(t)) = {"count", "write", "options", "emit"}
         /\ Head(t) = "clear" => \/ Names(Tail(t)) = {"count", "write", "options", "emit"}
                                 \/ Names(Tail(t)) = {"put", "count", "write", "options", "emit"}
<1>1. ASSUME NEW x \in Todos, x # <<>>, Head(x) \in Ending PROVE Tail(x) = <<>> /\ Names(x) = {Head(x)}
  BY <1>1, Successor, NothingLeft
<1>2. ASSUME NEW x \in Todos, x # <<>>, Head(x) = "options" PROVE Names(Tail(x)) = {"emit"} /\ Names(x) = {"options", "emit"}
  <2>1. Tail(x) \in Todos /\ Tail(x) # <<>> /\ Head(Tail(x)) = "emit" /\ Names(x) = {Head(x)} \cup Names(Tail(x))
    BY <1>2, Successor
  <2>2. Names(Tail(x)) = {Head(Tail(x))}
    BY <1>1, <2>1 DEF Ending
  <2> QED BY <1>2, <2>1, <2>2
<1>3. ASSUME NEW x \in Todos, x # <<>>, Head(x) \in {"write", "close"}
      PROVE Names(Tail(x)) = {"options", "emit"} /\ Names(x) = {Head(x), "options", "emit"}
  <2>1. Tail(x) \in Todos /\ Tail(x) # <<>> /\ Head(Tail(x)) = "options" /\ Names(x) = {Head(x)} \cup Names(Tail(x))
    BY <1>3, Successor
  <2>2. Names(Tail(x)) = {"options", "emit"}
    BY <1>2, <2>1
  <2> QED BY <2>1, <2>2
<1>4. ASSUME NEW x \in Todos, x # <<>>, Head(x) = "count"
      PROVE Names(Tail(x)) = {"write", "options", "emit"} /\ Names(x) = {"count", "write", "options", "emit"}
  <2>1. Tail(x) \in Todos /\ Tail(x) # <<>> /\ Head(Tail(x)) = "write" /\ Names(x) = {Head(x)} \cup Names(Tail(x))
    BY <1>4, Successor
  <2>2. Names(Tail(x)) = {"write", "options", "emit"}
    BY <1>3, <2>1
  <2> QED BY <1>4, <2>1, <2>2
<1>5. ASSUME NEW x \in Todos, x # <<>>, Head(x) = "put"
      PROVE /\ Names(Tail(x)) = {"count", "write", "options", "emit"}
            /\ Names(x) = {"put", "count", "write", "options", "emit"}
  <2>1. Tail(x) \in Todos /\ Tail(x) # <<>> /\ Head(Tail(x)) = "count" /\ Names(x) = {Head(x)} \cup Names(Tail(x))
    BY <1>5, Successor
  <2>2. Names(Tail(x)) = {"count", "write", "options", "emit"}
    BY <1>4, <2>1
  <2> QED BY <1>5, <2>1, <2>2
<1>6. ASSUME NEW x \in Todos, x # <<>>, Head(x) = "clear"
      PROVE \/ Names(Tail(x)) = {"count", "write", "options", "emit"}
            \/ Names(Tail(x)) = {"put", "count", "write", "options", "emit"}
  <2>1. Tail(x) \in Todos /\ Tail(x) # <<>> /\ Head(Tail(x)) \in {"put", "count"}
    BY <1>6, Successor
  <2> QED BY <1>4, <1>5, <2>1
<1> QED BY <1>1, <1>2, <1>3, <1>4, <1>5, <1>6, Successor

LEMMA FirstNames ==
  ASSUME NEW t \in Todos, t # <<>>
  PROVE  Head(t) \in Ending \cup {"options", "write", "close", "count", "put", "clear"}
<1>1. PICK p \in Paths, i \in 1..7 : t = Suffix(p, i)
  BY DEF Todos
<1>2. PICK n \in 1..6 : DOMAIN p = 1..n
  BY <1>1, PathsShort
<1>3. i <= n
  BY <1>1, <1>2, Suffixes
<1>4. Head(t) = p[i]
  BY <1>1, <1>2, <1>3, Suffixes
<1>5. p[i] \in Ending \cup {"options", "write", "close", "count", "put", "clear"}
  <2>1. i \in DOMAIN p
    BY <1>2, <1>3
  <2> QED BY <1>1, <2>1 DEF Paths, Ending
<1> QED BY <1>4, <1>5
-----------------------------------------------------------------------------
(* A step of one request: the others keep what they have, and see the poll change or not. *)
Quiet(s, q) == requests' = [t \in Slots |-> IF t = s THEN q ELSE requests[t]]
Changed(s, q) ==
  requests' = [t \in Slots |-> IF t = s THEN q ELSE [requests[t] EXCEPT !.late = Busy(t)]]

(* Requests with some fields replaced. *)
HasFields(r) == r = [todo |-> r.todo, by |-> r.by, what |-> r.what, seen |-> r.seen, was |-> r.was, late |-> r.late]

LEMMA NewTodo ==
  ASSUME NEW r, NEW w, HasFields(r)
  PROVE  [r EXCEPT !.todo = w] =
           [todo |-> w, by |-> r.by, what |-> r.what, seen |-> r.seen, was |-> r.was, late |-> r.late]
<1> DEFINE f == r.todo
           g == r.by
           h == r.what
           i == r.seen
           j == r.was
           k == r.late
<1>1. r = [todo |-> f, by |-> g, what |-> h, seen |-> i, was |-> j, late |-> k]
  BY DEF HasFields
<1> HIDE DEF f, g, h, i, j, k
<1>2. [r EXCEPT !.todo = w] = [todo |-> w, by |-> g, what |-> h, seen |-> i, was |-> j, late |-> k]
  BY <1>1
<1> QED BY <1>2 DEF f, g, h, i, j, k

LEMMA NewLate ==
  ASSUME NEW r, NEW w, HasFields(r)
  PROVE  [r EXCEPT !.late = w] =
           [todo |-> r.todo, by |-> r.by, what |-> r.what, seen |-> r.seen, was |-> r.was, late |-> w]
<1> DEFINE f == r.todo
           g == r.by
           h == r.what
           i == r.seen
           j == r.was
           k == r.late
<1>1. r = [todo |-> f, by |-> g, what |-> h, seen |-> i, was |-> j, late |-> k]
  BY DEF HasFields
<1> HIDE DEF f, g, h, i, j, k
<1>2. [r EXCEPT !.late = w] = [todo |-> f, by |-> g, what |-> h, seen |-> i, was |-> j, late |-> w]
  BY <1>1
<1> QED BY <1>2 DEF f, g, h, i, j, k

LEMMA NewSeen ==
  ASSUME NEW r, NEW w, NEW x, HasFields(r)
  PROVE  [r EXCEPT !.todo = w, !.seen = x] =
           [todo |-> w, by |-> r.by, what |-> r.what, seen |-> x, was |-> r.was, late |-> r.late]
<1> DEFINE f == r.todo
           g == r.by
           h == r.what
           i == r.seen
           j == r.was
           k == r.late
<1>1. r = [todo |-> f, by |-> g, what |-> h, seen |-> i, was |-> j, late |-> k]
  BY DEF HasFields
<1> HIDE DEF f, g, h, i, j, k
<1> DEFINE a == [r EXCEPT !.todo = w]
<1>2. [r EXCEPT !.todo = w, !.seen = x] = [a EXCEPT !.seen = x]
  OBVIOUS
<1>3. a = [todo |-> w, by |-> g, what |-> h, seen |-> i, was |-> j, late |-> k]
  BY <1>1
<1> HIDE DEF a
<1>4. [a EXCEPT !.seen = x] = [todo |-> w, by |-> g, what |-> h, seen |-> x, was |-> j, late |-> k]
  BY <1>3
<1> QED BY <1>2, <1>4 DEF f, g, h, i, j, k

LEMMA NewWhat ==
  ASSUME NEW r, NEW w, NEW x, HasFields(r)
  PROVE  [r EXCEPT !.what = w, !.todo = x] =
           [todo |-> x, by |-> r.by, what |-> w, seen |-> r.seen, was |-> r.was, late |-> r.late]
<1> DEFINE f == r.todo
           g == r.by
           h == r.what
           i == r.seen
           j == r.was
           k == r.late
<1>1. r = [todo |-> f, by |-> g, what |-> h, seen |-> i, was |-> j, late |-> k]
  BY DEF HasFields
<1> HIDE DEF f, g, h, i, j, k
<1> DEFINE a == [r EXCEPT !.what = w]
<1>2. [r EXCEPT !.what = w, !.todo = x] = [a EXCEPT !.todo = x]
  OBVIOUS
<1>3. a = [todo |-> f, by |-> g, what |-> w, seen |-> i, was |-> j, late |-> k]
  BY <1>1
<1> HIDE DEF a
<1>4. [a EXCEPT !.todo = x] = [todo |-> x, by |-> g, what |-> w, seen |-> i, was |-> j, late |-> k]
  BY <1>3
<1> QED BY <1>2, <1>4 DEF f, g, h, i, j, k

(* The rules of a game are those of its kind. *)
LEMMA SameRules ==
  ASSUME kind' = kind
  PROVE  /\ \A g : Position(g)' <=> Position(g)
         /\ \A g, p, m : Legal(g, p, m)' <=> Legal(g, p, m)
<1>1. \A moves : Winner(moves)' = Winner(moves)
  BY Zenon DEF Winner
<1> QED BY <1>1 DEF Position, Legal, Allowed

LEMMA IdleRequest ==
  /\ Request(Idle) /\ Idle.todo = <<>> /\ Idle.by = None /\ Names(Idle.todo) = {}
  /\ Idle.seen = None /\ Idle.was = FALSE /\ Idle.late = FALSE
BY NothingLeft DEF Request, Idle

(* A request without statements carries nothing. *)
LEMMA NotBusy ==
  ASSUME Typed, NEW s \in Slots
  PROVE  /\ requests[s].todo \in Todos /\ (Busy(s) <=> Left(s) # {})
         /\ ~Busy(s) => requests[s] = Idle
<1>1. Request(requests[s])
  BY DEF Typed
<1> QED BY <1>1, NothingLeft DEF Request, Busy, Left

(* What the step of a request leaves it. *)
LEMMA Steps ==
  ASSUME Typed, NEW s \in Slots, NEW q, q.todo \in Todos, q.todo # <<>> => Request(q), Continue(s, q)
  PROVE  \E r : /\ Quiet(s, r) /\ Request(r)
                /\ r = IF q.todo = <<>> THEN Idle ELSE q
<1> DEFINE r == IF q.todo = <<>> THEN Idle ELSE q
<1>1. requests' = [requests EXCEPT ![s] = r]
  BY DEF Continue
<1>2. Request(r)
  BY IdleRequest
<1>3. requests = [t \in Slots |-> requests[t]]
  BY DEF Typed
<1> HIDE DEF r
<1>4. Quiet(s, r)
  BY <1>1, <1>3 DEF Quiet
<1> QED BY <1>2, <1>4 DEF r

LEMMA OthersTyped ==
  ASSUME Typed, NEW t \in Slots
  PROVE  /\ Request([requests[t] EXCEPT !.late = Busy(t)])
         /\ \A q : q = [requests[t] EXCEPT !.late = Busy(t)] =>
              /\ q.todo = requests[t].todo /\ q.by = requests[t].by /\ q.what = requests[t].what
              /\ q.seen = requests[t].seen /\ q.was = requests[t].was /\ q.late = Busy(t)
<1>1. Request(requests[t])
  BY DEF Typed
<1> PICK q : q = [requests[t] EXCEPT !.late = Busy(t)]
  OBVIOUS
<1>2. q = [todo |-> requests[t].todo, by |-> requests[t].by, what |-> requests[t].what,
           seen |-> requests[t].seen, was |-> requests[t].was, late |-> Busy(t)]
  BY <1>1, NewLate DEF Request, HasFields
<1>3. Busy(t) \in BOOLEAN
  BY DEF Busy
<1>4. q.todo = <<>> => q = Idle
  BY <1>1, <1>2 DEF Request, Idle, Busy
<1>5. Request(q)
  BY <1>1, <1>2, <1>3, <1>4 DEF Request
<1> QED BY <1>2, <1>5

(* A step that leaves the poll as it is. *)
LEMMA QuietInv ==
  ASSUME IInv, NEW s \in Slots, NEW q, Quiet(s, q), Request(q),
         UNCHANGED <<kind, options, votes, counts, closed>>,
         doubled \subseteq doubled', doubled' \subseteq Users, shown' = None \/ shown' \in News,
         started' \in 0..MaxRequests, mishaps' \in 0..MaxMishaps,
         outdated' \in BOOLEAN, raced' \in BOOLEAN,
         Playing(s)', MakesSense(s)', Fresh(s)', Cleared(s)', CountsAreShown',
         game' # None => Position(game)',
         kind = "single" /\ q.by \in Users =>
           \A t \in Slots : t # s /\ requests[t].by = q.by => q.by \in doubled'
  PROVE  IInv'
<1>1. requests' = [t \in Slots |-> requests'[t]] /\ requests'[s] = q
  BY DEF Quiet
<1>2. ASSUME NEW t \in Slots, t # s PROVE requests'[t] = requests[t]
  BY <1>2 DEF Quiet
<1>3. Typed'
  <2>1. \A t \in Slots : Request(requests'[t])
    BY <1>1, <1>2 DEF IInv, Typed
  <2>2. Request(requests[s])' <=> Request(requests'[s])
    BY DEF Request, Idle
  <2>3. News' = News /\ Tallies' = Tallies
    BY DEF News, Tallies
  <2>4. \A t \in Slots : Request(requests[t])'
    BY <2>1 DEF Request, Idle
  <2> QED BY <1>1, <2>3, <2>4 DEF IInv, Typed
<1>4. ASSUME NEW t \in Slots PROVE Playing(t)'
  <2>1. CASE t # s
    <3>1. Playing(t)
      BY DEF IInv
    <3> QED BY <1>2, <2>1, <3>1, SameRules DEF Playing, Left
  <2> QED BY <2>1
<1>5. ASSUME NEW t \in Slots PROVE MakesSense(t)' /\ Fresh(t)' /\ Cleared(t)'
  <2>1. CASE t # s
    <3>1. MakesSense(t) /\ Fresh(t) /\ Cleared(t)
      BY DEF IInv, VotesAreOne
    <3>2. Left(t)' = Left(t) /\ requests'[t] = requests[t]
      BY <1>2, <2>1 DEF Left
    <3>3. MakesSense(t)'
      BY <3>1, <3>2 DEF MakesSense, Tallies, News
    <3>4. Fresh(t)'
      BY <3>1, <3>2 DEF Fresh, Tally, Count
    <3>5. Cleared(t)'
      BY <3>1, <3>2 DEF Cleared
    <3> QED BY <3>3, <3>4, <3>5
  <2> QED BY <2>1
<1>6. VotesAreOne'
  <2>1. kind = "single" => \A v, w \in votes : v[1] = w[1] /\ v[1] \notin doubled' => v = w
    BY DEF IInv, VotesAreOne
  <2>2. ASSUME kind = "single", NEW t \in Slots, NEW u \in Slots, t # u,
               requests'[t].by = requests'[u].by, requests'[t].by \in Users
        PROVE  requests'[t].by \in doubled'
    <3>1. CASE t # s /\ u # s
      <4>1. requests[t].by = requests[u].by /\ requests[t].by \in Users
        BY <1>2, <2>2, <3>1
      <4>2. requests[t].by \in doubled
        BY <2>2, <4>1 DEF IInv, VotesAreOne
      <4> QED BY <1>2, <3>1, <4>2
    <3>2. CASE t = s
      BY <1>1, <1>2, <2>2, <3>2
    <3>3. CASE u = s
      BY <1>1, <1>2, <2>2, <3>3
    <3> QED BY <3>1, <3>2, <3>3
  <2> QED BY <1>5, <2>1, <2>2 DEF VotesAreOne
<1>7. (game # None => Position(game))'
  BY SameRules
<1> QED BY <1>3, <1>4, <1>5, <1>6, <1>7 DEF IInv

(* A step that changes the poll. *)
LEMMA ChangedInv ==
  ASSUME IInv, NEW s \in Slots, NEW q, Changed(s, q), Request(q), q.by = requests[s].by,
         UNCHANGED <<kind, shown, game, started, mishaps, doubled, outdated, raced>>,
         options \subseteq options', options' \subseteq Options, votes' \subseteq Users \X options',
         counts' \in Tallies, closed' \in BOOLEAN,
         MakesSense(s)', Fresh(s)', Cleared(s)', "updateState" \notin Names(q.todo), CountsAreShown',
         \A v \in votes' \ votes : v[1] = q.by,
         kind = "single" => \A v, w \in votes' : v[1] = w[1] /\ v[1] \notin doubled => v = w
  PROVE  IInv'
<1>1. requests' = [t \in Slots |-> requests'[t]] /\ requests'[s] = q
  BY DEF Changed
<1>2. ASSUME NEW t \in Slots, t # s
      PROVE  /\ Request(requests'[t]) /\ requests'[t].todo = requests[t].todo
             /\ requests'[t].by = requests[t].by /\ requests'[t].what = requests[t].what
             /\ requests'[t].seen = requests[t].seen /\ requests'[t].late = Busy(t)
  <2>1. requests'[t] = [requests[t] EXCEPT !.late = Busy(t)]
    BY <1>2 DEF Changed
  <2>2. Typed
    BY DEF IInv
  <2> QED BY <2>1, <2>2, OthersTyped
<1>3. Typed'
  <2>1. \A t \in Slots : Request(requests'[t])
    BY <1>1, <1>2
  <2>3. News' = News /\ Tallies' = Tallies
    BY DEF News, Tallies
  <2>4. \A t \in Slots : Request(requests[t])'
    BY <2>1 DEF Request, Idle
  <2> QED BY <1>1, <2>3, <2>4 DEF IInv, Typed
<1>4. ASSUME NEW t \in Slots PROVE Playing(t)'
  <2>1. CASE t # s
    <3>1. Playing(t)
      BY DEF IInv
    <3>2. Left(t)' = Left(t) /\ requests'[t].by = requests[t].by /\ requests'[t].what = requests[t].what
          /\ requests'[t].seen = requests[t].seen
      BY <1>2, <2>1 DEF Left
    <3> QED BY <3>1, <3>2, SameRules DEF Playing
  <2>2. CASE t = s
    BY <1>1, <2>2 DEF Playing, Left
  <2> QED BY <2>1, <2>2
<1>5. ASSUME NEW t \in Slots PROVE MakesSense(t)' /\ Fresh(t)' /\ Cleared(t)'
  <2>1. CASE t # s
    <3>1. MakesSense(t) /\ Cleared(t) /\ Typed
      BY DEF IInv, VotesAreOne
    <3>2. Left(t)' = Left(t) /\ requests'[t].by = requests[t].by /\ requests'[t].what = requests[t].what
          /\ requests'[t].seen = requests[t].seen /\ requests'[t].late = Busy(t)
      BY <1>2, <2>1 DEF Left
    <3>3. MakesSense(t)'
      BY <3>1, <3>2 DEF MakesSense, Tallies, News
    <3>4. Fresh(t)'
      BY <3>1, <3>2, NotBusy DEF Fresh
    <3>5. Cleared(t)'
      <4>1. SUFFICES ASSUME kind = "single", "put" \in Left(t), "clear" \notin Left(t),
                            requests[t].by \notin doubled, NEW v \in votes'
                     PROVE  v[1] # requests[t].by
        BY <3>2 DEF Cleared
      <4>2. CASE v \in votes
        BY <3>1, <4>1, <4>2 DEF Cleared
      <4>3. CASE v \notin votes
        <5>1. v[1] = requests[s].by
          BY <4>3
        <5>2. requests[t].by \in Users
          BY <3>1, <4>1 DEF MakesSense, OfUser
        <5> QED BY <2>1, <4>1, <5>1, <5>2 DEF IInv, VotesAreOne
      <4> QED BY <4>2, <4>3
    <3> QED BY <3>3, <3>4, <3>5
  <2> QED BY <2>1
<1>6. VotesAreOne'
  <2>1. \A t \in Slots : requests'[t].by = requests[t].by
    BY <1>1, <1>2
  <2>2. ASSUME kind = "single", NEW t \in Slots, NEW u \in Slots, t # u,
               requests'[t].by = requests'[u].by, requests'[t].by \in Users
        PROVE  requests'[t].by \in doubled'
    BY <2>1, <2>2 DEF IInv, VotesAreOne
  <2> QED BY <1>5, <2>2 DEF VotesAreOne
<1>7. (game # None => Position(game))'
  BY SameRules DEF IInv
<1> QED BY <1>3, <1>4, <1>5, <1>6, <1>7 DEF IInv
-----------------------------------------------------------------------------
(* Requests begin. *)
LEMMA Begins ==
  ASSUME Typed, NEW s \in Slots, NEW todo \in Paths, NEW by, NEW what, Begin(s, todo, by, what)
  PROVE  \E q : /\ Quiet(s, q) /\ Request(q) /\ ~Busy(s)
                /\ q = [todo |-> todo, by |-> by, what |-> what, seen |-> None, was |-> closed, late |-> FALSE]
<1> DEFINE q == [Idle EXCEPT !.todo = todo, !.by = by, !.what = what, !.was = closed]
<1>1. q = [todo |-> todo, by |-> by, what |-> what, seen |-> None, was |-> closed, late |-> FALSE]
  <2> DEFINE h == Idle.what
             i == Idle.seen
             j == Idle.was
             k == Idle.late
             a == [Idle EXCEPT !.todo = todo]
             b == [a EXCEPT !.by = by]
             c == [b EXCEPT !.what = what]
  <2>1. q = [c EXCEPT !.was = closed]
    OBVIOUS
  <2>2. a = [todo |-> todo, by |-> Idle.by, what |-> h, seen |-> i, was |-> j, late |-> k]
    BY IdleRequest, NewTodo DEF Request, HasFields
  <2> HIDE DEF a, q, h, i, j, k
  <2>3. b = [todo |-> todo, by |-> by, what |-> h, seen |-> i, was |-> j, late |-> k]
    BY <2>2
  <2> HIDE DEF b
  <2>4. c = [todo |-> todo, by |-> by, what |-> what, seen |-> i, was |-> j, late |-> k]
    BY <2>3
  <2> HIDE DEF c
  <2>5. q = [todo |-> todo, by |-> by, what |-> what, seen |-> i, was |-> closed, late |-> k]
    BY <2>1, <2>4
  <2> QED BY <2>5, IdleRequest DEF i, k
<1>2. todo \in Todos /\ todo # <<>>
  <2>1. todo # <<>>
    BY DEF Paths
  <2> QED BY <2>1, PathIsSuffix
<1>3. Continue(s, q) /\ ~Busy(s)
  BY DEF Begin
<1> HIDE DEF q
<1>4. Request(q)
  BY <1>1, <1>2 DEF Request, Typed
<1>5. q.todo = todo
  BY <1>1
<1>6. PICK r : Quiet(s, r) /\ r = IF q.todo = <<>> THEN Idle ELSE q
  BY <1>2, <1>3, <1>4, <1>5, Steps
<1> QED BY <1>1, <1>2, <1>3, <1>4, <1>5, <1>6

LEMMA NamesOfPaths ==
  /\ Names(<<"addOptions">>) = {"addOptions"} /\ Names(<<"open">>) = {"open"}
  /\ Names(<<"updateState">>) = {"updateState"}
  /\ Names(<<"close", "options", "emit">>) = {"close", "options", "emit"}
  /\ Names(<<"options", "emit">>) = {"options", "emit"}
  /\ Names(<<"clear", "count", "write", "options", "emit">>) = {"clear", "count", "write", "options", "emit"}
  /\ Names(<<"put", "count", "write", "options", "emit">>) = {"put", "count", "write", "options", "emit"}
  /\ Names(<<"clear", "put", "count", "write", "options", "emit">>) =
       {"clear", "put", "count", "write", "options", "emit"}
<1>1. Names(<<"addOptions">>) = {"addOptions"} /\ Names(<<"open">>) = {"open"}
      /\ Names(<<"updateState">>) = {"updateState"}
  BY DEF Names
<1>2. Names(<<"close", "options", "emit">>) = {"close", "options", "emit"}
  BY DEF Names
<1>3. Names(<<"options", "emit">>) = {"options", "emit"}
  BY DEF Names
<1>4. Names(<<"clear", "count", "write", "options", "emit">>) = {"clear", "count", "write", "options", "emit"}
  BY DEF Names
<1>5. Names(<<"put", "count", "write", "options", "emit">>) = {"put", "count", "write", "options", "emit"}
  BY DEF Names
<1>6. Names(<<"clear", "put", "count", "write", "options", "emit">>) =
       {"clear", "put", "count", "write", "options", "emit"}
  BY DEF Names
<1> QED BY <1>1, <1>2, <1>3, <1>4, <1>5, <1>6

(* Who was about to tell still is. *)
LEMMA QuietShown ==
  ASSUME IInv, NEW s \in Slots, NEW q, Quiet(s, q), UNCHANGED <<votes, counts, closed, shown, outdated>>,
         "emit" \in Left(s) => "emit" \in Names(q.todo) /\ q.late = requests[s].late /\ q.by = requests[s].by
  PROVE  CountsAreShown'
<1>1. requests'[s] = q /\ \A t \in Slots : t # s => requests'[t] = requests[t]
  BY DEF Quiet
<1>2. Tally' = Tally
  BY DEF Tally, Count
<1>3. CASE outdated \/ Shown
  BY <1>2, <1>3 DEF Shown, CountsAreShown
<1>4. ASSUME NEW t \in Slots, Tells(t) PROVE Tells(t)'
  <2>1. CASE t = s
    BY <1>1, <1>2, <1>4, <2>1 DEF Tells, Left
  <2>2. CASE t # s
    BY <1>1, <1>2, <1>4, <2>2 DEF Tells, Left
  <2> QED BY <2>1, <2>2
<1> QED BY <1>3, <1>4 DEF IInv, CountsAreShown

(* A request about the poll begins, known as such if its user has another one. *)
LEMMA BeginInv ==
  ASSUME IInv, NEW s \in Slots, NEW todo \in Paths, NEW by \in Users \cup {None}, NEW what,
         Begin(s, todo, by, what), doubled \subseteq doubled', doubled' \subseteq Users,
         by \in Users => \A t \in Slots : requests[t].by = by => by \in doubled',
         \/ Names(todo) = {"addOptions"} /\ by = None
         \/ Names(todo) = {"close", "options", "emit"} /\ by = None
         \/ Names(todo) = {"clear", "count", "write", "options", "emit"} /\ by \in Users
         \/ /\ Names(todo) = {"open"} /\ by \in Users /\ what \subseteq options /\ what # {}
            /\ kind = "single" => \E o \in options : what = {o}
  PROVE  IInv'
<1> PICK q : /\ Quiet(s, q) /\ Request(q) /\ ~Busy(s)
             /\ q = [todo |-> todo, by |-> by, what |-> what, seen |-> None, was |-> closed, late |-> FALSE]
  BY Begins DEF IInv
<1>1. /\ UNCHANGED <<kind, options, votes, counts, closed, shown, game, mishaps, outdated, raced>>
      /\ started' \in 0..MaxRequests
  BY InteractiveAssumption DEF Begin, poll, IInv, Typed
<1>2. /\ requests'[s] = q /\ q.todo = todo /\ q.by = by /\ q.what = what /\ q.late = FALSE /\ q.was = closed
      /\ Left(s)' = Names(todo)
  BY DEF Quiet, Left
<1>3. Left(s) = {}
  BY NotBusy DEF IInv
<1>4. CountsAreShown'
  BY <1>1, <1>3, QuietShown
<1>5. Playing(s)'
  BY <1>2 DEF Playing
<1>6. MakesSense(s)'
  BY <1>1, <1>2 DEF MakesSense, OfUser, OfNobody
<1>7. Fresh(s)'
  BY <1>1, <1>2, InteractiveAssumption DEF Fresh
<1>8. Cleared(s)'
  BY <1>2 DEF Cleared
<1>9. (game # None => Position(game))'
  BY <1>1, SameRules DEF IInv
<1>10. /\ shown' = None \/ shown' \in News
       /\ mishaps' \in 0..MaxMishaps /\ outdated' \in BOOLEAN /\ raced' \in BOOLEAN
  BY <1>1 DEF IInv, Typed
<1> QED BY <1>1, <1>2, <1>4, <1>5, <1>6, <1>7, <1>8, <1>9, <1>10, QuietInv

LEMMA ArriveInv ==
  ASSUME IInv, NEW s \in Slots,
         \/ CreatePoll(s) \/ ClosePoll(s)
         \/ \E u \in Users : RetractVote(s, u) \/ \E chosen \in SUBSET Options : Vote(s, u, chosen)
  PROVE  IInv'
<1>1. doubled \subseteq Users
  BY DEF IInv, Typed
<1>2. CASE CreatePoll(s)
  <2>1. <<"addOptions">> \in Paths
    BY DEF Paths
  <2> QED BY <1>1, <1>2, <2>1, NamesOfPaths, BeginInv, InteractiveAssumption DEF CreatePoll
<1>3. CASE ClosePoll(s)
  <2>1. <<"close", "options", "emit">> \in Paths
    BY DEF Paths
  <2> QED BY <1>1, <1>3, <2>1, NamesOfPaths, BeginInv, InteractiveAssumption DEF ClosePoll
<1>4. ASSUME NEW u \in Users, RetractVote(s, u) PROVE IInv'
  <2>1. <<"clear", "count", "write", "options", "emit">> \in Paths
    BY DEF Paths
  <2>2. /\ Begin(s, <<"clear", "count", "write", "options", "emit">>, u, {})
        /\ doubled' = IF \E t \in Slots : requests[t].by = u THEN doubled \cup {u} ELSE doubled
    BY <1>4 DEF RetractVote, Retract
  <2>3. doubled \subseteq doubled' /\ doubled' \subseteq Users /\ \A t \in Slots : requests[t].by = u => u \in doubled'
    BY <1>1, <2>2
  <2> QED BY <2>1, <2>2, <2>3, NamesOfPaths, BeginInv
<1>5. ASSUME NEW u \in Users, NEW chosen \in SUBSET Options, Vote(s, u, chosen) PROVE IInv'
  <2>1. <<"open">> \in Paths
    BY DEF Paths
  <2>2. /\ Begin(s, <<"open">>, u, chosen) /\ chosen \subseteq options /\ chosen # {}
        /\ kind = "single" => Cardinality(chosen) = 1
        /\ doubled' = IF \E t \in Slots : requests[t].by = u THEN doubled \cup {u} ELSE doubled
    BY <1>5 DEF Vote
  <2>3. doubled \subseteq doubled' /\ doubled' \subseteq Users /\ \A t \in Slots : requests[t].by = u => u \in doubled'
    BY <1>1, <2>2
  <2>4. kind = "single" => \E o \in options : chosen = {o}
    <3>1. IsFiniteSet(chosen)
      BY FS_Subset, InteractiveAssumption
    <3>2. Cardinality(chosen) = 1 => \E o : chosen = {o}
      BY <3>1, FS_Singleton
    <3> QED BY <2>2, <3>2
  <2> QED BY <2>1, <2>2, <2>3, <2>4, NamesOfPaths, BeginInv
<1> QED BY <1>2, <1>3, <1>4, <1>5
-----------------------------------------------------------------------------
(* The statements that only read, and the last ones. *)
LEMMA AtRest ==
  ASSUME Typed, NEW s \in Slots, NEW name, At(s, name)
  PROVE  /\ Busy(s) /\ requests[s].todo # <<>> /\ requests[s].todo \in Todos /\ Head(requests[s].todo) = name
         /\ Rest(s) \in Todos /\ Left(s) = {name} \cup Names(Rest(s))
         /\ name \in Ending => Rest(s) = <<>> /\ Left(s) = {name}
         /\ name = "options" => Names(Rest(s)) = {"emit"}
         /\ name \in {"write", "close"} => Names(Rest(s)) = {"options", "emit"}
         /\ name = "count" => Names(Rest(s)) = {"write", "options", "emit"}
         /\ name = "put" => Names(Rest(s)) = {"count", "write", "options", "emit"}
         /\ name = "clear" => \/ Names(Rest(s)) = {"count", "write", "options", "emit"}
                              \/ Names(Rest(s)) = {"put", "count", "write", "options", "emit"}
         /\ name \notin Ending => Rest(s) # <<>>
<1> DEFINE t == requests[s].todo
<1>1. t \in Todos /\ t # <<>> /\ Head(t) = name /\ Busy(s)
  BY NotBusy DEF At, Busy
<1>2. Rest(s) = Tail(t) /\ Left(s) = Names(t)
  BY DEF Rest, Left
<1> HIDE DEF t
<1>3. /\ Tail(t) \in Todos /\ Names(t) = {name} \cup Names(Tail(t))
      /\ name \in Ending => Tail(t) = <<>> /\ Names(t) = {name}
      /\ name = "options" => Names(Tail(t)) = {"emit"}
      /\ name \in {"write", "close"} => Names(Tail(t)) = {"options", "emit"}
      /\ name = "count" => Names(Tail(t)) = {"write", "options", "emit"}
      /\ name = "put" => Names(Tail(t)) = {"count", "write", "options", "emit"}
      /\ name = "clear" => \/ Names(Tail(t)) = {"count", "write", "options", "emit"}
                           \/ Names(Tail(t)) = {"put", "count", "write", "options", "emit"}
  BY <1>1, Rests
<1>4. name \in Ending \cup {"options", "write", "close", "count", "put", "clear"}
  BY <1>1, FirstNames
<1>5. name \notin Ending => Tail(t) # <<>>
  BY <1>3, <1>4, NothingLeft
<1> QED BY <1>1, <1>2, <1>3, <1>5 DEF t

(* A request is over. *)
LEMMA OverInv ==
  ASSUME IInv, NEW s \in Slots, Quiet(s, Idle),
         UNCHANGED <<kind, options, votes, counts, closed, started, doubled>>,
         mishaps' \in 0..MaxMishaps, shown' = None \/ shown' \in News,
         outdated' \in BOOLEAN, raced' \in BOOLEAN, CountsAreShown', (game # None => Position(game))'
  PROVE  IInv'
<1>1. Left(s)' = {}
  BY IdleRequest DEF Quiet, Left
<1>2. Playing(s)' /\ MakesSense(s)' /\ Fresh(s)' /\ Cleared(s)'
  BY <1>1 DEF Playing, MakesSense, Fresh, Cleared
<1>3. started' \in 0..MaxRequests /\ doubled' \subseteq Users
  BY DEF IInv, Typed
<1> QED BY <1>1, <1>2, <1>3, QuietInv, IdleRequest, InteractiveAssumption

LEMMA SameGame ==
  ASSUME IInv, UNCHANGED <<kind, game>>
  PROVE  (game # None => Position(game))'
BY SameRules DEF IInv

LEMMA FailInv ==
  ASSUME IInv, NEW s \in Slots, Fail(s)
  PROVE  IInv'
<1>1. Quiet(s, Idle)
  <2>1. Continue(s, Idle) /\ Typed
    BY DEF Fail, IInv
  <2> QED BY <2>1, Steps, IdleRequest, NothingLeft
<1>2. UNCHANGED <<kind, options, votes, counts, closed, shown, game, started, doubled, raced>> /\ outdated' = TRUE
  BY DEF Fail, poll
<1>3. mishaps' \in 0..MaxMishaps
  BY InteractiveAssumption DEF Fail, IInv, Typed
<1>4. CountsAreShown'
  BY <1>2 DEF CountsAreShown
<1>5. (shown' = None \/ shown' \in News) /\ raced' \in BOOLEAN
  BY <1>2 DEF IInv, Typed
<1> QED BY <1>1, <1>2, <1>3, <1>4, <1>5, SameGame, OverInv

LEMMA EmitInv ==
  ASSUME IInv, NEW s \in Slots, EmitPollUpdate(s), UNCHANGED <<kind, started, mishaps>>
  PROVE  IInv'
<1> DEFINE r == requests[s]
<1>1. Typed /\ Request(r) /\ MakesSense(s) /\ Fresh(s)
  BY DEF IInv, Typed
<1>2. Left(s) = {"emit"} /\ Rest(s) = <<>>
  BY <1>1, AtRest DEF EmitPollUpdate, Ending
<1>3. Quiet(s, Idle)
  <2> DEFINE q == [requests[s] EXCEPT !.todo = Rest(s)]
  <2>1. q = [todo |-> <<>>, by |-> r.by, what |-> r.what, seen |-> r.seen, was |-> r.was, late |-> r.late]
    BY <1>1, <1>2, NewTodo DEF Request, HasFields
  <2>2. Continue(s, q)
    BY DEF EmitPollUpdate, Go
  <2> HIDE DEF q
  <2>3. q.todo = <<>>
    BY <2>1
  <2> QED BY <1>1, <2>2, <2>3, Steps, NothingLeft
<1>4. /\ UNCHANGED <<options, votes, counts, closed, game, doubled, raced>>
      /\ shown' = r.seen /\ outdated' = (r.late \/ (outdated /\ r.by = None))
  BY DEF EmitPollUpdate
<1>5. r.seen \in News /\ r.by \in Users \cup {None}
  BY <1>1, <1>2 DEF MakesSense
<1>6. Tally' = Tally
  BY <1>4 DEF Tally, Count
<1>7. CountsAreShown'
  <2>1. SUFFICES ASSUME ~outdated' PROVE Shown' \/ \E t \in Slots : Tells(t)'
    BY DEF CountsAreShown
  <2>2. ~r.late /\ (r.by \in Users \/ ~outdated)
    BY <1>4, <1>5, <2>1
  <2>3. r.seen = [counts |-> counts, closed |-> closed] /\ (r.by \in Users => counts = Tally)
    BY <1>1, <1>2, <2>2 DEF Fresh
  <2>4. counts = Tally => Shown'
    BY <1>4, <1>6, <2>3 DEF Shown
  <2>5. ASSUME ~outdated, r.by \notin Users, NEW t \in Slots, Tells(t), t # s PROVE Tells(t)'
    BY <1>3, <1>4, <1>6, <2>5 DEF Quiet, Tells, Left
  <2>6. r.by \notin Users /\ Tells(s) => counts = Tally
    BY <2>2 DEF Tells
  <2> QED BY <2>2, <2>3, <2>4, <2>5, <2>6 DEF IInv, CountsAreShown, Shown
<1>8. outdated' \in BOOLEAN /\ raced' \in BOOLEAN /\ mishaps' \in 0..MaxMishaps
  BY <1>1, <1>4 DEF Typed, Request
<1> HIDE DEF r
<1> QED BY <1>3, <1>4, <1>5, <1>7, <1>8, SameGame, OverInv
-----------------------------------------------------------------------------
(* What a count can be. *)
LEMMA TallyTyped ==
  ASSUME Typed
  PROVE  Tally \in Tallies
<1> SUFFICES ASSUME NEW o \in Options PROVE Count(o, votes) \in 0..Cardinality(Users)
  BY DEF Tally, Tallies
<1> DEFINE V == {v \in votes : v[2] = o}
           f == [v \in V |-> v[1]]
<1>1. \A v \in V : v[1] \in Users /\ v = <<v[1], o>>
  BY DEF Typed
<1>2. f \in Injection(V, Users)
  <2>1. f \in [V -> Users]
    BY <1>1
  <2>2. \A v, w \in V : f[v] = f[w] => v = w
    BY <1>1
  <2> QED BY <2>1, <2>2 DEF Injection, IsInjective
<1>3. IsFiniteSet(V) /\ Cardinality(V) <= Cardinality(Users)
  BY <1>2, FS_Injection, InteractiveAssumption
<1>4. Cardinality(V) \in Nat /\ Cardinality(Users) \in Nat
  BY <1>3, FS_CardinalityType, InteractiveAssumption
<1> QED BY <1>3, <1>4 DEF Count

(* A request goes on with what it has. *)
LEMMA GoOn ==
  ASSUME IInv, NEW s \in Slots, NEW q, Quiet(s, q), Request(q), q.by = requests[s].by,
         UNCHANGED <<poll, kind, game, started, mishaps, history>>,
         "emit" \in Left(s) => "emit" \in Names(q.todo) /\ q.late = requests[s].late,
         "updateState" \notin Names(q.todo), MakesSense(s)', Fresh(s)', Cleared(s)'
  PROVE  IInv'
<1>1. CountsAreShown'
  BY QuietShown DEF poll, history
<1>2. UNCHANGED <<options, votes, counts, closed, shown, doubled, outdated, raced>>
  BY DEF poll, history
<1>3. Playing(s)'
  BY DEF Playing, Left, Quiet
<1>4. kind = "single" /\ q.by \in Users =>
        \A t \in Slots : t # s /\ requests[t].by = q.by => q.by \in doubled'
  BY <1>2 DEF IInv, VotesAreOne
<1>5. doubled' \subseteq Users
  BY <1>2 DEF IInv, Typed
<1>6. /\ started' \in 0..MaxRequests /\ mishaps' \in 0..MaxMishaps
      /\ outdated' \in BOOLEAN /\ raced' \in BOOLEAN /\ (shown' = None \/ shown' \in News)
  BY <1>2 DEF IInv, Typed
<1> QED BY <1>1, <1>2, <1>3, <1>4, <1>5, <1>6, SameGame, QuietInv

LEMMA FindPollInv ==
  ASSUME IInv, NEW s \in Slots, FindPoll(s), UNCHANGED <<kind, started, mishaps>>
  PROVE  IInv'
<1> DEFINE r == requests[s]
           todo == IF kind = "single" THEN <<"clear", "put", "count", "write", "options", "emit">>
                   ELSE <<"put", "count", "write", "options", "emit">>
           q == [r EXCEPT !.late = FALSE, !.was = closed, !.todo = todo]
<1>1. Typed /\ Request(r) /\ MakesSense(s) /\ closed \in BOOLEAN
  BY DEF IInv, Typed
<1>2. At(s, "open") /\ UNCHANGED <<poll, game, history>>
  BY DEF FindPoll, FindOpen
<1>3. Left(s) = {"open"}
  BY <1>1, <1>2, AtRest DEF Ending
<1>4. CASE closed
  <2>1. Quiet(s, Idle)
    <3>1. Continue(s, Idle)
      BY <1>4 DEF FindPoll, FindOpen
    <3> QED BY <1>1, <3>1, Steps, IdleRequest, NothingLeft
  <2>2. CountsAreShown'
    BY <1>2, <1>3, <2>1, QuietShown DEF poll, history
  <2>3. UNCHANGED <<options, votes, counts, closed, shown, doubled, outdated, raced>>
    BY <1>2 DEF poll, history
  <2>4. /\ mishaps' \in 0..MaxMishaps /\ outdated' \in BOOLEAN /\ raced' \in BOOLEAN
        /\ shown' = None \/ shown' \in News
    BY <1>1, <2>3 DEF Typed
  <2> QED BY <1>2, <2>1, <2>2, <2>3, <2>4, SameGame, OverInv
<1>5. CASE ~closed
  <2>1. q = [todo |-> todo, by |-> r.by, what |-> r.what, seen |-> r.seen, was |-> closed, late |-> FALSE]
    <3> DEFINE f == r.todo
               g == r.by
               h == r.what
               i == r.seen
               j == r.was
               no == FALSE
               a == [r EXCEPT !.late = no]
               b == [a EXCEPT !.was = closed]
    <3>1. q = [b EXCEPT !.todo = todo]
      OBVIOUS
    <3>2. a = [todo |-> f, by |-> g, what |-> h, seen |-> i, was |-> j, late |-> no]
      BY <1>1, NewLate DEF Request, HasFields
    <3> HIDE DEF a, f, g, h, i, j, q, r, todo, no
    <3>3. b = [todo |-> f, by |-> g, what |-> h, seen |-> i, was |-> closed, late |-> no]
      BY <3>2
    <3> HIDE DEF b
    <3>4. q = [todo |-> todo, by |-> g, what |-> h, seen |-> i, was |-> closed, late |-> no]
      BY <3>1, <3>3
    <3> QED BY <3>4 DEF g, h, i, no
  <2>2. todo \in Paths
    BY DEF Paths
  <2>3. todo \in Todos /\ todo # <<>>
    BY <2>2, PathIsSuffix
  <2>4. Names(todo) = {"put", "count", "write", "options", "emit"} \cup IF kind = "single" THEN {"clear"} ELSE {}
    <3>1. CASE kind = "single"
      BY <3>1, NamesOfPaths
    <3>2. CASE kind # "single"
      BY <3>2, NamesOfPaths
    <3> QED BY <3>1, <3>2
  <2>5. Continue(s, q)
    BY <1>5 DEF FindPoll, FindOpen
  <2> HIDE DEF q, todo
  <2>6. Request(q) /\ q.todo = todo
    BY <1>1, <2>1, <2>3 DEF Request
  <2>7. Quiet(s, q)
    BY <1>1, <2>3, <2>5, <2>6, Steps
  <2>8. requests'[s] = q /\ Left(s)' = Names(todo)
    BY <2>6, <2>7 DEF Quiet, Left
  <2>9. /\ q.by = r.by /\ q.what = r.what /\ q.late = FALSE /\ q.was = closed
        /\ r.by \in Users /\ r.what \subseteq options /\ r.what # {}
        /\ kind = "single" => \E o \in options : r.what = {o}
    BY <1>1, <1>3, <2>1 DEF MakesSense, OfUser
  <2> HIDE DEF r
  <2>10. UNCHANGED <<kind, options, closed>>
    BY <1>2 DEF poll
  <2>11. MakesSense(s)'
    BY <2>4, <2>8, <2>9, <2>10 DEF MakesSense, OfNobody
  <2>12. Fresh(s)'
    BY <1>5, <2>4, <2>8, <2>9, <2>10 DEF Fresh
  <2>13. Cleared(s)'
    BY <2>4, <2>8, <2>10 DEF Cleared
  <2> QED BY <1>2, <1>3, <2>4, <2>6, <2>7, <2>9, <2>11, <2>12, <2>13, GoOn DEF r
<1> QED BY <1>1, <1>4, <1>5

LEMMA CountVotesInv ==
  ASSUME IInv, NEW s \in Slots, CountVotes(s), UNCHANGED <<kind, started, mishaps>>
  PROVE  IInv'
<1> DEFINE r == requests[s]
           q == [r EXCEPT !.todo = Rest(s), !.seen = Tally]
<1>1. Typed /\ Request(r) /\ MakesSense(s) /\ Fresh(s)
  BY DEF IInv, Typed
<1>2. At(s, "count") /\ UNCHANGED <<poll, game, history>>
  BY DEF CountVotes
<1>3. /\ Names(Rest(s)) = {"write", "options", "emit"} /\ Left(s) = {"count", "write", "options", "emit"}
      /\ Rest(s) # <<>> /\ Rest(s) \in Todos
  BY <1>1, <1>2, AtRest DEF Ending
<1>4. q = [todo |-> Rest(s), by |-> r.by, what |-> r.what, seen |-> Tally, was |-> r.was, late |-> r.late]
  BY <1>1, NewSeen DEF Request, HasFields
<1>5. Continue(s, q)
  BY DEF CountVotes, Tally
<1> HIDE DEF q
<1>6. Request(q) /\ q.todo = Rest(s)
  BY <1>1, <1>3, <1>4 DEF Request
<1>7. Quiet(s, q)
  BY <1>1, <1>3, <1>5, <1>6, Steps
<1>8. requests'[s] = q /\ Left(s)' = {"write", "options", "emit"}
  BY <1>3, <1>6, <1>7 DEF Quiet, Left
<1>9. q.by = r.by /\ q.seen = Tally /\ q.was = r.was /\ q.late = r.late /\ r.by \in Users /\ Tally \in Tallies
  BY <1>1, <1>3, <1>4, TallyTyped DEF MakesSense, OfUser
<1>10. (~r.late => r.was = closed) /\ UNCHANGED <<options, votes, counts, closed>>
  BY <1>1, <1>2, <1>3, <1>9 DEF Fresh, poll
<1> HIDE DEF r
<1>11. MakesSense(s)'
  BY <1>8, <1>9, <1>10 DEF MakesSense, OfNobody, Tallies
<1>12. Fresh(s)'
  <2>1. Tally' = Tally
    BY <1>10 DEF Tally, Count
  <2> QED BY <1>8, <1>9, <1>10, <2>1 DEF Fresh
<1>13. Cleared(s)'
  BY <1>8 DEF Cleared
<1> QED BY <1>2, <1>3, <1>6, <1>7, <1>9, <1>11, <1>12, <1>13, GoOn DEF r

LEMMA GetOptionsInv ==
  ASSUME IInv, NEW s \in Slots, GetOptions(s), UNCHANGED <<kind, started, mishaps>>
  PROVE  IInv'
<1> DEFINE r == requests[s]
           seen == [counts |-> counts, closed |-> IF r.by = None THEN closed ELSE r.was]
           q == [r EXCEPT !.todo = Rest(s), !.seen = seen]
<1>1. Typed /\ Request(r) /\ MakesSense(s) /\ Fresh(s)
  BY DEF IInv, Typed
<1>2. At(s, "options") /\ UNCHANGED <<poll, game, history>>
  BY DEF GetOptions
<1>3. /\ Names(Rest(s)) = {"emit"} /\ Left(s) = {"options", "emit"}
      /\ Rest(s) # <<>> /\ Rest(s) \in Todos
  BY <1>1, <1>2, AtRest DEF Ending
<1>4. Continue(s, q)
  BY DEF GetOptions
<1>5. seen \in News
  BY <1>1 DEF News, Typed, Request
<1>6. ~r.late /\ r.by \in Users => r.was = closed /\ counts = Tally
  BY <1>1, <1>3 DEF Fresh
<1>7. r.by \in Users \cup {None}
  BY <1>1, <1>3 DEF MakesSense
<1>8. ~r.late => seen = [counts |-> counts, closed |-> closed]
  BY <1>6, <1>7
<1> HIDE DEF seen
<1>9. q = [todo |-> Rest(s), by |-> r.by, what |-> r.what, seen |-> seen, was |-> r.was, late |-> r.late]
  BY <1>1, NewSeen DEF Request, HasFields
<1> HIDE DEF q
<1>10. Request(q) /\ q.todo = Rest(s)
  BY <1>1, <1>3, <1>9 DEF Request
<1>11. Quiet(s, q)
  BY <1>1, <1>3, <1>4, <1>10, Steps
<1>12. requests'[s] = q /\ Left(s)' = {"emit"}
  BY <1>3, <1>10, <1>11 DEF Quiet, Left
<1>13. q.by = r.by /\ q.seen = seen /\ q.was = r.was /\ q.late = r.late
  BY <1>9
<1> HIDE DEF r
<1>14. UNCHANGED <<options, votes, counts, closed>>
  BY <1>2 DEF poll
<1>15. MakesSense(s)'
  BY <1>5, <1>7, <1>12, <1>13 DEF MakesSense, OfNobody, OfUser, News, Tallies
<1>16. Fresh(s)'
  <2>1. Tally' = Tally
    BY <1>14 DEF Tally, Count
  <2> QED BY <1>6, <1>8, <1>12, <1>13, <1>14, <2>1 DEF Fresh
<1>17. Cleared(s)'
  BY <1>12 DEF Cleared
<1> QED BY <1>2, <1>3, <1>10, <1>11, <1>13, <1>15, <1>16, <1>17, GoOn DEF r
-----------------------------------------------------------------------------
(* The statements that change the poll. *)
LEMMA Changes ==
  ASSUME Typed, NEW s \in Slots, NEW todo \in Todos, todo # <<>>, Change(s, todo)
  PROVE  \E q : /\ Changed(s, q) /\ Request(q) /\ requests'[s] = q /\ Left(s)' = Names(todo)
                /\ q.todo = todo /\ q.by = requests[s].by /\ q.what = requests[s].what
                /\ q.seen = requests[s].seen /\ q.was = requests[s].was /\ q.late = requests[s].late
<1> DEFINE r == requests[s]
           q == [r EXCEPT !.todo = todo]
<1>1. Request(r)
  BY DEF Typed
<1>2. Changed(s, q)
  BY DEF Change, Changed
<1>3. q = [todo |-> todo, by |-> r.by, what |-> r.what, seen |-> r.seen, was |-> r.was, late |-> r.late]
  BY <1>1, NewTodo DEF Request, HasFields
<1> HIDE DEF q
<1>4. Request(q)
  BY <1>1, <1>3 DEF Request
<1>5. requests'[s] = q /\ Left(s)' = Names(todo)
  BY <1>2, <1>3 DEF Changed, Left
<1> QED BY <1>2, <1>3, <1>4, <1>5

(* The others know that the poll has changed, and will tell. *)
LEMMA OthersTell ==
  ASSUME Typed, NEW s \in Slots, NEW q, Changed(s, q), NEW t \in Slots, t # s, "emit" \in Left(t)
  PROVE  Tells(t)'
<1>1. requests'[t] = [requests[t] EXCEPT !.late = Busy(t)]
  BY DEF Changed
<1>2. requests'[t].todo = requests[t].todo /\ requests'[t].late = Busy(t) /\ Busy(t)
  BY <1>1, OthersTyped, NotBusy
<1> QED BY <1>2 DEF Tells, Left

LEMMA AddOptionInv ==
  ASSUME IInv, NEW s \in Slots, AddOption(s), UNCHANGED <<kind, started, mishaps>>
  PROVE  IInv'
<1>1. Typed /\ MakesSense(s)
  BY DEF IInv
<1>2. At(s, "addOptions") /\ UNCHANGED <<votes, counts, closed, shown, game, doubled, outdated, raced>>
  BY DEF AddOption, history
<1>3. Left(s) = {"addOptions"}
  BY <1>1, <1>2, AtRest DEF Ending
<1>4. PICK o \in Options \ options : options' = options \cup {o}
  BY DEF AddOption
<1>5. PICK todo \in {<<"options", "emit">>, <<"addOptions">>} : Change(s, todo)
  BY DEF AddOption, Tell
<1>6. todo \in Todos /\ todo # <<>> /\ Names(todo) \in {{"options", "emit"}, {"addOptions"}}
  <2>1. todo \in Paths
    BY DEF Paths
  <2> QED BY <2>1, PathIsSuffix, NamesOfPaths
<1> PICK q : /\ Changed(s, q) /\ Request(q) /\ requests'[s] = q /\ Left(s)' = Names(todo)
             /\ q.todo = todo /\ q.by = requests[s].by
  BY <1>1, <1>5, <1>6, Changes
<1>7. q.by = None
  BY <1>1, <1>3 DEF MakesSense, OfNobody
<1>8. MakesSense(s)'
  BY <1>6, <1>7 DEF MakesSense, OfUser
<1>9. Fresh(s)'
  BY <1>6, <1>7, InteractiveAssumption DEF Fresh
<1>10. Cleared(s)'
  BY <1>6 DEF Cleared
<1>11. CountsAreShown'
  <2>1. CASE outdated \/ Shown
    BY <1>2, <2>1 DEF CountsAreShown, Shown, Tally, Count
  <2>2. ASSUME NEW t \in Slots, Tells(t) PROVE Tells(t)'
    BY <1>1, <1>3, <2>2, OthersTell DEF Tells
  <2> QED BY <2>1, <2>2 DEF IInv, CountsAreShown
<1>12. options' \subseteq Options /\ votes' \subseteq Users \X options' /\ counts' \in Tallies /\ closed' \in BOOLEAN
  BY <1>1, <1>2, <1>4 DEF Typed
<1>13. kind = "single" => \A v, w \in votes' : v[1] = w[1] /\ v[1] \notin doubled => v = w
  BY <1>2 DEF IInv, VotesAreOne
<1> QED BY <1>2, <1>4, <1>6, <1>8, <1>9, <1>10, <1>11, <1>12, <1>13, ChangedInv

(* A user's request will tell what it changes. *)
LEMMA UserChange ==
  ASSUME IInv, NEW s \in Slots, NEW q, Changed(s, q), Request(q), q.by = requests[s].by, q.by \in Users,
         "emit" \in Names(q.todo), "updateState" \notin Names(q.todo),
         UNCHANGED <<kind, options, closed, shown, game, started, mishaps, doubled, outdated, raced>>,
         votes' \subseteq Users \X options', counts' \in Tallies,
         MakesSense(s)', Fresh(s)', Cleared(s)',
         \A v \in votes' \ votes : v[1] = q.by,
         kind = "single" => \A v, w \in votes' : v[1] = w[1] /\ v[1] \notin doubled => v = w
  PROVE  IInv'
<1>1. Tells(s)'
  BY DEF Tells, Left, Changed
<1>2. CountsAreShown'
  BY <1>1 DEF CountsAreShown
<1>3. options' \subseteq Options /\ closed' \in BOOLEAN /\ options \subseteq options'
  BY DEF IInv, Typed
<1> QED BY <1>2, <1>3, ChangedInv

LEMMA DeleteVotesInv ==
  ASSUME IInv, NEW s \in Slots, DeleteVotes(s), UNCHANGED <<kind, started, mishaps>>
  PROVE  IInv'
<1>1. Typed /\ MakesSense(s) /\ Fresh(s)
  BY DEF IInv
<1>2. /\ At(s, "clear") /\ Change(s, Rest(s))
      /\ UNCHANGED <<options, counts, closed, shown, game, doubled, outdated, raced>>
      /\ votes' = {v \in votes : v[1] # requests[s].by}
  BY DEF DeleteVotes, history
<1>3. /\ Rest(s) # <<>> /\ Rest(s) \in Todos /\ Left(s) = {"clear"} \cup Names(Rest(s))
      /\ \/ Names(Rest(s)) = {"count", "write", "options", "emit"}
         \/ Names(Rest(s)) = {"put", "count", "write", "options", "emit"}
  BY <1>1, <1>2, AtRest DEF Ending
<1> PICK q : /\ Changed(s, q) /\ Request(q) /\ requests'[s] = q /\ Left(s)' = Names(Rest(s))
             /\ q.todo = Rest(s) /\ q.by = requests[s].by /\ q.what = requests[s].what
             /\ q.seen = requests[s].seen /\ q.was = requests[s].was /\ q.late = requests[s].late
  BY <1>1, <1>2, <1>3, Changes
<1>4. q.by \in Users
  BY <1>1, <1>3 DEF MakesSense, OfUser
<1>5. MakesSense(s)'
  BY <1>1, <1>2, <1>3, <1>4 DEF MakesSense, OfNobody, OfUser
<1>6. Fresh(s)'
  BY <1>1, <1>2, <1>3, <1>4 DEF Fresh
<1>7. Cleared(s)'
  BY <1>2 DEF Cleared
<1>8. votes' \subseteq votes
  BY <1>2
<1>9. votes' \subseteq Users \X options' /\ counts' \in Tallies
  BY <1>1, <1>2, <1>8 DEF Typed
<1>10. kind = "single" => \A v, w \in votes' : v[1] = w[1] /\ v[1] \notin doubled => v = w
  BY <1>8 DEF IInv, VotesAreOne
<1> QED BY <1>2, <1>3, <1>4, <1>5, <1>6, <1>7, <1>8, <1>9, <1>10, UserChange

LEMMA WriteCountsInv ==
  ASSUME IInv, NEW s \in Slots, WriteCounts(s), UNCHANGED <<kind, started, mishaps>>
  PROVE  IInv'
<1>1. Typed /\ MakesSense(s) /\ Fresh(s)
  BY DEF IInv
<1>2. /\ At(s, "write") /\ Change(s, Rest(s)) /\ counts' = requests[s].seen
      /\ UNCHANGED <<options, votes, closed, shown, game, doubled, outdated, raced>>
  BY DEF WriteCounts, history
<1>3. /\ Rest(s) # <<>> /\ Rest(s) \in Todos /\ Names(Rest(s)) = {"options", "emit"}
      /\ Left(s) = {"write", "options", "emit"}
  BY <1>1, <1>2, AtRest DEF Ending
<1> PICK q : /\ Changed(s, q) /\ Request(q) /\ requests'[s] = q /\ Left(s)' = Names(Rest(s))
             /\ q.todo = Rest(s) /\ q.by = requests[s].by /\ q.what = requests[s].what
             /\ q.seen = requests[s].seen /\ q.was = requests[s].was /\ q.late = requests[s].late
  BY <1>1, <1>2, <1>3, Changes
<1>4. q.by \in Users /\ q.seen \in Tallies
  BY <1>1, <1>3 DEF MakesSense, OfUser
<1>5. MakesSense(s)'
  BY <1>3, <1>4 DEF MakesSense, OfNobody, OfUser
<1>6. Fresh(s)'
  <2>1. Tally' = Tally
    BY <1>2 DEF Tally, Count
  <2> QED BY <1>1, <1>2, <1>3, <1>4, <2>1 DEF Fresh
<1>7. Cleared(s)'
  BY <1>3 DEF Cleared
<1>8. votes' \subseteq Users \X options' /\ counts' \in Tallies
  BY <1>1, <1>2, <1>4 DEF Typed
<1>9. kind = "single" => \A v, w \in votes' : v[1] = w[1] /\ v[1] \notin doubled => v = w
  BY <1>2 DEF IInv, VotesAreOne
<1> QED BY <1>2, <1>3, <1>4, <1>5, <1>6, <1>7, <1>8, <1>9, UserChange

LEMMA CloseInv ==
  ASSUME IInv, NEW s \in Slots, Close(s), UNCHANGED <<kind, started, mishaps>>
  PROVE  IInv'
<1>1. Typed /\ MakesSense(s) /\ Fresh(s)
  BY DEF IInv
<1>2. /\ At(s, "close") /\ Change(s, Rest(s)) /\ closed' = TRUE
      /\ UNCHANGED <<options, votes, counts, shown, game, doubled, outdated, raced>>
  BY DEF Close, history
<1>3. /\ Rest(s) # <<>> /\ Rest(s) \in Todos /\ Names(Rest(s)) = {"options", "emit"}
      /\ Left(s) = {"close", "options", "emit"}
  BY <1>1, <1>2, AtRest DEF Ending
<1> PICK q : /\ Changed(s, q) /\ Request(q) /\ requests'[s] = q /\ Left(s)' = Names(Rest(s))
             /\ q.todo = Rest(s) /\ q.by = requests[s].by /\ q.what = requests[s].what
             /\ q.seen = requests[s].seen /\ q.was = requests[s].was /\ q.late = requests[s].late
  BY <1>1, <1>2, <1>3, Changes
<1>4. q.by = None
  BY <1>1, <1>3 DEF MakesSense, OfNobody
<1>5. MakesSense(s)'
  BY <1>3, <1>4 DEF MakesSense, OfNobody, OfUser
<1>6. Fresh(s)'
  BY <1>3, <1>4, InteractiveAssumption DEF Fresh
<1>7. Cleared(s)'
  BY <1>3 DEF Cleared
<1>8. CountsAreShown'
  <2>1. Tally' = Tally
    BY <1>2 DEF Tally, Count
  <2>2. CASE outdated
    BY <1>2, <2>2 DEF CountsAreShown
  <2>3. CASE counts = Tally
    <3>1. Tells(s)'
      BY <1>2, <1>3, <2>1, <2>3 DEF Tells
    <3> QED BY <3>1 DEF CountsAreShown
  <2>4. ASSUME NEW t \in Slots, Tells(t) PROVE Tells(t)'
    <3>1. CASE t = s
      BY <1>2, <1>3, <2>1, <2>4, <3>1 DEF Tells
    <3>2. CASE t # s
      BY <1>1, <2>4, <3>2, OthersTell DEF Tells
    <3> QED BY <3>1, <3>2
  <2> QED BY <2>2, <2>3, <2>4 DEF IInv, CountsAreShown, Shown
<1>9. /\ options' \subseteq Options /\ votes' \subseteq Users \X options' /\ counts' \in Tallies /\ closed' \in BOOLEAN
      /\ options \subseteq options' /\ votes' \ votes = {}
  BY <1>1, <1>2 DEF Typed
<1>10. kind = "single" => \A v, w \in votes' : v[1] = w[1] /\ v[1] \notin doubled => v = w
  BY <1>2 DEF IInv, VotesAreOne
<1>11. "updateState" \notin Names(q.todo)
  BY <1>3
<1> QED BY <1>2, <1>5, <1>6, <1>7, <1>8, <1>9, <1>10, <1>11, ChangedInv

LEMMA InsertVoteInv ==
  ASSUME IInv, NEW s \in Slots, InsertVote(s), UNCHANGED <<kind, started, mishaps>>
  PROVE  IInv'
<1> DEFINE r == requests[s]
<1>1. Typed /\ Request(r) /\ MakesSense(s) /\ Fresh(s) /\ Cleared(s)
  BY DEF IInv, VotesAreOne, Typed
<1>2. At(s, "put") /\ UNCHANGED <<options, counts, closed, shown, game, doubled, outdated, raced>>
  BY DEF InsertVote, history
<1>3. PICK o \in r.what :
        /\ votes' = votes \cup {<<r.by, o>>}
        /\ requests' = [t \in Slots |->
             IF t # s THEN [requests[t] EXCEPT !.late = Busy(t)]
             ELSE [r EXCEPT !.what = @ \ {o}, !.todo = IF r.what = {o} THEN Rest(s) ELSE @]]
  BY DEF InsertVote
<1>4. /\ Rest(s) # <<>> /\ Rest(s) \in Todos /\ Names(Rest(s)) = {"count", "write", "options", "emit"}
      /\ Left(s) = {"put", "count", "write", "options", "emit"} /\ r.todo # <<>>
  BY <1>1, <1>2, AtRest DEF Ending
<1> DEFINE todo == IF r.what = {o} THEN Rest(s) ELSE r.todo
           q == [r EXCEPT !.what = r.what \ {o}, !.todo = todo]
<1>5. Changed(s, q)
  BY <1>3 DEF Changed
<1>6. q = [todo |-> todo, by |-> r.by, what |-> r.what \ {o}, seen |-> r.seen, was |-> r.was, late |-> r.late]
  <2> DEFINE less == r.what \ {o}
  <2> HIDE DEF less, todo
  <2>1. [r EXCEPT !.what = less, !.todo = todo] =
          [todo |-> todo, by |-> r.by, what |-> less, seen |-> r.seen, was |-> r.was, late |-> r.late]
    BY <1>1, NewWhat DEF Request, HasFields
  <2> QED BY <2>1 DEF less
<1>7. todo \in Todos /\ todo # <<>> /\ Names(todo) = Left(s) \ IF r.what = {o} THEN {"put"} ELSE {}
  BY <1>1, <1>4 DEF Request, Left
<1> HIDE DEF q, todo
<1>8. Request(q)
  BY <1>1, <1>6, <1>7 DEF Request
<1>9. requests'[s] = q /\ Left(s)' = Names(todo) /\ q.todo = todo
  BY <1>5, <1>6 DEF Changed, Left
<1>10. q.by = r.by /\ q.what = r.what \ {o} /\ q.seen = r.seen /\ q.was = r.was /\ q.late = r.late
  BY <1>6
<1>11. /\ r.by \in Users /\ r.what \subseteq options
       /\ kind = "single" => r.what = {o}
  BY <1>1, <1>4 DEF MakesSense, OfUser
<1> HIDE DEF r
<1>12. MakesSense(s)'
  <2>1. r.what # {o} => r.what \ {o} # {}
    BY <1>3
  <2> QED BY <1>2, <1>4, <1>7, <1>9, <1>10, <1>11, <2>1 DEF MakesSense, OfNobody
<1>13. Fresh(s)'
  BY <1>1, <1>2, <1>4, <1>7, <1>9, <1>10 DEF Fresh, r
<1>14. Cleared(s)'
  BY <1>7, <1>9, <1>11 DEF Cleared
<1>15. votes' \subseteq Users \X options'
  <2>1. o \in options
    BY <1>3, <1>11
  <2>2. <<r.by, o>> \in Users \X options
    BY <1>11, <2>1
  <2>3. votes \subseteq Users \X options
    BY <1>1 DEF Typed
  <2>4. options' = options
    BY <1>2
  <2> QED BY <1>3, <2>2, <2>3, <2>4
<1>16. \A v \in votes' \ votes : v = <<r.by, o>> /\ v[1] = q.by
  <2>1. \A v \in votes' : v \in votes \/ v = <<r.by, o>>
    BY <1>3
  <2> QED BY <1>10, <2>1
<1>17. ASSUME kind = "single", NEW v \in votes', NEW w \in votes', v[1] = w[1], v[1] \notin doubled
       PROVE  v = w
  <2>1. r.by \notin doubled => \A x \in votes : x[1] # r.by
    BY <1>1, <1>4, <1>17 DEF Cleared, r
  <2>2. v \in votes /\ w \in votes => v = w
    BY <1>17 DEF IInv, VotesAreOne
  <2> QED BY <1>10, <1>16, <1>17, <2>1, <2>2
<1>18. counts' \in Tallies /\ "emit" \in Names(q.todo) /\ "updateState" \notin Names(q.todo)
  BY <1>1, <1>2, <1>4, <1>7, <1>9 DEF Typed
<1> QED BY <1>2, <1>5, <1>8, <1>10, <1>11, <1>12, <1>13, <1>14, <1>15, <1>16, <1>17, <1>18, UserChange DEF r
-----------------------------------------------------------------------------
(* The games. *)
LEMMA NewGameLegal ==
  ASSUME kind \in Games
  PROVE  Position(NewGame)
<1> DEFINE none == [p \in Players |-> {}]
<1>1. NewGame.moves = none /\ NewGame.turn = "player1" /\ NewGame.winner = None
  BY DEF NewGame
<1>2. none["player1"] = {} /\ none["player2"] = {} /\ \A p \in Players : none[p] = {}
  BY DEF Players
<1>3. none \in [Players -> SUBSET MovesOf[kind]]
  BY <1>2
<1> HIDE DEF none
<1>4. Cardinality({}) = 0
  BY FS_EmptySet
<1>5. CASE kind = "tictactoe"
  <2>1. Mark(none) = None
    <3>1. \A line \in Lines : line # {}
      BY DEF Lines
    <3>2. ~ \E p \in Players : \E line \in Lines : line \subseteq none[p]
      BY <1>2, <3>1
    <3>3. none["player1"] \cup none["player2"] # Cells
      BY <1>2 DEF Cells
    <3> QED BY <3>2, <3>3 DEF Mark
  <2>2. Winner(none) = Mark(none)
    BY <1>5, Zenon DEF Winner
  <2> QED BY <1>1, <1>2, <1>3, <1>4, <1>5, <2>1, <2>2 DEF Position
<1>6. CASE kind = "rps"
  <2>1. Round(none) = None
    <3>1. \E p \in Players : none[p] = {}
      BY <1>2 DEF Players
    <3> QED BY <3>1 DEF Round
  <2>2. Winner(none) = Round(none)
    BY <1>6, Zenon DEF Winner
  <2>3. \A p \in Players : Cardinality(none[p]) <= 1
    BY <1>2, <1>4
  <2> QED BY <1>1, <1>3, <1>6, <2>1, <2>2, <2>3 DEF Position
<1>7. CASE kind = "hangman"
  <2>1. Guessed({}) = None
    <3>1. ~(Word \subseteq {}) /\ {} \ Word = {}
      BY InteractiveAssumption
    <3> QED BY <1>4, <3>1 DEF Guessed, MaxWrong
  <2>2. Winner(none) = Guessed(none["player2"])
    BY <1>7, Zenon DEF Winner
  <2> QED BY <1>1, <1>2, <1>3, <1>7, <2>1, <2>2 DEF Position
<1> QED BY <1>5, <1>6, <1>7 DEF Games

LEMMA MovesAreFinite ==
  ASSUME NEW g, Position(g), kind = "tictactoe", NEW p \in Players
  PROVE  IsFiniteSet(g.moves[p]) /\ Cardinality(g.moves[p]) \in Nat
<1>1. MovesOf[kind] = Played /\ Played \subseteq 0..8
  BY InteractiveAssumption DEF MovesOf
<1>2. g.moves[p] \in SUBSET (0..8)
  BY <1>1 DEF Position
<1>3. IsFiniteSet(0..8)
  <2>1. 0 \in Int /\ 8 \in Int
    OBVIOUS
  <2> QED BY <2>1, FS_Interval
<1> QED BY <1>2, <1>3, FS_Subset, FS_CardinalityType

(* A legal move makes a legal position, and takes no move back. *)
LEMMA ApplyIsLegal ==
  ASSUME kind \in Games, NEW g, Position(g), NEW p \in Players, NEW move \in MovesOf[kind], Legal(g, p, move)
  PROVE  /\ Position(Apply(g, p, move)) /\ g.winner = None
         /\ \A q \in Players : g.moves[q] \subseteq Apply(g, p, move).moves[q]
<1> DEFINE moves == [g.moves EXCEPT ![p] = @ \cup {move}]
           new == Apply(g, p, move)
           w == Winner(moves)
<1>1. g.moves \in [Players -> SUBSET MovesOf[kind]] /\ g.winner = None
  BY DEF Position, Legal, Allowed
<1>2. \A q \in Players : moves[q] = IF q = p THEN g.moves[p] \cup {move} ELSE g.moves[q]
  BY <1>1
<1>3. moves \in [Players -> SUBSET MovesOf[kind]]
  BY <1>1
<1>4. new.moves = moves /\ new.winner = w /\ new.turn = IF kind = "tictactoe" /\ w = None THEN Rival(p) ELSE g.turn
  BY DEF Apply
<1> HIDE DEF moves, new, w
<1>5. \A q \in Players : g.moves[q] \subseteq moves[q]
  BY <1>2
<1>6. p = "player1" \/ p = "player2"
  BY DEF Players
<1>7. "player1" \in Players /\ "player2" \in Players
  BY DEF Players
<1>8. CASE kind = "tictactoe"
  <2>1. g.turn = p /\ move \notin g.moves["player1"] \cup g.moves["player2"]
    <3>1. g.turn \in {p} /\ move \notin Taken(g)
      BY <1>8, Zenon DEF Legal, Allowed
    <3> QED BY <3>1 DEF Taken
  <2> DEFINE n(q) == Cardinality(g.moves[q])
             m(q) == Cardinality(moves[q])
  <2>2. \A q \in Players : IsFiniteSet(g.moves[q]) /\ n(q) \in Nat
    BY <1>8, MovesAreFinite
  <2>3. m(p) = n(p) + 1
    <3>1. moves[p] = g.moves[p] \cup {move} /\ move \notin g.moves[p]
      BY <1>2, <1>6, <2>1
    <3>2. Cardinality(g.moves[p] \cup {move}) = Cardinality(g.moves[p]) + 1
      BY <2>2, <3>1, FS_AddElement
    <3> QED BY <3>1, <3>2
  <2>4. \A q \in Players : q # p => m(q) = n(q)
    BY <1>2
  <2>5. /\ g.moves["player1"] \cap g.moves["player2"] = {}
        /\ n("player1") \in {n("player2"), n("player2") + 1}
        /\ g.turn = "player1" <=> n("player1") = n("player2")
    BY <1>1, <1>8 DEF Position
  <2>6. moves["player1"] \cap moves["player2"] = {}
    BY <1>2, <1>6, <1>7, <2>1, <2>5
  <2> HIDE DEF n, m
  <2>7. ASSUME m("player1") \in {m("player2"), m("player2") + 1},
               w = None => (new.turn = "player1" <=> m("player1") = m("player2"))
        PROVE  Position(new)
    <3>1. new.winner = Winner(new.moves)
      BY <1>4 DEF w
    <3>2. kind # "rps" /\ kind # "hangman"
      BY <1>8
    <3> QED BY <1>3, <1>4, <1>8, <2>6, <2>7, <3>1, <3>2 DEF Position, m
  <2>8. ASSUME p = "player1" PROVE Position(new)
    <3>1. n("player1") = n("player2") /\ m("player1") = n("player1") + 1 /\ m("player2") = n("player2")
      BY <1>7, <2>1, <2>3, <2>4, <2>5, <2>8
    <3>2. m("player1") = m("player2") + 1 /\ m("player1") # m("player2")
      BY <1>7, <2>2, <3>1
    <3>3. w = None => new.turn = "player2"
      BY <1>4, <1>8, <2>8 DEF Rival
    <3> QED BY <2>7, <3>2, <3>3
  <2>9. ASSUME p = "player2" PROVE Position(new)
    <3>1. n("player1") = n("player2") + 1 /\ m("player2") = n("player2") + 1 /\ m("player1") = n("player1")
      BY <1>7, <2>1, <2>3, <2>4, <2>5, <2>9
    <3>2. m("player1") = m("player2")
      BY <1>7, <2>2, <3>1
    <3>3. w = None => new.turn = "player1"
      BY <1>4, <1>8, <2>9 DEF Rival
    <3> QED BY <2>7, <3>2, <3>3
  <2>10. Position(new)
    BY <1>6, <2>8, <2>9
  <2> QED BY <1>1, <1>4, <1>5, <2>10 DEF new
<1>9. CASE kind = "rps"
  <2>1. g.moves[p] = {}
    BY <1>9, Zenon DEF Legal, Allowed
  <2>2. \A q \in Players : Cardinality(moves[q]) <= 1
    <3>1. Cardinality(moves[p]) = 1
      <4>1. moves[p] = {move}
        BY <1>2, <2>1
      <4> QED BY <4>1, FS_Singleton
    <3>2. \A q \in Players : q # p => moves[q] = g.moves[q]
      BY <1>2
    <3> QED BY <1>9, <3>1, <3>2 DEF Position
  <2>3. Position(new)
    BY <1>3, <1>4, <1>9, <2>2 DEF Position, w
  <2> QED BY <1>1, <1>4, <1>5, <2>3 DEF new
<1>10. CASE kind = "hangman"
  <2>1. p = "player2"
    BY <1>10, Zenon DEF Legal, Allowed
  <2>2. moves["player1"] = {}
    BY <1>2, <1>7, <1>10, <2>1 DEF Position
  <2>3. Position(new)
    BY <1>3, <1>4, <1>10, <2>2 DEF Position, w
  <2> QED BY <1>1, <1>4, <1>5, <2>3 DEF new
<1> QED BY <1>8, <1>9, <1>10 DEF Games

LEMMA CreateGameInv ==
  ASSUME IInv, CreateGame
  PROVE  IInv'
<1>1. /\ UNCHANGED <<kind, options, votes, counts, closed, shown, requests, started, mishaps>>
      /\ UNCHANGED <<doubled, outdated, raced>>
  BY DEF CreateGame, poll, history
<1>2. (game # None => Position(game))'
  BY <1>1, NewGameLegal, SameRules DEF CreateGame
<1>3. Typed'
  <2>1. News' = News /\ Tallies' = Tallies /\ \A s \in Slots : Request(requests'[s])
    BY <1>1 DEF News, Tallies, IInv, Typed
  <2>2. \A s \in Slots : Request(requests[s])'
    BY <2>1 DEF Request, Idle
  <2> QED BY <1>1, <2>1, <2>2 DEF IInv, Typed
<1>4. Tally' = Tally /\ \A s \in Slots : Left(s)' = Left(s)
  BY <1>1 DEF Tally, Count, Left
<1>5. VotesAreOne'
  BY <1>1, <1>4 DEF IInv, VotesAreOne, Cleared
<1>6. CountsAreShown'
  BY <1>1, <1>4 DEF IInv, CountsAreShown, Shown, Tells
<1>7. ASSUME NEW s \in Slots PROVE Playing(s)' /\ MakesSense(s)' /\ Fresh(s)'
  <2>1. Playing(s) /\ MakesSense(s) /\ Fresh(s)
    BY DEF IInv
  <2>2. Playing(s)'
    BY <1>1, <1>4, <2>1, SameRules DEF Playing
  <2>3. MakesSense(s)'
    BY <1>1, <1>4, <2>1 DEF MakesSense, Tallies, News
  <2>4. Fresh(s)'
    BY <1>1, <1>4, <2>1 DEF Fresh
  <2> QED BY <2>2, <2>3, <2>4
<1> QED BY <1>2, <1>3, <1>5, <1>6, <1>7 DEF IInv

LEMMA MoveInv ==
  ASSUME IInv, NEW s \in Slots, NEW p \in Players, NEW move \in MovesOf[kind], kind \in Games, Move(s, p, move)
  PROVE  IInv'
<1> DEFINE todo == <<"updateState">>
           q == [Idle EXCEPT !.todo = todo, !.by = p, !.what = move, !.seen = game]
<1>1. Typed /\ Left(s) = {}
  BY NotBusy DEF Move, IInv
<1>2. /\ Legal(game, p, move) /\ game # None /\ Continue(s, q)
      /\ UNCHANGED <<kind, poll, game, started, mishaps, history>>
  BY DEF Move
<1>3. todo \in Todos /\ todo # <<>> /\ Names(todo) = {"updateState"}
  <2>1. todo \in Paths
    BY DEF Paths
  <2> QED BY <2>1, PathIsSuffix, NamesOfPaths
<1> HIDE DEF todo
<1>4. q = [todo |-> todo, by |-> p, what |-> move, seen |-> game, was |-> Idle.was, late |-> Idle.late]
  <2> DEFINE h == Idle.what
             i == Idle.seen
             j == Idle.was
             k == Idle.late
             a == [Idle EXCEPT !.todo = todo]
             b == [a EXCEPT !.by = p]
             c == [b EXCEPT !.what = move]
  <2>1. q = [c EXCEPT !.seen = game]
    OBVIOUS
  <2>2. a = [todo |-> todo, by |-> Idle.by, what |-> h, seen |-> i, was |-> j, late |-> k]
    BY IdleRequest, NewTodo DEF Request, HasFields
  <2> HIDE DEF a, q, h, i, j, k
  <2>3. b = [todo |-> todo, by |-> p, what |-> h, seen |-> i, was |-> j, late |-> k]
    BY <2>2
  <2> HIDE DEF b
  <2>4. c = [todo |-> todo, by |-> p, what |-> move, seen |-> i, was |-> j, late |-> k]
    BY <2>3
  <2> HIDE DEF c
  <2>5. q = [todo |-> todo, by |-> p, what |-> move, seen |-> game, was |-> j, late |-> k]
    BY <2>1, <2>4
  <2> QED BY <2>5 DEF j, k
<1> HIDE DEF q
<1>5. Request(q) /\ q.todo = todo /\ q.by = p /\ q.what = move /\ q.seen = game
  <2>1. Idle.was \in BOOLEAN /\ Idle.late \in BOOLEAN
    BY IdleRequest DEF Request
  <2>2. q.was = Idle.was /\ q.late = Idle.late /\ q.todo = todo /\ q.by = p /\ q.what = move /\ q.seen = game
    BY <1>4
  <2> QED BY <1>3, <1>4, <2>1, <2>2 DEF Request
<1>6. Quiet(s, q)
  BY <1>1, <1>2, <1>3, <1>5, Steps
<1>7. requests'[s] = q /\ Left(s)' = {"updateState"}
  BY <1>3, <1>5, <1>6 DEF Quiet, Left
<1>8. UNCHANGED <<options, votes, counts, closed, shown, doubled, outdated, raced>>
  BY <1>2 DEF poll, history
<1>9. CountsAreShown'
  BY <1>1, <1>6, <1>8, QuietShown
<1>10. Playing(s)'
  BY <1>2, <1>5, <1>7, SameRules DEF IInv, Playing
<1>11. MakesSense(s)' /\ Fresh(s)' /\ Cleared(s)'
  BY <1>7 DEF MakesSense, Fresh, Cleared, OfUser, OfNobody
<1>12. kind # "single"
  BY DEF Games
<1>13. /\ started' \in 0..MaxRequests /\ mishaps' \in 0..MaxMishaps /\ doubled' \subseteq Users
       /\ outdated' \in BOOLEAN /\ raced' \in BOOLEAN /\ (shown' = None \/ shown' \in News)
  BY <1>2, <1>8 DEF IInv, Typed
<1> QED BY <1>2, <1>5, <1>6, <1>8, <1>9, <1>10, <1>11, <1>12, <1>13, SameGame, QuietInv

(* What a move makes of the game as it was read. *)
LEMMA Plays ==
  ASSUME IInv, NEW s \in Slots, Play(s)
  PROVE  /\ Quiet(s, Idle) /\ Left(s) = {"updateState"} /\ kind \in Games
         /\ Position(game') /\ requests[s].seen.winner = None
         /\ \A p \in Players : requests[s].seen.moves[p] \subseteq game'.moves[p]
<1> DEFINE r == requests[s]
<1>1. Typed /\ Playing(s) /\ Request(r)
  BY DEF IInv, Typed
<1>2. Left(s) = {"updateState"} /\ Rest(s) = <<>>
  BY <1>1, AtRest DEF Play, Ending
<1>3. Quiet(s, Idle)
  <2> DEFINE q == [requests[s] EXCEPT !.todo = Rest(s)]
  <2>1. q = [todo |-> <<>>, by |-> r.by, what |-> r.what, seen |-> r.seen, was |-> r.was, late |-> r.late]
    BY <1>1, <1>2, NewTodo DEF Request, HasFields
  <2>2. Continue(s, q)
    BY DEF Play, Go
  <2> HIDE DEF q
  <2>3. q.todo = <<>>
    BY <2>1
  <2> QED BY <1>1, <2>2, <2>3, Steps, NothingLeft
<1>4. /\ kind \in Games /\ r.by \in Players /\ r.what \in MovesOf[kind]
      /\ Position(r.seen) /\ Legal(r.seen, r.by, r.what)
  BY <1>1, <1>2 DEF Playing
<1>5. game' = Apply(r.seen, r.by, r.what)
  BY DEF Play
<1> HIDE DEF r
<1>6. /\ Position(Apply(r.seen, r.by, r.what)) /\ r.seen.winner = None
      /\ \A p \in Players : r.seen.moves[p] \subseteq Apply(r.seen, r.by, r.what).moves[p]
  BY <1>4, ApplyIsLegal
<1> QED BY <1>2, <1>3, <1>4, <1>5, <1>6 DEF r

LEMMA PlayInv ==
  ASSUME IInv, NEW s \in Slots, Play(s), UNCHANGED <<kind, started, mishaps>>
  PROVE  IInv'
<1>1. Quiet(s, Idle) /\ Left(s) = {"updateState"} /\ Position(game')
  BY Plays
<1>2. /\ UNCHANGED <<options, votes, counts, closed, shown, doubled, outdated>>
      /\ raced' = (raced \/ game # requests[s].seen)
  BY DEF Play, poll
<1>3. CountsAreShown'
  BY <1>1, <1>2, QuietShown
<1>4. (game # None => Position(game))'
  BY <1>1, SameRules
<1>5. /\ mishaps' \in 0..MaxMishaps /\ outdated' \in BOOLEAN /\ raced' \in BOOLEAN
      /\ (shown' = None \/ shown' \in News)
  BY <1>2 DEF IInv, Typed
<1> QED BY <1>1, <1>2, <1>3, <1>4, <1>5, OverInv
-----------------------------------------------------------------------------
(* The invariant holds at first and at every step. *)
LEMMA InitIInv == Init => IInv
<1> SUFFICES ASSUME Init PROVE IInv
  OBVIOUS
<1>1. \A s \in Slots : requests[s] = Idle /\ Left(s) = {}
  BY IdleRequest DEF Init, Left
<1>2. counts = Tally /\ counts \in Tallies
  <2>1. \A o \in Options : Count(o, votes) = 0
    BY FS_EmptySet DEF Init, Count
  <2>2. Cardinality(Users) \in Nat
    BY FS_CardinalityType, InteractiveAssumption
  <2> QED BY <2>1, <2>2 DEF Init, Tally, Tallies, Zero
<1>3. Typed
  <2>1. requests = [s \in Slots |-> requests[s]] /\ \A s \in Slots : Request(requests[s])
    BY <1>1, IdleRequest DEF Init
  <2>2. started \in 0..MaxRequests /\ mishaps \in 0..MaxMishaps
    BY InteractiveAssumption DEF Init
  <2> QED BY <1>2, <2>1, <2>2 DEF Init, Typed
<1>4. VotesAreOne
  <2>1. \A s \in Slots : Cleared(s) /\ requests[s].by = None
    BY <1>1, IdleRequest DEF Cleared
  <2> QED BY <2>1, InteractiveAssumption DEF Init, VotesAreOne
<1>5. CountsAreShown
  BY <1>2 DEF Init, CountsAreShown, Shown
<1>6. \A s \in Slots : Playing(s) /\ MakesSense(s) /\ Fresh(s)
  BY <1>1 DEF Playing, MakesSense, Fresh
<1> QED BY <1>3, <1>4, <1>5, <1>6 DEF Init, IInv

LEMMA UnmovedInv ==
  ASSUME IInv, UNCHANGED vars
  PROVE  IInv'
<1>1. /\ UNCHANGED <<kind, options, votes, counts, closed, shown, game, requests, started, mishaps>>
      /\ UNCHANGED <<doubled, outdated, raced>>
  BY DEF vars, poll, history
<1>2. Tally' = Tally /\ \A s \in Slots : Left(s)' = Left(s)
  BY <1>1 DEF Tally, Count, Left
<1>3. Typed'
  <2>1. News' = News /\ Tallies' = Tallies /\ \A s \in Slots : Request(requests'[s])
    BY <1>1 DEF News, Tallies, IInv, Typed
  <2>2. \A s \in Slots : Request(requests[s])'
    BY <2>1 DEF Request, Idle
  <2> QED BY <1>1, <2>1, <2>2 DEF IInv, Typed
<1>4. VotesAreOne'
  BY <1>1, <1>2 DEF IInv, VotesAreOne, Cleared
<1>5. CountsAreShown'
  BY <1>1, <1>2 DEF IInv, CountsAreShown, Shown, Tells
<1>6. ASSUME NEW s \in Slots PROVE Playing(s)' /\ MakesSense(s)' /\ Fresh(s)'
  <2>1. Playing(s) /\ MakesSense(s) /\ Fresh(s)
    BY DEF IInv
  <2>2. Playing(s)'
    BY <1>1, <1>2, <2>1, SameRules DEF Playing
  <2>3. MakesSense(s)'
    BY <1>1, <1>2, <2>1 DEF MakesSense, Tallies, News
  <2>4. Fresh(s)'
    BY <1>1, <1>2, <2>1 DEF Fresh
  <2> QED BY <2>2, <2>3, <2>4
<1>7. (game # None => Position(game))'
  BY <1>1, SameGame
<1> QED BY <1>3, <1>4, <1>5, <1>6, <1>7 DEF IInv

LEMMA NextIInv == IInv /\ [Next]_vars => IInv'
<1> SUFFICES ASSUME IInv, [Next]_vars PROVE IInv'
  OBVIOUS
<1>1. CASE UNCHANGED vars
  BY <1>1, UnmovedInv
<1>2. CASE CreateGame
  BY <1>2, CreateGameInv
<1>3. ASSUME NEW s \in Slots, Arrive(s) PROVE IInv'
  BY <1>3, ArriveInv, MoveInv DEF Arrive
<1>4. ASSUME NEW s \in Slots, Statement(s), UNCHANGED <<kind, started, mishaps>> PROVE IInv'
  BY <1>4, AddOptionInv, FindPollInv, DeleteVotesInv, InsertVoteInv, CountVotesInv, WriteCountsInv,
     CloseInv, GetOptionsInv, EmitInv, PlayInv DEF Statement
<1>5. ASSUME NEW s \in Slots, Fail(s) PROVE IInv'
  BY <1>5, FailInv
<1> QED BY <1>1, <1>2, <1>3, <1>4, <1>5 DEF Next

(* The invariant, however the requests overlap and wherever one is cut short. *)
THEOREM Invariance == Spec => []IInv
<1> QED BY InitIInv, NextIInv, PTL DEF Spec

(* Every part of a poll has its kind, and a game is always in a position that its rules can
   lead to, with the winner that they give it: alternate marks, one choice of each, a word that
   only its guesser guesses.  This rests on games/*.ts, that check a move on the state read. *)
THEOREM TypeCorrect == Spec => []TypeOK
<1>1. IInv => TypeOK
  <2> SUFFICES ASSUME IInv PROVE TypeOK
    OBVIOUS
  <2>1. LegalGame
    BY DEF IInv, Position, LegalGame
  <2>2. Typed
    BY DEF IInv
  <2>3. counts \in [Options -> 0..Cardinality(Users)]
    BY <2>2 DEF Typed, Tallies
  <2>4. shown = None \/ shown \in [counts : [Options -> 0..Cardinality(Users)], closed : BOOLEAN]
    BY <2>2 DEF Typed, Tallies, News
  <2> QED BY <2>1, <2>2, <2>3, <2>4 DEF TypeOK, Typed
<1> QED BY <1>1, Invariance, PTL

LEMMA OneVote == IInv => OneVoteEach
<1> SUFFICES ASSUME IInv, kind = "single", NEW u \in Users \ doubled
             PROVE  Cardinality({v \in votes : v[1] = u}) <= 1
  BY DEF OneVoteEach
<1> DEFINE V == {v \in votes : v[1] = u}
<1>1. \A v, w \in V : v = w
  BY DEF IInv, VotesAreOne
<1>2. CASE V = {}
  BY <1>2, FS_EmptySet
<1>3. CASE V # {}
  <2>1. PICK v \in V : TRUE
    BY <1>3
  <2>2. V = {v}
    BY <1>1, <2>1
  <2> QED BY <2>2, FS_Singleton
<1> QED BY <1>2, <1>3

LEMMA Counted == IInv => CountsMatchVotes
<1> SUFFICES ASSUME IInv, \A s \in Slots : ~Busy(s), shown # None, ~outdated
             PROVE  counts = Tally /\ shown = [counts |-> counts, closed |-> closed]
  BY DEF CountsMatchVotes, Tally
<1>1. \A s \in Slots : ~Tells(s)
  BY NotBusy DEF Tells, IInv
<1> QED BY <1>1 DEF IInv, CountsAreShown, Shown

(* However votes, changes of vote, withdrawals and the closing of a poll overlap, and wherever
   one is cut short: a single choice has one vote of each user, unless two requests of the user
   overlapped, and once all is done the counters and the clients have what the votes say,
   unless the poll changed under the last request or one failed.  This rests on
   poll.repository.ts, that counts after it writes, and on poll.service.ts, that tells last. *)
THEOREM PollsAgree == Spec => []PollAgrees
<1>1. IInv => PollAgrees
  BY OneVote, Counted DEF PollAgrees
<1> QED BY <1>1, Invariance, PTL

(* A vote enters a closed poll only if it had begun before; no move is lost and no game that is
   over goes on, unless two moves were played on the same position. *)
THEOREM NothingGoesOn == Spec => OverIsOver
<1> DEFINE A == /\ closed /\ ~(votes' \subseteq votes) => \E s \in Slots : requests[s].late /\ InsertVote(s)
                /\ game # None =>
                     \/ raced'
                     \/ /\ \A p \in Players : game.moves[p] \subseteq game'.moves[p]
                        /\ game.winner # None => game' = game
<1>1. ASSUME IInv, [Next]_vars PROVE A
  <2>1. ASSUME NEW s \in Slots, InsertVote(s), closed PROVE requests[s].late
    <3>1. Fresh(s) /\ Typed /\ At(s, "put")
      BY <1>1, <2>1 DEF IInv, InsertVote
    <3>2. "put" \in Left(s) /\ "emit" \in Left(s)
      BY <3>1, AtRest
    <3> QED BY <2>1, <3>1, <3>2 DEF Fresh
  <2>2. ASSUME NEW s \in Slots, Play(s), ~raced'
        PROVE  /\ \A p \in Players : game.moves[p] \subseteq game'.moves[p]
               /\ game.winner = None
    <3>1. game = requests[s].seen
      BY <2>2 DEF Play
    <3> QED BY <1>1, <2>2, <3>1, Plays
  <2>3. ASSUME NEW s \in Slots, Statement(s) \/ Arrive(s) \/ Fail(s), ~InsertVote(s) PROVE votes' \subseteq votes
    <3>1. CASE Statement(s)
      BY <2>3, <3>1 DEF Statement, AddOption, FindPoll, FindOpen, DeleteVotes, CountVotes, WriteCounts,
         Close, GetOptions, EmitPollUpdate, Play, poll
    <3>2. CASE Arrive(s)
      BY <3>2 DEF Arrive, CreatePoll, ClosePoll, RetractVote, Retract, Vote, Move, Begin, poll
    <3>3. CASE Fail(s)
      BY <3>3 DEF Fail, poll
    <3> QED BY <2>3, <3>1, <3>2, <3>3
  <2>4. ASSUME NEW s \in Slots, Statement(s) \/ Arrive(s) \/ Fail(s), ~Play(s) PROVE game' = game
    <3>1. CASE Statement(s)
      BY <2>4, <3>1 DEF Statement, AddOption, FindPoll, FindOpen, DeleteVotes, InsertVote, CountVotes,
         WriteCounts, Close, GetOptions, EmitPollUpdate
    <3>2. CASE Arrive(s)
      BY <3>2 DEF Arrive, CreatePoll, ClosePoll, RetractVote, Retract, Vote, Move, Begin
    <3>3. CASE Fail(s)
      BY <3>3 DEF Fail
    <3> QED BY <2>4, <3>1, <3>2, <3>3
  <2>5. CASE UNCHANGED vars
    BY <2>5 DEF vars, poll
  <2>6. CASE CreateGame
    BY <2>6 DEF CreateGame, poll
  <2>7. ASSUME NEW s \in Slots, Statement(s) \/ Arrive(s) \/ Fail(s) PROVE A
    <3>1. closed /\ ~(votes' \subseteq votes) => requests[s].late /\ InsertVote(s)
      BY <2>1, <2>3, <2>7
    <3>2. \/ raced'
          \/ /\ \A p \in Players : game.moves[p] \subseteq game'.moves[p]
             /\ game.winner # None => game' = game
      BY <2>2, <2>4, <2>7
    <3> QED BY <3>1, <3>2
  <2> QED BY <1>1, <2>5, <2>6, <2>7 DEF Next
<1>2. Spec => []IInv
  BY Invariance
<1>3. IInv /\ [Next]_vars => A
  BY <1>1
<1> QED BY <1>2, <1>3, PTL DEF Spec, OverIsOver
=============================================================================
