-------------------------- MODULE Membership_proofs --------------------------
(***************************************************************************)
(* Whatever the requests in flight and wherever they are cut short, the       *)
(* registers of the members agree and nobody posts who may not.               *)
(*                                                                         *)
(* What a request has checked is remembered by the statements it has left:    *)
(* the invariant says what is still so while it has them to run, unless       *)
(* another request is known to have got in between.                           *)
(***************************************************************************)
EXTENDS Membership, FiniteSetTheorems, TLAPS

-----------------------------------------------------------------------------
(* The statements of a request, from its first one on; what is left is a suffix. *)
Paths ==
  {<<"findDirect", "create", "countOwner", "addOwner", "count", "add">>,
   <<"create", "settings", "countOwner", "addOwner", "count", "add">>,
   <<"manage", "count", "add">>, <<"manage", "count", "leave">>,
   <<"count", "add">>, <<"count", "leave">>, <<"setRole">>,
   <<"administer", "setRole">>, <<"administer", "setReadOnly">>, <<"manage", "setMode">>,
   <<"notMember", "byMode">>, <<"noPending", "ask">>, <<"manage", "pending", "review">>,
   <<"member", "writable", "insert">>, <<"member", "insertPoll">>}

Suffix(p, i) == [j \in {k \in 1..6 : k + i - 1 \in DOMAIN p} |-> p[j + i - 1]]
Todos == {Suffix(p, i) : p \in Paths, i \in 1..7}

Names(todo) == {todo[i] : i \in DOMAIN todo}
Left(s) == Names(requests[s].todo)

Verdicts == {"approved", "rejected"}
Args == {None, "direct", "channel"} \cup Roles \cup Modes \cup Verdicts
Request == [todo : Todos, by : Users \cup {None}, who : Users \cup {None}, conv : Convs \cup {None},
            arg : Args, ask : Asks \cup {None}, n : 0..Cardinality(Users), lap : BOOLEAN]

RequestsTyped ==
  /\ requests \in [Slots -> Request]
  /\ \A s \in Slots : IF Busy(s) THEN {requests[s].by, requests[s].who} \subseteq Users
                      ELSE requests[s] = Idle

RestTyped ==
  /\ made \subseteq Convs
  /\ role \in [Convs -> [Users -> Roles \cup {None}]] /\ in \in [Convs -> SUBSET Users]
  /\ \A c \in Convs : in[c] \subseteq {u \in Users : role[c][u] # None} /\ ((\E u \in Users : role[c][u] # None) => c \in made)
  /\ settings \in [exists : BOOLEAN, mode : Modes, count : 0..Cardinality(Users)]
  /\ readOnly \subseteq made
  /\ asks \in [Asks -> [user : Users \cup {None}, status : {"none", "pending", "approved", "rejected"}]]
  /\ started \in 0..MaxRequests /\ mishaps \in 0..MaxMishaps /\ lapped \in BOOLEAN
  /\ crossed \subseteq {{u, v} : u, v \in Users} /\ enlarged \subseteq Directs
  /\ touched \subseteq Slots /\ failed \subseteq Asks

(* The channel has nobody, and no join request, before it has its settings, which the only
   request about it is then about to write. *)
ChannelIsFounded ==
  /\ settings.exists => Channel \in made
  /\ ~settings.exists =>
       /\ in[Channel] = {}
       /\ \A s, t \in Slots : requests[s].conv = Channel /\ requests[t].conv = Channel => s = t
       /\ \A s \in Slots : requests[s].conv = Channel => "settings" \in Left(s)
  /\ \A s \in Slots : "settings" \in Left(s) => requests[s].conv = Channel /\ ~settings.exists
  /\ \A s \in Slots : requests[s].conv = Channel /\ "create" \notin Left(s) => Channel \in made
  /\ \A k \in Asks : asks[k].status # "none" => asks[k].user \in Users /\ settings.exists

(* Whom a request opens a direct conversation with, until it is open; what else is asked of
   a direct conversation is asked of one that exists, and is none of the channel's. *)
Opening == {"findDirect", "create", "countOwner", "addOwner", "count", "add"}
Anywhere == {"manage", "administer", "count", "add", "leave", "setRole", "setReadOnly",
             "member", "writable", "insert", "insertPoll"}
Direct(s) == Busy(s) /\ requests[s].arg = "direct"
Pair(s) == {requests[s].by, requests[s].who}

DirectMakesSense(s) ==
  /\ Direct(s) =>
       /\ Left(s) \subseteq Opening /\ requests[s].by # requests[s].who
       /\ requests[s].conv # Channel
       /\ requests[s].conv = None <=> "create" \in Left(s)
       /\ requests[s].conv # None => "findDirect" \notin Left(s)
  /\ requests[s].conv \in Directs => requests[s].conv \in made
  /\ Busy(s) /\ requests[s].conv # Channel /\ ~Direct(s) =>
       requests[s].conv \in Directs /\ Left(s) \subseteq Anywhere

(* What a request carries. *)
Joining == {"notMember", "byMode", "noPending", "ask"}
Reviewing == {"pending", "review"}
Joins(s) == Left(s) \cap Joining # {}
RequestMakesSense(s) ==
  LET r == requests[s] IN
  /\ Joins(s) => r.by = r.who
  /\ Left(s) \cap Reviewing # {} => r.ask \in Asks /\ r.arg \in Verdicts
  /\ r.ask \in Asks => r.conv = Channel /\ r.who = asks[r.ask].user /\ asks[r.ask].status # "none"
  /\ r.ask \in Asks /\ "add" \in Left(s) => Left(s) \subseteq {"count", "add"}
  /\ "setRole" \in Left(s) => r.arg \in Roles
  /\ "setMode" \in Left(s) => r.arg \in Modes

(* Who has counted members counted those that there are, unless another did at the same time. *)
After(s) ==
  LET r == requests[s] IN
  IF At(s, "leave") THEN in[r.conv] \ {r.who} ELSE in[r.conv] \cup {Changes(s)}
CountsAreFresh ==
  /\ CountIsRight
  /\ \A s \in Slots : Committing(s) /\ ~requests[s].lap => requests[s].n = Cardinality(After(s))
  /\ \A s, t \in Slots :
       s # t /\ Committing(s) /\ Committing(t) /\ requests[s].conv = requests[t].conv
         => requests[s].lap /\ requests[t].lap

(* A direct conversation to which nobody was added has the two that it is being opened for, and
   whoever has looked for another one has found none. *)
DirectsAreOne ==
  /\ OneDirectEach
  /\ \A s, t \in Slots : s # t /\ Direct(s) /\ Direct(t) =>
       /\ Pair(s) = Pair(t) => Pair(s) \in crossed
       /\ requests[s].conv = requests[t].conv => requests[s].conv = None
  /\ \A s \in Slots : Direct(s) =>
       /\ requests[s].conv \in Directs \ enlarged => in[requests[s].conv] \subseteq Pair(s)
       /\ "findDirect" \notin Left(s) /\ Pair(s) \notin crossed
            => \A d \in Directs \ enlarged : Pair(s) \subseteq in[d] => d = requests[s].conv

(* Two requests to join of a user are known to overlap; one that has found nothing pending
   still finds nothing. *)
JoinsAreOne ==
  /\ \A u \in Users : {u} \notin crossed => \A k, l \in PendingOf(u) : k = l
  /\ \A s, t \in Slots :
       s # t /\ Joins(s) /\ Joins(t) /\ requests[s].by = requests[t].by
         => {requests[s].by} \in crossed
  /\ \A s \in Slots : "ask" \in Left(s) /\ "noPending" \notin Left(s) /\ {requests[s].by} \notin crossed
       => PendingOf(requests[s].by) = {}

(* Who was let in is about to be added, or was. *)
ApprovedComeIn ==
  \A k \in Asks : asks[k].status = "approved" =>
    \/ role[Channel][asks[k].user] # None \/ k \in failed
    \/ \E s \in Slots : requests[s].ask = k /\ "add" \in Left(s)

(* What a post has found of its author, unless something has changed since. *)
PostStands(s) ==
  LET r == requests[s] IN
  Left(s) \cap {"insert", "insertPoll"} # {} /\ "member" \notin Left(s) /\ s \notin touched =>
    /\ r.by \in in[r.conv] /\ r.arg = role[r.conv][r.by]
    /\ "insert" \in Left(s) /\ "writable" \notin Left(s) => (r.conv \in readOnly => r.arg \in Admins)

Typed ==
  /\ RequestsTyped /\ RestTyped /\ ChannelIsFounded
  /\ \A s \in Slots : DirectMakesSense(s) /\ RequestMakesSense(s)
IInv ==
  /\ Typed /\ CountsAreFresh /\ DirectsAreOne /\ JoinsAreOne /\ ApprovedComeIn
  /\ \A s \in Slots : PostStands(s)
-----------------------------------------------------------------------------
(* What is left of a request. *)
All == {p[i] : p \in Paths, i \in 1..6}

LEMMA PathsShort ==
  ASSUME NEW p \in Paths
  PROVE  \E n \in 1..6 : DOMAIN p = 1..n /\ \A i \in 1..n : p[i] \in All
<1>2. PICK n \in 1..6 : DOMAIN p = 1..n
  BY DEF Paths
<1>3. \A i \in 1..n : p[i] \in All
  BY <1>2 DEF All
<1> QED BY <1>2, <1>3

LEMMA PathIsSuffix == ASSUME NEW p \in Paths PROVE p = Suffix(p, 1) /\ p \in Todos
<1>1. p = Suffix(p, 1)
  BY DEF Suffix, Paths
<1> QED BY <1>1 DEF Todos

(* Statement i of a path is the first of its i-th suffix. *)
LEMMA Suffixes ==
  ASSUME NEW p \in Paths, NEW n \in 1..6, DOMAIN p = 1..n, NEW i \in 1..7
  PROVE  /\ Suffix(p, i) # <<>> <=> i <= n
         /\ i <= n => Head(Suffix(p, i)) = p[i] /\ Tail(Suffix(p, i)) = Suffix(p, i + 1)
         /\ Names(Suffix(p, i)) = {p[j] : j \in i .. n}
<1> DEFINE q == Suffix(p, i)
<1>1. \A j \in 1..n : p[j] \in All
  BY PathsShort
<1>2. q = [j \in 1 .. n + 1 - i |-> p[j + i - 1]]
  <2>1. {j \in 1..6 : j + i - 1 \in DOMAIN p} = 1 .. n + 1 - i
    OBVIOUS
  <2> QED BY <2>1 DEF Suffix
<1>3. q \in Seq(All)
  BY <1>1, <1>2
<1>4. q # <<>> <=> i <= n
  BY <1>2, <1>3
<1>5. ASSUME i <= n PROVE Head(q) = p[i] /\ Tail(q) = Suffix(p, i + 1)
  <2>1. Len(q) = n + 1 - i
    BY <1>2, <1>3, <1>5
  <2>2. Suffix(p, i + 1) = [j \in 1 .. n + 1 - (i + 1) |-> p[j + (i + 1) - 1]]
    <3>1. {j \in 1..6 : j + (i + 1) - 1 \in DOMAIN p} = 1 .. n + 1 - (i + 1)
      OBVIOUS
    <3> QED BY <3>1 DEF Suffix
  <2> QED BY <1>2, <1>3, <1>5, <2>1, <2>2
<1>6. Names(q) = {p[j] : j \in i .. n}
  <2>1. ASSUME NEW x \in Names(q) PROVE x \in {p[j] : j \in i .. n}
    BY <1>2 DEF Names
  <2>2. ASSUME NEW j \in i .. n PROVE p[j] \in Names(q)
    <3>1. j - i + 1 \in 1 .. n + 1 - i /\ j - i + 1 + i - 1 = j
      OBVIOUS
    <3> QED BY <1>2, <3>1 DEF Names
  <2> QED BY <2>1, <2>2
<1> QED BY <1>4, <1>5, <1>6

(* No statement comes twice. *)
LEMMA PathsAreDistinct ==
  ASSUME NEW p \in Paths, NEW i \in 1..6, NEW j \in 1..6, i < j, j \in DOMAIN p
  PROVE  p[i] # p[j]
BY DEF Paths

LEMMA Nothing == <<>> \in Todos /\ Names(<<>>) = {}
<1>1. PICK p \in Paths, n \in 1..6 : DOMAIN p = 1..n
  BY PathsShort DEF Paths
<1>2. Suffix(p, 7) = <<>>
  <2>1. 7 \in 1..7 /\ ~(7 <= n)
    BY <1>1
  <2>2. Suffix(p, 7) # <<>> <=> 7 <= n
    BY <1>1, <2>1, Suffixes
  <2> QED BY <2>1, <2>2
<1> QED BY <1>1, <1>2 DEF Todos, Names

(* A statement runs: what is left is still a suffix, without it. *)
LEMMA Tails ==
  ASSUME NEW t \in Todos, t # <<>>
  PROVE  \E p \in Paths, i, n \in 1..6 :
           /\ DOMAIN p = 1..n /\ i <= n /\ Head(t) = p[i] /\ Names(t) = {p[j] : j \in i .. n}
           /\ Tail(t) \in Todos /\ Names(Tail(t)) = Names(t) \ {p[i]} /\ p[i] \in Names(t)
           /\ Tail(t) # <<>> <=> i + 1 <= n
           /\ i + 1 <= n => Head(Tail(t)) = p[i + 1]
<1>1. PICK p \in Paths, i \in 1..7 : t = Suffix(p, i)
  BY DEF Todos
<1>2. PICK n \in 1..6 : DOMAIN p = 1..n
  BY <1>1, PathsShort
<1>3. i \in 1..6 /\ i <= n /\ i + 1 \in 1..7
  <2>1. i <= n
    BY <1>1, <1>2, Suffixes
  <2> QED BY <1>1, <1>2, <2>1
<1>4. Head(t) = p[i] /\ Tail(t) = Suffix(p, i + 1)
  BY <1>1, <1>2, <1>3, Suffixes
<1>5. Names(t) = {p[j] : j \in i .. n} /\ Names(Tail(t)) = {p[j] : j \in i + 1 .. n}
  <2>1. Names(Suffix(p, i)) = {p[j] : j \in i .. n}
    BY <1>1, <1>2, Suffixes
  <2>2. Names(Suffix(p, i + 1)) = {p[j] : j \in i + 1 .. n}
    BY <1>1, <1>2, <1>3, Suffixes
  <2> QED BY <1>1, <1>4, <2>1, <2>2
<1>6. \A j \in i + 1 .. n : p[i] # p[j]
  BY <1>1, <1>2, <1>3, PathsAreDistinct
<1>7. Names(t) = {p[i]} \cup Names(Tail(t))
  <2>1. i .. n = {i} \cup (i + 1 .. n)
    BY <1>2, <1>3
  <2> QED BY <1>5, <2>1
<1>8. p[i] \notin Names(Tail(t))
  BY <1>5, <1>6
<1>9. Tail(t) \in Todos
  BY <1>1, <1>3, <1>4 DEF Todos
<1>10. (Tail(t) # <<>> <=> i + 1 <= n) /\ (i + 1 <= n => Head(Tail(t)) = p[i + 1])
  <2>1. /\ Suffix(p, i + 1) # <<>> <=> i + 1 <= n
        /\ i + 1 <= n => Head(Suffix(p, i + 1)) = p[i + 1]
    BY <1>1, <1>2, <1>3, Suffixes
  <2> QED BY <1>4, <2>1
<1>11. Names(Tail(t)) = Names(t) \ {p[i]} /\ p[i] \in Names(t)
  BY <1>7, <1>8
<1>12. p \in Paths /\ i \in 1..6 /\ n \in 1..6
  BY <1>1, <1>2, <1>3
<1> WITNESS p \in Paths, i \in 1..6, n \in 1..6
<1> QED BY <1>2, <1>3, <1>4, <1>5, <1>9, <1>10, <1>11
(* What the order of the statements is relied on for. *)
Last == {"add", "leave", "setRole", "setReadOnly", "setMode", "byMode", "ask", "review", "insert", "insertPoll"}
Counting == {"countOwner", "addOwner", "count", "add", "leave"}
Posting == {"member", "writable", "insert", "insertPoll"}

LEMMA Orders ==
  ASSUME NEW p \in Paths, NEW i \in DOMAIN p
  PROVE  /\ p[i] = "count" => i + 1 \in DOMAIN p /\ p[i + 1] \in {"add", "leave"}
         /\ p[i] = "countOwner" => i + 1 \in DOMAIN p /\ p[i + 1] = "addOwner"
         /\ p[i] = "member" => i + 1 \in DOMAIN p
         /\ p[i] = "member" => \A j \in DOMAIN p : p[j] = "insert" => p[i + 1] = "writable"
         /\ i + 1 \in DOMAIN p /\ p[i + 1] \in {"add", "leave"} => p[i] = "count"
         /\ i + 1 \in DOMAIN p /\ p[i + 1] = "addOwner" => p[i] = "countOwner"
         /\ p[i] \in Last => i + 1 \notin DOMAIN p
         /\ p[i] \in Counting => \A j \in DOMAIN p : i <= j => p[j] \notin {"findDirect", "create", "settings"}
         /\ p[i] = "create" => \A j \in DOMAIN p : i <= j => p[j] \notin {"findDirect", "insert", "insertPoll"}
         /\ p[i] = "settings" => \A j \in DOMAIN p : i <= j => p[j] \notin {"findDirect", "create"}
         /\ p[i] \in {"writable", "insert"} => \A j \in DOMAIN p : i <= j => p[j] # "member"
         /\ p[i] = "member" => \A j \in DOMAIN p : i <= j => p[j] \in Posting
<1>1. p[i] = "count" => i + 1 \in DOMAIN p
  BY DEF Paths
<1>2. p[i] = "count" => p[i + 1] \in {"add", "leave"}
  BY DEF Paths
<1>3. p[i] = "countOwner" => i + 1 \in DOMAIN p
  BY DEF Paths
<1>4. p[i] = "countOwner" => p[i + 1] = "addOwner"
  BY DEF Paths
<1>5. p[i] = "member" => i + 1 \in DOMAIN p
  BY DEF Paths
<1>6. ASSUME p[i] = "member", NEW j \in DOMAIN p, p[j] = "insert" PROVE p[i + 1] = "writable"
  BY <1>6 DEF Paths
<1>7. i + 1 \in DOMAIN p /\ p[i + 1] \in {"add", "leave"} => p[i] = "count"
  BY DEF Paths
<1>8. i + 1 \in DOMAIN p /\ p[i + 1] = "addOwner" => p[i] = "countOwner"
  BY DEF Paths
<1>9. p[i] \in Last => i + 1 \notin DOMAIN p
  BY DEF Paths, Last
<1>10. ASSUME p[i] \in Counting, NEW j \in DOMAIN p, i <= j
       PROVE  p[j] \notin {"findDirect", "create", "settings"}
  BY <1>10 DEF Paths, Counting
<1>11. ASSUME p[i] = "create", NEW j \in DOMAIN p, i <= j PROVE p[j] \notin {"findDirect", "insert", "insertPoll"}
  BY <1>11 DEF Paths
<1>12. ASSUME p[i] = "settings", NEW j \in DOMAIN p, i <= j PROVE p[j] \notin {"findDirect", "create"}
  BY <1>12 DEF Paths
<1>13. ASSUME p[i] \in {"writable", "insert"}, NEW j \in DOMAIN p, i <= j PROVE p[j] # "member"
  BY <1>13 DEF Paths
<1>14. ASSUME p[i] = "member", NEW j \in DOMAIN p, i <= j PROVE p[j] \in Posting
  BY <1>14 DEF Paths, Posting
<1> QED BY <1>1, <1>2, <1>3, <1>4, <1>5, <1>6, <1>7, <1>8, <1>9, <1>10, <1>11, <1>12, <1>13, <1>14

(* The same of a list that still begins with its first statement. *)
LEMMA Follows ==
  ASSUME NEW t \in Todos, t # <<>>
  PROVE  /\ Tail(t) \in Todos /\ Names(Tail(t)) = Names(t) \ {Head(t)} /\ Head(t) \in Names(t)
         /\ Head(t) = "count" => Tail(t) # <<>> /\ Head(Tail(t)) \in {"add", "leave"}
         /\ Head(t) = "countOwner" => Tail(t) # <<>> /\ Head(Tail(t)) = "addOwner"
         /\ Head(t) = "member" => "writable" \in Names(t) \/ "insert" \notin Names(t)
         /\ Tail(t) # <<>> /\ Head(Tail(t)) \in {"add", "leave"} => Head(t) = "count"
         /\ Tail(t) # <<>> /\ Head(Tail(t)) = "addOwner" => Head(t) = "countOwner"
         /\ Head(t) \in Last => Tail(t) = <<>> /\ Names(t) = {Head(t)}
         /\ Head(t) \in Counting => Names(t) \cap {"findDirect", "create", "settings"} = {}
         /\ Head(t) = "create" => Names(t) \cap {"findDirect", "insert", "insertPoll"} = {}
         /\ Head(t) = "settings" => Names(t) \cap {"findDirect", "create"} = {}
         /\ Head(t) \in {"writable", "insert"} => "member" \notin Names(t)
         /\ Head(t) = "member" => Names(t) \subseteq Posting
<1>1. PICK p \in Paths, i, n \in 1..6 :
        /\ DOMAIN p = 1..n /\ i <= n /\ Head(t) = p[i] /\ Names(t) = {p[j] : j \in i .. n}
        /\ Tail(t) \in Todos /\ Names(Tail(t)) = Names(t) \ {p[i]} /\ p[i] \in Names(t)
        /\ Tail(t) # <<>> <=> i + 1 <= n
        /\ i + 1 <= n => Head(Tail(t)) = p[i + 1]
  BY Tails
<1> DEFINE h == p[i]
           f == p[i + 1]
<1>2. i \in DOMAIN p /\ (i + 1 \in DOMAIN p <=> i + 1 <= n) /\ \A j \in i .. n : j \in DOMAIN p /\ i <= j
  BY <1>1
<1>3. Head(t) = h /\ (Tail(t) # <<>> <=> i + 1 <= n) /\ (i + 1 <= n => Head(Tail(t)) = f)
  BY <1>1
<1>4. \A x \in Names(t) : \E j \in DOMAIN p : i <= j /\ x = p[j]
  BY <1>1, <1>2
<1> HIDE DEF h, f
<1>5. /\ h = "count" => i + 1 \in DOMAIN p /\ f \in {"add", "leave"}
      /\ h = "countOwner" => i + 1 \in DOMAIN p /\ f = "addOwner"
      /\ h = "member" => i + 1 \in DOMAIN p
      /\ h = "member" => \A j \in DOMAIN p : p[j] = "insert" => f = "writable"
      /\ i + 1 \in DOMAIN p /\ f \in {"add", "leave"} => h = "count"
      /\ i + 1 \in DOMAIN p /\ f = "addOwner" => h = "countOwner"
      /\ h \in Last => i + 1 \notin DOMAIN p
  BY <1>2, Orders DEF h, f
<1>6. /\ h \in Counting => Names(t) \cap {"findDirect", "create", "settings"} = {}
      /\ h = "create" => Names(t) \cap {"findDirect", "insert", "insertPoll"} = {}
      /\ h = "settings" => Names(t) \cap {"findDirect", "create"} = {}
      /\ h \in {"writable", "insert"} => "member" \notin Names(t)
      /\ h = "member" => Names(t) \subseteq Posting
  <2>1. /\ h \in Counting => \A j \in DOMAIN p : i <= j => p[j] \notin {"findDirect", "create", "settings"}
        /\ h = "create" => \A j \in DOMAIN p : i <= j => p[j] \notin {"findDirect", "insert", "insertPoll"}
        /\ h = "settings" => \A j \in DOMAIN p : i <= j => p[j] \notin {"findDirect", "create"}
        /\ h \in {"writable", "insert"} => \A j \in DOMAIN p : i <= j => p[j] # "member"
        /\ h = "member" => \A j \in DOMAIN p : i <= j => p[j] \in Posting
    BY <1>2, Orders DEF h
  <2> QED BY <1>4, <2>1
<1>7. ASSUME Head(t) \in Last PROVE Tail(t) = <<>> /\ Names(t) = {Head(t)}
  <2>1. Tail(t) = <<>>
    BY <1>2, <1>3, <1>5, <1>7
  <2>2. Names(Tail(t)) = {}
    BY <2>1, Nothing
  <2> QED BY <1>1, <2>1, <2>2
<1>8. Head(t) = "member" => "writable" \in Names(t) \/ "insert" \notin Names(t)
  <2>1. ASSUME h = "member" PROVE f \in Names(t)
    BY <1>1, <1>2, <1>5, <2>1 DEF f
  <2> QED BY <1>3, <1>4, <1>5, <2>1
<1>9. Tail(t) \in Todos /\ Names(Tail(t)) = Names(t) \ {Head(t)} /\ Head(t) \in Names(t)
  BY <1>1
<1>10. /\ Head(t) = "count" => Tail(t) # <<>> /\ Head(Tail(t)) \in {"add", "leave"}
       /\ Head(t) = "countOwner" => Tail(t) # <<>> /\ Head(Tail(t)) = "addOwner"
       /\ Tail(t) # <<>> /\ Head(Tail(t)) \in {"add", "leave"} => Head(t) = "count"
       /\ Tail(t) # <<>> /\ Head(Tail(t)) = "addOwner" => Head(t) = "countOwner"
  BY <1>2, <1>3, <1>5
<1>11. /\ Head(t) \in Counting => Names(t) \cap {"findDirect", "create", "settings"} = {}
       /\ Head(t) = "create" => Names(t) \cap {"findDirect", "insert", "insertPoll"} = {}
       /\ Head(t) = "settings" => Names(t) \cap {"findDirect", "create"} = {}
       /\ Head(t) \in {"writable", "insert"} => "member" \notin Names(t)
       /\ Head(t) = "member" => Names(t) \subseteq Posting
  BY <1>3, <1>6
<1> QED BY <1>7, <1>8, <1>9, <1>10, <1>11-----------------------------------------------------------------------------
(* How a step changes the requests: what those of the other slots keep. *)
Same(s) ==
  /\ requests'[s].todo = requests[s].todo /\ requests'[s].by = requests[s].by
  /\ requests'[s].who = requests[s].who /\ requests'[s].conv = requests[s].conv
  /\ requests'[s].arg = requests[s].arg /\ requests'[s].ask = requests[s].ask
  /\ requests'[s].n = requests[s].n /\ (requests[s].lap => requests'[s].lap)

Others(s) == \A t \in Slots \ {s} : Same(t)

(* The request of slot s goes on without statement x, or ends. *)
Carries(s) ==
  /\ requests'[s].by = requests[s].by /\ requests'[s].who = requests[s].who
  /\ requests'[s].conv = requests[s].conv /\ requests'[s].ask = requests[s].ask
  /\ requests'[s].arg = "direct" <=> requests[s].arg = "direct"
Ended(s) == requests'[s] = Idle
Lessens(s, x) ==
  /\ Busy(s) /\ RequestsTyped' /\ Others(s)
  /\ \/ Ended(s)
     \/ /\ Busy(s)' /\ Carries(s) /\ requests'[s].arg = requests[s].arg
        /\ Left(s)' = Left(s) \ {x}
  /\ x \notin {"count", "countOwner"} => ~Committing(s)'

LEMMA IdleTyped == Idle \in Request /\ Idle.todo = <<>>
<1>1. <<>> \in Todos /\ None \in Args /\ 0 \in 0..Cardinality(Users)
  <2>1. Cardinality(Users) \in Nat
    BY MembershipAssumption, FS_CardinalityType
  <2> QED BY <2>1, Nothing DEF Args
<1> QED BY <1>1 DEF Idle, Request

(* What follows of a slot whose request is the same, and of one whose request is over. *)
LEMMA SameKeeps ==
  ASSUME NEW s, Same(s)
  PROVE  /\ Left(s)' = Left(s) /\ (Busy(s)' <=> Busy(s)) /\ Carries(s)
         /\ \A x : At(s, x)' <=> At(s, x)
         /\ Committing(s)' <=> Committing(s)
         /\ Changes(s)' = Changes(s)
         /\ Direct(s)' <=> Direct(s)
         /\ Pair(s)' = Pair(s)
         /\ Joins(s)' <=> Joins(s)
<1>1. Left(s)' = Left(s) /\ (Busy(s)' <=> Busy(s)) /\ Carries(s)
  BY DEF Same, Left, Busy, Carries
<1>2. \A x : At(s, x)' <=> At(s, x)
  BY DEF Same, At, Busy
<1> QED BY <1>1, <1>2 DEF Carries, Committing, Changes, Direct, Pair, Joins, Same

LEMMA EndedIsIdle ==
  ASSUME NEW s, Ended(s)
  PROVE  /\ ~Busy(s)' /\ Left(s)' = {} /\ ~Committing(s)' /\ ~Direct(s)' /\ ~Joins(s)'
         /\ requests'[s].conv = None /\ requests'[s].ask = None /\ requests'[s].by = None
<1>1. requests'[s].todo = <<>> /\ requests'[s].conv = None /\ requests'[s].ask = None /\ requests'[s].by = None
  BY DEF Ended, Idle
<1>2. Left(s)' = {}
  BY <1>1, Nothing DEF Left
<1> QED BY <1>1, <1>2 DEF Busy, Committing, At, Direct, Joins

(* Statement x is the next one. *)
LEMMA AtLeft ==
  ASSUME RequestsTyped, NEW s \in Slots, NEW x, At(s, x)
  PROVE  /\ Busy(s) /\ x \in Left(s) /\ requests[s].todo \in Todos
         /\ Rest(s) \in Todos /\ Names(Rest(s)) = Left(s) \ {x}
         /\ x = "count" => Rest(s) # <<>> /\ Head(Rest(s)) \in {"add", "leave"}
         /\ x = "countOwner" => Rest(s) # <<>> /\ Head(Rest(s)) = "addOwner"
         /\ x = "member" => "writable" \in Left(s) \/ "insert" \notin Left(s)
         /\ Rest(s) # <<>> /\ Head(Rest(s)) \in {"add", "leave"} => x = "count"
         /\ Rest(s) # <<>> /\ Head(Rest(s)) = "addOwner" => x = "countOwner"
         /\ x \in Last => Rest(s) = <<>> /\ Left(s) = {x}
         /\ x \in Counting => Left(s) \cap {"findDirect", "create", "settings"} = {}
         /\ x = "create" => Left(s) \cap {"findDirect", "insert", "insertPoll"} = {}
         /\ x = "settings" => Left(s) \cap {"findDirect", "create"} = {}
         /\ x \in {"writable", "insert"} => "member" \notin Left(s)
         /\ x = "member" => Left(s) \subseteq Posting
<1>1. requests[s].todo \in Todos /\ requests[s].todo # <<>> /\ Head(requests[s].todo) = x
  BY DEF RequestsTyped, Request, Busy, At
<1> QED BY <1>1, Follows DEF Rest, Left, Busy

(* The request of a slot is set; no other is. *)
LEMMA SetRequest ==
  ASSUME RequestsTyped, NEW s \in Slots, NEW r \in Request, Continue(s, r),
         r.todo # <<>> => {r.by, r.who} \subseteq Users
  PROVE  /\ RequestsTyped' /\ Others(s)
         /\ r.todo # <<>> => requests'[s] = r
         /\ r.todo = <<>> => Ended(s)
         /\ \A t \in Slots \ {s} : requests'[t] = requests[t]
<1> DEFINE q == IF r.todo = <<>> THEN Idle ELSE r
<1>1. requests' = [requests EXCEPT ![s] = q] /\ requests \in [Slots -> Request]
  BY DEF Continue, RequestsTyped
<1>2. q \in Request
  BY IdleTyped
<1> HIDE DEF q
<1>3. requests' \in [Slots -> Request] /\ requests'[s] = q /\ \A t \in Slots \ {s} : requests'[t] = requests[t]
  BY <1>1, <1>2
<1>4. Others(s)
  BY <1>3 DEF Others, Same
<1>5. ASSUME NEW t \in Slots
      PROVE  IF Busy(t)' THEN {requests'[t].by, requests'[t].who} \subseteq Users ELSE requests'[t] = Idle
  <2>1. CASE t = s
    BY <1>3, <2>1, IdleTyped DEF Busy, q
  <2>2. CASE t # s
    BY <1>3, <2>2 DEF RequestsTyped, Busy
  <2> QED BY <2>1, <2>2
<1>6. RequestsTyped'
  BY <1>3, <1>5 DEF RequestsTyped
<1> QED BY <1>3, <1>4, <1>6 DEF q, Ended

LEMMA EndStep ==
  ASSUME RequestsTyped, NEW s \in Slots, NEW x, Busy(s), Continue(s, Idle)
  PROVE  Ended(s) /\ Lessens(s, x)
<1>1. RequestsTyped' /\ Others(s) /\ Ended(s)
  BY SetRequest, IdleTyped
<1> QED BY <1>1, EndedIsIdle DEF Lessens

(* The same request with other statements to run. *)
LEMMA TodoTyped ==
  ASSUME RequestsTyped, NEW s \in Slots, NEW todo \in Todos, NEW r, r = [requests[s] EXCEPT !.todo = todo]
  PROVE  /\ r \in Request /\ r.todo = todo /\ r.by = requests[s].by /\ r.who = requests[s].who
         /\ r.conv = requests[s].conv /\ r.arg = requests[s].arg /\ r.ask = requests[s].ask
         /\ r.n = requests[s].n /\ r.lap = requests[s].lap
BY DEF RequestsTyped, Request

LEMMA ReplaceStep ==
  ASSUME RequestsTyped, NEW s \in Slots, Busy(s), NEW todo \in Todos,
         Continue(s, [requests[s] EXCEPT !.todo = todo])
  PROVE  /\ RequestsTyped' /\ Others(s) /\ Left(s)' = Names(todo)
         /\ todo = <<>> => Ended(s)
         /\ todo # <<>> => /\ Busy(s)' /\ Carries(s) /\ requests'[s].arg = requests[s].arg
                           /\ \A x : At(s, x)' <=> Head(todo) = x
<1> DEFINE r == [requests[s] EXCEPT !.todo = todo]
<1>1. /\ r \in Request /\ r.todo = todo /\ r.by = requests[s].by /\ r.who = requests[s].who
      /\ r.conv = requests[s].conv /\ r.arg = requests[s].arg /\ r.ask = requests[s].ask
  BY TodoTyped
<1>2. {r.by, r.who} \subseteq Users
  BY <1>1 DEF RequestsTyped
<1> HIDE DEF r
<1>3. Continue(s, r)
  BY DEF r
<1>4. /\ RequestsTyped' /\ Others(s)
      /\ todo # <<>> => requests'[s] = r
      /\ todo = <<>> => Ended(s)
  BY <1>1, <1>2, <1>3, SetRequest
<1>5. CASE todo = <<>>
  BY <1>4, <1>5, EndedIsIdle, Nothing
<1>6. CASE todo # <<>>
  BY <1>1, <1>4, <1>6 DEF Busy, Carries, At, Left
<1> QED BY <1>4, <1>5, <1>6

LEMMA GoStep ==
  ASSUME RequestsTyped, NEW s \in Slots, NEW x, At(s, x), Go(s)
  PROVE  Lessens(s, x) /\ (x \in Last => Ended(s))
<1>1. /\ Busy(s) /\ Rest(s) \in Todos /\ Names(Rest(s)) = Left(s) \ {x}
      /\ Rest(s) # <<>> /\ Head(Rest(s)) \in {"add", "leave"} => x = "count"
      /\ Rest(s) # <<>> /\ Head(Rest(s)) = "addOwner" => x = "countOwner"
      /\ x \in Last => Rest(s) = <<>>
  BY AtLeft
<1>2. Continue(s, [requests[s] EXCEPT !.todo = Rest(s)])
  BY DEF Go
<1>3. /\ RequestsTyped' /\ Others(s) /\ Left(s)' = Names(Rest(s))
      /\ Rest(s) = <<>> => Ended(s)
      /\ Rest(s) # <<>> => /\ Busy(s)' /\ Carries(s) /\ requests'[s].arg = requests[s].arg
                           /\ \A y : At(s, y)' <=> Head(Rest(s)) = y
  BY <1>1, <1>2, ReplaceStep
<1>4. x \notin {"count", "countOwner"} => ~Committing(s)'
  <2>1. CASE Rest(s) = <<>>
    BY <1>3, <2>1, EndedIsIdle
  <2>2. CASE Rest(s) # <<>>
    BY <1>1, <1>3, <2>2 DEF Committing
  <2> QED BY <2>1, <2>2
<1> QED BY <1>1, <1>3, <1>4 DEF Lessens

LEMMA CheckStep ==
  ASSUME RequestsTyped, NEW s \in Slots, NEW x, NEW ok \in BOOLEAN, Check(s, x, ok)
  PROVE  /\ At(s, x) /\ Lessens(s, x) /\ (~ok => Ended(s))
         /\ UNCHANGED <<made, members, channel, history>>
<1>1. At(s, x) /\ Busy(s) /\ UNCHANGED <<made, members, channel, history>>
  BY DEF Check, At
<1>2. CASE ok
  <2>1. Go(s)
    BY <1>2 DEF Check
  <2> QED BY <1>1, <1>2, <2>1, GoStep
<1>3. CASE ~ok
  <2>1. Continue(s, Idle)
    BY <1>3 DEF Check
  <2> QED BY <1>1, <1>3, <2>1, EndStep
<1> QED BY <1>2, <1>3-----------------------------------------------------------------------------
(* What a step on one slot has to show of that slot, part by part, when it leaves alone
   what the part is about. *)
LEMMA ChannelKept ==
  ASSUME Typed, NEW s \in Slots, Others(s), UNCHANGED settings.exists, made \subseteq made',
         in'[Channel] = in[Channel] \/ settings.exists,
         \A k \in Asks : asks'[k].status # "none" => asks'[k].user \in Users /\ settings.exists,
         requests'[s].conv = Channel /\ ~settings.exists =>
           "settings" \in Left(s)' /\ \A t \in Slots \ {s} : requests[t].conv # Channel,
         "settings" \in Left(s)' => requests'[s].conv = Channel /\ ~settings.exists,
         requests'[s].conv = Channel /\ "create" \notin Left(s)' => Channel \in made'
  PROVE  ChannelIsFounded'
<1>1. \A t \in Slots \ {s} : Left(t)' = Left(t) /\ requests'[t].conv = requests[t].conv
  BY SameKeeps DEF Others, Same
<1>2. ChannelIsFounded
  BY DEF Typed
<1>3. ASSUME NEW t \in Slots PROVE "settings" \in Left(t)' => requests'[t].conv = Channel /\ ~settings.exists
  BY <1>1, <1>2 DEF ChannelIsFounded
<1>4. ASSUME NEW t \in Slots PROVE requests'[t].conv = Channel /\ "create" \notin Left(t)' => Channel \in made'
  BY <1>1, <1>2 DEF ChannelIsFounded
<1>5. ASSUME ~settings.exists, NEW t \in Slots, requests'[t].conv = Channel
      PROVE  "settings" \in Left(t)' /\ \A u \in Slots : requests'[u].conv = Channel => u = t
  BY <1>1, <1>2, <1>5 DEF ChannelIsFounded
<1>6. settings.exists => Channel \in made'
  BY <1>2 DEF ChannelIsFounded
<1>7. ~settings.exists => in'[Channel] = {}
  BY <1>2 DEF ChannelIsFounded
<1> QED BY <1>3, <1>4, <1>5, <1>6, <1>7 DEF ChannelIsFounded

LEMMA SenseKept ==
  ASSUME Typed, NEW s \in Slots, Others(s), made \subseteq made',
         \A k \in Asks : asks[k].status # "none" => asks'[k].user = asks[k].user /\ asks'[k].status # "none",
         DirectMakesSense(s)', RequestMakesSense(s)'
  PROVE  \A t \in Slots : DirectMakesSense(t)' /\ RequestMakesSense(t)'
<1>1. TAKE t \in Slots
<1>2. CASE t = s
  BY <1>2
<1>3. CASE t # s
  <2>1. Same(t) /\ DirectMakesSense(t) /\ RequestMakesSense(t)
    BY <1>3 DEF Typed, Others
  <2>2. DirectMakesSense(t)'
    BY <2>1, SameKeeps DEF DirectMakesSense, Same
  <2>3. RequestMakesSense(t)'
    BY <2>1, SameKeeps DEF RequestMakesSense, Same
  <2> QED BY <2>2, <2>3
<1> QED BY <1>2, <1>3

LEMMA CountsKept ==
  ASSUME CountsAreFresh, NEW s \in Slots, Others(s), UNCHANGED in, CountIsRight', ~Committing(s)'
  PROVE  CountsAreFresh'
<1>1. ASSUME NEW t \in Slots, Committing(t)'
      PROVE  /\ t # s /\ Committing(t) /\ After(t)' = After(t) /\ Same(t)
  <2>1. t # s /\ Same(t)
    BY <1>1 DEF Others
  <2>2. Committing(t) /\ (At(t, "leave")' <=> At(t, "leave")) /\ Changes(t)' = Changes(t)
    BY <1>1, <2>1, SameKeeps
  <2>3. After(t)' = After(t)
    BY <2>1, <2>2 DEF After, Same
  <2> QED BY <2>1, <2>2, <2>3
<1>2. ASSUME NEW t \in Slots, Committing(t)', ~requests'[t].lap PROVE requests'[t].n = Cardinality(After(t))'
  BY <1>1, <1>2 DEF CountsAreFresh, Same
<1>3. ASSUME NEW t \in Slots, NEW u \in Slots, t # u, Committing(t)', Committing(u)',
             requests'[t].conv = requests'[u].conv
      PROVE  requests'[t].lap /\ requests'[u].lap
  BY <1>1, <1>3 DEF CountsAreFresh, Same
<1> QED BY <1>2, <1>3 DEF CountsAreFresh

LEMMA DirectsKept ==
  ASSUME DirectsAreOne, NEW s \in Slots, Others(s), crossed \subseteq crossed', enlarged \subseteq enlarged',
         \A d \in Directs \ enlarged' : in'[d] \subseteq in[d],
         Direct(s)' => /\ Direct(s) /\ Carries(s)
                       /\ "findDirect" \notin Left(s)' => "findDirect" \notin Left(s)
  PROVE  DirectsAreOne'
<1>1. ASSUME NEW t \in Slots, Direct(t)'
      PROVE  /\ Direct(t) /\ requests'[t].conv = requests[t].conv /\ Pair(t)' = Pair(t)
             /\ "findDirect" \notin Left(t)' => "findDirect" \notin Left(t)
  <2>1. CASE t = s
    BY <1>1, <2>1 DEF Carries, Pair
  <2>2. CASE t # s
    BY <1>1, <2>2, SameKeeps DEF Others, Same
  <2> QED BY <2>1, <2>2
<1>2. OneDirectEach'
  BY DEF DirectsAreOne, OneDirectEach
<1>3. ASSUME NEW t \in Slots, NEW u \in Slots, t # u, Direct(t)', Direct(u)'
      PROVE  /\ Pair(t)' = Pair(u)' => Pair(t)' \in crossed'
             /\ requests'[t].conv = requests'[u].conv => requests'[t].conv = None
  BY <1>1, <1>3 DEF DirectsAreOne
<1>4. ASSUME NEW t \in Slots, Direct(t)'
      PROVE  /\ requests'[t].conv \in Directs \ enlarged' => in'[requests'[t].conv] \subseteq Pair(t)'
             /\ "findDirect" \notin Left(t)' /\ Pair(t)' \notin crossed'
                  => \A d \in Directs \ enlarged' : Pair(t)' \subseteq in'[d] => d = requests'[t].conv
  BY <1>1, <1>4 DEF DirectsAreOne
<1> QED BY <1>2, <1>3, <1>4 DEF DirectsAreOne

LEMMA JoinsKept ==
  ASSUME JoinsAreOne, NEW s \in Slots, Others(s), crossed \subseteq crossed',
         \A k \in Asks : asks'[k].status = "pending" => asks'[k] = asks[k],
         Joins(s)' => Joins(s) /\ requests'[s].by = requests[s].by,
         "ask" \in Left(s)' /\ "noPending" \notin Left(s)' =>
           \/ "ask" \in Left(s) /\ "noPending" \notin Left(s)
           \/ PendingOf(requests[s].by) = {}
  PROVE  JoinsAreOne'
<1>1. /\ \A u : PendingOf(u)' \subseteq PendingOf(u)
      /\ \A t : requests'[t].by = requests[t].by => PendingOf(requests[t].by)' \subseteq PendingOf(requests[t].by)
  BY DEF PendingOf
<1>2. ASSUME NEW t \in Slots, Joins(t)' PROVE Joins(t) /\ requests'[t].by = requests[t].by
  BY <1>2, SameKeeps DEF Others, Same
<1>3. \A u \in Users : {u} \notin crossed' => \A k, l \in PendingOf(u)' : k = l
  BY <1>1 DEF JoinsAreOne
<1>4. ASSUME NEW t \in Slots, NEW u \in Slots, t # u, Joins(t)', Joins(u)', requests'[t].by = requests'[u].by
      PROVE  {requests'[t].by} \in crossed'
  BY <1>2, <1>4 DEF JoinsAreOne
<1>5. ASSUME NEW t \in Slots, "ask" \in Left(t)', "noPending" \notin Left(t)', {requests'[t].by} \notin crossed'
      PROVE  PendingOf(requests[t].by)' = {}
  <2>1. requests'[t].by = requests[t].by
    BY <1>2, <1>5 DEF Joins, Joining
  <2>2. PendingOf(requests[t].by) = {}
    <3>1. CASE t = s
      BY <1>5, <2>1, <3>1 DEF JoinsAreOne
    <3>2. CASE t # s
      <4>1. Left(t)' = Left(t)
        BY <3>2, SameKeeps DEF Others
      <4> QED BY <1>5, <2>1, <4>1 DEF JoinsAreOne
    <3> QED BY <3>1, <3>2
  <2> QED BY <1>1, <2>1, <2>2
<1> QED BY <1>3, <1>4, <1>5 DEF JoinsAreOne

LEMMA ApprovedKept ==
  ASSUME ApprovedComeIn, NEW s \in Slots, Others(s), failed \subseteq failed',
         \A k \in Asks : asks'[k].status = "approved" => asks[k].status = "approved" /\ asks'[k].user = asks[k].user,
         \A k \in Asks : asks[k].status = "approved" /\ role[Channel][asks[k].user] # None
                          => role'[Channel][asks[k].user] # None,
         \A k \in Asks : requests[s].ask = k /\ "add" \in Left(s) =>
           \/ requests'[s].ask = k /\ "add" \in Left(s)'
           \/ k \in failed' \/ role'[Channel][asks[k].user] # None
  PROVE  ApprovedComeIn'
<1> SUFFICES ASSUME NEW k \in Asks, asks'[k].status = "approved"
             PROVE  \/ role'[Channel][asks'[k].user] # None \/ k \in failed'
                    \/ \E t \in Slots : requests'[t].ask = k /\ "add" \in Left(t)'
  BY DEF ApprovedComeIn
<1>1. asks'[k].user = asks[k].user
  OBVIOUS
<1>2. CASE role[Channel][asks[k].user] # None \/ k \in failed
  BY <1>1, <1>2
<1>3. ASSUME NEW t \in Slots, requests[t].ask = k, "add" \in Left(t)
      PROVE  \/ role'[Channel][asks[k].user] # None \/ k \in failed'
             \/ requests'[t].ask = k /\ "add" \in Left(t)'
  BY <1>3, SameKeeps DEF Others, Same
<1> QED BY <1>1, <1>2, <1>3 DEF ApprovedComeIn

LEMMA PostsKept ==
  ASSUME \A t \in Slots : PostStands(t), NEW s \in Slots, Others(s), UNCHANGED <<members, readOnly>>,
         touched \ {s} \subseteq touched', PostStands(s)'
  PROVE  \A t \in Slots : PostStands(t)'
<1>1. TAKE t \in Slots
<1>2. CASE t = s
  BY <1>2
<1>3. CASE t # s
  <2>1. Same(t) /\ Left(t)' = Left(t) /\ (t \in touched => t \in touched') /\ PostStands(t)
    BY <1>3, SameKeeps DEF Others
  <2> QED BY <2>1 DEF PostStands, Same, members
<1> QED BY <1>2, <1>3

(* Who posts after a change of its place in a conversation, or of what is written there, had
   begun before it. *)
LEMMA PostsTouched ==
  ASSUME Typed, \A t \in Slots : PostStands(t), NEW s \in Slots, NEW x, Lessens(s, x),
         x \notin {"member", "writable"}, NEW c, NEW them, Touch(c, them),
         \A d \in Convs, u \in Users : d # c \/ u \notin them =>
           (u \in in[d] => u \in in'[d]) /\ role'[d][u] = role[d][u],
         \A d \in Convs : d \in readOnly' /\ d \notin readOnly => d = c /\ Users \subseteq them
  PROVE  \A t \in Slots : PostStands(t)'
<1> SUFFICES ASSUME NEW t \in Slots, Left(t)' \cap {"insert", "insertPoll"} # {}, "member" \notin Left(t)',
                    t \notin touched'
             PROVE  /\ requests'[t].by \in in'[requests'[t].conv]
                    /\ requests'[t].arg = role'[requests'[t].conv][requests'[t].by]
                    /\ "insert" \in Left(t)' /\ "writable" \notin Left(t)' =>
                         (requests'[t].conv \in readOnly' => requests'[t].arg \in Admins)
  BY DEF PostStands
<1>1. /\ Left(t) \cap {"insert", "insertPoll"} # {} /\ "member" \notin Left(t) /\ Busy(t)
      /\ "insert" \in Left(t)' /\ "writable" \notin Left(t)' => "insert" \in Left(t) /\ "writable" \notin Left(t)
      /\ requests'[t].by = requests[t].by /\ requests'[t].conv = requests[t].conv
      /\ requests'[t].arg = requests[t].arg
  <2>1. CASE t = s
    <3>1. ~Ended(s)
      BY <2>1, EndedIsIdle
    <3> QED BY <2>1, <3>1 DEF Lessens, Carries
  <2>2. CASE t # s
    <3>1. Left(t)' = Left(t) /\ Same(t)
      BY <2>2, SameKeeps DEF Lessens, Others
    <3>2. Busy(t)
      BY <3>1, Nothing DEF Busy, Left
    <3> QED BY <3>1, <3>2 DEF Same
  <2> QED BY <2>1, <2>2
<1>2. requests[t].by \in Users /\ requests[t].conv \in Convs
  <2>1. ~Direct(t)
    BY <1>1 DEF Typed, DirectMakesSense, Opening
  <2> QED BY <1>1, <2>1 DEF Typed, RequestsTyped, DirectMakesSense, Convs
<1>3. t \notin touched /\ (requests[t].conv # c \/ requests[t].by \notin them)
  BY <1>1 DEF Touch
<1>4. PostStands(t)
  OBVIOUS
<1>5. requests[t].by \in in[requests[t].conv] /\ requests[t].arg = role[requests[t].conv][requests[t].by]
  BY <1>1, <1>3, <1>4 DEF PostStands
<1>6. /\ requests[t].by \in in'[requests[t].conv]
      /\ requests[t].arg = role'[requests[t].conv][requests[t].by]
  BY <1>2, <1>3, <1>5
<1>7. requests[t].conv \in readOnly' => requests[t].conv \in readOnly
  BY <1>2, <1>3
<1> QED BY <1>1, <1>3, <1>4, <1>6, <1>7 DEF PostStands-----------------------------------------------------------------------------
(* A request that goes on as it is, or ends. *)
LEMMA ChannelLessens ==
  ASSUME Typed, NEW s \in Slots, NEW x, Lessens(s, x), x \notin {"create", "settings"} \/ Ended(s),
         UNCHANGED settings.exists, made \subseteq made', in'[Channel] = in[Channel] \/ settings.exists,
         \A k \in Asks : asks'[k].status # "none" => asks'[k].user \in Users /\ settings.exists
  PROVE  ChannelIsFounded'
<1>1. Others(s) /\ Channel # None
  BY MembershipAssumption DEF Lessens, Convs
<1>2. ASSUME requests'[s].conv = Channel \/ "settings" \in Left(s)'
      PROVE  /\ requests'[s].conv = requests[s].conv
             /\ "settings" \in Left(s)' <=> "settings" \in Left(s)
             /\ "create" \in Left(s)' <=> "create" \in Left(s)
  <2>1. ~Ended(s)
    BY <1>1, <1>2, EndedIsIdle
  <2> QED BY <2>1 DEF Lessens, Carries
<1>3. requests'[s].conv = Channel /\ ~settings.exists =>
        "settings" \in Left(s)' /\ \A t \in Slots \ {s} : requests[t].conv # Channel
  BY <1>2 DEF Typed, ChannelIsFounded
<1>4. "settings" \in Left(s)' => requests'[s].conv = Channel /\ ~settings.exists
  BY <1>2 DEF Typed, ChannelIsFounded
<1>5. requests'[s].conv = Channel /\ "create" \notin Left(s)' => Channel \in made'
  BY <1>2 DEF Typed, ChannelIsFounded
<1> QED BY <1>1, <1>3, <1>4, <1>5, ChannelKept

LEMMA SenseLessens ==
  ASSUME Typed, NEW s \in Slots, NEW x, Lessens(s, x), x # "create" \/ Ended(s), made \subseteq made',
         \A k \in Asks : asks[k].status # "none" => asks'[k].user = asks[k].user /\ asks'[k].status # "none"
  PROVE  \A t \in Slots : DirectMakesSense(t)' /\ RequestMakesSense(t)'
<1>1. Others(s) /\ DirectMakesSense(s) /\ RequestMakesSense(s)
  BY DEF Lessens, Typed
<1>2. CASE Ended(s)
  <2>1. None \notin Asks /\ None \notin Directs
    BY MembershipAssumption DEF Convs
  <2>2. DirectMakesSense(s)'
    BY <1>2, <2>1, EndedIsIdle DEF DirectMakesSense
  <2>3. RequestMakesSense(s)'
    BY <1>2, <2>1, EndedIsIdle DEF RequestMakesSense
  <2> QED BY <1>1, <2>2, <2>3, SenseKept
<1>3. CASE ~Ended(s)
  <2>1. Carries(s) /\ requests'[s].arg = requests[s].arg /\ Left(s)' = Left(s) \ {x} /\ x # "create" /\ Busy(s)
    BY <1>3 DEF Lessens
  <2>2. DirectMakesSense(s)'
    BY <1>1, <2>1 DEF DirectMakesSense, Direct, Carries
  <2>3. RequestMakesSense(s)'
    BY <1>1, <2>1 DEF RequestMakesSense, Joins, Carries
  <2> QED BY <1>1, <2>2, <2>3, SenseKept
<1> QED BY <1>2, <1>3

LEMMA DirectsLessens ==
  ASSUME DirectsAreOne, NEW s \in Slots, NEW x, Lessens(s, x), x # "findDirect" \/ Ended(s),
         \A d \in Directs \ enlarged' : in'[d] \subseteq in[d],
         crossed \subseteq crossed', enlarged \subseteq enlarged'
  PROVE  DirectsAreOne'
<1>1. Others(s)
  BY DEF Lessens
<1>2. Direct(s)' => /\ Direct(s) /\ Carries(s)
                    /\ "findDirect" \notin Left(s)' => "findDirect" \notin Left(s)
  <2>1. CASE Ended(s)
    BY <2>1, EndedIsIdle
  <2>2. CASE ~Ended(s)
    BY <2>2 DEF Lessens, Direct, Carries
  <2> QED BY <2>1, <2>2
<1> QED BY <1>1, <1>2, DirectsKept

LEMMA JoinsLessens ==
  ASSUME JoinsAreOne, NEW s \in Slots, NEW x, Lessens(s, x), x # "noPending" \/ Ended(s),
         UNCHANGED asks, crossed \subseteq crossed'
  PROVE  JoinsAreOne'
<1>1. Others(s)
  BY DEF Lessens
<1>2. CASE Ended(s)
  BY <1>1, <1>2, EndedIsIdle, JoinsKept
<1>3. CASE ~Ended(s)
  <2>1. Left(s)' = Left(s) \ {x} /\ Carries(s)
    BY <1>3 DEF Lessens
  <2>2. Joins(s)' => Joins(s)
    BY <2>1 DEF Joins
  <2> QED BY <1>1, <1>3, <2>1, <2>2, JoinsKept DEF Carries
<1> QED BY <1>2, <1>3

LEMMA ApprovedLessens ==
  ASSUME Typed, ApprovedComeIn, NEW s \in Slots, NEW x, At(s, x), Lessens(s, x),
         x \notin {"count", "add"} \/ requests[s].ask \in failed' \cup {None}, failed \subseteq failed',
         \A k \in Asks : asks'[k].status = "approved" => asks[k].status = "approved" /\ asks'[k].user = asks[k].user,
         \A k \in Asks : asks[k].status = "approved" /\ role[Channel][asks[k].user] # None
                          => role'[Channel][asks[k].user] # None
  PROVE  ApprovedComeIn'
<1>1. Others(s) /\ None \notin Asks
  BY MembershipAssumption DEF Lessens
<1>2. ASSUME NEW k \in Asks, requests[s].ask = k, "add" \in Left(s) PROVE k \in failed'
  <2>1. Left(s) \subseteq {"count", "add"}
    BY <1>2 DEF Typed, RequestMakesSense
  <2>2. x \in Left(s)
    BY AtLeft DEF Typed
  <2> QED BY <1>1, <1>2, <2>1, <2>2
<1> QED BY <1>1, <1>2, ApprovedKept

LEMMA PostsLessens ==
  ASSUME \A t \in Slots : PostStands(t), NEW s \in Slots, NEW x, Lessens(s, x),
         x \notin {"member", "writable"} \/ Ended(s), UNCHANGED <<members, readOnly, touched>>
  PROVE  \A t \in Slots : PostStands(t)'
<1>1. PostStands(s)'
  <2>1. CASE Ended(s)
    BY <2>1, EndedIsIdle DEF PostStands
  <2>2. CASE ~Ended(s)
    BY <2>2 DEF Lessens, Carries, PostStands, members
  <2> QED BY <2>1, <2>2
<1> QED BY <1>1, PostsKept DEF Lessens

(* A request that goes on, or ends, and changes nothing: what a statement is relied on for is
   left to it. *)
LEMMA QuietStep ==
  ASSUME IInv, NEW s \in Slots, NEW x, At(s, x), Lessens(s, x),
         UNCHANGED <<made, members, channel, history>>, started' \in 0..MaxRequests,
         mishaps' \in 0..MaxMishaps, failed' \subseteq Asks, failed \subseteq failed'
  PROVE  /\ x \notin {"create", "settings"} \/ Ended(s) => Typed'
         /\ x \notin {"count", "countOwner"} \/ Ended(s) => CountsAreFresh'
         /\ x # "findDirect" \/ Ended(s) => DirectsAreOne'
         /\ x # "noPending" \/ Ended(s) => JoinsAreOne'
         /\ x \notin {"count", "add"} \/ requests[s].ask \in failed' \cup {None} => ApprovedComeIn'
         /\ x \notin {"member", "writable"} \/ Ended(s) => \A t \in Slots : PostStands(t)'
<1>1. /\ Typed /\ CountsAreFresh /\ DirectsAreOne /\ JoinsAreOne /\ ApprovedComeIn
      /\ \A t \in Slots : PostStands(t)
  BY DEF IInv
<1>2. /\ UNCHANGED <<made, role, in, settings, readOnly, asks, lapped, crossed, enlarged, touched>>
      /\ UNCHANGED members
  BY DEF members, channel, history
<1>3. ASSUME x \notin {"create", "settings"} \/ Ended(s) PROVE Typed'
  <2>1. \A k \in Asks : asks'[k].status # "none" => asks'[k].user \in Users /\ settings.exists
    BY <1>1, <1>2 DEF Typed, ChannelIsFounded
  <2>2. ChannelIsFounded'
    BY <1>1, <1>2, <1>3, <2>1, ChannelLessens
  <2>3. \A t \in Slots : DirectMakesSense(t)' /\ RequestMakesSense(t)'
    BY <1>1, <1>2, <1>3, SenseLessens
  <2>4. RestTyped'
    BY <1>1, <1>2 DEF Typed, RestTyped
  <2> QED BY <2>2, <2>3, <2>4 DEF Typed, Lessens
<1>4. ASSUME x \notin {"count", "countOwner"} \/ Ended(s) PROVE CountsAreFresh'
  <2>1. Others(s) /\ ~Committing(s)'
    BY <1>4, EndedIsIdle DEF Lessens
  <2>2. CountIsRight'
    BY <1>1, <1>2 DEF CountsAreFresh, CountIsRight
  <2> QED BY <1>1, <1>2, <2>1, <2>2, CountsKept
<1>5. x # "findDirect" \/ Ended(s) => DirectsAreOne'
  BY <1>1, <1>2, DirectsLessens
<1>6. x # "noPending" \/ Ended(s) => JoinsAreOne'
  BY <1>1, <1>2, JoinsLessens
<1>7. x \notin {"count", "add"} \/ requests[s].ask \in failed' \cup {None} => ApprovedComeIn'
  BY <1>1, <1>2, ApprovedLessens
<1>8. x \notin {"member", "writable"} \/ Ended(s) => \A t \in Slots : PostStands(t)'
  BY <1>1, <1>2, PostsLessens
<1> QED BY <1>3, <1>4, <1>5, <1>6, <1>7, <1>8-----------------------------------------------------------------------------
(* The statements that only read. *)
Checks == {"findDirect", "manage", "administer", "notMember", "pending", "noPending", "writable", "insert",
           "insertPoll"}

LEMMA SameCounters ==
  ASSUME RestTyped, UNCHANGED <<started, mishaps, failed>>
  PROVE  /\ started' \in 0..MaxRequests /\ mishaps' \in 0..MaxMishaps
         /\ failed' \subseteq Asks /\ failed \subseteq failed'
BY DEF RestTyped

LEMMA CheckInv ==
  ASSUME IInv, UNCHANGED <<started, mishaps, failed>>, NEW s \in Slots, NEW x \in Checks,
         NEW ok \in BOOLEAN, Check(s, x, ok)
  PROVE  /\ Typed' /\ CountsAreFresh' /\ ApprovedComeIn'
         /\ x # "findDirect" \/ ~ok => DirectsAreOne'
         /\ x # "noPending" \/ ~ok => JoinsAreOne'
         /\ x # "writable" \/ ~ok => \A t \in Slots : PostStands(t)'
<1>1. RequestsTyped /\ RestTyped
  BY DEF IInv, Typed
<1>2. /\ At(s, x) /\ Lessens(s, x) /\ (~ok => Ended(s))
      /\ UNCHANGED <<made, members, channel, history>>
  BY <1>1, CheckStep
<1> QED BY <1>1, <1>2, SameCounters, QuietStep DEF Checks

LEMMA FindDirectInv ==
  ASSUME IInv, UNCHANGED <<started, mishaps, failed>>, NEW s \in Slots, FindDirectBetween(s)
  PROVE  IInv'
<1> DEFINE ok == \A d \in Directs : ~({requests[s].by, requests[s].who} \subseteq in[d])
<1>1. Check(s, "findDirect", ok) /\ ok \in BOOLEAN /\ "findDirect" \in Checks
  BY DEF FindDirectBetween, Checks
<1>2. ok => \A d \in Directs : ~(Pair(s) \subseteq in[d])
  BY DEF Pair
<1> HIDE DEF ok
<1>3. /\ Typed' /\ CountsAreFresh' /\ ApprovedComeIn' /\ JoinsAreOne'
      /\ ~ok => DirectsAreOne'
      /\ \A t \in Slots : PostStands(t)'
  BY <1>1, CheckInv
<1>4. ASSUME ok PROVE DirectsAreOne'
  <2>1. DirectsAreOne /\ RequestsTyped /\ DirectMakesSense(s) /\ RequestsTyped'
    BY <1>3 DEF IInv, Typed
  <2>2. Lessens(s, "findDirect") /\ At(s, "findDirect") /\ UNCHANGED <<in, crossed, enlarged>>
    BY <1>1, <2>1, CheckStep DEF members, history
  <2>3. Others(s)
    BY <2>2 DEF Lessens
  <2>4. ASSUME NEW t \in Slots, Direct(t)'
        PROVE  /\ Direct(t) /\ requests'[t].conv = requests[t].conv /\ Pair(t)' = Pair(t)
               /\ "findDirect" \notin Left(t)' => "findDirect" \notin Left(t) \/ t = s
    <3>1. CASE t = s
      <4>1. ~Ended(s)
        BY <2>4, <3>1, EndedIsIdle
      <4>2. Carries(s) /\ Busy(s)
        BY <2>2, <4>1 DEF Lessens
      <4> QED BY <2>4, <3>1, <4>2 DEF Carries, Pair, Direct
    <3>2. CASE t # s
      BY <2>3, <2>4, <3>2, SameKeeps DEF Others, Same
    <3> QED BY <3>1, <3>2
  <2>5. OneDirectEach'
    BY <2>1, <2>2 DEF DirectsAreOne, OneDirectEach
  <2>6. ASSUME NEW t \in Slots, NEW u \in Slots, t # u, Direct(t)', Direct(u)'
        PROVE  /\ Pair(t)' = Pair(u)' => Pair(t)' \in crossed'
               /\ requests'[t].conv = requests'[u].conv => requests'[t].conv = None
    BY <2>1, <2>2, <2>4, <2>6 DEF DirectsAreOne
  <2>7. ASSUME NEW t \in Slots, Direct(t)'
        PROVE  /\ requests'[t].conv \in Directs \ enlarged' => in'[requests'[t].conv] \subseteq Pair(t)'
               /\ "findDirect" \notin Left(t)' /\ Pair(t)' \notin crossed'
                    => \A d \in Directs \ enlarged' : Pair(t)' \subseteq in'[d] => d = requests'[t].conv
    BY <1>2, <1>4, <2>1, <2>2, <2>4, <2>7 DEF DirectsAreOne
  <2> QED BY <2>5, <2>6, <2>7 DEF DirectsAreOne
<1> QED BY <1>3, <1>4 DEF IInv

LEMMA FindPendingInv ==
  ASSUME IInv, UNCHANGED <<started, mishaps, failed>>, NEW s \in Slots, FindPendingRequest(s)
  PROVE  IInv'
<1> DEFINE ok == PendingOf(requests[s].by) = {}
<1>1. Check(s, "noPending", ok) /\ ok \in BOOLEAN /\ "noPending" \in Checks
  BY DEF FindPendingRequest, Checks
<1>2. /\ Typed' /\ CountsAreFresh' /\ ApprovedComeIn' /\ DirectsAreOne'
      /\ ~ok => JoinsAreOne'
      /\ \A t \in Slots : PostStands(t)'
  BY <1>1, CheckInv
<1>3. ASSUME ok PROVE JoinsAreOne'
  <2>1. JoinsAreOne /\ RequestsTyped
    BY DEF IInv, Typed
  <2>2. Lessens(s, "noPending") /\ UNCHANGED <<asks, crossed>>
    BY <1>1, <2>1, CheckStep DEF channel, history
  <2>3. Joins(s)' => Joins(s) /\ requests'[s].by = requests[s].by
    <3>1. CASE Ended(s)
      BY <3>1, EndedIsIdle
    <3>2. CASE ~Ended(s)
      BY <2>2, <3>2 DEF Lessens, Carries, Joins
    <3> QED BY <3>1, <3>2
  <2> QED BY <1>3, <2>1, <2>2, <2>3, JoinsKept DEF Lessens
<1> QED BY <1>2, <1>3 DEF IInv

LEMMA WritableInv ==
  ASSUME IInv, UNCHANGED <<started, mishaps, failed>>, NEW s \in Slots, Writable(s)
  PROVE  IInv'
<1> DEFINE ok == requests[s].conv \in readOnly => requests[s].arg \in Admins
<1>1. Check(s, "writable", ok) /\ ok \in BOOLEAN /\ "writable" \in Checks
  BY DEF Writable, Checks
<1>2. /\ Typed' /\ CountsAreFresh' /\ ApprovedComeIn' /\ DirectsAreOne' /\ JoinsAreOne'
      /\ ~ok => \A t \in Slots : PostStands(t)'
  BY <1>1, CheckInv
<1>3. ASSUME ok PROVE \A t \in Slots : PostStands(t)'
  <2>1. RequestsTyped /\ \A t \in Slots : PostStands(t)
    BY DEF IInv, Typed
  <2>2. /\ Lessens(s, "writable") /\ UNCHANGED <<members, readOnly, touched>>
        /\ At(s, "writable")
    BY <1>1, <2>1, CheckStep DEF channel, history
  <2>3. PostStands(s)'
    <3>1. CASE Ended(s)
      BY <3>1, EndedIsIdle DEF PostStands
    <3>2. CASE ~Ended(s)
      <4>1. /\ Left(s)' = Left(s) \ {"writable"} /\ requests'[s].arg = requests[s].arg
            /\ requests'[s].by = requests[s].by /\ requests'[s].conv = requests[s].conv
        BY <2>2, <3>2 DEF Lessens, Carries
      <4> QED BY <1>3, <2>1, <2>2, <4>1 DEF PostStands, members
    <3> QED BY <3>1, <3>2
  <2> QED BY <2>1, <2>2, <2>3, PostsKept DEF Lessens
<1> QED BY <1>2, <1>3 DEF IInv

LEMMA ReadsInv ==
  ASSUME IInv, UNCHANGED <<started, mishaps, failed>>, NEW s \in Slots,
         \/ RequireManageRole(s) \/ RequireRole(s) \/ NotMember(s) \/ Pending(s) \/ Insert(s) \/ InsertPoll(s)
  PROVE  IInv'
<1>1. PICK x \in {"manage", "administer", "notMember", "pending", "insert", "insertPoll"},
           ok \in BOOLEAN : Check(s, x, ok)
  <2>1. CASE RequireManageRole(s)
    <3> DEFINE may == Rank(requests[s].by, requests[s].conv) \in Managers
    <3>1. may \in BOOLEAN /\ Check(s, "manage", may)
      BY <2>1 DEF RequireManageRole
    <3> HIDE DEF may
    <3> QED BY <3>1
  <2>2. CASE RequireRole(s)
    <3> DEFINE may == Rank(requests[s].by, requests[s].conv) \in Admins
    <3>1. may \in BOOLEAN /\ Check(s, "administer", may)
      BY <2>2 DEF RequireRole
    <3> HIDE DEF may
    <3> QED BY <3>1
  <2>3. CASE NotMember(s)
    BY <2>3 DEF NotMember
  <2>4. CASE Pending(s)
    BY <2>4 DEF Pending
  <2>5. CASE Insert(s)
    BY <2>5 DEF Insert
  <2>6. CASE InsertPoll(s)
    BY <2>6 DEF InsertPoll
  <2> QED BY <2>1, <2>2, <2>3, <2>4, <2>5, <2>6
<1>2. x \in Checks /\ x \notin {"findDirect", "noPending", "writable"}
  BY DEF Checks
<1> QED BY <1>1, <1>2, CheckInv DEF IInv

(* A request that is cut short. *)
LEMMA FailInv == ASSUME IInv, NEW s \in Slots, Fail(s) PROVE IInv'
<1> DEFINE x == Head(requests[s].todo)
<1>1. RequestsTyped /\ RestTyped
  BY DEF IInv, Typed
<1>2. Busy(s) /\ At(s, x) /\ Continue(s, Idle)
  BY DEF Fail, At
<1>3. Ended(s) /\ Lessens(s, x)
  BY <1>1, <1>2, EndStep
<1>4. requests[s].ask \in Asks \cup {None} /\ None \notin Asks
  BY <1>1, MembershipAssumption DEF RequestsTyped, Request
<1>5. mishaps' \in 0..MaxMishaps
  BY <1>1, MembershipAssumption DEF Fail, RestTyped
<1>6. /\ started' \in 0..MaxRequests /\ failed' \subseteq Asks /\ failed \subseteq failed'
      /\ requests[s].ask \in failed' \cup {None}
      /\ UNCHANGED <<made, members, channel, history>>
  BY <1>1, <1>4 DEF Fail, RestTyped
<1> HIDE DEF x
<1> QED BY <1>2, <1>3, <1>5, <1>6, QuietStep DEF IInv-----------------------------------------------------------------------------
(* The statements that write something else than members. *)
(* The conversation of a request that is not about to create it. *)
LEMMA Somewhere ==
  ASSUME Typed, NEW s \in Slots, Busy(s), Left(s) \cap {"findDirect", "create", "settings"} = {}
  PROVE  /\ {requests[s].by, requests[s].who} \subseteq Users
         /\ requests[s].conv \in Convs /\ requests[s].conv \in made
         /\ requests[s].conv = Channel => settings.exists
         /\ requests[s].conv # Channel => requests[s].conv \in Directs
<1>1. RequestsTyped /\ ChannelIsFounded /\ DirectMakesSense(s)
  BY DEF Typed
<1>2. {requests[s].by, requests[s].who} \subseteq Users /\ requests[s].conv \in Convs \cup {None}
  BY <1>1 DEF RequestsTyped, Request
<1>3. CASE requests[s].conv = Channel
  BY <1>1, <1>2, <1>3 DEF ChannelIsFounded, Convs
<1>4. CASE requests[s].conv # Channel
  <2>1. requests[s].conv \in Directs
    BY <1>1, <1>2, <1>4 DEF DirectMakesSense, Convs
  <2> QED BY <1>1, <1>2, <1>4, <2>1 DEF DirectMakesSense, Convs
<1> QED BY <1>3, <1>4

LEMMA Together ==
  ASSUME RequestsTyped', RestTyped', ChannelIsFounded',
         \A t \in Slots : DirectMakesSense(t)' /\ RequestMakesSense(t)'
  PROVE  Typed'
BY DEF Typed

LEMMA CreateSettingsInv ==
  ASSUME IInv, UNCHANGED <<started, mishaps, failed>>, NEW s \in Slots, CreateSettings(s)
  PROVE  IInv'
<1>1. /\ Typed /\ RequestsTyped /\ RestTyped /\ ChannelIsFounded /\ CountsAreFresh /\ DirectsAreOne
      /\ JoinsAreOne /\ ApprovedComeIn /\ \A t \in Slots : PostStands(t)
  BY DEF IInv, Typed
<1>2. /\ At(s, "settings") /\ Go(s) /\ UNCHANGED <<made, role, in, readOnly, asks, lapped, crossed, enlarged, touched>>
      /\ UNCHANGED members
  BY DEF CreateSettings, members, history
<1>3. Lessens(s, "settings") /\ "settings" \in Left(s) /\ "create" \notin Left(s)
  BY <1>1, <1>2, GoStep, AtLeft
<1>4. PICK mode \in Modes : settings' = [exists |-> TRUE, mode |-> mode, count |-> 0]
  BY DEF CreateSettings
<1>5. Others(s) /\ RequestsTyped'
  BY <1>3 DEF Lessens
<1>6. requests[s].conv = Channel /\ ~settings.exists /\ Channel \in made /\ in[Channel] = {}
  BY <1>1, <1>3 DEF ChannelIsFounded
<1>7. Cardinality(Users) \in Nat /\ Cardinality({}) = 0
  BY MembershipAssumption, FS_CardinalityType, FS_EmptySet
<1>8. RestTyped'
  BY <1>1, <1>2, <1>4, <1>7 DEF RestTyped
<1>9. ChannelIsFounded'
  <2>1. ASSUME NEW t \in Slots PROVE "settings" \notin Left(t)'
    <3>1. CASE t = s
      BY <1>3, <3>1, EndedIsIdle DEF Lessens
    <3>2. CASE t # s
      <4>1. Left(t)' = Left(t)
        BY <1>5, <3>2, SameKeeps DEF Others
      <4> QED BY <1>1, <1>6, <3>2, <4>1 DEF ChannelIsFounded
    <3> QED BY <3>1, <3>2
  <2> QED BY <1>1, <1>2, <1>4, <1>6, <2>1 DEF ChannelIsFounded
<1>10. \A t \in Slots : DirectMakesSense(t)' /\ RequestMakesSense(t)'
  BY <1>1, <1>2, <1>3, SenseLessens
<1>11. CountsAreFresh'
  <2>1. CountIsRight'
    BY <1>2, <1>4, <1>6, <1>7 DEF CountIsRight
  <2> QED BY <1>1, <1>2, <1>3, <2>1, CountsKept DEF Lessens
<1>12. DirectsAreOne' /\ JoinsAreOne'
  BY <1>1, <1>2, <1>3, DirectsLessens, JoinsLessens
<1>13. ApprovedComeIn'
  BY <1>1, <1>2, <1>3, ApprovedLessens
<1>14. \A t \in Slots : PostStands(t)'
  BY <1>1, <1>2, <1>3, PostsLessens
<1> QED BY <1>5, <1>8, <1>9, <1>10, <1>11, <1>12, <1>13, <1>14, Together DEF IInv

LEMMA SetRoleInv ==
  ASSUME IInv, UNCHANGED <<started, mishaps, failed>>, NEW s \in Slots, SetRole(s)
  PROVE  IInv'
<1> DEFINE c == requests[s].conv
<1>1. /\ Typed /\ RequestsTyped /\ RestTyped /\ ChannelIsFounded /\ CountsAreFresh /\ DirectsAreOne
      /\ JoinsAreOne /\ ApprovedComeIn /\ RequestMakesSense(s) /\ \A t \in Slots : PostStands(t)
  BY DEF IInv, Typed
<1>2. /\ At(s, "setRole") /\ Go(s) /\ Touch(c, {requests[s].who})
      /\ UNCHANGED <<made, in, settings, readOnly, asks, lapped, crossed, enlarged>>
  BY DEF SetRole, channel
<1>3. Lessens(s, "setRole") /\ "setRole" \in Left(s)
  BY <1>1, <1>2, GoStep, AtLeft
<1>4. Others(s) /\ RequestsTyped' /\ ~Committing(s)' /\ Busy(s)
  BY <1>3 DEF Lessens
<1>5. requests[s].arg \in Roles /\ requests[s].who \in Users /\ None \notin Roles /\ c \in Convs
      /\ Channel \in Convs
  <2>1. Left(s) = {"setRole"}
    BY <1>1, <1>2, AtLeft DEF Last
  <2>2. c \in Convs
    BY <1>1, <1>4, <2>1, Somewhere
  <2> QED BY <1>1, <1>3, <1>4, <2>2, MembershipAssumption DEF RequestMakesSense, RequestsTyped, Convs
<1>6. /\ role' \in [Convs -> [Users -> Roles \cup {None}]]
      /\ \A d \in Convs, u \in Users :
           /\ role[d][u] # None => role'[d][u] # None
           /\ d # c \/ u # requests[s].who => role'[d][u] = role[d][u]
           /\ role'[d][u] # None => role[d][u] # None
  <2>1. role' = IF requests[s].who \in in[c] THEN [role EXCEPT ![c][requests[s].who] = requests[s].arg] ELSE role
    BY DEF SetRole
  <2>2. requests[s].who \in in[c] => role[c][requests[s].who] # None
    BY <1>1, <1>5 DEF RestTyped
  <2> HIDE DEF c
  <2> QED BY <1>1, <1>5, <2>1, <2>2 DEF RestTyped
<1> HIDE DEF c
<1>7. RestTyped'
  <2>1. touched' \subseteq Slots
    BY <1>1, <1>2 DEF RestTyped, Touch
  <2>2. ASSUME NEW d \in Convs
        PROVE  /\ in'[d] \subseteq {u \in Users : role'[d][u] # None}
               /\ (\E u \in Users : role'[d][u] # None) => d \in made'
    BY <1>1, <1>2, <1>6 DEF RestTyped
  <2> QED BY <1>1, <1>2, <1>6, <2>1, <2>2 DEF RestTyped
<1>8. ChannelIsFounded'
  <2>1. \A k \in Asks : asks'[k].status # "none" => asks'[k].user \in Users /\ settings.exists
    BY <1>1, <1>2 DEF ChannelIsFounded
  <2> QED BY <1>1, <1>2, <1>3, <2>1, ChannelLessens
<1>9. \A t \in Slots : DirectMakesSense(t)' /\ RequestMakesSense(t)'
  BY <1>1, <1>2, <1>3, SenseLessens
<1>10. CountsAreFresh'
  <2>1. CountIsRight'
    BY <1>1, <1>2 DEF CountsAreFresh, CountIsRight
  <2> QED BY <1>1, <1>2, <1>4, <2>1, CountsKept
<1>11. DirectsAreOne' /\ JoinsAreOne'
  BY <1>1, <1>2, <1>3, DirectsLessens, JoinsLessens
<1>12. ApprovedComeIn'
  <2>1. \A k \in Asks : asks[k].status = "approved" => asks[k].user \in Users
    BY <1>1 DEF ChannelIsFounded
  <2> QED BY <1>1, <1>2, <1>3, <1>5, <1>6, <2>1, ApprovedLessens
<1>13. \A t \in Slots : PostStands(t)'
  BY <1>1, <1>2, <1>3, <1>6, PostsTouched
<1> QED BY <1>4, <1>7, <1>8, <1>9, <1>10, <1>11, <1>12, <1>13, Together DEF IInv

LEMMA SetReadOnlyInv ==
  ASSUME IInv, UNCHANGED <<started, mishaps, failed>>, NEW s \in Slots, SetReadOnly(s)
  PROVE  IInv'
<1> DEFINE c == requests[s].conv
<1>1. /\ Typed /\ RequestsTyped /\ RestTyped /\ ChannelIsFounded /\ CountsAreFresh /\ DirectsAreOne
      /\ JoinsAreOne /\ ApprovedComeIn /\ \A t \in Slots : PostStands(t)
  BY DEF IInv, Typed
<1>2. /\ At(s, "setReadOnly") /\ Go(s) /\ Touch(c, Users)
      /\ readOnly' \in {readOnly \cup {c}, readOnly \ {c}}
      /\ UNCHANGED <<made, role, in, settings, asks, lapped, crossed, enlarged>>
  BY DEF SetReadOnly, members
<1>3. Lessens(s, "setReadOnly")
  BY <1>1, <1>2, GoStep
<1>4. Others(s) /\ RequestsTyped' /\ ~Committing(s)'
  BY <1>3 DEF Lessens
<1>5. RestTyped'
  <2>1. Busy(s) /\ Left(s) = {"setReadOnly"}
    BY <1>1, <1>2, AtLeft DEF Last
  <2>2. c \in made
    BY <1>1, <2>1, Somewhere
  <2> QED BY <1>1, <1>2, <2>2 DEF RestTyped, Touch
<1>6. ChannelIsFounded'
  <2>1. \A k \in Asks : asks'[k].status # "none" => asks'[k].user \in Users /\ settings.exists
    BY <1>1, <1>2 DEF ChannelIsFounded
  <2> QED BY <1>1, <1>2, <1>3, <2>1, ChannelLessens
<1>7. \A t \in Slots : DirectMakesSense(t)' /\ RequestMakesSense(t)'
  BY <1>1, <1>2, <1>3, SenseLessens
<1>8. CountsAreFresh'
  <2>1. CountIsRight'
    BY <1>1, <1>2 DEF CountsAreFresh, CountIsRight
  <2> QED BY <1>1, <1>2, <1>4, <2>1, CountsKept
<1>9. DirectsAreOne' /\ JoinsAreOne'
  BY <1>1, <1>2, <1>3, DirectsLessens, JoinsLessens
<1>10. ApprovedComeIn'
  BY <1>1, <1>2, <1>3, ApprovedLessens
<1>11. \A t \in Slots : PostStands(t)'
  BY <1>1, <1>2, <1>3, PostsTouched
<1> QED BY <1>4, <1>5, <1>6, <1>7, <1>8, <1>9, <1>10, <1>11, Together DEF IInv

LEMMA SetModeInv ==
  ASSUME IInv, UNCHANGED <<started, mishaps, failed>>, NEW s \in Slots, SetMode(s)
  PROVE  IInv'
<1>1. /\ Typed /\ RequestsTyped /\ RestTyped /\ ChannelIsFounded /\ CountsAreFresh /\ DirectsAreOne
      /\ JoinsAreOne /\ ApprovedComeIn /\ RequestMakesSense(s) /\ \A t \in Slots : PostStands(t)
  BY DEF IInv, Typed
<1>2. /\ At(s, "setMode") /\ Go(s) /\ settings' = [settings EXCEPT !.mode = requests[s].arg]
      /\ UNCHANGED <<made, role, in, readOnly, asks, lapped, crossed, enlarged, touched>>
      /\ UNCHANGED members
  BY DEF SetMode, members, history
<1>3. Lessens(s, "setMode") /\ "setMode" \in Left(s)
  BY <1>1, <1>2, GoStep, AtLeft
<1>4. Others(s) /\ RequestsTyped' /\ ~Committing(s)'
  BY <1>3 DEF Lessens
<1>5. /\ settings' \in [exists : BOOLEAN, mode : Modes, count : 0..Cardinality(Users)]
      /\ settings'.exists = settings.exists /\ settings'.count = settings.count
  BY <1>1, <1>2, <1>3 DEF RestTyped, RequestMakesSense
<1>6. RestTyped'
  BY <1>1, <1>2, <1>5 DEF RestTyped
<1>7. ChannelIsFounded'
  <2>1. \A k \in Asks : asks'[k].status # "none" => asks'[k].user \in Users /\ settings.exists
    BY <1>1, <1>2 DEF ChannelIsFounded
  <2> QED BY <1>1, <1>2, <1>3, <1>5, <2>1, ChannelLessens
<1>8. \A t \in Slots : DirectMakesSense(t)' /\ RequestMakesSense(t)'
  BY <1>1, <1>2, <1>3, SenseLessens
<1>9. CountsAreFresh'
  <2>1. CountIsRight'
    BY <1>1, <1>2, <1>5 DEF CountsAreFresh, CountIsRight
  <2> QED BY <1>1, <1>2, <1>4, <2>1, CountsKept
<1>10. DirectsAreOne' /\ JoinsAreOne'
  BY <1>1, <1>2, <1>3, DirectsLessens, JoinsLessens
<1>11. ApprovedComeIn'
  BY <1>1, <1>2, <1>3, ApprovedLessens
<1>12. \A t \in Slots : PostStands(t)'
  BY <1>1, <1>2, <1>3, PostsLessens
<1> QED BY <1>4, <1>6, <1>7, <1>8, <1>9, <1>10, <1>11, <1>12, Together DEF IInv-----------------------------------------------------------------------------
(* The statements after which a request goes on with others. *)
LEMMA PathBegins == ASSUME NEW p \in Paths PROVE p \in Todos /\ p # <<>> /\ Head(p) = p[1]
<1>1. PICK n \in 1..6 : DOMAIN p = 1..n
  BY PathsShort
<1>2. p = Suffix(p, 1) /\ p \in Todos /\ 1 \in 1..7
  BY PathIsSuffix
<1>3. /\ Suffix(p, 1) # <<>> <=> 1 <= n
      /\ 1 <= n => Head(Suffix(p, 1)) = p[1]
  BY <1>1, <1>2, Suffixes
<1> DEFINE q == Suffix(p, 1)
<1>4. p = q /\ q # <<>> /\ Head(q) = p[1]
  BY <1>1, <1>2, <1>3
<1> HIDE DEF q
<1> QED BY <1>2, <1>4

LEMMA NamesOf ==
  /\ \A a : Names(<<a>>) = {a}
  /\ \A a, b : Names(<<a, b>>) = {a, b}
  /\ \A a, b, c : Names(<<a, b, c>>) = {a, b, c}
  /\ \A a, b, c, d, e, f : Names(<<a, b, c, d, e, f>>) = {a, b, c, d, e, f}
BY DEF Names

LEMMA Continuations ==
  /\ AddMember \in Todos /\ AddMember # <<>> /\ Head(AddMember) = "count" /\ Names(AddMember) = {"count", "add"}
  /\ <<"noPending", "ask">> \in Todos /\ <<"noPending", "ask">> # <<>>
  /\ Head(<<"noPending", "ask">>) = "noPending" /\ Names(<<"noPending", "ask">>) = {"noPending", "ask"}
<1>1. AddMember \in Paths /\ <<"noPending", "ask">> \in Paths /\ AddMember[1] = "count"
  BY DEF Paths, AddMember
<1>2. Names(AddMember) = {"count", "add"} /\ Names(<<"noPending", "ask">>) = {"noPending", "ask"}
  BY NamesOf DEF AddMember
<1> DEFINE ask == <<"noPending", "ask">>
<1>3. ask \in Paths /\ ask[1] = "noPending" /\ Names(ask) = {"noPending", "ask"}
  BY <1>1, <1>2
<1> HIDE DEF ask
<1>4. ask \in Todos /\ ask # <<>> /\ Head(ask) = "noPending"
  BY <1>3, PathBegins
<1>5. AddMember \in Todos /\ AddMember # <<>> /\ Head(AddMember) = "count"
  BY <1>1, PathBegins
<1> QED BY <1>2, <1>3, <1>4, <1>5 DEF ask

(* The requests that only the channel has, and that come after its settings. *)
LEMMA OfTheChannel ==
  ASSUME Typed, NEW s \in Slots, Busy(s), Left(s) \cap (Opening \cup Anywhere) = {},
         "settings" \notin Left(s)
  PROVE  requests[s].conv = Channel /\ settings.exists /\ Channel \in made
<1>1. DirectMakesSense(s) /\ ChannelIsFounded /\ RequestsTyped
  BY DEF Typed
<1>2. \E x : x \in Left(s)
  <2>1. requests[s].todo \in Todos /\ requests[s].todo # <<>>
    BY <1>1 DEF RequestsTyped, Request, Busy
  <2> QED BY <2>1, Follows DEF Left
<1>3. requests[s].conv = Channel
  BY <1>1, <1>2 DEF DirectMakesSense
<1> QED BY <1>1, <1>3 DEF ChannelIsFounded, Opening

LEMMA ByModeInv ==
  ASSUME IInv, UNCHANGED <<started, mishaps, failed>>, NEW s \in Slots, ByMode(s)
  PROVE  IInv'
<1> DEFINE todo == CASE settings.mode = "open" -> AddMember
                     [] settings.mode = "request" -> <<"noPending", "ask">>
                     [] OTHER -> <<>>
<1>1. /\ Typed /\ RequestsTyped /\ RestTyped /\ ChannelIsFounded /\ CountsAreFresh /\ DirectsAreOne
      /\ JoinsAreOne /\ ApprovedComeIn /\ RequestMakesSense(s) /\ \A t \in Slots : PostStands(t)
  BY DEF IInv, Typed
<1>2. /\ At(s, "byMode") /\ Continue(s, [requests[s] EXCEPT !.todo = todo])
      /\ UNCHANGED <<made, role, in, settings, readOnly, asks, lapped, crossed, enlarged, touched>>
      /\ UNCHANGED members
  BY DEF ByMode, members, channel, history
<1>3. /\ todo \in Todos
      /\ todo # <<>> => /\ Head(todo) \in {"count", "noPending"}
                        /\ Names(todo) \in {{"count", "add"}, {"noPending", "ask"}}
  <2>1. todo = AddMember \/ todo = <<"noPending", "ask">> \/ todo = <<>>
    OBVIOUS
  <2> HIDE DEF todo
  <2> QED BY <2>1, Continuations, Nothing
<1> HIDE DEF todo
<1>4. Busy(s) /\ Left(s) = {"byMode"}
  BY <1>1, <1>2, AtLeft DEF Last
<1>5. /\ RequestsTyped' /\ Others(s) /\ Left(s)' = Names(todo)
      /\ todo = <<>> => Ended(s)
      /\ todo # <<>> => /\ Busy(s)' /\ Carries(s) /\ requests'[s].arg = requests[s].arg
                        /\ \A x : At(s, x)' <=> Head(todo) = x
  BY <1>1, <1>2, <1>3, <1>4, ReplaceStep
<1>6. requests[s].conv = Channel /\ settings.exists /\ Channel \in made /\ requests[s].by = requests[s].who
  <2>1. Left(s) \cap (Opening \cup Anywhere) = {} /\ "settings" \notin Left(s) /\ Joins(s)
    BY <1>4 DEF Opening, Anywhere, Joins, Joining
  <2> QED BY <1>1, <1>4, <2>1, OfTheChannel DEF RequestMakesSense
<1>7. /\ Ended(s) \/ (Carries(s) /\ requests'[s].arg = requests[s].arg)
      /\ ~Committing(s)' /\ ~Direct(s)' /\ Left(s)' \subseteq {"count", "add", "noPending", "ask"}
      /\ "ask" \in Left(s)' => "noPending" \in Left(s)'
      /\ "add" \in Left(s)' => Left(s)' = {"count", "add"}
  <2>1. CASE todo = <<>>
    BY <1>5, <2>1, EndedIsIdle
  <2>2. CASE todo # <<>>
    <3>1. ~Committing(s)'
      BY <1>3, <1>5, <2>2 DEF Committing
    <3>2. ~Direct(s)'
      <4>1. ~Direct(s)
        BY <1>1, <1>4 DEF Typed, DirectMakesSense, Opening
      <4> QED BY <1>4, <1>5, <2>2, <4>1 DEF Direct, Carries
    <3> QED BY <1>3, <1>5, <2>2, <3>1, <3>2
  <2> QED BY <2>1, <2>2
<1>8. Typed'
  <2>1. RestTyped'
    BY <1>1, <1>2 DEF RestTyped
  <2>2. ChannelIsFounded'
    <3>1. \A k \in Asks : asks'[k].status # "none" => asks'[k].user \in Users /\ settings.exists
      BY <1>1, <1>2 DEF ChannelIsFounded
    <3> QED BY <1>1, <1>2, <1>5, <1>6, <1>7, <3>1, ChannelKept
  <2>3. DirectMakesSense(s)'
    BY <1>6, <1>7, EndedIsIdle, MembershipAssumption DEF DirectMakesSense, Carries, Convs
  <2>4. RequestMakesSense(s)'
    <3>1. CASE Ended(s)
      BY <3>1, EndedIsIdle, MembershipAssumption DEF RequestMakesSense
    <3>2. CASE ~Ended(s)
      <4>1. Left(s)' \cap Reviewing = {} /\ "setRole" \notin Left(s)' /\ "setMode" \notin Left(s)'
        BY <1>7 DEF Reviewing
      <4> QED BY <1>1, <1>2, <1>6, <1>7, <3>2, <4>1 DEF RequestMakesSense, Carries
    <3> QED BY <3>1, <3>2
  <2>5. \A t \in Slots : DirectMakesSense(t)' /\ RequestMakesSense(t)'
    BY <1>1, <1>2, <1>5, <2>3, <2>4, SenseKept
  <2> QED BY <1>5, <2>1, <2>2, <2>5, Together
<1>9. CountsAreFresh'
  <2>1. CountIsRight'
    BY <1>1, <1>2 DEF CountsAreFresh, CountIsRight
  <2> QED BY <1>1, <1>2, <1>5, <1>7, <2>1, CountsKept
<1>10. DirectsAreOne'
  BY <1>1, <1>2, <1>5, <1>7, DirectsKept
<1>11. JoinsAreOne'
  <2>1. Joins(s)' => Joins(s) /\ requests'[s].by = requests[s].by
    BY <1>4, <1>7, EndedIsIdle DEF Joins, Joining, Carries
  <2> QED BY <1>1, <1>2, <1>5, <1>7, <2>1, JoinsKept
<1>12. ApprovedComeIn'
  BY <1>1, <1>2, <1>4, <1>5, ApprovedKept
<1>13. \A t \in Slots : PostStands(t)'
  <2>1. PostStands(s)'
    BY <1>7 DEF PostStands
  <2> QED BY <1>1, <1>2, <1>5, <2>1, PostsKept
<1> QED BY <1>8, <1>9, <1>10, <1>11, <1>12, <1>13 DEF IInv
LEMMA ReviewInv ==
  ASSUME IInv, UNCHANGED <<started, mishaps, failed>>, NEW s \in Slots, Review(s)
  PROVE  IInv'
<1> DEFINE k == requests[s].ask
           first == asks[k].status = "pending"
           todo == IF first /\ requests[s].arg = "approved" THEN AddMember ELSE <<>>
<1>1. /\ Typed /\ RequestsTyped /\ RestTyped /\ ChannelIsFounded /\ CountsAreFresh /\ DirectsAreOne
      /\ JoinsAreOne /\ ApprovedComeIn /\ RequestMakesSense(s) /\ \A t \in Slots : PostStands(t)
  BY DEF IInv, Typed
<1>2. /\ At(s, "review") /\ Continue(s, [requests[s] EXCEPT !.todo = todo])
      /\ asks' = IF first THEN [asks EXCEPT ![k].status = requests[s].arg] ELSE asks
      /\ UNCHANGED <<made, role, in, settings, readOnly, lapped, crossed, enlarged, touched>>
      /\ UNCHANGED members
  BY DEF Review, members, history
<1>3. /\ todo \in Todos /\ (todo # <<>> => Head(todo) = "count" /\ Names(todo) = {"count", "add"})
      /\ todo # <<>> <=> first /\ requests[s].arg = "approved"
  BY Continuations, Nothing
<1>4. Busy(s) /\ Left(s) = {"review"}
  BY <1>1, <1>2, AtLeft DEF Last
<1>5. k \in Asks /\ requests[s].arg \in Verdicts
  BY <1>1, <1>4 DEF RequestMakesSense, Reviewing
<1> HIDE DEF todo
<1>6. /\ RequestsTyped' /\ Others(s) /\ Left(s)' = Names(todo)
      /\ todo = <<>> => Ended(s)
      /\ todo # <<>> => /\ Busy(s)' /\ Carries(s) /\ requests'[s].arg = requests[s].arg
                        /\ \A x : At(s, x)' <=> Head(todo) = x
  BY <1>1, <1>2, <1>3, <1>4, ReplaceStep
<1>7. requests[s].conv = Channel /\ settings.exists /\ Channel \in made
  <2>1. Left(s) \cap (Opening \cup Anywhere) = {} /\ "settings" \notin Left(s)
    BY <1>4 DEF Opening, Anywhere
  <2> QED BY <1>1, <1>4, <2>1, OfTheChannel
<1>8. /\ Ended(s) \/ (Carries(s) /\ requests'[s].arg = requests[s].arg /\ Left(s)' = {"count", "add"})
      /\ ~Committing(s)' /\ ~Direct(s)' /\ Left(s)' \subseteq {"count", "add"} /\ ~Joins(s)'
  <2>1. CASE todo = <<>>
    BY <1>6, <2>1, EndedIsIdle
  <2>2. CASE todo # <<>>
    <3>1. ~Committing(s)'
      BY <1>3, <1>6, <2>2 DEF Committing
    <3>2. ~Direct(s)'
      <4>1. ~Direct(s)
        BY <1>1, <1>4 DEF Typed, DirectMakesSense, Opening
      <4> QED BY <1>4, <1>6, <2>2, <4>1 DEF Direct, Carries
    <3> QED BY <1>3, <1>6, <2>2, <3>1, <3>2 DEF Joins, Joining
  <2> QED BY <2>1, <2>2
<1>9. /\ asks' \in [Asks -> [user : Users \cup {None}, status : {"none", "pending", "approved", "rejected"}]]
      /\ \A l \in Asks : /\ asks'[l].user = asks[l].user /\ (asks'[l].status # "none" <=> asks[l].status # "none")
                         /\ asks'[l].status = "pending" => asks'[l] = asks[l]
                         /\ asks'[l].status = "approved" => asks[l].status = "approved" \/ (l = k /\ todo # <<>>)
  <2>1. CASE first
    <3>1. asks' = [asks EXCEPT ![k].status = requests[s].arg]
      BY <1>2, <2>1
    <3>2. asks'[k].user = asks[k].user /\ asks'[k].status = requests[s].arg
      BY <1>1, <1>5, <3>1 DEF RestTyped
    <3>3. \A l \in Asks : l # k => asks'[l] = asks[l]
      BY <1>1, <1>5, <3>1 DEF RestTyped
    <3>4. asks' \in [Asks -> [user : Users \cup {None}, status : {"none", "pending", "approved", "rejected"}]]
      BY <1>1, <1>5, <3>1 DEF RestTyped, Verdicts
    <3> QED BY <1>3, <1>5, <2>1, <3>2, <3>3, <3>4 DEF Verdicts
  <2>2. CASE ~first
    BY <1>1, <1>2, <2>2 DEF RestTyped
  <2> QED BY <2>1, <2>2
<1> HIDE DEF first, k
<1>10. Typed'
  <2>1. RestTyped'
    BY <1>1, <1>2, <1>9 DEF RestTyped
  <2>2. ChannelIsFounded'
    <3>1. \A l \in Asks : asks'[l].status # "none" => asks'[l].user \in Users /\ settings.exists
      BY <1>1, <1>9 DEF ChannelIsFounded
    <3>2. requests'[s].conv = Channel /\ ~settings.exists =>
            "settings" \in Left(s)' /\ \A t \in Slots \ {s} : requests[t].conv # Channel
      BY <1>7
    <3> QED BY <1>1, <1>2, <1>6, <1>7, <1>8, <3>1, <3>2, ChannelKept
  <2>3. DirectMakesSense(s)'
    BY <1>7, <1>8, EndedIsIdle, MembershipAssumption DEF DirectMakesSense, Carries, Convs
  <2>4. RequestMakesSense(s)'
    <3>1. CASE Ended(s)
      BY <3>1, EndedIsIdle, MembershipAssumption DEF RequestMakesSense
    <3>2. CASE ~Ended(s)
      <4>1. /\ Left(s)' \cap Reviewing = {} /\ "setRole" \notin Left(s)' /\ "setMode" \notin Left(s)'
            /\ requests'[s].ask = k /\ requests[s].ask = k /\ requests'[s].who = requests[s].who
            /\ requests'[s].conv = requests[s].conv
        BY <1>8, <3>2 DEF Reviewing, Carries, k
      <4> QED BY <1>1, <1>5, <1>8, <1>9, <3>2, <4>1 DEF RequestMakesSense
    <3> QED BY <3>1, <3>2
  <2>5. \A t \in Slots : DirectMakesSense(t)' /\ RequestMakesSense(t)'
    BY <1>1, <1>2, <1>6, <1>9, <2>3, <2>4, SenseKept
  <2> QED BY <1>6, <2>1, <2>2, <2>5, Together
<1>11. CountsAreFresh'
  <2>1. CountIsRight'
    BY <1>1, <1>2 DEF CountsAreFresh, CountIsRight
  <2> QED BY <1>1, <1>2, <1>6, <1>8, <2>1, CountsKept
<1>12. DirectsAreOne'
  BY <1>1, <1>2, <1>6, <1>8, DirectsKept
<1>13. JoinsAreOne'
  <2>1. "ask" \notin Left(s)'
    BY <1>8
  <2> QED BY <1>1, <1>2, <1>6, <1>8, <1>9, <2>1, JoinsKept
<1>14. ApprovedComeIn'
  <2> SUFFICES ASSUME NEW l \in Asks, asks'[l].status = "approved"
               PROVE  \/ role'[Channel][asks'[l].user] # None \/ l \in failed'
                      \/ \E t \in Slots : requests'[t].ask = l /\ "add" \in Left(t)'
    BY DEF ApprovedComeIn
  <2>1. CASE l = k /\ todo # <<>>
    BY <1>3, <1>6, <2>1 DEF Carries, k
  <2>2. CASE asks[l].status = "approved"
    <3>1. ASSUME NEW t \in Slots, requests[t].ask = l, "add" \in Left(t)
          PROVE  requests'[t].ask = l /\ "add" \in Left(t)'
      <4>1. t # s
        BY <1>4, <3>1
      <4> QED BY <1>6, <3>1, <4>1, SameKeeps DEF Others, Same
    <3> QED BY <1>1, <1>2, <1>9, <2>2, <3>1 DEF ApprovedComeIn
  <2> QED BY <1>9, <2>1, <2>2
<1>15. \A t \in Slots : PostStands(t)'
  <2>1. PostStands(s)'
    BY <1>8 DEF PostStands
  <2> QED BY <1>1, <1>2, <1>6, <2>1, PostsKept
<1> QED BY <1>10, <1>11, <1>12, <1>13, <1>14, <1>15 DEF IInv

(* The request to join that is written is the only one pending of its user. *)
LEMMA CreateJoinRequestInv ==
  ASSUME IInv, UNCHANGED <<started, mishaps, failed>>, NEW s \in Slots, CreateJoinRequest(s)
  PROVE  IInv'
<1> DEFINE u == requests[s].by
<1>1. /\ Typed /\ RequestsTyped /\ RestTyped /\ ChannelIsFounded /\ CountsAreFresh /\ DirectsAreOne
      /\ JoinsAreOne /\ ApprovedComeIn /\ \A t \in Slots : PostStands(t)
  BY DEF IInv, Typed
<1>2. PICK k \in Asks : asks[k].status = "none" /\ asks' = [asks EXCEPT ![k] = [user |-> u, status |-> "pending"]]
  BY DEF CreateJoinRequest
<1>3. /\ At(s, "ask") /\ Go(s)
      /\ UNCHANGED <<made, role, in, settings, readOnly, lapped, crossed, enlarged, touched>>
      /\ UNCHANGED members
  BY DEF CreateJoinRequest, members, history
<1>4. Lessens(s, "ask") /\ Ended(s) /\ Busy(s) /\ Left(s) = {"ask"}
  BY <1>1, <1>3, GoStep, AtLeft DEF Last
<1>5. Others(s) /\ RequestsTyped' /\ ~Committing(s)' /\ Left(s)' = {} /\ ~Joins(s)'
  BY <1>4, EndedIsIdle DEF Lessens
<1>6. settings.exists /\ u \in Users
  <2>1. Left(s) \cap (Opening \cup Anywhere) = {} /\ "settings" \notin Left(s)
    BY <1>4 DEF Opening, Anywhere
  <2> QED BY <1>1, <1>4, <2>1, OfTheChannel DEF RequestsTyped
<1>7. Joins(s) /\ ({u} \notin crossed => PendingOf(u) = {})
  BY <1>1, <1>4 DEF JoinsAreOne, Joins, Joining
<1> HIDE DEF u
<1>8. /\ asks'[k] = [user |-> u, status |-> "pending"] /\ \A l \in Asks \ {k} : asks'[l] = asks[l]
      /\ asks' \in [Asks -> [user : Users \cup {None}, status : {"none", "pending", "approved", "rejected"}]]
  BY <1>1, <1>2, <1>6 DEF RestTyped
<1>9. Typed'
  <2>1. RestTyped'
    BY <1>1, <1>3, <1>8 DEF RestTyped
  <2>2. ChannelIsFounded'
    <3>1. \A l \in Asks : asks'[l].status # "none" => asks'[l].user \in Users /\ settings.exists
      BY <1>1, <1>6, <1>8 DEF ChannelIsFounded
    <3> QED BY <1>1, <1>3, <1>4, <3>1, ChannelLessens
  <2>3. \A t \in Slots : DirectMakesSense(t)' /\ RequestMakesSense(t)'
    BY <1>1, <1>2, <1>3, <1>4, <1>8, SenseLessens
  <2> QED BY <1>5, <2>1, <2>2, <2>3, Together
<1>10. CountsAreFresh'
  <2>1. CountIsRight'
    BY <1>1, <1>3 DEF CountsAreFresh, CountIsRight
  <2> QED BY <1>1, <1>3, <1>5, <2>1, CountsKept
<1>11. DirectsAreOne'
  BY <1>1, <1>3, <1>4, DirectsLessens
<1>12. JoinsAreOne'
  <2>1. ASSUME NEW v, v # u PROVE PendingOf(v)' \subseteq PendingOf(v)
    BY <1>8, <2>1 DEF PendingOf
  <2>2. \A l \in Asks : asks'[l] = [user |-> u, status |-> "pending"] => l = k \/ l \in PendingOf(u)
    BY <1>8 DEF PendingOf
  <2>3. ASSUME NEW v \in Users, {v} \notin crossed', NEW l \in PendingOf(v)', NEW m \in PendingOf(v)' PROVE l = m
    <3>1. CASE v = u
      <4>1. /\ l \in Asks /\ asks'[l] = [user |-> u, status |-> "pending"]
            /\ m \in Asks /\ asks'[m] = [user |-> u, status |-> "pending"]
        BY <2>3, <3>1 DEF PendingOf
      <4>2. PendingOf(u) = {}
        BY <1>3, <1>7, <2>3, <3>1
      <4> QED BY <2>2, <4>1, <4>2
    <3>2. CASE v # u
      BY <1>1, <1>3, <2>1, <2>3, <3>2 DEF JoinsAreOne
    <3> QED BY <3>1, <3>2
  <2>4. ASSUME NEW t \in Slots, Joins(t)'
        PROVE  t # s /\ Joins(t) /\ requests'[t].by = requests[t].by /\ Left(t)' = Left(t)
    <3>1. t # s
      BY <1>5, <2>4
    <3> QED BY <1>5, <2>4, <3>1, SameKeeps DEF Others, Same
  <2>5. ASSUME NEW t \in Slots, NEW w \in Slots, t # w, Joins(t)', Joins(w)', requests'[t].by = requests'[w].by
        PROVE  {requests'[t].by} \in crossed'
    BY <1>1, <1>3, <2>4, <2>5 DEF JoinsAreOne
  <2>6. ASSUME NEW t \in Slots, "ask" \in Left(t)', "noPending" \notin Left(t)', {requests'[t].by} \notin crossed'
        PROVE  \A l \in Asks : asks'[l] # [user |-> requests'[t].by, status |-> "pending"]
    <3>1. Joins(t)'
      BY <2>6 DEF Joins, Joining
    <3>2. t # s /\ Joins(t) /\ requests'[t].by = requests[t].by /\ Left(t)' = Left(t)
      BY <2>4, <3>1
    <3>3. requests[t].by # u
      BY <1>1, <1>3, <1>7, <2>6, <3>2 DEF JoinsAreOne, u
    <3>4. PendingOf(requests[t].by) = {}
      BY <1>1, <1>3, <2>6, <3>2 DEF JoinsAreOne
    <3> QED BY <1>8, <3>2, <3>3, <3>4 DEF PendingOf
  <2> QED BY <2>3, <2>5, <2>6 DEF JoinsAreOne, PendingOf
<1>13. ApprovedComeIn'
  BY <1>1, <1>3, <1>4, <1>8, ApprovedLessens
<1>14. \A t \in Slots : PostStands(t)'
  BY <1>1, <1>3, <1>4, PostsLessens
<1> QED BY <1>9, <1>10, <1>11, <1>12, <1>13, <1>14 DEF IInv

(* A post finds its author in, with a role. *)
LEMMA GetMemberInv ==
  ASSUME IInv, UNCHANGED <<started, mishaps, failed>>, NEW s \in Slots, GetMember(s)
  PROVE  IInv'
<1> DEFINE todo == IF requests[s].by \in in[requests[s].conv] THEN Rest(s) ELSE <<>>
           arg == Rank(requests[s].by, requests[s].conv)
           r == [requests[s] EXCEPT !.todo = todo, !.arg = arg]
<1>1. /\ Typed /\ RequestsTyped /\ RestTyped /\ ChannelIsFounded /\ CountsAreFresh /\ DirectsAreOne
      /\ JoinsAreOne /\ ApprovedComeIn /\ DirectMakesSense(s) /\ RequestMakesSense(s)
      /\ \A t \in Slots : PostStands(t)
  BY DEF IInv, Typed
<1>2. /\ At(s, "member") /\ Continue(s, r)
      /\ UNCHANGED <<made, role, in, settings, readOnly, asks, lapped, crossed, enlarged, touched>>
      /\ UNCHANGED members
  BY DEF GetMember, members, channel, history
<1>3. /\ Busy(s) /\ "member" \in Left(s) /\ Left(s) \subseteq Posting
      /\ "writable" \in Left(s) \/ "insert" \notin Left(s)
      /\ Rest(s) \in Todos /\ Names(Rest(s)) = Left(s) \ {"member"}
      /\ Rest(s) # <<>> => Head(Rest(s)) \notin {"add", "leave", "addOwner"}
  BY <1>1, <1>2, AtLeft
<1>10. /\ requests[s].conv \in Convs /\ requests[s].conv \in made /\ {requests[s].by, requests[s].who} \subseteq Users
       /\ requests[s].conv = Channel => settings.exists
       /\ requests[s].conv # Channel => requests[s].conv \in Directs
  <2>1. Left(s) \cap {"findDirect", "create", "settings"} = {}
    BY <1>3 DEF Posting
  <2> QED BY <1>1, <1>3, <2>1, Somewhere
<1>4. todo \in Todos /\ arg \in Args /\ arg \in Roles \cup {None} /\ {requests[s].by, requests[s].who} \subseteq Users
  BY <1>1, <1>3, <1>10, Nothing DEF RequestsTyped, RestTyped, Rank, Args
<1>5. requests[s].by \in in[requests[s].conv] => arg = role[requests[s].conv][requests[s].by] /\ todo = Rest(s)
  BY DEF Rank
<1>6. requests[s].by \notin in[requests[s].conv] => todo = <<>>
  OBVIOUS
<1>0. arg # "direct" /\ ~Direct(s) /\ requests[s].arg # "direct"
  <2>1. ~Direct(s)
    BY <1>1, <1>3 DEF DirectMakesSense, Opening
  <2> QED BY <1>3, <1>4, <2>1, MembershipAssumption DEF Direct, Roles
<1> HIDE DEF todo, arg
<1>7. /\ r \in Request /\ r.todo = todo /\ r.by = requests[s].by /\ r.who = requests[s].who
      /\ r.conv = requests[s].conv /\ r.arg = arg /\ r.ask = requests[s].ask
  BY <1>1, <1>4 DEF RequestsTyped, Request
<1> HIDE DEF r
<1>8. /\ RequestsTyped' /\ Others(s)
      /\ todo # <<>> => requests'[s] = r
      /\ todo = <<>> => Ended(s)
  BY <1>1, <1>2, <1>4, <1>7, SetRequest
<1>9. /\ ~Committing(s)' /\ ~Joins(s)' /\ Left(s)' \subseteq Posting
      /\ \/ Ended(s)
         \/ /\ Carries(s) /\ Busy(s)' /\ Left(s)' = Left(s) \ {"member"} /\ requests'[s].arg = arg
            /\ requests[s].by \in in[requests[s].conv]
  <2>1. CASE todo = <<>>
    BY <1>8, <2>1, EndedIsIdle
  <2>2. CASE todo # <<>>
    <3>1. requests'[s] = r /\ todo = Rest(s) /\ requests[s].by \in in[requests[s].conv]
      BY <1>5, <1>6, <1>8, <2>2
    <3>2. Left(s)' = Left(s) \ {"member"} /\ Busy(s)' /\ Carries(s) /\ requests'[s].arg = arg
      BY <1>0, <1>3, <1>7, <2>2, <3>1 DEF Left, Busy, Carries
    <3>3. ~Committing(s)'
      BY <1>3, <1>7, <2>2, <3>1 DEF Committing, At
    <3>4. ~Joins(s)'
      BY <1>3, <3>2 DEF Joins, Joining, Posting
    <3> QED BY <1>3, <3>1, <3>2, <3>3, <3>4
  <2> QED BY <2>1, <2>2
<1>11. ~Direct(s)'
  BY <1>0, <1>9, EndedIsIdle DEF Direct
<1>12. Typed'
  <2>1. RestTyped'
    BY <1>1, <1>2 DEF RestTyped
  <2>2. ChannelIsFounded'
    <3>1. \A k \in Asks : asks'[k].status # "none" => asks'[k].user \in Users /\ settings.exists
      BY <1>1, <1>2 DEF ChannelIsFounded
    <3>2. "settings" \notin Left(s)'
      BY <1>9 DEF Posting
    <3>3. requests'[s].conv = Channel => settings.exists /\ Channel \in made
      BY <1>9, <1>10, EndedIsIdle, MembershipAssumption DEF Carries, Convs
    <3> QED BY <1>1, <1>2, <1>8, <3>1, <3>2, <3>3, ChannelKept
  <2>3. DirectMakesSense(s)'
    <3>1. CASE Ended(s)
      BY <3>1, EndedIsIdle, MembershipAssumption DEF DirectMakesSense, Convs
    <3>2. CASE ~Ended(s)
      <4>1. Left(s)' \subseteq Anywhere
        BY <1>9 DEF Posting, Anywhere
      <4> QED BY <1>2, <1>9, <1>10, <1>11, <3>2, <4>1 DEF DirectMakesSense, Carries
    <3> QED BY <3>1, <3>2
  <2>4. RequestMakesSense(s)'
    <3>1. CASE Ended(s)
      BY <3>1, EndedIsIdle, MembershipAssumption DEF RequestMakesSense
    <3>2. CASE ~Ended(s)
      <4>1. /\ Left(s)' \cap Reviewing = {} /\ "setRole" \notin Left(s)' /\ "setMode" \notin Left(s)'
            /\ "add" \notin Left(s)'
        BY <1>9 DEF Reviewing, Posting
      <4> QED BY <1>1, <1>2, <1>9, <3>2, <4>1 DEF RequestMakesSense, Carries
    <3> QED BY <3>1, <3>2
  <2>5. \A t \in Slots : DirectMakesSense(t)' /\ RequestMakesSense(t)'
    BY <1>1, <1>2, <1>8, <2>3, <2>4, SenseKept
  <2> QED BY <1>8, <2>1, <2>2, <2>5, Together
<1>13. CountsAreFresh'
  <2>1. CountIsRight'
    BY <1>1, <1>2 DEF CountsAreFresh, CountIsRight
  <2> QED BY <1>1, <1>2, <1>8, <1>9, <2>1, CountsKept
<1>14. DirectsAreOne'
  BY <1>1, <1>2, <1>8, <1>11, DirectsKept
<1>15. JoinsAreOne'
  <2>1. "ask" \notin Left(s)'
    BY <1>9 DEF Posting
  <2> QED BY <1>1, <1>2, <1>8, <1>9, <2>1, JoinsKept
<1>16. ApprovedComeIn'
  <2>1. "add" \notin Left(s)
    BY <1>3 DEF Posting
  <2> QED BY <1>1, <1>2, <1>8, <2>1, ApprovedKept
<1>17. \A t \in Slots : PostStands(t)'
  <2>1. PostStands(s)'
    <3>1. CASE Ended(s)
      BY <3>1, EndedIsIdle DEF PostStands
    <3>2. CASE ~Ended(s)
      BY <1>2, <1>3, <1>5, <1>9, <3>2 DEF PostStands, Carries
    <3> QED BY <3>1, <3>2
  <2> QED BY <1>1, <1>2, <1>8, <2>1, PostsKept
<1> QED BY <1>12, <1>13, <1>14, <1>15, <1>16, <1>17 DEF IInv
(* The conversation a request adds to, counts or leaves. *)
LEMMA ConvOf ==
  ASSUME Typed, NEW s \in Slots, NEW x \in Counting, At(s, x)
  PROVE  /\ Busy(s) /\ {requests[s].by, requests[s].who} \subseteq Users
         /\ requests[s].conv \in Convs /\ requests[s].conv \in made
         /\ requests[s].conv = Channel => settings.exists
         /\ requests[s].conv # Channel => requests[s].conv \in Directs
<1>1. Busy(s) /\ Left(s) \cap {"findDirect", "create", "settings"} = {}
  BY AtLeft DEF Typed
<1> QED BY <1>1, Somewhere

LEMMA CreateInv ==
  ASSUME IInv, UNCHANGED <<started, mishaps, failed>>, NEW s \in Slots, Create(s)
  PROVE  IInv'
<1>1. /\ Typed /\ RequestsTyped /\ RestTyped /\ ChannelIsFounded /\ CountsAreFresh /\ DirectsAreOne
      /\ JoinsAreOne /\ ApprovedComeIn /\ DirectMakesSense(s) /\ RequestMakesSense(s)
      /\ \A t \in Slots : PostStands(t)
  BY DEF IInv, Typed
<1>2. /\ At(s, "create")
      /\ UNCHANGED <<role, in, settings, readOnly, asks, lapped, crossed, enlarged, touched>>
      /\ UNCHANGED members
  BY DEF Create, members, channel, history
<1>3. PICK c \in (IF requests[s].conv = None THEN Directs ELSE {Channel}) \ made :
        made' = made \cup {c} /\ Continue(s, [requests[s] EXCEPT !.todo = Rest(s), !.conv = c])
  BY DEF Create
<1>4. /\ Busy(s) /\ "create" \in Left(s) /\ Left(s) \cap {"findDirect", "insert", "insertPoll"} = {}
      /\ Rest(s) \in Todos /\ Names(Rest(s)) = Left(s) \ {"create"}
      /\ Rest(s) # <<>> => Head(Rest(s)) \notin {"add", "leave", "addOwner"}
  BY <1>1, <1>2, AtLeft
<1>5. Channel # None /\ None \notin Directs /\ Channel \notin Directs /\ c \in Convs /\ c \notin made
  BY <1>3, MembershipAssumption DEF Convs
<1>6. \/ requests[s].conv = None /\ c \in Directs /\ "settings" \notin Left(s) /\ in[c] = {}
      \/ requests[s].conv = Channel /\ c = Channel /\ "settings" \in Left(s) /\ ~settings.exists
  <2>1. CASE requests[s].conv = None
    <3>1. c \in Directs /\ in[c] = {}
      BY <1>1, <1>3, <1>5, <2>1 DEF RestTyped
    <3> QED BY <1>1, <1>5, <2>1, <3>1 DEF ChannelIsFounded
  <2>2. CASE requests[s].conv # None
    <3>1. c = Channel /\ requests[s].conv = Channel
      BY <1>1, <1>3, <1>4, <2>2 DEF DirectMakesSense, Direct, Anywhere
    <3> QED BY <1>1, <1>5, <3>1 DEF ChannelIsFounded
  <2> QED BY <2>1, <2>2
<1> DEFINE r == [requests[s] EXCEPT !.todo = Rest(s), !.conv = c]
<1>7. /\ r \in Request /\ r.todo = Rest(s) /\ r.by = requests[s].by /\ r.who = requests[s].who
      /\ r.conv = c /\ r.arg = requests[s].arg /\ r.ask = requests[s].ask
      /\ {r.by, r.who} \subseteq Users
  BY <1>1, <1>4, <1>5 DEF RequestsTyped, Request
<1>8. Continue(s, r)
  BY <1>3
<1> HIDE DEF r
<1>9. /\ RequestsTyped' /\ Others(s)
      /\ Rest(s) # <<>> => requests'[s] = r
      /\ Rest(s) = <<>> => Ended(s)
  BY <1>1, <1>7, <1>8, SetRequest
<1>10. /\ ~Committing(s)'
       /\ \/ Ended(s)
          \/ /\ Left(s)' = Left(s) \ {"create"} /\ requests'[s].conv = c /\ Busy(s)'
             /\ requests'[s].by = requests[s].by /\ requests'[s].who = requests[s].who
             /\ requests'[s].arg = requests[s].arg /\ requests'[s].ask = requests[s].ask
  <2>1. CASE Rest(s) = <<>>
    BY <1>9, <2>1, EndedIsIdle
  <2>2. CASE Rest(s) # <<>>
    BY <1>4, <1>7, <1>9, <2>2 DEF Committing, At, Busy, Left
  <2> QED BY <2>1, <2>2
<1>11. Left(s)' \subseteq Left(s)
  BY <1>10, EndedIsIdle
<1>12. Typed'
  <2>1. RestTyped'
    BY <1>1, <1>2, <1>3, <1>5 DEF RestTyped
  <2>2. ChannelIsFounded'
    <3>1. \A k \in Asks : asks'[k].status # "none" => asks'[k].user \in Users /\ settings.exists
      BY <1>1, <1>2 DEF ChannelIsFounded
    <3>2. requests'[s].conv = Channel =>
            /\ requests[s].conv = Channel /\ c = Channel /\ ~settings.exists
            /\ "settings" \in Left(s)' <=> "settings" \in Left(s)
      BY <1>5, <1>6, <1>10, EndedIsIdle
    <3>3. "settings" \in Left(s)' => requests'[s].conv = Channel /\ ~settings.exists
      BY <1>6, <1>10, EndedIsIdle
    <3>4. requests'[s].conv = Channel /\ ~settings.exists =>
            "settings" \in Left(s)' /\ \A t \in Slots \ {s} : requests[t].conv # Channel
      BY <1>1, <3>2 DEF ChannelIsFounded
    <3> QED BY <1>1, <1>2, <1>3, <1>9, <3>1, <3>2, <3>3, <3>4, ChannelKept
  <2>3. DirectMakesSense(s)'
    <3>1. CASE Ended(s)
      BY <1>5, <3>1, EndedIsIdle DEF DirectMakesSense
    <3>2. CASE ~Ended(s)
      BY <1>1, <1>3, <1>4, <1>5, <1>6, <1>10, <3>2 DEF DirectMakesSense, Direct
    <3> QED BY <3>1, <3>2
  <2>4. RequestMakesSense(s)'
    <3>1. CASE Ended(s)
      BY <3>1, EndedIsIdle, MembershipAssumption DEF RequestMakesSense
    <3>2. CASE ~Ended(s)
      BY <1>1, <1>2, <1>5, <1>6, <1>10, <3>2 DEF RequestMakesSense, Joins
    <3> QED BY <3>1, <3>2
  <2>5. \A t \in Slots : DirectMakesSense(t)' /\ RequestMakesSense(t)'
    BY <1>1, <1>2, <1>3, <1>9, <2>3, <2>4, SenseKept
  <2> QED BY <1>9, <2>1, <2>2, <2>5, Together
<1>13. CountsAreFresh'
  <2>1. CountIsRight'
    BY <1>1, <1>2 DEF CountsAreFresh, CountIsRight
  <2> QED BY <1>1, <1>2, <1>9, <1>10, <2>1, CountsKept
<1>14. DirectsAreOne'
  <2>1. ASSUME NEW t \in Slots, Direct(t)'
        PROVE  /\ Direct(t) /\ Pair(t)' = Pair(t) /\ ("findDirect" \notin Left(t)' => "findDirect" \notin Left(t))
               /\ t # s => requests'[t].conv = requests[t].conv
               /\ t = s => requests'[t].conv = c /\ c \in Directs /\ in[c] = {} /\ requests[t].conv = None
    <3>1. CASE t = s
      <4>1. ~Ended(s)
        BY <2>1, <3>1, EndedIsIdle
      <4>2. Direct(s) /\ Pair(s)' = Pair(s)
        BY <1>4, <1>10, <2>1, <3>1, <4>1 DEF Direct, Pair
      <4>3. requests[s].conv = None /\ requests'[s].conv = c /\ c \in Directs /\ in[c] = {}
        BY <1>1, <1>4, <1>5, <1>6, <1>10, <4>1, <4>2 DEF DirectMakesSense
      <4> QED BY <1>4, <3>1, <4>2, <4>3
    <3>2. CASE t # s
      BY <1>9, <2>1, <3>2, SameKeeps DEF Others, Same
    <3> QED BY <3>1, <3>2
  <2>2. OneDirectEach'
    BY <1>1, <1>2 DEF DirectsAreOne, OneDirectEach
  <2>3. ASSUME NEW t \in Slots, t # s, Direct(t) PROVE requests[t].conv # c
    BY <1>1, <1>5, <2>3 DEF Typed, DirectMakesSense
  <2>4. ASSUME NEW t \in Slots, NEW u \in Slots, t # u, Direct(t)', Direct(u)'
        PROVE  /\ Pair(t)' = Pair(u)' => Pair(t)' \in crossed'
               /\ requests'[t].conv = requests'[u].conv => requests'[t].conv = None
    BY <1>1, <1>2, <2>1, <2>3, <2>4 DEF DirectsAreOne
  <2>5. ASSUME NEW t \in Slots, Direct(t)'
        PROVE  /\ requests'[t].conv \in Directs \ enlarged' => in'[requests'[t].conv] \subseteq Pair(t)'
               /\ "findDirect" \notin Left(t)' /\ Pair(t)' \notin crossed'
                    => \A d \in Directs \ enlarged' : Pair(t)' \subseteq in'[d] => d = requests'[t].conv
    BY <1>1, <1>2, <1>5, <2>1, <2>5 DEF DirectsAreOne
  <2> QED BY <2>2, <2>4, <2>5 DEF DirectsAreOne
<1>15. JoinsAreOne'
  <2>1. Joins(s)' => Joins(s) /\ requests'[s].by = requests[s].by
    BY <1>10, EndedIsIdle DEF Joins
  <2>2. "ask" \in Left(s)' /\ "noPending" \notin Left(s)' => "ask" \in Left(s) /\ "noPending" \notin Left(s)
    BY <1>10, EndedIsIdle
  <2> QED BY <1>1, <1>2, <1>9, <2>1, <2>2, JoinsKept
<1>16. ApprovedComeIn'
  <2>1. ASSUME NEW k \in Asks, requests[s].ask = k, "add" \in Left(s) PROVE FALSE
    BY <1>1, <1>4, <2>1 DEF RequestMakesSense
  <2> QED BY <1>1, <1>2, <1>9, <2>1, ApprovedKept
<1>17. \A t \in Slots : PostStands(t)'
  <2>1. PostStands(s)'
    <3>1. CASE Ended(s)
      BY <3>1, EndedIsIdle DEF PostStands
    <3>2. CASE ~Ended(s)
      BY <1>4, <1>10, <3>2 DEF PostStands
    <3> QED BY <3>1, <3>2
  <2> QED BY <1>1, <1>2, <1>9, <2>1, PostsKept
<1> QED BY <1>12, <1>13, <1>14, <1>15, <1>16, <1>17 DEF IInv
-----------------------------------------------------------------------------
(* The statements that change the members. *)
LEMMA MembersCount ==
  ASSUME NEW S, S \subseteq Users
  PROVE  Cardinality(S) \in 0..Cardinality(Users)
BY MembershipAssumption, FS_Subset, FS_CardinalityType

(* Who is about to commit is counted among the others, and counts itself. *)
LEMMA CountInv ==
  ASSUME IInv, UNCHANGED <<started, mishaps, failed>>, NEW s \in Slots, Count(s)
  PROVE  IInv'
<1> DEFINE r == requests[s]
           others == {t \in Slots \ {s} : Committing(t) /\ requests[t].conv = r.conv}
           leaving == Head(Rest(s)) = "leave"
           after == IF leaving THEN in[r.conv] \ {r.who} ELSE in[r.conv] \cup {Target(r)}
           n == Cardinality(after)
           lap == others # {}
           q == [r EXCEPT !.todo = Rest(s), !.n = n, !.lap = lap]
<1>1. /\ Typed /\ RequestsTyped /\ RestTyped /\ CountsAreFresh /\ ApprovedComeIn /\ RequestMakesSense(s)
  BY DEF IInv, Typed
<1>2. PICK x \in {"count", "countOwner"} : At(s, x)
  BY DEF Count
<1>3. UNCHANGED <<made, members, channel, history>> /\ UNCHANGED <<in, role, asks, lapped, settings>>
  BY DEF Count, members, channel, history
<1>4. x \in Counting
  BY DEF Counting
<1>5. /\ Busy(s) /\ x \in Left(s) /\ Rest(s) \in Todos /\ Names(Rest(s)) = Left(s) \ {x}
      /\ Rest(s) # <<>> /\ Head(Rest(s)) \in {"add", "leave", "addOwner"}
  BY <1>1, <1>2, AtLeft
<1>6. Head(Rest(s)) \in Left(s)
  BY <1>5, Follows
<1>7. IF leaving /\ r.who \notin in[r.conv] THEN Continue(s, Idle)
      ELSE requests' = [t \in Slots |->
             IF t = s THEN q ELSE [requests[t] EXCEPT !.lap = @ \/ t \in others]]
  BY DEF Count
<1>8. {r.by, r.who} \subseteq Users /\ r.conv \in Convs
  BY <1>1, <1>2, <1>4, ConvOf
<1>9. Target(r) = IF Head(Rest(s)) = "addOwner" THEN r.by ELSE r.who
  BY DEF Target, Rest
<1>10. n \in 0..Cardinality(Users)
  <2>1. after \subseteq Users
    BY <1>1, <1>8, <1>9 DEF RestTyped
  <2> HIDE DEF after
  <2> QED BY <2>1, MembersCount
<1>11. CountIsRight'
  BY <1>1, <1>3 DEF CountsAreFresh, CountIsRight
<1>12. Lessens(s, x) /\ CountsAreFresh' /\ (Ended(s) => Head(Rest(s)) = "leave")
  <2>1. CASE leaving /\ r.who \notin in[r.conv]
    <3>1. Lessens(s, x) /\ Ended(s)
      BY <1>1, <1>5, <1>7, <2>1, EndStep
    <3>2. Others(s) /\ ~Committing(s)'
      BY <3>1, EndedIsIdle DEF Lessens
    <3> QED BY <1>1, <1>3, <1>11, <2>1, <3>1, <3>2, CountsKept
  <2>2. CASE ~(leaving /\ r.who \notin in[r.conv])
    <3> HIDE DEF leaving, after, n
    <3>1. requests \in [Slots -> Request]
      BY <1>1 DEF RequestsTyped
    <3>2. /\ q \in Request /\ q.todo = Rest(s) /\ q.by = r.by /\ q.who = r.who /\ q.conv = r.conv
          /\ q.arg = r.arg /\ q.ask = r.ask /\ q.n = n /\ q.lap = lap
      BY <1>5, <1>10, <3>1 DEF Request
    <3>3. requests'[s] = q
      BY <1>7, <2>2
    <3>4. ASSUME NEW t \in Slots, t # s
          PROVE  /\ requests'[t] \in Request /\ Same(t)
                 /\ requests'[t].lap <=> requests[t].lap \/ t \in others
      <4> DEFINE held == requests[t].lap \/ t \in others
      <4>1. requests'[t] = [requests[t] EXCEPT !.lap = held]
        BY <1>7, <2>2, <3>4
      <4>2. held \in BOOLEAN /\ (requests[t].lap => held)
        BY <3>1 DEF Request
      <4>3. held <=> requests[t].lap \/ t \in others
        OBVIOUS
      <4> HIDE DEF held
      <4>4. /\ requests'[t] \in Request /\ requests'[t].lap = held
            /\ requests'[t].todo = requests[t].todo /\ requests'[t].by = requests[t].by
            /\ requests'[t].who = requests[t].who /\ requests'[t].conv = requests[t].conv
            /\ requests'[t].arg = requests[t].arg /\ requests'[t].ask = requests[t].ask
            /\ requests'[t].n = requests[t].n
        BY <3>1, <4>1, <4>2 DEF Request
      <4> QED BY <4>2, <4>3, <4>4 DEF Same
    <3> HIDE DEF q
    <3>5. Others(s)
      BY <3>4 DEF Others
    <3>6. requests' \in [Slots -> Request]
      <4>1. requests' = [t \in Slots |-> requests'[t]]
        BY <1>7, <2>2
      <4>2. \A t \in Slots : requests'[t] \in Request
        BY <3>2, <3>3, <3>4
      <4> QED BY <4>1, <4>2
    <3>7. /\ Busy(s)' /\ Carries(s) /\ requests'[s].arg = requests[s].arg /\ Left(s)' = Left(s) \ {x}
          /\ \A y : At(s, y)' <=> Head(Rest(s)) = y
      BY <1>5, <3>2, <3>3 DEF Busy, At, Carries, Left
    <3>8. ASSUME NEW t \in Slots
          PROVE  IF Busy(t)' THEN {requests'[t].by, requests'[t].who} \subseteq Users ELSE requests'[t] = Idle
      <4>1. CASE t = s
        BY <1>8, <3>2, <3>3, <3>7, <4>1
      <4>2. CASE t # s /\ Busy(t)
        BY <1>1, <3>4, <4>2, SameKeeps DEF RequestsTyped, Same
      <4>3. CASE t # s /\ ~Busy(t)
        <5>1. t \notin others
          BY <4>3 DEF Committing, At
        <5>2. requests'[t] = [requests[t] EXCEPT !.lap = @ \/ t \in others]
          BY <1>7, <2>2, <4>3
        <5>3. requests[t] = Idle /\ Idle.lap = FALSE
          BY <1>1, <4>3 DEF RequestsTyped, Idle
        <5> HIDE DEF others
        <5>4. requests'[t] = [Idle EXCEPT !.lap = FALSE]
          BY <5>1, <5>2, <5>3
        <5>5. requests'[t] = Idle
          BY <5>4 DEF Idle
        <5>6. ~Busy(t)'
          BY <5>5, IdleTyped DEF Busy
        <5> QED BY <5>5, <5>6
      <4> QED BY <4>1, <4>2, <4>3
    <3>9. RequestsTyped'
      BY <3>6, <3>8 DEF RequestsTyped
    <3>10. ~Ended(s)
      BY <3>7, EndedIsIdle
    <3>11. Lessens(s, x)
      BY <1>5, <3>5, <3>7, <3>9 DEF Lessens
    <3>12. After(s)' = after /\ requests'[s].n = n /\ requests'[s].lap = lap /\ requests'[s].conv = r.conv
      <4>1. (At(s, "leave")' <=> leaving) /\ (At(s, "addOwner")' <=> Head(Rest(s)) = "addOwner")
        BY <3>7 DEF leaving
      <4>2. Changes(s)' = Target(r)
        BY <1>9, <3>2, <3>3, <4>1 DEF Changes
      <4> QED BY <1>3, <3>2, <3>3, <4>1, <4>2 DEF After, after
    <3>13. ASSUME NEW t \in Slots, t # s, Committing(t)'
           PROVE  /\ Committing(t) /\ After(t)' = After(t) /\ requests'[t].conv = requests[t].conv
                  /\ requests'[t].n = requests[t].n
                  /\ requests[t].conv = r.conv => t \in others
      <4>1. Same(t)
        BY <3>4, <3>13
      <4>2. Committing(t) /\ (At(t, "leave")' <=> At(t, "leave")) /\ Changes(t)' = Changes(t)
        BY <3>13, <4>1, SameKeeps
      <4>3. After(t)' = After(t)
        BY <1>3, <4>1, <4>2 DEF After, Same
      <4> QED BY <3>13, <4>1, <4>2, <4>3 DEF Same
    <3>14. ASSUME NEW t \in Slots, Committing(t)', ~requests'[t].lap PROVE requests'[t].n = Cardinality(After(t)')
      <4>1. CASE t = s
        BY <3>12, <4>1 DEF n
      <4>2. CASE t # s
        BY <1>1, <3>4, <3>13, <3>14, <4>2 DEF CountsAreFresh
      <4> QED BY <4>1, <4>2
    <3>15. ASSUME NEW t \in Slots, NEW u \in Slots, t # u, Committing(t)', Committing(u)',
                  requests'[t].conv = requests'[u].conv
           PROVE  requests'[t].lap /\ requests'[u].lap
      <4>1. ASSUME NEW v \in Slots, v # s, Committing(v)', requests'[v].conv = r.conv
            PROVE  requests'[v].lap /\ requests'[s].lap
        <5>1. v \in others
          BY <3>13, <4>1
        <5> HIDE DEF others
        <5> QED BY <3>4, <3>12, <4>1, <5>1
      <4>2. CASE t = s
        BY <3>12, <3>15, <4>1, <4>2
      <4>3. CASE u = s
        BY <3>12, <3>15, <4>1, <4>3
      <4>4. CASE t # s /\ u # s
        <5>1. Committing(t) /\ Committing(u) /\ requests[t].conv = requests[u].conv
          BY <3>13, <3>15, <4>4
        <5>2. requests[t].lap /\ requests[u].lap
          BY <1>1, <3>15, <5>1 DEF CountsAreFresh
        <5> QED BY <3>4, <4>4, <5>2
      <4> QED BY <4>2, <4>3, <4>4
    <3>16. CountsAreFresh'
      BY <1>11, <3>14, <3>15 DEF CountsAreFresh
    <3> QED BY <3>10, <3>11, <3>16
  <2> QED BY <2>1, <2>2
<1> HIDE DEF r, others, leaving, after, n, lap, q
<1>13. ApprovedComeIn'
  <2>1. ASSUME NEW k \in Asks, requests[s].ask = k, "add" \in Left(s)
        PROVE  requests'[s].ask = k /\ "add" \in Left(s)'
    <3>1. Head(Rest(s)) # "leave"
      BY <1>1, <1>6, <2>1 DEF RequestMakesSense
    <3>2. ~Ended(s)
      BY <1>12, <3>1
    <3> QED BY <1>12, <2>1, <3>2 DEF Lessens, Carries
  <2> QED BY <1>1, <1>3, <1>12, <2>1, ApprovedKept DEF Lessens
<1>14. started' \in 0..MaxRequests /\ mishaps' \in 0..MaxMishaps /\ failed' \subseteq Asks /\ failed \subseteq failed'
  BY <1>1, SameCounters
<1> QED BY <1>2, <1>3, <1>12, <1>13, <1>14, QuietStep DEF IInv
(* A change of members that commits: the counter has the members, unless another one was
   under way; and the others know. *)
LEMMA CommitInv ==
  ASSUME IInv, UNCHANGED <<started, mishaps, failed>>, NEW s \in Slots,
         NEW x \in {"add", "addOwner", "leave"}, At(s, x), NEW newRole,
         newRole \in Roles \/ (x = "leave" /\ newRole = role[requests[s].conv][Changes(s)]),
         Commit(s, Changes(s), After(s), newRole, requests[s].n),
         enlarged' = IF x = "leave" \/ requests[s].arg = "direct" THEN enlarged
                     ELSE enlarged \cup ({requests[s].conv} \cap Directs)
  PROVE  IInv'
<1> DEFINE u == Changes(s)
           c == requests[s].conv
           after == After(s)
           n == requests[s].n
<1>1. /\ Typed /\ RequestsTyped /\ RestTyped /\ ChannelIsFounded /\ CountsAreFresh /\ DirectsAreOne
      /\ JoinsAreOne /\ ApprovedComeIn /\ DirectMakesSense(s) /\ RequestMakesSense(s)
      /\ \A t \in Slots : PostStands(t)
  BY DEF IInv, Typed
<1>2. x \in Counting /\ x \in Left(s) /\ Left(s) \cap {"findDirect", "create", "settings"} = {}
  <2>1. x \in Counting
    BY DEF Counting
  <2> QED BY <1>1, <2>1, AtLeft
<1>3. /\ Busy(s) /\ {requests[s].by, requests[s].who} \subseteq Users /\ c \in Convs /\ c \in made
      /\ c = Channel => settings.exists
      /\ c # Channel => c \in Directs
  BY <1>1, <1>2, ConvOf
<1>4. u \in Pair(s) /\ u \in Users
  BY <1>3 DEF Changes, Pair
<1>5. /\ Go(s) /\ Touch(c, {u}) /\ UNCHANGED <<made, readOnly, asks, crossed>>
      /\ in' = [in EXCEPT ![c] = after] /\ role' = [role EXCEPT ![c][u] = newRole]
      /\ IF c = Channel /\ settings.exists
         THEN settings' = [settings EXCEPT !.count = n] /\ lapped' = requests[s].lap
         ELSE UNCHANGED <<settings, lapped>>
  BY DEF Commit
<1>0. /\ enlarged \subseteq enlarged'
      /\ c \in Directs /\ x # "leave" /\ ~Direct(s) => c \in enlarged'
      /\ Direct(s) => enlarged' = enlarged
      /\ enlarged' \subseteq enlarged \cup Directs
  BY <1>3 DEF Direct
<1>6. Committing(s) /\ (At(s, "leave") <=> x = "leave")
  BY DEF Committing, At
<1>7. after = IF x = "leave" THEN in[c] \ {u} ELSE in[c] \cup {u}
  <2>1. x = "leave" => u = requests[s].who
    BY DEF Changes, At
  <2> QED BY <1>6, <2>1 DEF After
<1>8. Lessens(s, x)
  BY <1>1, <1>5, GoStep
<1>9. Others(s) /\ RequestsTyped' /\ ~Committing(s)'
  BY <1>8 DEF Lessens
<1>10. ~requests[s].lap => n = Cardinality(after)
  BY <1>1, <1>6 DEF CountsAreFresh
<1>11. newRole \in Roles \/ (x = "leave" /\ newRole = role[c][u])
  OBVIOUS
<1>12. n \in 0..Cardinality(Users) /\ requests[s].lap \in BOOLEAN
  BY <1>1 DEF RequestsTyped, Request
<1> HIDE DEF after, n, u
<1>13. in'[c] = after /\ \A d \in Convs \ {c} : in'[d] = in[d]
  BY <1>1, <1>3, <1>5 DEF RestTyped
<1>14. /\ role' \in [Convs -> [Users -> Roles \cup {None}]]
       /\ role'[c][u] = newRole
       /\ \A d \in Convs, v \in Users : d # c \/ v # u => role'[d][v] = role[d][v]
  BY <1>1, <1>3, <1>4, <1>5, <1>11 DEF RestTyped
<1>15. \A d \in Convs, v \in Users : role[d][v] # None => role'[d][v] # None
  BY <1>11, <1>14, MembershipAssumption
<1>16. /\ settings' \in [exists : BOOLEAN, mode : Modes, count : 0..Cardinality(Users)]
       /\ settings'.exists = settings.exists /\ lapped' \in BOOLEAN
       /\ c = Channel => settings'.count = n /\ lapped' = requests[s].lap
       /\ c # Channel => UNCHANGED <<settings, lapped>>
  BY <1>1, <1>3, <1>5, <1>12 DEF RestTyped
<1>17. RestTyped'
  <2>1. in' \in [Convs -> SUBSET Users]
    <3>1. in[c] \subseteq Users
      BY <1>1, <1>3 DEF RestTyped
    <3>2. after \subseteq Users
      BY <1>4, <1>7, <3>1
    <3>3. in \in [Convs -> SUBSET Users] /\ in' = [in EXCEPT ![c] = after]
      BY <1>1, <1>5 DEF RestTyped
    <3> HIDE DEF c
    <3> QED BY <3>2, <3>3
  <2>2. ASSUME NEW d \in Convs 
        PROVE  /\ in'[d] \subseteq {v \in Users : role'[d][v] # None}
               /\ (\E v \in Users : role'[d][v] # None) => d \in made'
    <3>1. CASE d = c
      <4>1. ASSUME NEW v \in after PROVE v \in Users /\ role'[c][v] # None
        <5>1. CASE v = u
          <6>1. role'[c][u] # None
            <7>1. CASE x = "leave"
              BY <1>7, <4>1, <5>1, <7>1
            <7>2. CASE x # "leave"
              BY <1>11, <1>14, <7>2, MembershipAssumption
            <7> QED BY <7>1, <7>2
          <6> QED BY <1>4, <5>1, <6>1
        <5>2. CASE v # u
          <6>1. v \in in[c]
            BY <1>7, <4>1, <5>2
          <6> QED BY <1>1, <1>3, <1>15, <6>1 DEF RestTyped
        <5> QED BY <5>1, <5>2
      <4> QED BY <1>3, <1>5, <1>13, <3>1, <4>1
    <3>2. CASE d # c
      BY <1>1, <1>5, <1>13, <1>15, <3>2 DEF RestTyped
    <3> QED BY <3>1, <3>2
  <2>3. touched' \subseteq Slots
    BY <1>1, <1>5 DEF RestTyped, Touch
  <2> QED BY <1>0, <1>1, <1>5, <1>14, <1>16, <2>1, <2>2, <2>3 DEF RestTyped
<1>18. ChannelIsFounded'
  <2>1. \A k \in Asks : asks'[k].status # "none" => asks'[k].user \in Users /\ settings.exists
    BY <1>1, <1>5 DEF ChannelIsFounded
  <2>2. in'[Channel] = in[Channel] \/ settings.exists
    BY <1>3, <1>13 DEF Convs
  <2> QED BY <1>1, <1>5, <1>8, <1>16, <2>1, <2>2, ChannelLessens
<1>19. \A t \in Slots : DirectMakesSense(t)' /\ RequestMakesSense(t)'
  BY <1>1, <1>5, <1>8, SenseLessens
<1>20. CountsAreFresh'
  <2>1. CountIsRight'
    <3>1. CASE c = Channel
      BY <1>10, <1>13, <1>16, <3>1 DEF CountIsRight
    <3>2. CASE c # Channel
      BY <1>1, <1>13, <1>16, <3>2 DEF CountsAreFresh, CountIsRight, Convs
    <3> QED BY <3>1, <3>2
  <2>2. ASSUME NEW t \in Slots, Committing(t)'
        PROVE  /\ t # s /\ Same(t) /\ Committing(t)
               /\ requests[t].conv # c => After(t)' = After(t)
    <3>1. t # s /\ Same(t)
      BY <1>9, <2>2 DEF Others
    <3>2. Committing(t) /\ (At(t, "leave")' <=> At(t, "leave")) /\ Changes(t)' = Changes(t)
      BY <2>2, <3>1, SameKeeps
    <3>3. requests[t].conv \in Convs
      <4>1. PICK y \in {"add", "addOwner", "leave"} : At(t, y)
        BY <3>2 DEF Committing
      <4> QED BY <1>1, <4>1, ConvOf DEF Counting
    <3>4. requests[t].conv # c => After(t)' = After(t)
      BY <1>13, <3>1, <3>2, <3>3 DEF After, Same
    <3> QED BY <3>1, <3>2, <3>4
  <2>3. ASSUME NEW t \in Slots, Committing(t)', ~requests'[t].lap PROVE requests'[t].n = Cardinality(After(t)')
    <3>1. t # s /\ Same(t) /\ Committing(t) /\ ~requests[t].lap
      BY <2>2, <2>3 DEF Same
    <3>2. requests[t].conv # c
      BY <1>1, <1>6, <3>1 DEF CountsAreFresh
    <3>3. After(t)' = After(t)
      BY <2>2, <2>3, <3>2
    <3> QED BY <1>1, <3>1, <3>3 DEF CountsAreFresh, Same
  <2>4. ASSUME NEW t \in Slots, NEW v \in Slots, t # v, Committing(t)', Committing(v)',
               requests'[t].conv = requests'[v].conv
        PROVE  requests'[t].lap /\ requests'[v].lap
    BY <1>1, <2>2, <2>4 DEF CountsAreFresh, Same
  <2> QED BY <2>1, <2>3, <2>4 DEF CountsAreFresh
<1>21. DirectsAreOne'
  <2>1. CASE c = Channel \/ x = "leave" \/ ~Direct(s)
    <3>1. ASSUME NEW d \in Directs \ enlarged' PROVE in'[d] \subseteq in[d]
      <4>1. CASE d = c
        BY <1>0, <1>3, <1>7, <1>13, <2>1, <3>1, <4>1, MembershipAssumption
      <4>2. CASE d # c
        BY <1>13, <4>2 DEF Convs
      <4> QED BY <4>1, <4>2
    <3>2. x # "findDirect" /\ crossed \subseteq crossed'
      BY <1>5
    <3> QED BY <1>0, <1>1, <1>8, <3>1, <3>2, DirectsLessens
  <2>2. CASE c # Channel /\ x # "leave" /\ Direct(s)
    <3>1. requests[s].by # requests[s].who /\ c \in Directs /\ c # None /\ enlarged' = enlarged
      BY <1>0, <1>1, <1>3, <2>2, MembershipAssumption DEF DirectMakesSense, Convs
    <3>2. (c \notin enlarged => in'[c] \subseteq Pair(s)) /\ \A d \in Directs \ {c} : in'[d] = in[d]
      BY <1>1, <1>4, <1>7, <1>13, <2>2, <3>1 DEF DirectsAreOne, Convs
    <3>3. Pair(s) \notin crossed => \A d \in Directs \ enlarged : Pair(s) \subseteq in[d] => d = c
      BY <1>1, <1>2, <2>2, <3>1 DEF DirectsAreOne
    <3>4. ASSUME NEW t \in Slots, Direct(t)'
          PROVE  /\ Direct(t) /\ requests'[t].conv = requests[t].conv /\ Pair(t)' = Pair(t)
                 /\ requests[t].by # requests[t].who
                 /\ "findDirect" \notin Left(t)' => "findDirect" \notin Left(t)
      <4>1. Direct(t) /\ requests'[t].conv = requests[t].conv /\ Pair(t)' = Pair(t)
            /\ ("findDirect" \notin Left(t)' => "findDirect" \notin Left(t))
        <5>1. CASE t = s
          <6>1. ~Ended(s)
            BY <3>4, <5>1, EndedIsIdle
          <6> QED BY <1>2, <1>8, <2>2, <5>1, <6>1 DEF Lessens, Carries, Pair
        <5>2. CASE t # s
          BY <1>9, <3>4, <5>2, SameKeeps DEF Others, Same
        <5> QED BY <5>1, <5>2
      <4>2. requests[t].by # requests[t].who
        BY <1>1, <4>1 DEF Typed, DirectMakesSense
      <4> QED BY <4>1, <4>2
    <3>5. ASSUME NEW d \in Directs \ enlarged, d # c, c \notin enlarged, NEW v, NEW w, v # w,
                 {v, w} \subseteq in'[c] \cap in'[d]
          PROVE  {v, w} \in crossed'
      <4>1. {v, w} = Pair(s)
        BY <3>2, <3>5 DEF Pair
      <4>2. Pair(s) \subseteq in[d]
        BY <3>2, <3>5, <4>1
      <4> QED BY <1>5, <3>3, <3>5, <4>1, <4>2
    <3>6. OneDirectEach'
      <4>1. ASSUME NEW d \in Directs \ enlarged, NEW e \in Directs \ enlarged, d # e, NEW v \in in'[d] \cap in'[e],
                   NEW w \in in'[d] \cap in'[e], v # w
            PROVE  {v, w} \in crossed'
        <5>1. CASE d = c
          BY <3>5, <4>1, <5>1
        <5>2. CASE e = c
          BY <3>5, <4>1, <5>2
        <5>3. CASE d # c /\ e # c
          BY <1>1, <1>5, <3>2, <4>1, <5>3 DEF DirectsAreOne, OneDirectEach
        <5> QED BY <5>1, <5>2, <5>3
      <4> QED BY <3>1, <4>1 DEF OneDirectEach
    <3>7. ASSUME NEW t \in Slots, NEW v \in Slots, t # v, Direct(t)', Direct(v)'
          PROVE  /\ Pair(t)' = Pair(v)' => Pair(t)' \in crossed'
                 /\ requests'[t].conv = requests'[v].conv => requests'[t].conv = None
      BY <1>1, <1>5, <3>4, <3>7 DEF DirectsAreOne
    <3>8. ASSUME NEW t \in Slots, Direct(t)', requests'[t].conv \in Directs \ enlarged
          PROVE  in'[requests'[t].conv] \subseteq Pair(t)'
      <4>1. Direct(t) /\ requests'[t].conv = requests[t].conv /\ Pair(t)' = Pair(t)
        BY <3>4, <3>8
      <4>2. CASE requests[t].conv = c
        <5>1. t = s
          BY <1>1, <2>2, <3>1, <4>1, <4>2 DEF DirectsAreOne
        <5> QED BY <3>2, <3>8, <4>1, <4>2, <5>1
      <4>3. CASE requests[t].conv # c
        BY <1>1, <3>2, <3>8, <4>1, <4>3 DEF DirectsAreOne
      <4> QED BY <4>2, <4>3
    <3>9. ASSUME NEW t \in Slots, Direct(t)', "findDirect" \notin Left(t)', Pair(t)' \notin crossed',
                 NEW d \in Directs \ enlarged, Pair(t)' \subseteq in'[d]
          PROVE  d = requests'[t].conv
      <4>1. /\ Direct(t) /\ requests'[t].conv = requests[t].conv /\ Pair(t)' = Pair(t)
            /\ "findDirect" \notin Left(t) /\ requests[t].by # requests[t].who
        BY <3>4, <3>9
      <4>2. CASE d = c
        <5>1. Pair(t) = Pair(s)
          BY <3>2, <3>9, <4>1, <4>2 DEF Pair
        <5>2. t = s
          BY <1>1, <1>5, <2>2, <3>1, <3>9, <4>1, <5>1 DEF DirectsAreOne
        <5> QED BY <4>1, <4>2, <5>2
      <4>3. CASE d # c
        BY <1>1, <1>5, <3>2, <3>9, <4>1, <4>3 DEF DirectsAreOne
      <4> QED BY <4>2, <4>3
    <3> QED BY <3>1, <3>6, <3>7, <3>8, <3>9 DEF DirectsAreOne
  <2> QED BY <2>1, <2>2
<1>22. JoinsAreOne'
  BY <1>1, <1>5, <1>8, JoinsLessens
<1>23. ApprovedComeIn'
  <2>1. ASSUME NEW k \in Asks, requests[s].ask = k, "add" \in Left(s)
        PROVE  role'[Channel][asks[k].user] # None
    <3>1. Left(s) \subseteq {"count", "add"} /\ c = Channel /\ requests[s].who = asks[k].user
      BY <1>1, <2>1 DEF RequestMakesSense
    <3>2. x = "add"
      BY <1>2, <3>1
    <3>3. u = requests[s].who
      BY <3>2 DEF u, Changes, At
    <3> QED BY <1>11, <1>14, <3>1, <3>2, <3>3, MembershipAssumption
  <2>2. ASSUME NEW k \in Asks, asks[k].status = "approved", role[Channel][asks[k].user] # None
        PROVE  role'[Channel][asks[k].user] # None
    <3>1. asks[k].user \in Users /\ Channel \in Convs
      BY <1>1, <2>2 DEF ChannelIsFounded, Convs
    <3> QED BY <1>15, <2>2, <3>1
  <2> QED BY <1>1, <1>5, <1>9, <2>1, <2>2, ApprovedKept
<1>24. \A t \in Slots : PostStands(t)'
  <2>1. ASSUME NEW d \in Convs, NEW v \in Users, d # c \/ v \notin {u}
        PROVE  (v \in in[d] => v \in in'[d]) /\ role'[d][v] = role[d][v]
    BY <1>7, <1>13, <1>14, <2>1
  <2>2. x \notin {"member", "writable"} /\ readOnly' = readOnly
    BY <1>5
  <2> QED BY <1>1, <1>5, <1>8, <2>1, <2>2, PostsTouched
<1> QED BY <1>9, <1>17, <1>18, <1>19, <1>20, <1>21, <1>22, <1>23, <1>24, Together DEF IInv

LEMMA MembersInv ==
  ASSUME IInv, UNCHANGED <<started, mishaps, failed>>, NEW s \in Slots, Add(s) \/ AddOwner(s) \/ Leave(s)
  PROVE  IInv'
<1>1. CASE Add(s)
  <2>1. At(s, "add") /\ Changes(s) = requests[s].who /\ ~At(s, "leave") /\ "member" \in Roles
    BY <1>1 DEF Add, At, Changes, Roles
  <2>2. After(s) = in[requests[s].conv] \cup {requests[s].who}
    BY <2>1 DEF After
  <2>3. Commit(s, Changes(s), After(s), "member", requests[s].n)
    BY <1>1, <2>1, <2>2 DEF Add, Enter
  <2>4. enlarged' = IF requests[s].arg = "direct" THEN enlarged ELSE enlarged \cup ({requests[s].conv} \cap Directs)
    BY <1>1 DEF Add, Enter
  <2> QED BY <2>1, <2>3, <2>4, CommitInv
<1>2. CASE AddOwner(s)
  <2>1. At(s, "addOwner") /\ Changes(s) = requests[s].by /\ ~At(s, "leave") /\ "owner" \in Roles
    BY <1>2 DEF AddOwner, At, Changes, Roles
  <2>2. After(s) = in[requests[s].conv] \cup {requests[s].by}
    BY <2>1 DEF After
  <2>3. Commit(s, Changes(s), After(s), "owner", requests[s].n)
    BY <1>2, <2>1, <2>2 DEF AddOwner, Enter
  <2>4. enlarged' = IF requests[s].arg = "direct" THEN enlarged ELSE enlarged \cup ({requests[s].conv} \cap Directs)
    BY <1>2 DEF AddOwner, Enter
  <2> QED BY <2>1, <2>3, <2>4, CommitInv
<1>3. CASE Leave(s)
  <2>1. At(s, "leave") /\ Changes(s) = requests[s].who
    BY <1>3 DEF Leave, Depart, At, Changes
  <2>2. After(s) = in[requests[s].conv] \ {requests[s].who}
    BY <2>1 DEF After
  <2> DEFINE newRole == role[requests[s].conv][Changes(s)]
  <2>3. Commit(s, Changes(s), After(s), newRole, requests[s].n)
    BY <1>3, <2>1, <2>2 DEF Leave, Depart
  <2>4. enlarged' = enlarged
    BY <1>3 DEF Leave, Depart
  <2> QED BY <2>1, <2>3, <2>4, CommitInv
<1> QED BY <1>1, <1>2, <1>3
-----------------------------------------------------------------------------
(* A request that begins: what its statements ask of what it carries. *)
Fits(todo, kind, c, u, v, arg, ask) ==
  /\ c = None => kind = "direct" /\ todo = Opening /\ u # v
  /\ arg = "direct" <=> c = None
  /\ c \in Directs => c \in made /\ todo \subseteq Anywhere
  /\ c = Channel => \/ settings.exists
                    \/ /\ {"create", "settings"} \subseteq todo /\ Channel \notin made
                       /\ \A t \in Slots : requests[t].conv # Channel
  /\ "settings" \in todo => c = Channel /\ Channel \notin made
  /\ todo \cap Joining # {} => kind = "join" /\ u = v /\ "ask" \notin todo
  /\ todo \cap Reviewing # {} => ask \in Asks /\ arg \in Verdicts
  /\ ask \in Asks => /\ c = Channel /\ v = asks[ask].user /\ asks[ask].status # "none"
                     /\ "add" \notin todo
  /\ "setRole" \in todo => arg \in Roles
  /\ "setMode" \in todo => arg \in Modes
  /\ todo \cap {"insert", "insertPoll"} # {} => "member" \in todo

LEMMA BeginInv ==
  ASSUME IInv, NEW s \in Slots, NEW kind, Kinds[kind] \in Paths, NEW c \in Convs \cup {None},
         NEW u \in Users, NEW v \in Users, NEW arg \in Args, NEW ask \in Asks \cup {None},
         Fits(Names(Kinds[kind]), kind, c, u, v, arg, ask), Begin(s, kind, c, u, v, arg, ask)
  PROVE  IInv'
<1> DEFINE p == Kinds[kind]
           todo == Names(p)
           r == [Idle EXCEPT !.todo = p, !.conv = c, !.by = u, !.who = v, !.arg = arg, !.ask = ask]
           rivals == {t \in Slots : /\ Busy(t) /\ kind \in {"direct", "join"}
                                    /\ {requests[t].by, requests[t].who} = {u, v}}
<1>1. /\ Typed /\ RequestsTyped /\ RestTyped /\ ChannelIsFounded /\ CountsAreFresh /\ DirectsAreOne
      /\ JoinsAreOne /\ ApprovedComeIn /\ \A t \in Slots : PostStands(t)
      /\ \A t \in Slots : DirectMakesSense(t) /\ RequestMakesSense(t)
  BY DEF IInv, Typed
<1>2. /\ ~Busy(s) /\ started < MaxRequests /\ started' = started + 1
      /\ requests' = [requests EXCEPT ![s] = r]
      /\ crossed' = crossed \cup {{u, v} : t \in rivals} /\ touched' = touched \ {s}
      /\ UNCHANGED <<made, role, in, settings, readOnly, asks, mishaps, lapped, enlarged, failed>>
      /\ UNCHANGED members
  BY DEF Begin, members, channel
<1>3. p \in Todos /\ p # <<>> /\ Head(p) \notin {"add", "addOwner", "leave"}
  <2>1. p[1] \notin {"add", "addOwner", "leave"}
    BY DEF Paths
  <2> HIDE DEF p
  <2>2. p \in Paths
    BY DEF p
  <2> QED BY <2>1, <2>2, PathBegins
<1>4. Fits(todo, kind, c, u, v, arg, ask)
  OBVIOUS
<1>5. Channel # None /\ None \notin Asks /\ None \notin Directs /\ Channel \notin Directs
  BY MembershipAssumption DEF Convs
<1> HIDE DEF p
<1>6. /\ r \in Request /\ r.todo = p /\ r.by = u /\ r.who = v /\ r.conv = c /\ r.arg = arg /\ r.ask = ask
      /\ r.todo # <<>> /\ {r.by, r.who} \subseteq Users
  <2>1. 0 \in 0..Cardinality(Users)
    BY MembershipAssumption, FS_CardinalityType
  <2> QED BY <1>3, <1>5, <2>1 DEF Idle, Request
<1> HIDE DEF r
<1>7. Continue(s, r)
  BY <1>2, <1>6 DEF Continue
<1>8. /\ RequestsTyped' /\ Others(s) /\ requests'[s] = r
      /\ \A t \in Slots \ {s} : requests'[t] = requests[t]
  BY <1>1, <1>6, <1>7, SetRequest
<1>9. /\ Left(s)' = todo /\ Busy(s)' /\ ~Committing(s)' /\ Pair(s)' = {u, v}
      /\ requests'[s].by = u /\ requests'[s].who = v /\ requests'[s].conv = c
      /\ requests'[s].arg = arg /\ requests'[s].ask = ask
  BY <1>3, <1>6, <1>8 DEF Left, Busy, Committing, At, Pair
<1> HIDE DEF todo
<1>10. /\ crossed \subseteq crossed'
       /\ \A t \in Slots : Busy(t) /\ kind \in {"direct", "join"} /\ Pair(t) = {u, v} => {u, v} \in crossed'
  BY <1>2 DEF Pair
<1>11. requests[s].ask = None
  BY <1>1, <1>2 DEF RequestsTyped, Idle
<1>12. Typed'
  <2>1. RestTyped'
    <3>1. crossed' \subseteq {{a, b} : a, b \in Users}
      BY <1>1, <1>2 DEF RestTyped
    <3>2. started' \in 0..MaxRequests
      BY <1>1, <1>2, MembershipAssumption DEF RestTyped
    <3> QED BY <1>1, <1>2, <3>1, <3>2 DEF RestTyped
  <2>2. ChannelIsFounded'
    <3>1. \A k \in Asks : asks'[k].status # "none" => asks'[k].user \in Users /\ settings.exists
      BY <1>1, <1>2 DEF ChannelIsFounded
    <3>2. requests'[s].conv = Channel /\ ~settings.exists =>
            "settings" \in Left(s)' /\ \A t \in Slots \ {s} : requests[t].conv # Channel
      BY <1>4, <1>9 DEF Fits
    <3>3. "settings" \in Left(s)' => requests'[s].conv = Channel /\ ~settings.exists
      BY <1>1, <1>4, <1>9 DEF Fits, ChannelIsFounded
    <3>4. requests'[s].conv = Channel /\ "create" \notin Left(s)' => Channel \in made'
      BY <1>1, <1>2, <1>4, <1>9 DEF Fits, ChannelIsFounded
    <3> QED BY <1>1, <1>2, <1>8, <3>1, <3>2, <3>3, <3>4, ChannelKept
  <2>3. DirectMakesSense(s)'
    <3>1. CASE c = None
      <4>1. todo = Opening /\ u # v /\ "create" \in Opening /\ Direct(s)'
        BY <1>4, <1>9, <3>1 DEF Fits, Opening, Direct
      <4> QED BY <1>5, <1>9, <3>1, <4>1 DEF DirectMakesSense
    <3>2. CASE c # None
      <4>1. ~Direct(s)' /\ (c \in Directs => c \in made' /\ todo \subseteq Anywhere)
        BY <1>2, <1>4, <1>9, <3>2 DEF Fits, Direct
      <4>2. c = Channel \/ c \in Directs
        BY <3>2 DEF Convs
      <4> QED BY <1>9, <4>1, <4>2 DEF DirectMakesSense
    <3> QED BY <3>1, <3>2
  <2>4. RequestMakesSense(s)'
    BY <1>2, <1>4, <1>5, <1>9 DEF Fits, RequestMakesSense, Joins
  <2>5. \A t \in Slots : DirectMakesSense(t)' /\ RequestMakesSense(t)'
    BY <1>1, <1>2, <1>8, <2>3, <2>4, SenseKept
  <2> QED BY <1>8, <2>1, <2>2, <2>5, Together
<1>13. CountsAreFresh'
  <2>1. CountIsRight'
    BY <1>1, <1>2 DEF CountsAreFresh, CountIsRight
  <2> QED BY <1>1, <1>2, <1>8, <1>9, <2>1, CountsKept
<1>14. ASSUME NEW t \in Slots, t # s
       PROVE  /\ Left(t)' = Left(t) /\ (Direct(t)' <=> Direct(t)) /\ (Joins(t)' <=> Joins(t))
              /\ Pair(t)' = Pair(t) /\ requests'[t].conv = requests[t].conv /\ requests'[t].by = requests[t].by
  BY <1>8, <1>14, SameKeeps DEF Others, Same
<1>15. DirectsAreOne'
  <2>1. OneDirectEach'
    BY <1>1, <1>2, <1>10 DEF DirectsAreOne, OneDirectEach
  <2>2. Direct(s)' => c = None /\ kind = "direct" /\ "findDirect" \in Left(s)'
    BY <1>4, <1>9 DEF Fits, Direct, Opening
  <2>3. ASSUME NEW t \in Slots, t # s, Direct(t)', Direct(s)'
        PROVE  /\ Pair(t)' = Pair(s)' => Pair(t)' \in crossed'
               /\ requests'[t].conv = requests'[s].conv => requests'[t].conv = None
    BY <1>9, <1>10, <1>14, <2>2, <2>3 DEF Direct
  <2>4. ASSUME NEW t \in Slots, NEW w \in Slots, t # w, Direct(t)', Direct(w)'
        PROVE  /\ Pair(t)' = Pair(w)' => Pair(t)' \in crossed'
               /\ requests'[t].conv = requests'[w].conv => requests'[t].conv = None
    <3>1. CASE t = s
      BY <1>9, <2>2, <2>3, <2>4, <3>1
    <3>2. CASE w = s
      BY <2>3, <2>4, <3>2
    <3>3. CASE t # s /\ w # s
      BY <1>1, <1>10, <1>14, <2>4, <3>3 DEF DirectsAreOne
    <3> QED BY <3>1, <3>2, <3>3
  <2>5. ASSUME NEW t \in Slots, Direct(t)'
        PROVE  /\ requests'[t].conv \in Directs \ enlarged' => in'[requests'[t].conv] \subseteq Pair(t)'
               /\ "findDirect" \notin Left(t)' /\ Pair(t)' \notin crossed'
                    => \A d \in Directs \ enlarged' : Pair(t)' \subseteq in'[d] => d = requests'[t].conv
    <3>1. CASE t = s
      BY <1>5, <1>9, <2>2, <2>5, <3>1
    <3>2. CASE t # s
      BY <1>1, <1>2, <1>10, <1>14, <2>5, <3>2 DEF DirectsAreOne
    <3> QED BY <3>1, <3>2
  <2> QED BY <2>1, <2>4, <2>5 DEF DirectsAreOne
<1>16. JoinsAreOne'
  <2>1. Joins(s)' => kind = "join" /\ u = v /\ "ask" \notin Left(s)'
    BY <1>4, <1>9 DEF Fits, Joins
  <2>2. /\ \A w : PendingOf(w)' = PendingOf(w)
        /\ \A t : requests'[t].by = requests[t].by => PendingOf(requests[t].by)' = PendingOf(requests[t].by)
    BY <1>2 DEF PendingOf
  <2>3. \A w \in Users : {w} \notin crossed' => \A k, l \in PendingOf(w)' : k = l
    BY <1>1, <1>10, <2>2 DEF JoinsAreOne
  <2>4. ASSUME NEW t \in Slots, t # s, Joins(t)', Joins(s)', requests'[t].by = requests'[s].by
        PROVE  {u} \in crossed'
    <3>1. Joins(t) /\ requests[t].by = u
      BY <1>9, <1>14, <2>4
    <3>2. Busy(t)
      BY <3>1, Nothing DEF Joins, Left, Busy
    <3>3. Pair(t) = {u, v}
      BY <1>1, <2>1, <2>4, <3>1 DEF RequestMakesSense, Pair
    <3> QED BY <1>10, <2>1, <2>4, <3>2, <3>3
  <2>5. ASSUME NEW t \in Slots, NEW w \in Slots, t # w, Joins(t)', Joins(w)', requests'[t].by = requests'[w].by
        PROVE  {requests'[t].by} \in crossed'
    <3>1. CASE t = s \/ w = s
      BY <1>9, <2>4, <2>5, <3>1
    <3>2. CASE t # s /\ w # s
      BY <1>1, <1>10, <1>14, <2>5, <3>2 DEF JoinsAreOne
    <3> QED BY <3>1, <3>2
  <2>6. ASSUME NEW t \in Slots, "ask" \in Left(t)', "noPending" \notin Left(t)', {requests'[t].by} \notin crossed'
        PROVE  \A k \in Asks : asks'[k] # [user |-> requests'[t].by, status |-> "pending"]
    <3>1. t # s
      BY <2>1, <2>6 DEF Joins, Joining
    <3>2. PendingOf(requests[t].by) = {}
      BY <1>1, <1>10, <1>14, <2>6, <3>1 DEF JoinsAreOne
    <3> QED BY <1>2, <1>14, <3>1, <3>2 DEF PendingOf
  <2> QED BY <2>3, <2>5, <2>6 DEF JoinsAreOne, PendingOf
<1>17. ApprovedComeIn'
  BY <1>1, <1>2, <1>5, <1>8, <1>11, ApprovedKept
<1>18. \A t \in Slots : PostStands(t)'
  <2>1. PostStands(s)'
    BY <1>4, <1>9 DEF Fits, PostStands
  <2> QED BY <1>1, <1>2, <1>8, <2>1, PostsKept
<1> QED BY <1>12, <1>13, <1>15, <1>16, <1>17, <1>18 DEF IInv
LEMMA KindsOf ==
  /\ Kinds["direct"] \in Paths /\ Names(Kinds["direct"]) = Opening
  /\ Kinds["channel"] \in Paths /\ Names(Kinds["channel"]) = {"create", "settings"} \cup (Counting \ {"leave"})
  /\ Kinds["invite"] \in Paths /\ Names(Kinds["invite"]) = {"manage", "count", "add"}
  /\ Kinds["expel"] \in Paths /\ Names(Kinds["expel"]) = {"manage", "count", "leave"}
  /\ Kinds["leave"] \in Paths /\ Names(Kinds["leave"]) = {"count", "leave"}
  /\ Kinds["grant"] \in Paths /\ Names(Kinds["grant"]) = {"administer", "setRole"}
  /\ Kinds["change"] \in Paths /\ Names(Kinds["change"]) = {"setRole"}
  /\ Kinds["restrict"] \in Paths /\ Names(Kinds["restrict"]) = {"administer", "setReadOnly"}
  /\ Kinds["mode"] \in Paths /\ Names(Kinds["mode"]) = {"manage", "setMode"}
  /\ Kinds["join"] \in Paths /\ Names(Kinds["join"]) = {"notMember", "byMode"}
  /\ Kinds["review"] \in Paths /\ Names(Kinds["review"]) = {"manage", "pending", "review"}
  /\ Kinds["post"] \in Paths /\ Names(Kinds["post"]) = {"member", "writable", "insert"}
  /\ Kinds["poll"] \in Paths /\ Names(Kinds["poll"]) = {"member", "insertPoll"}
<1>1. Kinds["direct"] \in Paths /\ Names(Kinds["direct"]) = Opening
  <2>1. Kinds["direct"] = <<"findDirect", "create", "countOwner", "addOwner", "count", "add">>
    BY DEF Kinds
  <2> QED BY <2>1, NamesOf DEF Paths, Opening
<1>2. Kinds["channel"] \in Paths /\ Names(Kinds["channel"]) = {"create", "settings"} \cup (Counting \ {"leave"})
  <2>1. Kinds["channel"] = <<"create", "settings", "countOwner", "addOwner", "count", "add">>
    BY DEF Kinds
  <2> QED BY <2>1, NamesOf DEF Paths, Counting
<1>3. Kinds["invite"] \in Paths /\ Names(Kinds["invite"]) = {"manage", "count", "add"}
  <2>1. Kinds["invite"] = <<"manage", "count", "add">>
    BY DEF Kinds
  <2> QED BY <2>1, NamesOf DEF Paths
<1>4. Kinds["expel"] \in Paths /\ Names(Kinds["expel"]) = {"manage", "count", "leave"}
  <2>1. Kinds["expel"] = <<"manage", "count", "leave">>
    BY DEF Kinds
  <2> QED BY <2>1, NamesOf DEF Paths
<1>5. Kinds["leave"] \in Paths /\ Names(Kinds["leave"]) = {"count", "leave"}
  <2>1. Kinds["leave"] = <<"count", "leave">>
    BY DEF Kinds
  <2> QED BY <2>1, NamesOf DEF Paths
<1>6. Kinds["grant"] \in Paths /\ Names(Kinds["grant"]) = {"administer", "setRole"}
  <2>1. Kinds["grant"] = <<"administer", "setRole">>
    BY DEF Kinds
  <2> QED BY <2>1, NamesOf DEF Paths
<1>7. Kinds["change"] \in Paths /\ Names(Kinds["change"]) = {"setRole"}
  <2>1. Kinds["change"] = <<"setRole">>
    BY DEF Kinds
  <2> QED BY <2>1, NamesOf DEF Paths
<1>8. Kinds["restrict"] \in Paths /\ Names(Kinds["restrict"]) = {"administer", "setReadOnly"}
  <2>1. Kinds["restrict"] = <<"administer", "setReadOnly">>
    BY DEF Kinds
  <2> QED BY <2>1, NamesOf DEF Paths
<1>9. Kinds["mode"] \in Paths /\ Names(Kinds["mode"]) = {"manage", "setMode"}
  <2>1. Kinds["mode"] = <<"manage", "setMode">>
    BY DEF Kinds
  <2> QED BY <2>1, NamesOf DEF Paths
<1>10. Kinds["join"] \in Paths /\ Names(Kinds["join"]) = {"notMember", "byMode"}
  <2>1. Kinds["join"] = <<"notMember", "byMode">>
    BY DEF Kinds
  <2> QED BY <2>1, NamesOf DEF Paths
<1>11. Kinds["review"] \in Paths /\ Names(Kinds["review"]) = {"manage", "pending", "review"}
  <2>1. Kinds["review"] = <<"manage", "pending", "review">>
    BY DEF Kinds
  <2> QED BY <2>1, NamesOf DEF Paths
<1>12. Kinds["post"] \in Paths /\ Names(Kinds["post"]) = {"member", "writable", "insert"}
  <2>1. Kinds["post"] = <<"member", "writable", "insert">>
    BY DEF Kinds
  <2> QED BY <2>1, NamesOf DEF Paths
<1>13. Kinds["poll"] \in Paths /\ Names(Kinds["poll"]) = {"member", "insertPoll"}
  <2>1. Kinds["poll"] = <<"member", "insertPoll">>
    BY DEF Kinds
  <2> QED BY <2>1, NamesOf DEF Paths
<1> QED BY <1>1, <1>2, <1>3, <1>4, <1>5, <1>6, <1>7, <1>8, <1>9, <1>10, <1>11, <1>12, <1>13

(* What is asked of a conversation that its author reaches. *)
Asked == {"invite", "expel", "leave", "grant", "change", "restrict", "post", "poll"}

LEMMA AskInv ==
  ASSUME IInv, NEW s \in Slots, NEW kind \in Asked, NEW c \in Convs, NEW u \in Users, NEW v \in Users,
         NEW arg \in Args, kind \in {"grant", "change"} => arg \in Roles, arg # "direct",
         Reaches(u, c), Begin(s, kind, c, u, v, arg, None)
  PROVE  IInv'
<1>1. RestTyped /\ Channel # None /\ None \notin Asks /\ None \notin Directs /\ Channel \notin Directs
  BY MembershipAssumption DEF IInv, Typed, Convs
<1>2. c # None /\ (c = Channel => settings.exists) /\ (c \in Directs => c \in made)
  BY <1>1 DEF Reaches, RestTyped, Convs
<1>3. /\ Kinds[kind] \in Paths /\ Names(Kinds[kind]) \subseteq Anywhere
      /\ "setRole" \in Names(Kinds[kind]) => arg \in Roles
      /\ "setMode" \notin Names(Kinds[kind]) /\ "settings" \notin Names(Kinds[kind])
      /\ Names(Kinds[kind]) \cap {"insert", "insertPoll"} # {} => "member" \in Names(Kinds[kind])
  <2>1. CASE kind = "invite"
    BY <2>1, KindsOf DEF Anywhere
  <2>2. CASE kind = "expel"
    BY <2>2, KindsOf DEF Anywhere
  <2>3. CASE kind = "leave"
    BY <2>3, KindsOf DEF Anywhere
  <2>4. CASE kind \in {"grant", "change"}
    BY <2>4, KindsOf DEF Anywhere
  <2>5. CASE kind = "restrict"
    BY <2>5, KindsOf DEF Anywhere
  <2>6. CASE kind = "post"
    BY <2>6, KindsOf DEF Anywhere
  <2>7. CASE kind = "poll"
    BY <2>7, KindsOf DEF Anywhere
  <2> QED BY <2>1, <2>2, <2>3, <2>4, <2>5, <2>6, <2>7 DEF Asked
<1>4. Names(Kinds[kind]) \cap (Joining \cup Reviewing) = {}
  BY <1>3 DEF Anywhere, Joining, Reviewing
<1>5. Fits(Names(Kinds[kind]), kind, c, u, v, arg, None)
  BY <1>1, <1>2, <1>3, <1>4 DEF Fits
<1> QED BY <1>1, <1>3, <1>5, BeginInv

LEMMA ArriveInv == ASSUME IInv, NEW s \in Slots, Arrive(s) PROVE IInv'
<1>1. PICK u \in Users, v \in Users :
        \/ CreateDirect(s, u, v) \/ CreateChannel(s, u, v)
        \/ \E c \in Convs : \/ AddMembers(s, c, u, v) \/ Remove(s, c, u, v)
                            \/ \E r \in Granted : UpdateMember(s, c, u, v, r)
                            \/ u = v /\ (Update(s, c, u) \/ Send(s, c, u) \/ CreatePoll(s, c, u))
        \/ \E k \in Asks, verdict \in {"approved", "rejected"} : ReviewJoinRequest(s, u, k, verdict)
        \/ u = v /\ (Join(s, u) \/ \E mode \in Modes : UpdateSettings(s, u, mode))
  BY DEF Arrive
<1>2. ChannelIsFounded
  BY DEF IInv, Typed
<1>3. /\ Channel # None /\ Channel \in Convs /\ Channel \notin Directs /\ None \notin Directs /\ None \notin Asks
      /\ Granted \subseteq Roles /\ None # "direct"
      /\ {None, "direct", "channel"} \cup Granted \cup Modes \cup Verdicts \subseteq Args
      /\ "direct" \notin Granted \cup Modes \cup Verdicts
  BY MembershipAssumption DEF Convs, Args, Roles, Modes, Verdicts
<1>4. CASE CreateDirect(s, u, v)
  <2>1. Begin(s, "direct", None, u, v, "direct", None) /\ u # v
    BY <1>4 DEF CreateDirect
  <2>2. Fits(Opening, "direct", None, u, v, "direct", None)
    BY <1>3, <2>1 DEF Fits, Opening, Joining, Reviewing
  <2> QED BY <1>3, <2>1, <2>2, KindsOf, BeginInv
<1>5. CASE CreateChannel(s, u, v)
  <2>1. /\ Begin(s, "channel", Channel, u, v, "channel", None)
        /\ Channel \notin made /\ \A t \in Slots : requests[t].conv # Channel
    BY <1>5 DEF CreateChannel
  <2>2. Fits({"create", "settings"} \cup (Counting \ {"leave"}), "channel", Channel, u, v, "channel", None)
    BY <1>3, <2>1 DEF Fits, Counting, Joining, Reviewing
  <2> QED BY <1>3, <2>1, <2>2, KindsOf, BeginInv
<1>6. ASSUME NEW c \in Convs, AddMembers(s, c, u, v) \/ Remove(s, c, u, v) PROVE IInv'
  <2>1. PICK kind \in {"invite", "expel", "leave"} : Reaches(u, c) /\ Begin(s, kind, c, u, v, None, None)
    BY <1>6 DEF AddMembers, Remove
  <2> QED BY <1>3, <2>1, AskInv DEF Asked
<1>7. ASSUME NEW c \in Convs, NEW r \in Granted, UpdateMember(s, c, u, v, r) PROVE IInv'
  <2>1. PICK kind \in {"grant", "change"} : Reaches(u, c) /\ Begin(s, kind, c, u, v, r, None)
    BY <1>7 DEF UpdateMember
  <2> QED BY <1>3, <2>1, AskInv DEF Asked
<1>8. ASSUME NEW c \in Convs, Update(s, c, u) \/ Send(s, c, u) \/ CreatePoll(s, c, u) PROVE IInv'
  <2>1. PICK kind \in {"restrict", "post", "poll"} : Reaches(u, c) /\ Begin(s, kind, c, u, u, None, None)
    BY <1>8 DEF Update, Send, CreatePoll
  <2> QED BY <1>3, <2>1, AskInv DEF Asked
<1>9. ASSUME NEW k \in Asks, NEW verdict \in {"approved", "rejected"}, ReviewJoinRequest(s, u, k, verdict)
      PROVE  IInv'
  <2>1. Begin(s, "review", Channel, u, asks[k].user, verdict, k) /\ asks[k].status # "none"
    BY <1>9 DEF ReviewJoinRequest
  <2>2. asks[k].user \in Users /\ settings.exists
    BY <1>2, <2>1 DEF ChannelIsFounded
  <2>3. verdict \in Verdicts /\ verdict \in Args /\ verdict # "direct"
    BY <1>3 DEF Verdicts
  <2>4. Fits({"manage", "pending", "review"}, "review", Channel, u, asks[k].user, verdict, k)
    BY <1>3, <2>1, <2>2, <2>3 DEF Fits, Joining, Reviewing
  <2> QED BY <1>3, <2>1, <2>2, <2>3, <2>4, KindsOf, BeginInv
<1>10. CASE Join(s, u)
  <2>1. Begin(s, "join", Channel, u, u, None, None) /\ settings.exists
    BY <1>10 DEF Join
  <2>2. Fits({"notMember", "byMode"}, "join", Channel, u, u, None, None)
    BY <1>3, <2>1 DEF Fits, Joining, Reviewing
  <2> QED BY <1>3, <2>1, <2>2, KindsOf, BeginInv
<1>11. ASSUME NEW mode \in Modes, UpdateSettings(s, u, mode) PROVE IInv'
  <2>1. Begin(s, "mode", Channel, u, u, mode, None) /\ settings.exists
    BY <1>11 DEF UpdateSettings
  <2>2. mode \in Args /\ mode # "direct"
    BY <1>3
  <2>3. Fits({"manage", "setMode"}, "mode", Channel, u, u, mode, None)
    BY <1>3, <2>1, <2>2 DEF Fits, Joining, Reviewing
  <2> QED BY <1>3, <2>1, <2>2, <2>3, KindsOf, BeginInv
<1> QED BY <1>1, <1>4, <1>5, <1>6, <1>7, <1>8, <1>9, <1>10, <1>11

-----------------------------------------------------------------------------
LEMMA InitInv == Init => IInv
<1> SUFFICES ASSUME Init PROVE IInv
  OBVIOUS
<1>1. /\ made = {} /\ readOnly = {} /\ lapped = FALSE
      /\ crossed = {} /\ enlarged = {} /\ touched = {} /\ failed = {}
      /\ role = [c \in Convs |-> [u \in Users |-> None]] /\ in = [c \in Convs |-> {}]
      /\ settings = [exists |-> FALSE, mode |-> "open", count |-> 0]
      /\ asks = [k \in Asks |-> [user |-> None, status |-> "none"]]
      /\ requests = [s \in Slots |-> Idle] /\ started = 0 /\ mishaps = 0
  BY DEF Init
<1>2. \A s \in Slots : /\ ~Busy(s) /\ Left(s) = {} /\ requests[s].conv = None /\ requests[s].ask = None
                       /\ requests[s] = Idle
  <2>1. Idle.todo = <<>> /\ Idle.conv = None /\ Idle.ask = None
    BY DEF Idle
  <2> QED BY <1>1, <2>1, Nothing DEF Busy, Left
<1>3. Channel # None /\ None \notin Asks /\ Channel \in Convs /\ Directs \subseteq Convs
      /\ Cardinality(Users) \in Nat
  BY MembershipAssumption, FS_CardinalityType DEF Convs
<1>4. RequestsTyped
  BY <1>1, <1>2, IdleTyped DEF RequestsTyped
<1>5. RestTyped
  <2>1. settings \in [exists : BOOLEAN, mode : Modes, count : 0..Cardinality(Users)]
    BY <1>1, <1>3 DEF Modes
  <2>2. asks \in [Asks -> [user : Users \cup {None}, status : {"none", "pending", "approved", "rejected"}]]
    BY <1>1
  <2>3. started \in 0..MaxRequests /\ mishaps \in 0..MaxMishaps
    BY <1>1, MembershipAssumption
  <2>4. role \in [Convs -> [Users -> Roles \cup {None}]] /\ in \in [Convs -> SUBSET Users]
    BY <1>1
  <2>5. \A c \in Convs : in[c] = {} /\ \A u \in Users : role[c][u] = None
    BY <1>1
  <2>6. readOnly \subseteq made /\ lapped \in BOOLEAN /\ enlarged \subseteq Directs
    BY <1>1
  <2>7. /\ made \subseteq Convs /\ touched \subseteq Slots /\ failed \subseteq Asks
        /\ crossed \subseteq {{u, v} : u, v \in Users}
    BY <1>1
  <2> QED BY <2>1, <2>2, <2>3, <2>4, <2>5, <2>6, <2>7 DEF RestTyped
<1>6. ChannelIsFounded
  BY <1>1, <1>2, <1>3 DEF ChannelIsFounded
<1>7. \A s \in Slots : DirectMakesSense(s) /\ RequestMakesSense(s)
  BY <1>2, <1>3, MembershipAssumption DEF DirectMakesSense, RequestMakesSense, Direct, Joins, Convs
<1>8. CountsAreFresh
  BY <1>1, <1>2 DEF CountsAreFresh, CountIsRight, Committing, At
<1>9. DirectsAreOne
  BY <1>1, <1>2, <1>3 DEF DirectsAreOne, OneDirectEach, Direct
<1>10. JoinsAreOne
  BY <1>1, <1>2 DEF JoinsAreOne, Joins, PendingOf
<1>11. ApprovedComeIn
  BY <1>1 DEF ApprovedComeIn
<1>12. \A s \in Slots : PostStands(s)
  BY <1>2 DEF PostStands
<1> QED BY <1>4, <1>5, <1>6, <1>7, <1>8, <1>9, <1>10, <1>11, <1>12 DEF IInv, Typed

LEMMA StutterInv == ASSUME IInv, UNCHANGED vars PROVE IInv'
<1>1. UNCHANGED <<made, role, in, settings, readOnly, asks, requests, started, mishaps,
                  lapped, crossed, enlarged, touched, failed>>
  BY DEF vars, members, channel
<1>2. /\ \A s : Busy(s)' <=> Busy(s)
      /\ \A s : Left(s)' = Left(s)
      /\ \A s, x : At(s, x)' <=> At(s, x)
      /\ \A s : Direct(s)' <=> Direct(s)
      /\ \A s : Pair(s)' = Pair(s)
      /\ \A s : Joins(s)' <=> Joins(s)
      /\ \A s : Committing(s)' <=> Committing(s)
      /\ \A s : After(s)' = After(s)
  BY <1>1 DEF Busy, Left, At, Direct, Pair, Joins, Committing, After, Changes
<1>3. RequestsTyped' /\ RestTyped' /\ ChannelIsFounded'
  BY <1>1, <1>2 DEF IInv, Typed, RequestsTyped, RestTyped, ChannelIsFounded
<1>4. \A s \in Slots : DirectMakesSense(s)' /\ RequestMakesSense(s)'
  BY <1>1, <1>2 DEF IInv, Typed, DirectMakesSense, RequestMakesSense
<1>5. CountsAreFresh'
  BY <1>1, <1>2 DEF IInv, CountsAreFresh, CountIsRight
<1>6. DirectsAreOne'
  BY <1>1, <1>2 DEF IInv, DirectsAreOne, OneDirectEach
<1>7. JoinsAreOne'
  BY <1>1, <1>2 DEF IInv, JoinsAreOne, PendingOf
<1>8. ApprovedComeIn'
  BY <1>1, <1>2 DEF IInv, ApprovedComeIn
<1>9. \A s \in Slots : PostStands(s)'
  BY <1>1, <1>2 DEF IInv, PostStands
<1> QED BY <1>3, <1>4, <1>5, <1>6, <1>7, <1>8, <1>9, Together DEF IInv

LEMMA StepInv == ASSUME IInv, [Next]_vars PROVE IInv'
<1>1. CASE UNCHANGED vars
  BY <1>1, StutterInv
<1>2. ASSUME NEW s \in Slots, Statement(s), UNCHANGED <<started, mishaps, failed>> PROVE IInv'
  <2>1. CASE FindDirectBetween(s)
    BY <1>2, <2>1, FindDirectInv
  <2>2. CASE \/ RequireManageRole(s) \/ RequireRole(s) \/ NotMember(s) \/ Pending(s) \/ Insert(s) \/ InsertPoll(s)
    BY <1>2, <2>2, ReadsInv
  <2>3. CASE FindPendingRequest(s)
    BY <1>2, <2>3, FindPendingInv
  <2>4. CASE Create(s)
    BY <1>2, <2>4, CreateInv
  <2>5. CASE CreateSettings(s)
    BY <1>2, <2>5, CreateSettingsInv
  <2>6. CASE Count(s)
    BY <1>2, <2>6, CountInv
  <2>7. CASE Add(s) \/ AddOwner(s) \/ Leave(s)
    BY <1>2, <2>7, MembersInv
  <2>8. CASE SetRole(s)
    BY <1>2, <2>8, SetRoleInv
  <2>9. CASE SetReadOnly(s)
    BY <1>2, <2>9, SetReadOnlyInv
  <2>10. CASE SetMode(s)
    BY <1>2, <2>10, SetModeInv
  <2>11. CASE ByMode(s)
    BY <1>2, <2>11, ByModeInv
  <2>12. CASE CreateJoinRequest(s)
    BY <1>2, <2>12, CreateJoinRequestInv
  <2>13. CASE Review(s)
    BY <1>2, <2>13, ReviewInv
  <2>14. CASE GetMember(s)
    BY <1>2, <2>14, GetMemberInv
  <2>15. CASE Writable(s)
    BY <1>2, <2>15, WritableInv
  <2> QED BY <1>2, <2>1, <2>2, <2>3, <2>4, <2>5, <2>6, <2>7, <2>8, <2>9, <2>10, <2>11, <2>12, <2>13,
             <2>14, <2>15 DEF Statement
<1> QED BY <1>1, <1>2, ArriveInv, FailInv DEF Next

THEOREM Invariance == Spec => []IInv
<1>1. IInv /\ [Next]_vars => IInv'
  BY StepInv
<1> QED BY InitInv, <1>1, PTL DEF Spec

-----------------------------------------------------------------------------
(* Every register keeps its type, and the members of a conversation have a role in it. *)
THEOREM TypeCorrect == Spec => []TypeOK
<1>1. IInv => TypeOK
  <2> SUFFICES ASSUME IInv PROVE TypeOK
    OBVIOUS
  <2>1. RestTyped /\ requests \in [Slots -> Request]
    BY DEF IInv, Typed, RequestsTyped
  <2>2. \A s \in Slots : /\ {requests[s].by, requests[s].who} \subseteq Users \cup {None}
                         /\ requests[s].conv \in Convs \cup {None}
                         /\ requests[s].n \in 0..Cardinality(Users)
    BY <2>1 DEF Request
  <2> QED BY <2>1, <2>2 DEF RestTyped, TypeOK
<1> QED BY Invariance, <1>1, PTL

(* The counter of members, the direct conversations, the requests to join and the members
   that were let in agree, but for the overlaps and the cuts that each one names. *)
THEOREM RegistersKept == Spec => []RegistersAgree
<1>1. IInv => RegistersAgree
  <2> SUFFICES ASSUME IInv PROVE RegistersAgree
    OBVIOUS
  <2>1. CountIsRight /\ OneDirectEach
    BY DEF IInv, CountsAreFresh, DirectsAreOne
  <2>2. OnePendingEach
    <3>1. ASSUME NEW u \in Users, {u} \notin crossed PROVE ~(Cardinality(PendingOf(u)) > 1)
      <4>1. \A k, l \in PendingOf(u) : k = l
        BY <3>1 DEF IInv, JoinsAreOne
      <4>2. CASE PendingOf(u) = {}
        BY <4>2, FS_EmptySet
      <4>3. CASE PendingOf(u) # {}
        <5>1. PICK k \in PendingOf(u) : TRUE
          BY <4>3
        <5>2. PendingOf(u) = {k}
          BY <4>1, <5>1
        <5>3. Cardinality(PendingOf(u)) = 1
          BY <5>2, FS_Singleton
        <5> QED BY <5>3
      <4> QED BY <4>2, <4>3
    <3> QED BY <3>1 DEF OnePendingEach
  <2>3. ApprovedAreIn
    BY DEF IInv, ApprovedComeIn, ApprovedAreIn
  <2> QED BY <2>1, <2>2, <2>3 DEF RegistersAgree
<1> QED BY Invariance, <1>1, PTL

(* Nobody posts who, when the message or the poll is written, is not in, nor writes a message who
   may only read, unless their place in the conversation or the setting changed since the request
   began. *)
THEOREM PostsAllowed == Spec => PostsWereAllowed
<1>1. IInv /\ [Next]_vars =>
        [\A s \in Slots :
           /\ Insert(s) => Writes(requests[s].by, requests[s].conv) \/ s \in touched
           /\ InsertPoll(s) => requests[s].by \in in[requests[s].conv] \/ s \in touched]_vars
  <2> SUFFICES ASSUME IInv, NEW s \in Slots, s \notin touched
               PROVE  /\ Insert(s) => Writes(requests[s].by, requests[s].conv)
                      /\ InsertPoll(s) => requests[s].by \in in[requests[s].conv]
    OBVIOUS
  <2>1. ASSUME NEW x \in {"insert", "insertPoll"}, At(s, x) PROVE Left(s) = {x} /\ PostStands(s)
    BY <2>1, AtLeft DEF IInv, Typed, Last
  <2>2. ASSUME Insert(s) PROVE Writes(requests[s].by, requests[s].conv)
    <3>1. At(s, "insert")
      BY <2>2 DEF Insert, Check
    <3> QED BY <2>1, <3>1 DEF PostStands, Writes
  <2>3. ASSUME InsertPoll(s) PROVE requests[s].by \in in[requests[s].conv]
    <3>1. At(s, "insertPoll")
      BY <2>3 DEF InsertPoll, Check
    <3> QED BY <2>1, <3>1 DEF PostStands
  <2> QED BY <2>2, <2>3
<1> QED BY Invariance, <1>1, PTL DEF Spec, PostsWereAllowed
=============================================================================
