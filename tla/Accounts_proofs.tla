-------------------------- MODULE Accounts_proofs --------------------------
(***************************************************************************)
(* Whatever the requests in flight and wherever they are cut short, the       *)
(* accounts are kept and every login was allowed.                             *)
(*                                                                         *)
(* What was checked is remembered by the statements that are left: the        *)
(* invariant says what is still true of an account while its request has      *)
(* them to run, unless the request is marked as overtaken.                    *)
(***************************************************************************)
EXTENDS Accounts, FiniteSetTheorems, TLAPS

-----------------------------------------------------------------------------
(* The statements of a request, from its first one on; what is left is a suffix. *)
Paths ==
  {<<"activeUser", "credentials">>, <<"activeUser", "session">>, <<"activeUser", "code">>,
   <<"increment">>, <<"resetFailures">>, <<"resetFailures", "session">>,
   <<"removeCode", "session", "resetFailures">>,
   <<"deactivate">>, <<"revoke">>, <<"secret">>, <<"startedSetup", "enable">>,
   <<"enabled", "disable">>, <<"enabled", "newCodes">>,
   <<"found", "totpOn", "disable", "revoke">>, <<"password">>, <<"found", "password", "revoke">>,
   <<"found", "wasSuper", "several", "deleteRoles", "insertRoles">>,
   <<"found", "status", "revoke">>, <<"differs", "status", "revoke">>,
   <<"found", "wasSuper", "several", "softDelete", "revoke">>, <<"found", "softDelete">>,
   <<"upsert">>, <<"upsert", "deleteRoles", "insertRoles">>, <<"upsert", "revoke">>}

Suffix(p, i) == [j \in {k \in 1..5 : k + i - 1 \in DOMAIN p} |-> p[j + i - 1]]
Todos == {Suffix(p, i) : p \in Paths, i \in 1..6}

Names(todo) == {todo[i] : i \in DOMAIN todo}
Left(s) == Names(requests[s].todo)

Words == Statuses \cup {"login", "challenge", "answer", "super", "other"}
Args == {None} \cup Codes \cup Sessions \cup Words
Request == [todo : Todos, user : Users \cup {None}, arg : Args, touched : BOOLEAN]

(* Its parts: *)
RequestsTyped == requests \in [Slots -> Request]

RequestsMakeSense ==
  \A s \in Slots :
    /\ Busy(s) => Of(s) \in Users
    /\ Left(s) \cap {"status", "upsert"} # {} => requests[s].arg \in {"active", "suspended"}
    /\ "softDelete" \in Left(s) => requests[s].arg \in {"other", None}
    /\ "code" \in Left(s) => requests[s].arg = None

RestTyped ==
  /\ status \in [Users -> Statuses] /\ supers \subseteq Users
  /\ failures \in [Users -> Nat] /\ locked \subseteq Users
  /\ secret \cup totp \cup tokens \subseteq Users
  /\ codes \in [Users -> SUBSET issued] /\ issued \subseteq Codes
  /\ \A u, v \in Users : u # v => codes[u] \cap codes[v] = {}
  /\ sessions \in [Sessions -> Users \cup {None}]
  /\ active \cup late \cup unrevoked \subseteq {k \in Sessions : sessions[k] # None}
  /\ started \in 0..MaxRequests /\ mishaps \in 0..MaxMishaps
  /\ opened \in [Codes -> Nat] /\ shared \subseteq Codes
  /\ clashed \subseteq Users /\ muddled \in BOOLEAN

(* Every failure took a request. *)
Trying(u) == {s \in Slots : Of(s) = u /\ Left(s) \cap {"credentials", "increment"} # {}}
FailuresWereTried == \A u \in Users : failures[u] + Cardinality(Trying(u)) <= started

(* Who passed activeUser is active. *)
EnteringIsActive ==
  \A s \in Slots :
    Left(s) \cap Entering # {} /\ "activeUser" \notin Left(s) /\ ~requests[s].touched
      => status[Of(s)] = "active"

(* What puts out a session of an account that is not active is the next statement of its request. *)
SessionsEnd ==
  \A k \in active \ (late \cup unrevoked) :
    \/ status[sessions[k]] = "active"
    \/ \E s \in Slots : At(s, "revoke") /\ Of(s) = sessions[k] /\ requests[s].arg # k

(* The code a challenge holds opens nothing else. *)
Holds(s, c) == requests[s].arg = c /\ "session" \in Left(s)
CodesAreHeldOnce ==
  \A c \in Codes \ shared :
    /\ \A s, t \in Slots : Holds(s, c) /\ Holds(t, c) => s = t
    /\ \A s \in Slots : Holds(s, c) =>
         /\ opened[c] = 0 /\ c \in issued
         /\ \A v \in Users : c \in codes[v] => v = Of(s) /\ "removeCode" \in Left(s)
    /\ opened[c] \in {0, 1}
    /\ opened[c] = 1 => c \in issued /\ \A v \in Users : c \notin codes[v]

(* Two requests that change the second factor of a user are known to clash. *)
FactorsAreKept ==
  /\ FactorHasItsSecret
  /\ \A s, t \in Slots :
       s # t /\ Of(s) = Of(t) /\ Left(s) \cap Factor # {} /\ Left(t) \cap Factor # {}
         => Of(s) \in clashed
  /\ \A s \in Slots : At(s, "enable") => Of(s) \in secret \cup clashed

(* One request at a time changes roles, and who it takes super_admin from is not the last. *)
RolesAreKept ==
  muddled \/
    /\ \A s, t \in Slots : Left(s) \cap Roles # {} /\ Left(t) \cap Roles # {} => s = t
    /\ \A s \in Slots : Left(s) \cap Roles # {} => requests[s].arg \in {"super", "other"}
    /\ supers = {} => \E s \in Slots : At(s, "insertRoles") /\ requests[s].arg = "super"
    /\ \A s \in Slots : At(s, "deleteRoles") /\ requests[s].arg = "other" => supers \ {Of(s)} # {}

(* What a login found of the lock and of the second factor, and a challenge of the factor; who
   has one under way holds a token, whatever happened to the account. *)
Answered(s) == requests[s].arg = "answer" \/ requests[s].arg \in Codes
Stands(s) ==
  /\ "code" \in Left(s) => Of(s) \in tokens
  /\ Left(s) \cap {"session", "resetFailures"} # {} /\ Answered(s) => Of(s) \in tokens
  /\ ~requests[s].touched =>
       /\ "resetFailures" \in Left(s) /\ ~Answered(s) => Of(s) \notin locked
       /\ "session" \in Left(s) /\ requests[s].arg = "login" => Of(s) \notin totp
       /\ "session" \in Left(s) /\ Answered(s) => Of(s) \in totp
LoginsStand == \A s \in Slots : Stands(s)

Typed == RequestsTyped /\ RequestsMakeSense /\ RestTyped
IInv ==
  /\ Typed /\ FailuresWereTried /\ EnteringIsActive /\ SessionsEnd /\ CodesAreHeldOnce
  /\ FactorsAreKept /\ RolesAreKept /\ LoginsStand
-----------------------------------------------------------------------------
(* What is left of a request. *)
All == {p[i] : p \in Paths, i \in 1..5}

LEMMA PathsShort ==
  ASSUME NEW p \in Paths
  PROVE  \E n \in 1..5 : DOMAIN p = 1..n /\ \A i \in 1..n : p[i] \in All
<1>2. PICK n \in 1..5 : DOMAIN p = 1..n
  BY DEF Paths
<1>3. \A i \in 1..n : p[i] \in All
  BY <1>2 DEF All
<1> QED BY <1>2, <1>3

LEMMA PathIsSuffix == ASSUME NEW p \in Paths PROVE p = Suffix(p, 1) /\ p \in Todos
<1>1. p = Suffix(p, 1)
  BY DEF Suffix, Paths
<1> QED BY <1>1 DEF Todos

(* Statement i of a path is the first of its i-th suffix. *)
LEMMA Suffixes ==
  ASSUME NEW p \in Paths, NEW n \in 1..5, DOMAIN p = 1..n, NEW i \in 1..6
  PROVE  /\ Suffix(p, i) # <<>> <=> i <= n
         /\ i <= n => Head(Suffix(p, i)) = p[i] /\ Tail(Suffix(p, i)) = Suffix(p, i + 1)
         /\ Names(Suffix(p, i)) = {p[j] : j \in i .. n}
<1> DEFINE q == Suffix(p, i)
<1>1. \A j \in 1..n : p[j] \in All
  BY PathsShort
<1>2. q = [j \in 1 .. n + 1 - i |-> p[j + i - 1]]
  <2>1. {j \in 1..5 : j + i - 1 \in DOMAIN p} = 1 .. n + 1 - i
    OBVIOUS
  <2> QED BY <2>1 DEF Suffix
<1>3. q \in Seq(All)
  BY <1>1, <1>2
<1>4. q # <<>> <=> i <= n
  BY <1>2, <1>3
<1>5. ASSUME i <= n PROVE Head(q) = p[i] /\ Tail(q) = Suffix(p, i + 1)
  <2>1. Len(q) = n + 1 - i
    BY <1>2, <1>3, <1>5
  <2>2. Suffix(p, i + 1) = [j \in 1 .. n + 1 - (i + 1) |-> p[j + (i + 1) - 1]]
    <3>1. {j \in 1..5 : j + (i + 1) - 1 \in DOMAIN p} = 1 .. n + 1 - (i + 1)
      OBVIOUS
    <3> QED BY <3>1 DEF Suffix
  <2> QED BY <1>2, <1>3, <1>5, <2>1, <2>2
<1>6. Names(q) = {p[j] : j \in i .. n}
  <2>1. ASSUME NEW x \in Names(q) PROVE x \in {p[j] : j \in i .. n}
    BY <1>2 DEF Names
  <2>2. ASSUME NEW j \in i .. n PROVE p[j] \in Names(q)
    <3>1. j - i + 1 \in 1 .. n + 1 - i /\ j - i + 1 + i - 1 = j
      OBVIOUS
    <3> QED BY <1>2, <3>1 DEF Names
  <2> QED BY <2>1, <2>2
<1> QED BY <1>4, <1>5, <1>6

(* No statement comes twice. *)
LEMMA PathsAreDistinct ==
  ASSUME NEW p \in Paths, NEW i \in 1..5, NEW j \in 1..5, i < j, j \in DOMAIN p
  PROVE  p[i] # p[j]
BY DEF Paths

LEMMA Nothing == <<>> \in Todos /\ Names(<<>>) = {}
<1>1. PICK p \in Paths, n \in 1..5 : DOMAIN p = 1..n
  BY PathsShort DEF Paths
<1>2. Suffix(p, 6) = <<>>
  <2>1. 6 \in 1..6 /\ ~(6 <= n)
    BY <1>1
  <2>2. Suffix(p, 6) # <<>> <=> 6 <= n
    BY <1>1, <2>1, Suffixes
  <2> QED BY <2>1, <2>2
<1> QED BY <1>1, <1>2 DEF Todos, Names

(* A statement runs: what is left is still a suffix, without it. *)
LEMMA Tails ==
  ASSUME NEW t \in Todos, t # <<>>
  PROVE  \E p \in Paths, i, n \in 1..5 :
           /\ DOMAIN p = 1..n /\ i <= n /\ Head(t) = p[i] /\ Names(t) = {p[j] : j \in i .. n}
           /\ Tail(t) \in Todos /\ Names(Tail(t)) = Names(t) \ {p[i]} /\ p[i] \in Names(t)
           /\ Tail(t) # <<>> <=> i + 1 <= n
           /\ i + 1 <= n => Head(Tail(t)) = p[i + 1]
<1>1. PICK p \in Paths, i \in 1..6 : t = Suffix(p, i)
  BY DEF Todos
<1>2. PICK n \in 1..5 : DOMAIN p = 1..n
  BY <1>1, PathsShort
<1>3. i \in 1..5 /\ i <= n /\ i + 1 \in 1..6
  <2>1. i <= n
    BY <1>1, <1>2, Suffixes
  <2> QED BY <1>1, <1>2, <2>1
<1>4. Head(t) = p[i] /\ Tail(t) = Suffix(p, i + 1)
  BY <1>1, <1>2, <1>3, Suffixes
<1>5. Names(t) = {p[j] : j \in i .. n} /\ Names(Tail(t)) = {p[j] : j \in i + 1 .. n}
  <2>1. Names(Suffix(p, i)) = {p[j] : j \in i .. n}
    BY <1>1, <1>2, Suffixes
  <2>2. Names(Suffix(p, i + 1)) = {p[j] : j \in i + 1 .. n}
    BY <1>1, <1>2, <1>3, Suffixes
  <2> QED BY <1>1, <1>4, <2>1, <2>2
<1>6. \A j \in i + 1 .. n : p[i] # p[j]
  BY <1>1, <1>2, <1>3, PathsAreDistinct
<1>7. Names(t) = {p[i]} \cup Names(Tail(t))
  <2>1. i .. n = {i} \cup (i + 1 .. n)
    BY <1>2, <1>3
  <2> QED BY <1>5, <2>1
<1>8. p[i] \notin Names(Tail(t))
  BY <1>5, <1>6
<1>9. Tail(t) \in Todos
  BY <1>1, <1>3, <1>4 DEF Todos
<1>10. (Tail(t) # <<>> <=> i + 1 <= n) /\ (i + 1 <= n => Head(Tail(t)) = p[i + 1])
  <2>1. /\ Suffix(p, i + 1) # <<>> <=> i + 1 <= n
        /\ i + 1 <= n => Head(Suffix(p, i + 1)) = p[i + 1]
    BY <1>1, <1>2, <1>3, Suffixes
  <2> QED BY <1>4, <2>1
<1>11. Names(Tail(t)) = Names(t) \ {p[i]} /\ p[i] \in Names(t)
  BY <1>7, <1>8
<1>12. p \in Paths /\ i \in 1..5 /\ n \in 1..5
  BY <1>1, <1>2, <1>3
<1> WITNESS p \in Paths, i \in 1..5, n \in 1..5
<1> QED BY <1>2, <1>3, <1>4, <1>5, <1>9, <1>10, <1>11
(* What the order of the statements is relied on for. *)
Changing == {"increment", "secret", "enable", "disable", "newCodes", "status", "softDelete", "upsert"}

LEMMA Orders ==
  ASSUME NEW p \in Paths, NEW i \in DOMAIN p
  PROVE  /\ p[i] = "status" => i + 1 \in DOMAIN p /\ p[i + 1] = "revoke"
         /\ p[i] \in {"softDelete", "upsert"}
              => \A j \in DOMAIN p : i <= j /\ p[j] = "revoke" => j = i + 1
         /\ p[i] = "session" => \A j \in DOMAIN p : i <= j => p[j] # "removeCode"
         /\ p[i] \in {"session", "credentials", "code"} => \A j \in DOMAIN p : i <= j => p[j] # "activeUser"
         /\ p[i] = "wasSuper" => i + 1 \in DOMAIN p /\ p[i + 1] = "several"
         /\ p[i] = "deleteRoles" => i + 1 \in DOMAIN p /\ p[i + 1] = "insertRoles"
         /\ i + 1 \in DOMAIN p /\ p[i + 1] = "enable" => p[i] = "startedSetup"
         /\ i + 1 \in DOMAIN p /\ p[i + 1] = "deleteRoles" => p[i] \in {"several", "upsert"}
         /\ p[i] \in Changing => \A j \in DOMAIN p : p[j] \notin Entering
<1>1. p[i] = "status" => i + 1 \in DOMAIN p /\ p[i + 1] = "revoke"
  <2>1. p[i] = "status" => i + 1 \in DOMAIN p
    BY DEF Paths
  <2>2. p[i] = "status" => p[i + 1] = "revoke"
    BY DEF Paths
  <2> QED BY <2>1, <2>2
<1>2. ASSUME p[i] \in {"softDelete", "upsert"}, NEW j \in DOMAIN p, i <= j, p[j] = "revoke" PROVE j = i + 1
  BY <1>2 DEF Paths
<1>3. ASSUME p[i] = "session", NEW j \in DOMAIN p, i <= j PROVE p[j] # "removeCode"
  BY <1>3 DEF Paths
<1>9. ASSUME p[i] \in {"session", "credentials", "code"}, NEW j \in DOMAIN p, i <= j PROVE p[j] # "activeUser"
  BY <1>9 DEF Paths
<1>4. p[i] = "wasSuper" => i + 1 \in DOMAIN p /\ p[i + 1] = "several"
  <2>1. p[i] = "wasSuper" => i + 1 \in DOMAIN p
    BY DEF Paths
  <2>2. p[i] = "wasSuper" => p[i + 1] = "several"
    BY DEF Paths
  <2> QED BY <2>1, <2>2
<1>5. p[i] = "deleteRoles" => i + 1 \in DOMAIN p /\ p[i + 1] = "insertRoles"
  <2>1. p[i] = "deleteRoles" => i + 1 \in DOMAIN p
    BY DEF Paths
  <2>2. p[i] = "deleteRoles" => p[i + 1] = "insertRoles"
    BY DEF Paths
  <2> QED BY <2>1, <2>2
<1>6. i + 1 \in DOMAIN p /\ p[i + 1] = "enable" => p[i] = "startedSetup"
  BY DEF Paths
<1>7. i + 1 \in DOMAIN p /\ p[i + 1] = "deleteRoles" => p[i] \in {"several", "upsert"}
  BY DEF Paths
<1>8. ASSUME p[i] \in Changing, NEW j \in DOMAIN p PROVE p[j] \notin Entering
  BY <1>8 DEF Paths, Changing, Entering
<1> QED BY <1>1, <1>2, <1>3, <1>4, <1>5, <1>6, <1>7, <1>8, <1>9

(* The same of a list that still begins with its first statement. *)
LEMMA Follows ==
  ASSUME NEW t \in Todos, t # <<>>
  PROVE  /\ Tail(t) \in Todos /\ Names(Tail(t)) = Names(t) \ {Head(t)} /\ Head(t) \in Names(t)
         /\ Head(t) = "status" => Tail(t) # <<>> /\ Head(Tail(t)) = "revoke"
         /\ Head(t) \in {"softDelete", "upsert"} /\ "revoke" \in Names(t)
              => Tail(t) # <<>> /\ Head(Tail(t)) = "revoke"
         /\ Head(t) = "session" => "removeCode" \notin Names(t)
         /\ Head(t) \in {"session", "credentials", "code"} => "activeUser" \notin Names(t)
         /\ Head(t) = "wasSuper" => Tail(t) # <<>> /\ Head(Tail(t)) = "several"
         /\ Head(t) = "deleteRoles" => Tail(t) # <<>> /\ Head(Tail(t)) = "insertRoles"
         /\ Tail(t) # <<>> /\ Head(Tail(t)) = "enable" => Head(t) = "startedSetup"
         /\ Tail(t) # <<>> /\ Head(Tail(t)) = "deleteRoles" => Head(t) \in {"several", "upsert"}
<1>1. PICK p \in Paths, i, n \in 1..5 :
        /\ DOMAIN p = 1..n /\ i <= n /\ Head(t) = p[i] /\ Names(t) = {p[j] : j \in i .. n}
        /\ Tail(t) \in Todos /\ Names(Tail(t)) = Names(t) \ {p[i]} /\ p[i] \in Names(t)
        /\ Tail(t) # <<>> <=> i + 1 <= n
        /\ i + 1 <= n => Head(Tail(t)) = p[i + 1]
  BY Tails
<1>2. i \in 1..n
  BY <1>1
<1> DEFINE h == p[i]
           f == p[i + 1]
<1>8. /\ h = "status" => i + 1 <= n /\ f = "revoke"
      /\ h \in {"softDelete", "upsert"} => \A j \in i .. n : p[j] = "revoke" => j = i + 1
      /\ h = "session" => \A j \in i .. n : p[j] # "removeCode"
      /\ h \in {"session", "credentials", "code"} => \A j \in i .. n : p[j] # "activeUser"
      /\ h = "wasSuper" => i + 1 <= n /\ f = "several"
      /\ h = "deleteRoles" => i + 1 <= n /\ f = "insertRoles"
      /\ i + 1 <= n /\ f = "enable" => h = "startedSetup"
      /\ i + 1 <= n /\ f = "deleteRoles" => h \in {"several", "upsert"}
  <2>1. i \in DOMAIN p /\ (i + 1 \in DOMAIN p <=> i + 1 <= n) /\ \A j \in i .. n : j \in DOMAIN p /\ i <= j
    BY <1>1, <1>2
  <2> HIDE DEF h, f
  <2>2. /\ h = "status" => i + 1 \in DOMAIN p /\ f = "revoke"
        /\ h = "wasSuper" => i + 1 \in DOMAIN p /\ f = "several"
        /\ h = "deleteRoles" => i + 1 \in DOMAIN p /\ f = "insertRoles"
        /\ i + 1 \in DOMAIN p /\ f = "enable" => h = "startedSetup"
        /\ i + 1 \in DOMAIN p /\ f = "deleteRoles" => h \in {"several", "upsert"}
    BY <1>1, <2>1, Orders DEF h, f
  <2>3. h \in {"softDelete", "upsert"} => \A j \in i .. n : p[j] = "revoke" => j = i + 1
    BY <1>1, <2>1, Orders DEF h
  <2>4. h = "session" => \A j \in i .. n : p[j] # "removeCode"
    BY <1>1, <2>1, Orders DEF h
  <2>5. h \in {"session", "credentials", "code"} => \A j \in i .. n : p[j] # "activeUser"
    BY <1>1, <2>1, Orders DEF h
  <2> QED BY <2>1, <2>2, <2>3, <2>4, <2>5
<1>9. Head(t) = h /\ (Tail(t) # <<>> <=> i + 1 <= n) /\ (i + 1 <= n => Head(Tail(t)) = f)
  BY <1>1
<1>3. Head(t) = "status" => Tail(t) # <<>> /\ Head(Tail(t)) = "revoke"
  BY <1>8, <1>9
<1>4. ASSUME Head(t) \in {"softDelete", "upsert"}, "revoke" \in Names(t)
      PROVE  Tail(t) # <<>> /\ Head(Tail(t)) = "revoke"
  <2>1. PICK j \in i .. n : p[j] = "revoke"
    BY <1>1, <1>4
  <2>2. j = i + 1
    BY <1>1, <1>4, <1>8, <2>1
  <2>3. i + 1 <= n
    BY <1>1, <2>1, <2>2
  <2> QED BY <1>1, <2>1, <2>2, <2>3
<1>5. /\ Head(t) = "session" => "removeCode" \notin Names(t)
      /\ Head(t) \in {"session", "credentials", "code"} => "activeUser" \notin Names(t)
  BY <1>1, <1>8
<1>6. /\ Head(t) = "wasSuper" => Tail(t) # <<>> /\ Head(Tail(t)) = "several"
      /\ Head(t) = "deleteRoles" => Tail(t) # <<>> /\ Head(Tail(t)) = "insertRoles"
  BY <1>8, <1>9
<1>7. /\ Tail(t) # <<>> /\ Head(Tail(t)) = "enable" => Head(t) = "startedSetup"
      /\ Tail(t) # <<>> /\ Head(Tail(t)) = "deleteRoles" => Head(t) \in {"several", "upsert"}
  BY <1>8, <1>9
<1> QED BY <1>1, <1>3, <1>4, <1>5, <1>6, <1>7

(* Who changes an account is not coming in. *)
LEMMA ChangingIsNotEntering ==
  ASSUME NEW t \in Todos, NEW x \in Names(t), x \in Changing
  PROVE  Names(t) \cap Entering = {}
<1>1. t # <<>>
  BY Nothing
<1>2. PICK p \in Paths, i, n \in 1..5 : DOMAIN p = 1..n /\ i <= n /\ Names(t) = {p[j] : j \in i .. n}
  BY <1>1, Tails
<1>3. PICK k \in i .. n : x = p[k]
  BY <1>2
<1>4. k \in 1 .. n
  BY <1>2, <1>3
<1>5. \A j \in DOMAIN p : p[j] \notin Entering
  BY <1>2, <1>3, <1>4, Orders
<1> QED BY <1>2, <1>4, <1>5
-----------------------------------------------------------------------------
(* How a step changes the requests: what the other slots keep. *)
Others(s) ==
  \A t \in Slots \ {s} :
    /\ requests'[t].todo = requests[t].todo
    /\ requests'[t].user = requests[t].user
    /\ requests'[t].arg = requests[t].arg
    /\ requests[t].touched => requests'[t].touched

(* The request of slot s goes on without the statements gone, or ends. *)
Lessens(s, gone) ==
  /\ requests' \in [Slots -> Request] /\ Others(s) /\ Busy(s)
  /\ Busy(s)' => /\ requests'[s].user = requests[s].user /\ requests'[s].arg = requests[s].arg
                 /\ requests'[s].touched = requests[s].touched
                 /\ Left(s)' = Left(s) \ gone
                 /\ At(s, "enable")' => "startedSetup" \in gone
                 /\ At(s, "deleteRoles")' => gone \cap {"several", "upsert"} # {}
  /\ ~Busy(s)' => Left(s)' = {} /\ requests'[s].user = None

(* The requests of its user that come in have seen the account change. *)
Touches(s) ==
  \A t \in Slots \ {s} : Left(t) \cap Entering # {} /\ Of(t) = Of(s) => requests'[t].touched

LEMMA HasIsLeft ==
  ASSUME NEW s, NEW names
  PROVE  Has(requests[s], names) <=> Left(s) \cap names # {}
BY DEF Has, Left, Names

LEMMA HeadIsLeft ==
  ASSUME RequestsTyped, NEW s \in Slots, Busy(s)
  PROVE  /\ requests[s].todo \in Todos /\ Rest(s) \in Todos
         /\ Names(Rest(s)) = Left(s) \ {Head(requests[s].todo)}
         /\ Head(requests[s].todo) \in Left(s)
<1>1. requests[s].todo \in Todos /\ requests[s].todo # <<>>
  BY DEF RequestsTyped, Request, Busy
<1> QED BY <1>1, Follows DEF Rest, Left

LEMMA IdleTyped == Idle \in Request
<1>1. <<>> \in Todos /\ None \in Args
  BY Nothing DEF Args
<1> QED BY <1>1 DEF Idle, Request

(* What follows for a slot that keeps its statements. *)
LEMMA OthersKeep ==
  ASSUME NEW s, Others(s), NEW t \in Slots \ {s}
  PROVE  /\ Left(t)' = Left(t) /\ Of(t)' = Of(t) /\ (Busy(t)' <=> Busy(t))
         /\ \A x : At(t, x)' <=> At(t, x)
         /\ requests'[t].arg = requests[t].arg
BY DEF Others, Left, Of, Busy, At

(* The request of a slot is set; no other is. *)
LEMMA SetRequest ==
  ASSUME RequestsTyped, NEW s \in Slots, NEW r \in Request, Continue(s, r)
  PROVE  /\ requests' \in [Slots -> Request] /\ Others(s)
         /\ r.todo # <<>> => requests'[s] = r
         /\ r.todo = <<>> => requests'[s] = Idle
         /\ \A t \in Slots \ {s} : requests'[t] = requests[t]
<1>1. requests' = [requests EXCEPT ![s] = IF r.todo = <<>> THEN Idle ELSE r]
  BY DEF Continue
<1>2. requests \in [Slots -> Request]
  BY DEF RequestsTyped
<1>3. requests' \in [Slots -> Request]
  BY <1>1, <1>2, IdleTyped
<1>4. /\ \A t \in Slots \ {s} : requests'[t] = requests[t]
      /\ r.todo # <<>> => requests'[s] = r
      /\ r.todo = <<>> => requests'[s] = Idle
  BY <1>1, <1>2
<1> QED BY <1>3, <1>4 DEF Others

LEMMA IdleIsDone ==
  ASSUME NEW s, requests'[s] = Idle
  PROVE  ~Busy(s)' /\ Left(s)' = {} /\ requests'[s].user = None /\ requests'[s].todo = <<>>
BY Nothing DEF Idle, Busy, Left

LEMMA Todoed ==
  ASSUME RequestsTyped, NEW s \in Slots, NEW todo \in Todos
  PROVE  /\ [requests[s] EXCEPT !.todo = todo] \in Request
         /\ [requests[s] EXCEPT !.todo = todo].todo = todo
         /\ [requests[s] EXCEPT !.todo = todo].user = requests[s].user
         /\ [requests[s] EXCEPT !.todo = todo].arg = requests[s].arg
         /\ [requests[s] EXCEPT !.todo = todo].touched = requests[s].touched
<1>1. requests[s] \in Request
  BY DEF RequestsTyped
<1> QED BY <1>1 DEF Request

(* What is left after the first statement. *)
LEMMA RestLessens ==
  ASSUME RequestsTyped, NEW s \in Slots, NEW h, At(s, h),
         requests' \in [Slots -> Request], Others(s),
         IF Rest(s) # <<>> THEN requests'[s] = [requests[s] EXCEPT !.todo = Rest(s)] ELSE requests'[s] = Idle
  PROVE  Lessens(s, {h}) /\ requests'[s].todo = Rest(s)
<1>1. /\ requests[s].todo \in Todos /\ requests[s].todo # <<>> /\ Head(requests[s].todo) = h
      /\ Rest(s) \in Todos /\ Busy(s)
  BY HeadIsLeft DEF At, Busy
<1>2. CASE Rest(s) = <<>>
  BY <1>1, <1>2, IdleIsDone DEF Lessens
<1>3. CASE Rest(s) # <<>>
  <2>1. /\ requests'[s].user = requests[s].user /\ requests'[s].arg = requests[s].arg
        /\ requests'[s].touched = requests[s].touched /\ requests'[s].todo = Rest(s)
    <3>1. requests'[s] = [requests[s] EXCEPT !.todo = Rest(s)]
      BY <1>3
    <3> QED BY <1>1, <3>1, Todoed
  <2>2. Left(s)' = Left(s) \ {h}
    BY <1>1, <2>1, HeadIsLeft DEF Left
  <2>3. At(s, "enable")' => h = "startedSetup"
    BY <1>1, <1>3, <2>1, Follows DEF At, Rest
  <2>4. At(s, "deleteRoles")' => h \in {"several", "upsert"}
    BY <1>1, <1>3, <2>1, Follows DEF At, Rest
  <2>5. Busy(s)'
    BY <1>3, <2>1 DEF Busy
  <2> QED BY <1>1, <2>1, <2>2, <2>3, <2>4, <2>5 DEF Lessens
<1> QED BY <1>2, <1>3

LEMMA GoLessens ==
  ASSUME RequestsTyped, NEW s \in Slots, NEW h, At(s, h), Go(s)
  PROVE  Lessens(s, {h}) /\ requests'[s].todo = Rest(s)
<1>1. Rest(s) \in Todos
  BY HeadIsLeft DEF At
<1>2. Continue(s, [requests[s] EXCEPT !.todo = Rest(s)])
  BY DEF Go
<1>3. /\ requests' \in [Slots -> Request] /\ Others(s)
      /\ Rest(s) # <<>> => requests'[s] = [requests[s] EXCEPT !.todo = Rest(s)]
      /\ Rest(s) = <<>> => requests'[s] = Idle
  <2> DEFINE r == [requests[s] EXCEPT !.todo = Rest(s)]
  <2>1. r \in Request /\ r.todo = Rest(s)
    BY <1>1, Todoed
  <2> HIDE DEF r
  <2>2. Continue(s, r)
    BY <1>2 DEF r
  <2>3. /\ requests' \in [Slots -> Request] /\ Others(s)
        /\ Rest(s) # <<>> => requests'[s] = r
        /\ Rest(s) = <<>> => requests'[s] = Idle
    BY <2>1, <2>2, SetRequest
  <2> QED BY <2>3 DEF r
<1> QED BY <1>3, RestLessens

LEMMA EndLessens ==
  ASSUME RequestsTyped, NEW s \in Slots, Busy(s), Continue(s, Idle), NEW gone
  PROVE  Lessens(s, gone) /\ requests'[s] = Idle /\ ~Busy(s)'
<1>1. requests' \in [Slots -> Request] /\ Others(s) /\ requests'[s] = Idle
  BY IdleTyped, SetRequest DEF Idle
<1> QED BY <1>1, IdleIsDone DEF Lessens

(* The same when the requests to come in are marked. *)
LEMMA TouchLessens ==
  ASSUME RequestsTyped, NEW s \in Slots, NEW h, At(s, h), NEW todo \in {Rest(s), <<>>}, Touch(s, todo)
  PROVE  Lessens(s, {h}) /\ requests'[s].todo = todo /\ Touches(s)
<1>1. requests \in [Slots -> Request] /\ Rest(s) \in Todos /\ todo \in Todos /\ Busy(s)
  BY HeadIsLeft, Nothing DEF RequestsTyped, At
<1> DEFINE q(t) == Has(requests[t], Entering) /\ Of(t) = Of(s)
           r == [requests[s] EXCEPT !.todo = todo]
<1>2. requests' = [t \in Slots |-> IF t = s THEN IF todo = <<>> THEN Idle ELSE r
                                   ELSE [requests[t] EXCEPT !.touched = @ \/ q(t)]]
  BY DEF Touch
<1>3. r \in Request
  BY <1>1, Todoed
<1> HIDE DEF q
<1>4. ASSUME NEW t \in Slots \ {s}
      PROVE  /\ requests'[t] \in Request
             /\ requests'[t].todo = requests[t].todo /\ requests'[t].user = requests[t].user
             /\ requests'[t].arg = requests[t].arg
             /\ requests'[t].touched <=> (requests[t].touched \/ q(t))
  <2>1. requests'[t] = [requests[t] EXCEPT !.touched = @ \/ q(t)]
    BY <1>2
  <2>2. requests[t] \in Request /\ (requests[t].touched \/ q(t)) \in BOOLEAN
    BY <1>1
  <2> QED BY <2>1, <2>2 DEF Request
<1>5. requests'[s] = IF todo = <<>> THEN Idle ELSE r
  BY <1>2
<1>6. requests' \in [Slots -> Request]
  <2>1. requests'[s] \in Request
    BY <1>3, <1>5, IdleTyped
  <2> QED BY <1>2, <1>4, <2>1
<1>7. Others(s)
  BY <1>4 DEF Others
<1>8. Touches(s)
  BY <1>4, HasIsLeft DEF Touches, q
<1>9. CASE todo = Rest(s)
  BY <1>5, <1>6, <1>7, <1>8, <1>9, RestLessens
<1>10. CASE todo = <<>>
  BY <1>1, <1>5, <1>6, <1>7, <1>8, <1>10, IdleIsDone DEF Lessens
<1> QED BY <1>9, <1>10
-----------------------------------------------------------------------------
(* A request that goes on or ends keeps each part of the invariant, if what the step does to
   the rest is as its hypotheses say. *)
LEMMA SenseLessens ==
  ASSUME RequestsMakeSense, NEW s \in Slots, NEW gone, Lessens(s, gone)
  PROVE  RequestsTyped' /\ RequestsMakeSense'
<1>1. RequestsTyped'
  BY DEF Lessens, RequestsTyped
<1>2. ASSUME NEW t \in Slots
      PROVE  /\ Busy(t)' => Of(t)' \in Users
             /\ Left(t)' \cap {"status", "upsert"} # {} => requests'[t].arg \in {"active", "suspended"}
             /\ "softDelete" \in Left(t)' => requests'[t].arg \in {"other", None}
             /\ "code" \in Left(t)' => requests'[t].arg = None
  <2>1. CASE t # s
    <3>1. Left(t)' = Left(t) /\ Of(t)' = Of(t) /\ (Busy(t)' <=> Busy(t)) /\ requests'[t].arg = requests[t].arg
      BY <2>1, OthersKeep DEF Lessens
    <3> QED BY <3>1 DEF RequestsMakeSense
  <2>2. CASE t = s
    <3>1. Busy(s)' => Of(s)' = Of(s) /\ Busy(s) /\ Left(s)' \subseteq Left(s) /\ requests'[s].arg = requests[s].arg
      BY DEF Lessens, Of
    <3>2. ~Busy(s)' => Left(s)' = {}
      BY DEF Lessens
    <3> QED BY <2>2, <3>1, <3>2 DEF RequestsMakeSense
  <2> QED BY <2>1, <2>2
<1> QED BY <1>1, <1>2 DEF RequestsMakeSense

LEMMA TryingLessens ==
  ASSUME NEW s \in Slots, NEW gone, Lessens(s, gone), NEW u \in Users, None \notin Users
  PROVE  Trying(u)' \subseteq Trying(u)
<1> SUFFICES ASSUME NEW t \in Slots, Of(t)' = u, Left(t)' \cap {"credentials", "increment"} # {}
             PROVE  Of(t) = u /\ Left(t) \cap {"credentials", "increment"} # {}
  BY DEF Trying
<1>1. CASE t # s
  BY <1>1, OthersKeep DEF Lessens
<1>2. CASE t = s
  BY <1>2 DEF Lessens, Of
<1> QED BY <1>1, <1>2

LEMMA TryingIsFinite == ASSUME NEW u PROVE IsFiniteSet(Trying(u)) /\ Cardinality(Trying(u)) \in Nat
<1>1. IsFiniteSet(Slots) /\ Trying(u) \subseteq Slots
  BY AccountsAssumption DEF Trying
<1> QED BY <1>1, FS_Subset, FS_CardinalityType

LEMMA TriesLessen ==
  ASSUME FailuresWereTried, failures \in [Users -> Nat], failures' \in [Users -> Nat],
         started \in Nat, started' = started,
         \A u \in Users : Trying(u)' \subseteq Trying(u) /\ failures'[u] <= failures[u]
  PROVE  FailuresWereTried'
<1> SUFFICES ASSUME NEW u \in Users PROVE failures'[u] + Cardinality(Trying(u)') <= started
  BY DEF FailuresWereTried
<1>1. failures[u] + Cardinality(Trying(u)) <= started
  BY DEF FailuresWereTried
<1>2. /\ Cardinality(Trying(u)') \in Nat /\ Cardinality(Trying(u)) \in Nat
      /\ Cardinality(Trying(u)') <= Cardinality(Trying(u))
  BY TryingIsFinite, FS_Subset, FS_CardinalityType
<1> QED BY <1>1, <1>2

LEMMA EnteringLessens ==
  ASSUME EnteringIsActive, NEW s \in Slots, NEW gone, Lessens(s, gone), status' = status,
         "activeUser" \in gone => ~Busy(s)' \/ status[Of(s)] = "active"
  PROVE  EnteringIsActive'
<1> SUFFICES ASSUME NEW t \in Slots, Left(t)' \cap Entering # {}, "activeUser" \notin Left(t)',
                    ~requests'[t].touched
             PROVE  status[Of(t)'] = "active"
  BY DEF EnteringIsActive
<1>1. CASE t # s
  BY <1>1, OthersKeep DEF Lessens, Others, EnteringIsActive
<1>2. CASE t = s
  <2>1. /\ Busy(s)' /\ Of(s)' = Of(s) /\ ~requests[s].touched /\ Left(s)' = Left(s) \ gone
    BY <1>2 DEF Lessens, Of
  <2>2. CASE "activeUser" \in gone
    BY <1>2, <2>1, <2>2
  <2>3. CASE "activeUser" \notin gone
    BY <1>2, <2>1, <2>3 DEF EnteringIsActive
  <2> QED BY <2>2, <2>3
<1> QED BY <1>1, <1>2

LEMMA SessionsLessen ==
  ASSUME SessionsEnd, NEW s \in Slots, NEW gone, Lessens(s, gone),
         status' = status, sessions' = sessions, active' \subseteq active, late \subseteq late',
         unrevoked \subseteq unrevoked',
         At(s, "revoke") => \A k \in active' \ unrevoked' : sessions[k] = Of(s) => k = requests[s].arg
  PROVE  SessionsEnd'
<1> SUFFICES ASSUME NEW k \in active' \ (late' \cup unrevoked'), status[sessions[k]] # "active"
             PROVE  \E t \in Slots : At(t, "revoke")' /\ Of(t)' = sessions[k] /\ requests'[t].arg # k
  BY DEF SessionsEnd
<1>1. PICK t \in Slots : At(t, "revoke") /\ Of(t) = sessions[k] /\ requests[t].arg # k
  BY DEF SessionsEnd
<1>2. t # s
  BY <1>1
<1>3. (At(t, "revoke")' <=> At(t, "revoke")) /\ Of(t)' = Of(t) /\ requests'[t].arg = requests[t].arg
  BY <1>2, OthersKeep DEF Lessens
<1> QED BY <1>1, <1>3

(* A code that was not there is one that nobody has had. *)
LEMMA CodesLessen ==
  ASSUME CodesAreHeldOnce, NEW s \in Slots, NEW gone, Lessens(s, gone), RequestsMakeSense,
         shared \subseteq shared', opened' = opened, issued \subseteq issued',
         \A v \in Users : \A c \in codes'[v] : c \in codes[v] \/ c \notin issued,
         "removeCode" \in gone => ~Busy(s)' \/ requests[s].arg \notin codes'[Of(s)]
  PROVE  CodesAreHeldOnce'
<1> SUFFICES ASSUME NEW c \in Codes, c \notin shared'
             PROVE  /\ \A r, t \in Slots : Holds(r, c)' /\ Holds(t, c)' => r = t
                    /\ \A t \in Slots : Holds(t, c)' =>
                         /\ opened[c] = 0 /\ c \in issued'
                         /\ \A v \in Users : c \in codes'[v] => v = Of(t)' /\ "removeCode" \in Left(t)'
                    /\ opened[c] \in {0, 1}
                    /\ opened[c] = 1 => c \in issued' /\ \A v \in Users : c \notin codes'[v]
  BY DEF CodesAreHeldOnce
<1>1. /\ \A r, t \in Slots : Holds(r, c) /\ Holds(t, c) => r = t
      /\ \A t \in Slots : Holds(t, c) =>
           /\ opened[c] = 0 /\ c \in issued
           /\ \A v \in Users : c \in codes[v] => v = Of(t) /\ "removeCode" \in Left(t)
      /\ opened[c] \in {0, 1}
      /\ opened[c] = 1 => c \in issued /\ \A v \in Users : c \notin codes[v]
  BY DEF CodesAreHeldOnce
<1>2. ASSUME NEW t \in Slots, Holds(t, c)'
      PROVE  Holds(t, c) /\ Of(t)' = Of(t)
  <2>1. CASE t # s
    <3>1. Left(t)' = Left(t) /\ Of(t)' = Of(t) /\ requests'[t].arg = requests[t].arg
      BY <2>1, OthersKeep DEF Lessens
    <3> QED BY <1>2, <3>1 DEF Holds
  <2>2. CASE t = s
    BY <1>2, <2>2 DEF Lessens, Holds, Of
  <2> QED BY <2>1, <2>2
<1>3. ASSUME NEW t \in Slots, Holds(t, c)', NEW v \in Users, c \in codes'[v]
      PROVE  v = Of(t)' /\ "removeCode" \in Left(t)'
  <2>1. Holds(t, c) /\ c \in issued /\ Of(t)' = Of(t)
    BY <1>1, <1>2, <1>3
  <2>2. v = Of(t) /\ "removeCode" \in Left(t)
    BY <1>1, <1>3, <2>1
  <2>3. CASE t # s
    BY <2>1, <2>2, <2>3, OthersKeep DEF Lessens
  <2>4. CASE t = s
    <3>1. Busy(s)' /\ Left(s)' = Left(s) \ gone /\ requests[s].arg = c
      BY <1>3, <2>1, <2>4 DEF Lessens, Holds
    <3> QED BY <1>3, <2>1, <2>2, <2>4, <3>1
  <2> QED BY <2>3, <2>4
<1>4. opened[c] = 1 => c \in issued' /\ \A v \in Users : c \notin codes'[v]
  BY <1>1
<1> QED BY <1>1, <1>2, <1>3, <1>4

LEMMA FactorsLessen ==
  ASSUME FactorsAreKept, NEW s \in Slots, NEW gone, Lessens(s, gone), RequestsMakeSense,
         None \notin Users, FactorHasItsSecret', clashed \subseteq clashed',
         "startedSetup" \in gone => ~Busy(s)' \/ Of(s) \in secret,
         \/ secret \subseteq secret'
         \/ secret \ {Of(s)} \subseteq secret' /\ Left(s) \cap Factor # {} /\ "startedSetup" \notin gone
  PROVE  FactorsAreKept'
<1>1. ASSUME NEW t \in Slots, Left(t)' \cap Factor # {}
      PROVE  Left(t) \cap Factor # {} /\ Of(t)' = Of(t)
  <2>1. CASE t # s
    BY <1>1, <2>1, OthersKeep DEF Lessens
  <2>2. CASE t = s
    BY <1>1, <2>2 DEF Lessens, Of
  <2> QED BY <2>1, <2>2
<1>2. ASSUME NEW r \in Slots, NEW t \in Slots, r # t, Of(r)' = Of(t)',
             Left(r)' \cap Factor # {}, Left(t)' \cap Factor # {}
      PROVE  Of(r)' \in clashed'
  BY <1>1, <1>2 DEF FactorsAreKept
<1>3. ASSUME NEW t \in Slots, At(t, "enable")'
      PROVE  Of(t)' \in secret' \cup clashed'
  <2>1. CASE t # s
    <3>1. At(t, "enable") /\ Of(t)' = Of(t) /\ Of(t) \in secret \cup clashed
      BY <1>3, <2>1, OthersKeep DEF Lessens, FactorsAreKept
    <3>2. CASE Of(t) # Of(s)
      BY <3>1, <3>2
    <3>3. CASE Of(t) = Of(s) /\ secret \subseteq secret'
      BY <3>1, <3>3
    <3>4. CASE Of(t) = Of(s) /\ Left(s) \cap Factor # {}
      <4>1. "enable" \in Left(t)
        <5>1. requests'[t].todo # <<>> /\ requests'[t] \in Request /\ requests'[t].todo = requests[t].todo
          BY <1>3, <2>1 DEF At, Busy, Lessens, Others
        <5>2. Head(requests[t].todo) \in Names(requests[t].todo)
          BY <5>1, Follows DEF Request
        <5> QED BY <3>1, <5>2 DEF At, Left
      <4>2. Left(t) \cap Factor # {}
        BY <4>1 DEF Factor
      <4>3. Of(t) \in clashed
        BY <2>1, <3>4, <4>2 DEF FactorsAreKept
      <4> QED BY <3>1, <4>3
    <3> QED BY <3>2, <3>3, <3>4
  <2>2. CASE t = s
    <3>1. Busy(s)' /\ Of(s)' = Of(s) /\ "startedSetup" \in gone
      BY <1>3, <2>2 DEF Lessens, At, Of
    <3> QED BY <2>2, <3>1
  <2> QED BY <2>1, <2>2
<1> QED BY <1>2, <1>3 DEF FactorsAreKept

LEMMA RolesLessen ==
  ASSUME RolesAreKept, NEW s \in Slots, NEW gone, Lessens(s, gone),
         muddled => muddled', supers' = supers, At(s, "insertRoles") => muddled',
         muddled' \in BOOLEAN, muddled \in BOOLEAN,
         At(s, "deleteRoles")' /\ requests[s].arg = "other" /\ ~muddled => supers \ {Of(s)} # {}
  PROVE  RolesAreKept'
<1> SUFFICES ASSUME ~muddled', ~muddled
             PROVE  /\ \A r, t \in Slots : Left(r)' \cap Roles # {} /\ Left(t)' \cap Roles # {} => r = t
                    /\ \A t \in Slots : Left(t)' \cap Roles # {} => requests'[t].arg \in {"super", "other"}
                    /\ supers = {} => \E t \in Slots : At(t, "insertRoles")' /\ requests'[t].arg = "super"
                    /\ \A t \in Slots : At(t, "deleteRoles")' /\ requests'[t].arg = "other"
                         => supers \ {Of(t)'} # {}
  BY DEF RolesAreKept
<1>1. /\ \A r, t \in Slots : Left(r) \cap Roles # {} /\ Left(t) \cap Roles # {} => r = t
      /\ \A t \in Slots : Left(t) \cap Roles # {} => requests[t].arg \in {"super", "other"}
      /\ supers = {} => \E t \in Slots : At(t, "insertRoles") /\ requests[t].arg = "super"
      /\ \A t \in Slots : At(t, "deleteRoles") /\ requests[t].arg = "other" => supers \ {Of(t)} # {}
  BY DEF RolesAreKept
<1>2. ASSUME NEW t \in Slots, Left(t)' \cap Roles # {}
      PROVE  Left(t) \cap Roles # {} /\ requests'[t].arg = requests[t].arg
  <2>1. CASE t # s
    BY <1>2, <2>1, OthersKeep DEF Lessens, Others
  <2>2. CASE t = s
    BY <1>2, <2>2 DEF Lessens
  <2> QED BY <2>1, <2>2
<1>3. ASSUME supers = {} PROVE \E t \in Slots : At(t, "insertRoles")' /\ requests'[t].arg = "super"
  <2>1. PICK t \in Slots : At(t, "insertRoles") /\ requests[t].arg = "super"
    BY <1>1, <1>3
  <2>2. t # s
    BY <2>1
  <2> QED BY <2>1, <2>2, OthersKeep DEF Lessens, Others
<1>4. ASSUME NEW t \in Slots, At(t, "deleteRoles")', requests'[t].arg = "other" PROVE supers \ {Of(t)'} # {}
  <2>1. CASE t # s
    <3>1. At(t, "deleteRoles") /\ Of(t)' = Of(t) /\ requests[t].arg = "other"
      BY <1>4, <2>1, OthersKeep DEF Lessens
    <3> QED BY <1>1, <3>1
  <2>2. CASE t = s
    BY <1>4, <2>2 DEF Lessens, At, Of
  <2> QED BY <2>1, <2>2
<1> QED BY <1>1, <1>2, <1>3, <1>4

LEMMA LoginsLessen ==
  ASSUME LoginsStand, NEW s \in Slots, NEW gone, Lessens(s, gone), tokens \subseteq tokens',
         \/ locked' \subseteq locked
         \/ locked' \subseteq locked \cup {Of(s)} /\ Touches(s) /\ Left(s)' \cap Entering = {},
         \/ totp' = totp
         \/ /\ totp' \subseteq totp \cup {Of(s)} /\ totp \ {Of(s)} \subseteq totp'
            /\ Touches(s) /\ Left(s)' \cap Entering = {}
  PROVE  LoginsStand'
<1> SUFFICES ASSUME NEW t \in Slots PROVE Stands(t)'
  BY DEF LoginsStand
<1>3. Stands(t) /\ {"code", "session", "resetFailures"} \subseteq Entering
  BY DEF LoginsStand, Entering
<1>1. CASE t # s
  <2>1. /\ Left(t)' = Left(t) /\ Of(t)' = Of(t) /\ (Answered(t)' <=> Answered(t))
        /\ requests'[t].arg = requests[t].arg /\ (requests[t].touched => requests'[t].touched)
        /\ Touches(s) /\ ~requests'[t].touched => Left(t) \cap Entering = {} \/ Of(t) # Of(s)
    BY <1>1, OthersKeep DEF Lessens, Others, Touches, Answered
  <2>2. /\ "code" \in Left(t)' => Of(t)' \in tokens'
        /\ Left(t)' \cap {"session", "resetFailures"} # {} /\ Answered(t)' => Of(t)' \in tokens'
    BY <1>3, <2>1 DEF Stands
  <2>3. ASSUME ~requests'[t].touched
        PROVE  /\ "resetFailures" \in Left(t)' /\ ~Answered(t)' => Of(t)' \notin locked'
               /\ "session" \in Left(t)' /\ requests'[t].arg = "login" => Of(t)' \notin totp'
               /\ "session" \in Left(t)' /\ Answered(t)' => Of(t)' \in totp'
    BY <1>3, <2>1, <2>3 DEF Stands
  <2> QED BY <2>2, <2>3 DEF Stands
<1>2. CASE t = s
  <2>1. CASE Busy(s)'
    <3>1. /\ Left(t)' \subseteq Left(t) /\ Of(t)' = Of(t) /\ (Answered(t)' <=> Answered(t))
          /\ requests'[t].arg = requests[t].arg /\ requests'[t].touched = requests[t].touched
      BY <1>2, <2>1 DEF Lessens, Of, Answered
    <3>2. /\ "code" \in Left(t)' => Of(t)' \in tokens'
          /\ Left(t)' \cap {"session", "resetFailures"} # {} /\ Answered(t)' => Of(t)' \in tokens'
      BY <1>3, <3>1 DEF Stands
    <3>3. ASSUME ~requests'[t].touched
          PROVE  /\ "resetFailures" \in Left(t)' /\ ~Answered(t)' => Of(t)' \notin locked'
                 /\ "session" \in Left(t)' /\ requests'[t].arg = "login" => Of(t)' \notin totp'
                 /\ "session" \in Left(t)' /\ Answered(t)' => Of(t)' \in totp'
      BY <1>2, <1>3, <3>1, <3>3 DEF Stands
    <3> QED BY <3>2, <3>3 DEF Stands
  <2>2. CASE ~Busy(s)'
    BY <1>2, <2>2 DEF Lessens, Stands
  <2> QED BY <2>1, <2>2
<1> QED BY <1>1, <1>2
-----------------------------------------------------------------------------
(* Each statement. *)
LEMMA Settings == started \in 0..MaxRequests => started \in Nat
BY AccountsAssumption

LEMMA NoneIsNobody == None \notin Users /\ \A c \in Codes : c \notin {"login", "challenge", "answer", None}
BY AccountsAssumption DEF Statuses

(* A step of the requests alone. *)
LEMMA OnlyRequests ==
  ASSUME IInv, NEW s \in Slots, NEW gone, Lessens(s, gone),
         UNCHANGED <<status, supers, lock, factor, logins, started, mishaps, history>>,
         "removeCode" \notin gone, ~At(s, "revoke"), ~At(s, "insertRoles"),
         "activeUser" \in gone => ~Busy(s)' \/ status[Of(s)] = "active",
         "startedSetup" \in gone => ~Busy(s)' \/ Of(s) \in secret,
         At(s, "deleteRoles")' /\ requests[s].arg = "other" /\ ~muddled => supers \ {Of(s)} # {}
  PROVE  IInv'
<1> USE NoneIsNobody DEF IInv, Typed
<1>1. /\ status' = status /\ supers' = supers /\ failures' = failures /\ locked' = locked
      /\ secret' = secret /\ totp' = totp /\ codes' = codes /\ issued' = issued
      /\ tokens' = tokens /\ sessions' = sessions /\ active' = active /\ opened' = opened /\ late' = late
      /\ started' = started /\ mishaps' = mishaps
      /\ shared' = shared /\ unrevoked' = unrevoked /\ clashed' = clashed /\ muddled' = muddled
  BY DEF lock, factor, logins, history
<1>2. RequestsTyped' /\ RequestsMakeSense'
  BY SenseLessens
<1>3. RestTyped'
  BY <1>1 DEF RestTyped
<1>4. FailuresWereTried'
  <2>1. \A u \in Users : failures[u] \in Nat
    BY DEF RestTyped
  <2> QED BY <1>1, <2>1, Settings, TriesLessen, TryingLessens DEF RestTyped
<1>5. EnteringIsActive'
  BY <1>1, EnteringLessens
<1>6. SessionsEnd'
  BY <1>1, SessionsLessen
<1>7. CodesAreHeldOnce'
  BY <1>1, CodesLessen
<1>8. FactorsAreKept'
  <2>1. FactorHasItsSecret'
    BY <1>1 DEF FactorsAreKept, FactorHasItsSecret
  <2> QED BY <1>1, <2>1, FactorsLessen
<1>9. RolesAreKept'
  BY <1>1, RolesLessen DEF RestTyped
<1>10. LoginsStand'
  BY <1>1, LoginsLessen
<1> QED BY <1>2, <1>3, <1>4, <1>5, <1>6, <1>7, <1>8, <1>9, <1>10

LEMMA CheckKeeps ==
  ASSUME IInv, NEW s \in Slots, NEW name, NEW ok, Check(s, name, ok), UNCHANGED <<started, mishaps>>,
         name \notin {"removeCode", "revoke", "insertRoles", "upsert"},
         name = "activeUser" /\ ok => status[Of(s)] = "active",
         name = "startedSetup" /\ ok => Of(s) \in secret,
         name = "several" /\ ok => supers \ {Of(s)} # {}
  PROVE  IInv'
<1>1. RequestsTyped /\ At(s, name) /\ Busy(s)
  BY DEF IInv, Typed, Check, At
<1>2. Lessens(s, {name}) /\ (~ok => ~Busy(s)')
  <2>1. CASE ok
    <3>1. Go(s)
      BY <2>1 DEF Check
    <3> QED BY <1>1, <2>1, <3>1, GoLessens
  <2>2. CASE ~ok
    <3>1. Continue(s, Idle)
      BY <2>2 DEF Check
    <3> QED BY <1>1, <3>1, EndLessens
  <2> QED BY <2>1, <2>2
<1>3. UNCHANGED <<status, supers, lock, factor, logins, started, mishaps, history>>
  BY DEF Check
<1>4. ~At(s, "revoke") /\ ~At(s, "insertRoles")
  BY <1>1 DEF At
<1>5. ASSUME At(s, "deleteRoles")' PROVE name = "several" /\ ok
  <2>1. Busy(s)'
    BY <1>5 DEF At
  <2> QED BY <1>2, <1>5, <2>1 DEF Lessens
<1> QED BY <1>2, <1>3, <1>4, <1>5, OnlyRequests

(* More than one: one that is somebody else. *)
LEMMA SeveralOthers == ASSUME NEW S, Cardinality(S) > 1, NEW u PROVE S \ {u} # {}
<1> SUFFICES ASSUME S \subseteq {u} PROVE FALSE
  OBVIOUS
<1>1. S = {} \/ S = {u}
  OBVIOUS
<1>2. Cardinality(S) = 0 \/ Cardinality(S) = 1
  BY <1>1, FS_EmptySet, FS_Singleton
<1> QED BY <1>2

LEMMA ChecksKeep ==
  ASSUME IInv, NEW s \in Slots, UNCHANGED <<started, mishaps>>,
         \/ ActiveUser(s) \/ Found(s) \/ Differs(s) \/ StartedSetup(s) \/ Enabled(s) \/ TotpOn(s)
         \/ Several(s)
  PROVE  IInv'
<1>1. CASE ActiveUser(s)
  <2>1. Check(s, "activeUser", status[Of(s)] = "active")
    BY <1>1 DEF ActiveUser
  <2> QED BY <2>1, CheckKeeps
<1>2. CASE Found(s)
  <2>1. Check(s, "found", status[Of(s)] # "deleted")
    BY <1>2 DEF Found
  <2> QED BY <2>1, CheckKeeps
<1>3. CASE Differs(s)
  <2>1. Check(s, "differs", status[Of(s)] \notin {"deleted", requests[s].arg})
    BY <1>3 DEF Differs
  <2> QED BY <2>1, CheckKeeps
<1>4. CASE StartedSetup(s)
  <2>1. Check(s, "startedSetup", Of(s) \in secret \ totp)
    BY <1>4 DEF StartedSetup
  <2> QED BY <2>1, CheckKeeps
<1>5. CASE Enabled(s)
  <2>1. Check(s, "enabled", Of(s) \in secret \cap totp)
    BY <1>5 DEF Enabled
  <2> QED BY <2>1, CheckKeeps
<1>6. CASE TotpOn(s)
  <2>1. Check(s, "totpOn", Of(s) \in totp)
    BY <1>6 DEF TotpOn
  <2> QED BY <2>1, CheckKeeps
<1>7. CASE Several(s)
  <2>1. Check(s, "several", Cardinality(supers) > 1)
    BY <1>7 DEF Several
  <2>2. Cardinality(supers) > 1 => supers \ {Of(s)} # {}
    BY SeveralOthers
  <2> QED BY <2>1, <2>2, CheckKeeps
<1> QED BY <1>1, <1>2, <1>3, <1>4, <1>5, <1>6, <1>7

(* Who is not to be counted is not super_admin, or stays it; somebody else is. *)
LEMMA WasSuperKeeps ==
  ASSUME IInv, NEW s \in Slots, WasSuper(s), UNCHANGED <<started, mishaps>>
  PROVE  IInv'
<1> DEFINE counted == Of(s) \in supers /\ requests[s].arg = "other"
<1>1. RequestsTyped /\ At(s, "wasSuper") /\ Busy(s) /\ ~At(s, "revoke") /\ ~At(s, "insertRoles")
  BY DEF IInv, Typed, WasSuper, At
<1>2. UNCHANGED <<status, supers, lock, factor, logins, started, mishaps, history>>
  BY DEF WasSuper
<1>3. CASE counted
  <2>1. Go(s)
    BY <1>3 DEF WasSuper, Todo, Go
  <2>2. Lessens(s, {"wasSuper"})
    BY <1>1, <2>1, GoLessens
  <2>3. ~At(s, "deleteRoles")'
    BY <2>2 DEF Lessens, At
  <2> QED BY <1>1, <1>2, <2>2, <2>3, OnlyRequests
<1>4. CASE ~counted
  <2> DEFINE todo == Tail(Rest(s))
             gone == {"wasSuper", "several"}
             r == [requests[s] EXCEPT !.todo = todo]
  <2>1. /\ Rest(s) \in Todos /\ Rest(s) # <<>> /\ Head(Rest(s)) = "several"
        /\ Names(Rest(s)) = Left(s) \ {"wasSuper"}
    <3>1. /\ requests[s].todo \in Todos /\ requests[s].todo # <<>> /\ Head(requests[s].todo) = "wasSuper"
          /\ Rest(s) \in Todos /\ Names(Rest(s)) = Left(s) \ {"wasSuper"}
      BY <1>1, HeadIsLeft DEF At, Busy
    <3> QED BY <3>1, Follows DEF Rest
  <2>2. /\ todo \in Todos /\ Names(todo) = Left(s) \ gone
        /\ todo # <<>> => Head(todo) # "enable"
    BY <2>1, Follows
  <2>3. /\ r \in Request /\ r.todo = todo /\ r.user = requests[s].user
        /\ r.arg = requests[s].arg /\ r.touched = requests[s].touched
    BY <1>1, <2>2, Todoed
  <2>4. Continue(s, r)
    BY <1>4 DEF WasSuper, Todo
  <2> HIDE DEF todo, r
  <2>5. /\ requests' \in [Slots -> Request] /\ Others(s)
        /\ todo # <<>> => requests'[s] = r
        /\ todo = <<>> => requests'[s] = Idle
    BY <1>1, <2>3, <2>4, SetRequest
  <2>6. Lessens(s, gone)
    <3>1. CASE todo = <<>>
      BY <1>1, <2>5, <3>1, IdleIsDone DEF Lessens
    <3>2. CASE todo # <<>>
      <4>1. Busy(s)' /\ Left(s)' = Left(s) \ gone /\ ~At(s, "enable")'
        BY <2>2, <2>3, <2>5, <3>2 DEF Busy, Left, At
      <4> QED BY <1>1, <2>3, <2>5, <3>2, <4>1 DEF Lessens
    <3> QED BY <3>1, <3>2
  <2>7. ASSUME At(s, "deleteRoles")', requests[s].arg = "other", ~muddled
        PROVE  supers \ {Of(s)} # {}
    <3>1. "deleteRoles" \in Left(s)
      <4>1. Busy(s)' /\ Left(s)' = Left(s) \ gone
        BY <2>6, <2>7 DEF Lessens, At
      <4>2. Head(requests'[s].todo) = "deleteRoles" /\ requests'[s].todo # <<>> /\ requests'[s].todo \in Todos
        BY <2>5, <2>7 DEF At, Busy, Request
      <4> QED BY <4>1, <4>2, Follows DEF Left
    <3>2. supers # {}
      <4>1. ASSUME NEW t \in Slots, At(t, "insertRoles") PROVE FALSE
        <5>1. "insertRoles" \in Left(t)
          BY <1>1, <4>1, HeadIsLeft DEF At
        <5>2. t = s
          BY <2>7, <3>1, <5>1 DEF IInv, RolesAreKept, Roles
        <5> QED BY <1>1, <4>1, <5>2
      <4> QED BY <2>7, <4>1 DEF IInv, RolesAreKept
    <3> QED BY <1>4, <2>7, <3>2
  <2> QED BY <1>1, <1>2, <2>6, <2>7, OnlyRequests
<1> QED BY <1>3, <1>4
(* A statement that changes something: each part of the invariant is kept where the step leaves
   alone what the part is about, and is for the statement to show where it does not. *)
LEMMA StatementKeeps ==
  ASSUME IInv, NEW s \in Slots, NEW h, At(s, h), Lessens(s, {h}), RestTyped', started' = started,
         FailuresWereTried' \/ failures' = failures,
         EnteringIsActive' \/ (status' = status /\ h # "activeUser"),
         \/ SessionsEnd'
         \/ /\ status' = status /\ sessions' = sessions /\ active' = active /\ late' = late
            /\ unrevoked' = unrevoked /\ h # "revoke",
         \/ CodesAreHeldOnce'
         \/ /\ shared' = shared /\ opened' = opened /\ issued' = issued /\ codes' = codes
            /\ h # "removeCode",
         \/ FactorsAreKept'
         \/ totp' = totp /\ secret' = secret /\ clashed' = clashed /\ h # "startedSetup",
         \/ RolesAreKept'
         \/ supers' = supers /\ muddled' = muddled /\ h \notin {"insertRoles", "several", "upsert"},
         LoginsStand' \/ (locked' = locked /\ totp' = totp /\ tokens' = tokens)
  PROVE  IInv'
<1> USE NoneIsNobody DEF IInv, Typed
<1>2. RequestsTyped' /\ RequestsMakeSense'
  BY SenseLessens
<1>4. FailuresWereTried'
  <2>1. \A u \in Users : failures[u] \in Nat
    BY DEF RestTyped
  <2> QED BY <2>1, Settings, TriesLessen, TryingLessens DEF RestTyped
<1>5. EnteringIsActive'
  BY EnteringLessens
<1>6. SessionsEnd'
  <2> SUFFICES ASSUME /\ status' = status /\ sessions' = sessions /\ active' = active /\ late' = late
                      /\ unrevoked' = unrevoked /\ h # "revoke"
               PROVE  SessionsEnd'
    OBVIOUS
  <2>1. ~At(s, "revoke")
    BY DEF At
  <2> QED BY <2>1, SessionsLessen
<1>7. CodesAreHeldOnce'
  BY CodesLessen
<1>8. FactorsAreKept'
  <2> SUFFICES ASSUME totp' = totp, secret' = secret, clashed' = clashed, h # "startedSetup"
               PROVE  FactorsAreKept'
    OBVIOUS
  <2>1. FactorHasItsSecret'
    BY DEF FactorsAreKept, FactorHasItsSecret
  <2> QED BY <2>1, FactorsLessen
<1>9. RolesAreKept'
  <2> SUFFICES ASSUME supers' = supers, muddled' = muddled, h \notin {"insertRoles", "several", "upsert"}
               PROVE  RolesAreKept'
    OBVIOUS
  <2>1. ~At(s, "insertRoles")
    BY DEF At
  <2>2. ~At(s, "deleteRoles")'
    BY DEF Lessens, At
  <2> QED BY <2>1, <2>2, RolesLessen DEF RestTyped
<1>10. LoginsStand'
  BY LoginsLessen
<1> QED BY <1>2, <1>4, <1>5, <1>6, <1>7, <1>8, <1>9, <1>10

(* Whose turn it is is somebody. *)
LEMMA OfIsUser ==
  ASSUME IInv, NEW s \in Slots, NEW h, At(s, h)
  PROVE  RequestsTyped /\ Busy(s) /\ Of(s) \in Users /\ h \in Left(s) /\ requests[s].todo \in Todos
<1>1. RequestsTyped /\ Busy(s) /\ Of(s) \in Users
  BY DEF IInv, Typed, At, RequestsMakeSense
<1> QED BY <1>1, HeadIsLeft DEF At

(* The request that fails is the one that tried. *)
LEMMA IncrementKeeps ==
  ASSUME IInv, NEW s \in Slots, IncrementFailedAttempts(s), UNCHANGED <<started, mishaps>>
  PROVE  IInv'
<1> DEFINE u == Of(s)
<1>1. At(s, "increment") /\ RequestsTyped /\ u \in Users /\ "increment" \in Left(s) /\ requests[s].todo \in Todos
  BY OfIsUser DEF IncrementFailedAttempts, Increment
<1>2. failures' = [failures EXCEPT ![u] = @ + 1]
  BY DEF IncrementFailedAttempts, Increment
<1>3. /\ status' = status /\ supers' = supers /\ totp' = totp /\ secret' = secret /\ codes' = codes
      /\ issued' = issued /\ tokens' = tokens /\ sessions' = sessions /\ active' = active
      /\ opened' = opened /\ late' = late /\ shared' = shared /\ unrevoked' = unrevoked
      /\ clashed' = clashed /\ muddled' = muddled /\ started' = started /\ mishaps' = mishaps
  BY DEF IncrementFailedAttempts, Increment, factor, logins, history
<1>4. /\ Lessens(s, {"increment"})
      /\ locked' = locked \/ (locked' = locked \cup {u} /\ Touches(s))
  <2>1. CASE failures[u] + 1 >= MaxFailures
    <3>1. Touch(s, Rest(s)) /\ locked' = locked \cup {u}
      BY <2>1 DEF IncrementFailedAttempts, Increment
    <3>2. Lessens(s, {"increment"}) /\ Touches(s)
      BY <1>1, <3>1, TouchLessens
    <3> QED BY <3>1, <3>2
  <2>2. CASE ~(failures[u] + 1 >= MaxFailures)
    <3>1. Go(s) /\ locked' = locked
      BY <2>2 DEF IncrementFailedAttempts, Increment
    <3>2. Lessens(s, {"increment"})
      BY <1>1, <3>1, GoLessens
    <3> QED BY <3>1, <3>2
  <2> QED BY <2>1, <2>2
<1>5. Left(s) \cap Entering = {} /\ Left(s)' \subseteq Left(s) \ {"increment"}
  <2>1. Left(s) \cap Entering = {}
    BY <1>1, ChangingIsNotEntering DEF Left, Changing
  <2> QED BY <1>4, <2>1 DEF Lessens
<1>6. RestTyped'
  BY <1>1, <1>2, <1>3, <1>4 DEF RestTyped, IInv, Typed
<1>7. FailuresWereTried'
  <2> SUFFICES ASSUME NEW v \in Users PROVE failures'[v] + Cardinality(Trying(v)') <= started
    BY <1>3 DEF FailuresWereTried
  <2>1. /\ failures[v] + Cardinality(Trying(v)) <= started /\ failures[v] \in Nat /\ started \in Nat
        /\ Trying(v)' \subseteq Trying(v) /\ IsFiniteSet(Trying(v)) /\ Cardinality(Trying(v)) \in Nat
    BY <1>4, Settings, TryingIsFinite, TryingLessens, NoneIsNobody
       DEF IInv, Typed, RestTyped, FailuresWereTried
  <2>2. CASE v # u
    <3>1. failures'[v] = failures[v]
      BY <1>2, <2>1, <2>2 DEF IInv, Typed, RestTyped
    <3>2. Cardinality(Trying(v)') <= Cardinality(Trying(v)) /\ Cardinality(Trying(v)') \in Nat
      BY <2>1, FS_Subset, FS_CardinalityType
    <3> QED BY <2>1, <3>1, <3>2
  <2>3. CASE v = u
    <3>1. failures'[v] = failures[v] + 1
      BY <1>2, <2>1, <2>3 DEF IInv, Typed, RestTyped
    <3>2. s \in Trying(v)
      BY <1>1, <2>3 DEF Trying
    <3>3. s \notin Trying(v)'
      BY <1>5 DEF Trying, Entering
    <3>4. Cardinality(Trying(v) \ {s}) = Cardinality(Trying(v)) - 1 /\ IsFiniteSet(Trying(v) \ {s})
      BY <2>1, <3>2, FS_RemoveElement
    <3>5. Trying(v)' \subseteq Trying(v) \ {s}
      BY <2>1, <3>3
    <3>6. Cardinality(Trying(v)') <= Cardinality(Trying(v) \ {s}) /\ Cardinality(Trying(v)') \in Nat
      BY <3>4, <3>5, FS_Subset, FS_CardinalityType
    <3> QED BY <2>1, <3>1, <3>4, <3>6
  <2> QED BY <2>2, <2>3
<1>8. LoginsStand'
  BY <1>3, <1>4, <1>5, LoginsLessen DEF IInv
<1> QED BY <1>1, <1>3, <1>4, <1>6, <1>7, <1>8, StatementKeeps

LEMMA ResetKeeps ==
  ASSUME IInv, NEW s \in Slots, ResetFailedAttempts(s), UNCHANGED <<started, mishaps>>
  PROVE  IInv'
<1> DEFINE u == Of(s)
<1>1. At(s, "resetFailures") /\ RequestsTyped /\ u \in Users
  BY OfIsUser DEF ResetFailedAttempts
<1>2. /\ failures' = [failures EXCEPT ![u] = 0] /\ locked' = locked \ {u}
      /\ tokens' \subseteq tokens \cup {u} /\ tokens \subseteq tokens'
  BY DEF ResetFailedAttempts
<1>3. /\ status' = status /\ supers' = supers /\ totp' = totp /\ secret' = secret /\ codes' = codes
      /\ issued' = issued /\ sessions' = sessions /\ active' = active
      /\ opened' = opened /\ late' = late /\ shared' = shared /\ unrevoked' = unrevoked
      /\ clashed' = clashed /\ muddled' = muddled /\ started' = started /\ mishaps' = mishaps
  BY DEF ResetFailedAttempts, factor, history
<1>4. Lessens(s, {"resetFailures"})
  BY <1>1, GoLessens DEF ResetFailedAttempts
<1>5. RestTyped'
  BY <1>1, <1>2, <1>3 DEF RestTyped, IInv, Typed
<1>6. FailuresWereTried'
  <2>1. /\ failures \in [Users -> Nat] /\ failures' \in [Users -> Nat] /\ started \in Nat
        /\ \A v \in Users : failures'[v] <= failures[v]
    BY <1>1, <1>2, <1>5, Settings DEF RestTyped, IInv, Typed
  <2>2. \A v \in Users : Trying(v)' \subseteq Trying(v)
    BY <1>4, TryingLessens, NoneIsNobody
  <2> QED BY <1>3, <2>1, <2>2, TriesLessen DEF IInv
<1>7. LoginsStand'
  BY <1>2, <1>3, <1>4, LoginsLessen DEF IInv
<1> QED BY <1>1, <1>3, <1>4, <1>5, <1>6, <1>7, StatementKeeps

LEMMA PasswordKeeps ==
  ASSUME IInv, NEW s \in Slots, UpdatePassword(s), UNCHANGED <<started, mishaps>>
  PROVE  IInv'
<1>1. At(s, "password") /\ RequestsTyped /\ Of(s) \in Users
  BY OfIsUser DEF UpdatePassword
<1>2. failures' = [failures EXCEPT ![Of(s)] = 0]
  BY DEF UpdatePassword
<1>3. /\ status' = status /\ supers' = supers /\ totp' = totp /\ secret' = secret /\ codes' = codes
      /\ issued' = issued /\ sessions' = sessions /\ active' = active /\ locked' = locked
      /\ opened' = opened /\ late' = late /\ shared' = shared /\ unrevoked' = unrevoked
      /\ tokens' = tokens
      /\ clashed' = clashed /\ muddled' = muddled /\ started' = started /\ mishaps' = mishaps
  BY DEF UpdatePassword, factor, history, logins
<1>4. Lessens(s, {"password"})
  BY <1>1, GoLessens DEF UpdatePassword
<1>5. RestTyped'
  BY <1>1, <1>2, <1>3 DEF RestTyped, IInv, Typed
<1>6. FailuresWereTried'
  <2>1. /\ failures \in [Users -> Nat] /\ failures' \in [Users -> Nat] /\ started \in Nat
        /\ \A v \in Users : failures'[v] <= failures[v]
    BY <1>1, <1>2, <1>5, Settings DEF RestTyped, IInv, Typed
  <2>2. \A v \in Users : Trying(v)' \subseteq Trying(v)
    BY <1>4, TryingLessens, NoneIsNobody
  <2> QED BY <1>3, <2>1, <2>2, TriesLessen DEF IInv
<1> QED BY <1>1, <1>3, <1>4, <1>5, <1>6, StatementKeeps
LEMMA RemoveCodeKeeps ==
  ASSUME IInv, NEW s \in Slots, RemoveBackupCode(s), UNCHANGED <<started, mishaps>>
  PROVE  IInv'
<1> DEFINE u == Of(s)
<1>1. At(s, "removeCode") /\ RequestsTyped /\ u \in Users
  BY OfIsUser DEF RemoveBackupCode
<1>2. codes' = [codes EXCEPT ![u] = @ \ {requests[s].arg}]
  BY DEF RemoveBackupCode
<1>3. /\ status' = status /\ supers' = supers /\ totp' = totp /\ secret' = secret
      /\ issued' = issued /\ sessions' = sessions /\ active' = active /\ locked' = locked
      /\ opened' = opened /\ late' = late /\ shared' = shared /\ unrevoked' = unrevoked
      /\ tokens' = tokens /\ failures' = failures
      /\ clashed' = clashed /\ muddled' = muddled /\ started' = started /\ mishaps' = mishaps
  BY DEF RemoveBackupCode, lock, history, logins
<1>4. Lessens(s, {"removeCode"})
  BY <1>1, GoLessens DEF RemoveBackupCode
<1>5. /\ codes' \in [Users -> SUBSET issued]
      /\ \A v \in Users : codes'[v] \subseteq codes[v]
      /\ requests[s].arg \notin codes'[u]
  BY <1>1, <1>2 DEF RestTyped, IInv, Typed
<1>6. RestTyped'
  BY <1>3, <1>5 DEF RestTyped, IInv, Typed
<1>7. CodesAreHeldOnce'
  <2>1. \A v \in Users : \A c \in codes'[v] : c \in codes[v] \/ c \notin issued
    BY <1>5
  <2> QED BY <1>3, <1>4, <1>5, <2>1, CodesLessen DEF IInv, Typed
<1> QED BY <1>1, <1>3, <1>4, <1>6, <1>7, StatementKeeps

LEMMA DeactivateKeeps ==
  ASSUME IInv, NEW s \in Slots, Deactivate(s) \/ DeactivateAllForUser(s), UNCHANGED <<started, mishaps>>
  PROVE  IInv'
<1>1. PICK h \in {"deactivate", "revoke"} : At(s, h) /\ Go(s) /\ (h = "deactivate" => Deactivate(s))
                                           /\ (h = "revoke" => DeactivateAllForUser(s))
  BY DEF Deactivate, DeactivateAllForUser
<1>2. /\ status' = status /\ supers' = supers /\ totp' = totp /\ secret' = secret /\ codes' = codes
      /\ issued' = issued /\ sessions' = sessions /\ locked' = locked
      /\ opened' = opened /\ late' = late /\ shared' = shared /\ unrevoked' = unrevoked
      /\ tokens' = tokens /\ failures' = failures
      /\ clashed' = clashed /\ muddled' = muddled /\ started' = started /\ mishaps' = mishaps
  BY <1>1 DEF Deactivate, DeactivateAllForUser, lock, factor, history
<1>3. active' \subseteq active
  BY <1>1 DEF Deactivate, DeactivateAllForUser
<1>4. RequestsTyped /\ Lessens(s, {h})
  BY <1>1, OfIsUser, GoLessens
<1>5. RestTyped'
  BY <1>2, <1>3 DEF RestTyped, IInv, Typed
<1>6. SessionsEnd'
  <2>1. ASSUME At(s, "revoke") PROVE \A k \in active' : sessions[k] = Of(s) => k = requests[s].arg
    <3>1. h = "revoke"
      BY <1>1, <2>1 DEF At
    <3> QED BY <1>1, <3>1 DEF DeactivateAllForUser
  <2> QED BY <1>2, <1>3, <1>4, <2>1, SessionsLessen DEF IInv
<1> QED BY <1>1, <1>2, <1>4, <1>5, <1>6, StatementKeeps

(* A new session is of a user who is active, and used up the code that was held for it. *)
LEMMA CreateSessionKeeps ==
  ASSUME IInv, NEW s \in Slots, CreateSession(s), UNCHANGED <<started, mishaps>>
  PROVE  IInv'
<1> DEFINE u == Of(s)
           r == requests[s]
<1>1. At(s, "session") /\ RequestsTyped /\ u \in Users /\ "session" \in Left(s) /\ r.todo \in Todos /\ Busy(s)
  BY OfIsUser DEF CreateSession
<1>2. PICK k \in Sessions :
        /\ sessions[k] = None /\ sessions' = [sessions EXCEPT ![k] = u] /\ active' = active \cup {k}
        /\ late' = IF r.touched THEN late \cup {k} ELSE late
  BY DEF CreateSession, Of
<1>3. opened' = IF r.arg \in Codes THEN [opened EXCEPT ![r.arg] = @ + 1] ELSE opened
  BY DEF CreateSession
<1>4. /\ status' = status /\ supers' = supers /\ totp' = totp /\ secret' = secret /\ codes' = codes
      /\ issued' = issued /\ locked' = locked
      /\ shared' = shared /\ unrevoked' = unrevoked
      /\ tokens' = tokens /\ failures' = failures
      /\ clashed' = clashed /\ muddled' = muddled /\ started' = started /\ mishaps' = mishaps
  BY DEF CreateSession, lock, factor, history
<1>5. Lessens(s, {"session"})
  BY <1>1, GoLessens DEF CreateSession
<1>6. /\ Left(s) \cap Entering # {} /\ "activeUser" \notin Left(s) /\ "removeCode" \notin Left(s)
      /\ ~r.touched => status[u] = "active"
  <2>1. "removeCode" \notin Left(s)
    BY <1>1, Follows DEF At, Left, Busy
  <2>2. "activeUser" \notin Left(s)
    BY <1>1, Follows DEF At, Left, Busy
  <2>3. Left(s) \cap Entering # {}
    BY <1>1 DEF Entering
  <2> QED BY <2>1, <2>2, <2>3 DEF IInv, EnteringIsActive
<1>7. RestTyped'
  <2>1. k \notin active \cup late
    BY <1>2 DEF RestTyped, IInv, Typed
  <2>2. opened' \in [Codes -> Nat]
    BY <1>3 DEF RestTyped, IInv, Typed
  <2>3. sessions' \in [Sessions -> Users \cup {None}] /\ sessions'[k] = u /\ \A l \in Sessions \ {k} : sessions'[l] = sessions[l]
    BY <1>1, <1>2 DEF RestTyped, IInv, Typed
  <2>4. active' \cup late' \cup unrevoked \subseteq {l \in Sessions : sessions'[l] # None}
    BY <1>1, <1>2, <2>3, NoneIsNobody DEF RestTyped, IInv, Typed
  <2> QED BY <1>4, <2>2, <2>3, <2>4 DEF RestTyped, IInv, Typed
<1>8. SessionsEnd'
  <2> SUFFICES ASSUME NEW l \in active' \ (late' \cup unrevoked), status[sessions'[l]] # "active"
               PROVE  \E t \in Slots : At(t, "revoke")' /\ Of(t)' = sessions'[l] /\ requests'[t].arg # l
    BY <1>4 DEF SessionsEnd
  <2>1. l # k
    <3>1. sessions'[k] = u
      BY <1>2 DEF RestTyped, IInv, Typed
    <3> QED BY <1>2, <1>6, <3>1
  <2>2. l \in active \ (late \cup unrevoked) /\ sessions'[l] = sessions[l]
    BY <1>2, <2>1 DEF RestTyped, IInv, Typed
  <2>3. PICK t \in Slots : At(t, "revoke") /\ Of(t) = sessions[l] /\ requests[t].arg # l
    BY <2>2 DEF IInv, SessionsEnd
  <2>4. t # s
    BY <1>1, <2>3 DEF At
  <2> QED BY <1>5, <2>2, <2>3, <2>4, OthersKeep DEF Lessens
<1>9. CodesAreHeldOnce'
  <2> SUFFICES ASSUME NEW c \in Codes, c \notin shared
               PROVE  /\ \A q, t \in Slots : Holds(q, c)' /\ Holds(t, c)' => q = t
                      /\ \A t \in Slots : Holds(t, c)' =>
                           /\ opened'[c] = 0 /\ c \in issued
                           /\ \A v \in Users : c \in codes[v] => v = Of(t)' /\ "removeCode" \in Left(t)'
                      /\ opened'[c] \in {0, 1}
                      /\ opened'[c] = 1 => c \in issued /\ \A v \in Users : c \notin codes[v]
    BY <1>4 DEF CodesAreHeldOnce
  <2>1. /\ \A q, t \in Slots : Holds(q, c) /\ Holds(t, c) => q = t
        /\ \A t \in Slots : Holds(t, c) =>
             /\ opened[c] = 0 /\ c \in issued
             /\ \A v \in Users : c \in codes[v] => v = Of(t) /\ "removeCode" \in Left(t)
        /\ opened[c] \in {0, 1}
        /\ opened[c] = 1 => c \in issued /\ \A v \in Users : c \notin codes[v]
    BY DEF IInv, CodesAreHeldOnce
  <2>2. ~Holds(s, c)'
    BY <1>5 DEF Lessens, Holds
  <2>3. ASSUME NEW t \in Slots, Holds(t, c)'
        PROVE  t # s /\ Holds(t, c) /\ Of(t)' = Of(t) /\ Left(t)' = Left(t)
    BY <1>5, <2>2, <2>3, OthersKeep DEF Lessens, Holds
  <2>4. CASE r.arg = c
    <3>1. Holds(s, c)
      BY <1>1, <2>4 DEF Holds
    <3>2. opened'[c] = 1
      BY <1>3, <2>1, <2>4, <3>1 DEF RestTyped, IInv, Typed
    <3>3. c \in issued /\ \A v \in Users : c \notin codes[v]
      BY <1>6, <2>1, <3>1
    <3> QED BY <2>1, <2>3, <3>1, <3>2, <3>3
  <2>5. CASE r.arg # c
    <3>1. opened'[c] = opened[c]
      BY <1>3, <2>5 DEF RestTyped, IInv, Typed
    <3> QED BY <2>1, <2>3, <3>1
  <2> QED BY <2>4, <2>5
<1> QED BY <1>1, <1>4, <1>5, <1>7, <1>8, <1>9, StatementKeeps
(* The second factor of a user is set; the codes are those it had, or new ones. *)
LEMMA SetFactorKeeps ==
  ASSUME IInv, NEW s \in Slots, NEW name \in Factor, NEW hasSecret, NEW on, NEW new \in SUBSET Codes,
         SetFactor(s, name, hasSecret, on, new), UNCHANGED <<started, mishaps>>,
         \A c \in new : c \in codes[Of(s)] \/ c \notin issued,
         on => hasSecret \/ Of(s) \in clashed
  PROVE  IInv'
<1> DEFINE u == Of(s)
<1>1. At(s, name) /\ RequestsTyped /\ u \in Users /\ name \in Left(s) /\ requests[s].todo \in Todos
  BY OfIsUser DEF SetFactor
<1>2. /\ secret' = IF hasSecret THEN secret \cup {u} ELSE secret \ {u}
      /\ totp' = IF on THEN totp \cup {u} ELSE totp \ {u}
      /\ codes' = [codes EXCEPT ![u] = new] /\ issued' = issued \cup new
  BY DEF SetFactor
<1>3. /\ status' = status /\ supers' = supers /\ sessions' = sessions /\ active' = active
      /\ locked' = locked /\ opened' = opened /\ late' = late /\ shared' = shared
      /\ unrevoked' = unrevoked /\ tokens' = tokens /\ failures' = failures
      /\ clashed' = clashed /\ muddled' = muddled /\ started' = started /\ mishaps' = mishaps
  BY DEF SetFactor, lock, history, logins
<1>4. Lessens(s, {name}) /\ Touches(s)
  BY <1>1, TouchLessens DEF SetFactor
<1>5. Left(s)' \cap Entering = {} /\ Left(s) \cap Factor # {} /\ name \notin {"startedSetup", "removeCode", "activeUser", "revoke", "insertRoles", "several", "upsert"}
  <2>1. Left(s) \cap Entering = {}
    BY <1>1, ChangingIsNotEntering DEF Left, Changing, Factor
  <2>2. Left(s)' \subseteq Left(s)
    BY <1>4 DEF Lessens
  <2> QED BY <1>1, <2>1, <2>2 DEF Factor
<1>6. /\ codes \in [Users -> SUBSET issued] /\ issued \subseteq Codes
      /\ \A v, w \in Users : v # w => codes[v] \cap codes[w] = {}
      /\ secret \cup totp \subseteq Users
  BY DEF IInv, Typed, RestTyped
<1>7. /\ codes' \in [Users -> SUBSET issued'] /\ codes'[u] = new
      /\ \A v \in Users \ {u} : codes'[v] = codes[v]
      /\ \A v, w \in Users : v # w => codes'[v] \cap codes'[w] = {}
  <2>1. /\ codes' \in [Users -> SUBSET issued'] /\ codes'[u] = new
        /\ \A v \in Users \ {u} : codes'[v] = codes[v]
    BY <1>1, <1>2, <1>6
  <2>2. \A v \in Users \ {u} : codes[v] \cap new = {}
    BY <1>1, <1>6
  <2> QED BY <1>6, <2>1, <2>2
<1>8. RestTyped'
  <2>1. secret' \cup totp' \subseteq Users /\ issued' \subseteq Codes
    BY <1>1, <1>2, <1>6
  <2> QED BY <1>3, <1>7, <2>1 DEF RestTyped, IInv, Typed
<1>9. CodesAreHeldOnce'
  <2>1. \A v \in Users : \A c \in codes'[v] : c \in codes[v] \/ c \notin issued
    BY <1>7
  <2>2. issued \subseteq issued'
    BY <1>2
  <2> QED BY <1>3, <1>4, <1>5, <2>1, <2>2, CodesLessen DEF IInv, Typed
<1>10. FactorsAreKept'
  <2>1. FactorHasItsSecret'
    BY <1>2, <1>3 DEF IInv, FactorsAreKept, FactorHasItsSecret
  <2>2. secret \ {u} \subseteq secret'
    BY <1>2
  <2> QED BY <1>3, <1>4, <1>5, <2>1, <2>2, FactorsLessen, NoneIsNobody DEF IInv, Typed
<1>11. LoginsStand'
  <2>1. totp' \subseteq totp \cup {u} /\ totp \ {u} \subseteq totp'
    BY <1>2
  <2> QED BY <1>3, <1>4, <1>5, <2>1, LoginsLessen DEF IInv
<1> QED BY <1>1, <1>3, <1>4, <1>5, <1>8, <1>9, <1>10, <1>11, StatementKeeps

LEMMA FactorStatementsKeep ==
  ASSUME IInv, NEW s \in Slots, UNCHANGED <<started, mishaps>>,
         SetTotpSecret(s) \/ EnableTotp(s) \/ DisableTotp(s) \/ UpdateBackupCodes(s)
  PROVE  IInv'
<1>1. codes \in [Users -> SUBSET issued] /\ issued \subseteq Codes
  BY DEF IInv, Typed, RestTyped
<1>2. CASE SetTotpSecret(s)
  <2>1. SetFactor(s, "secret", TRUE, FALSE, codes[Of(s)])
    BY <1>2 DEF SetTotpSecret
  <2>2. Of(s) \in Users
    BY <2>1, OfIsUser DEF SetFactor
  <2>3. codes[Of(s)] \in SUBSET Codes /\ "secret" \in Factor
    BY <1>1, <2>2 DEF Factor
  <2> QED BY <2>1, <2>3, SetFactorKeeps
<1>3. CASE EnableTotp(s)
  <2>1. PICK c \in Codes \ issued : SetFactor(s, "enable", Of(s) \in secret, TRUE, {c})
    BY <1>3 DEF EnableTotp
  <2>2. "enable" \in Factor /\ (TRUE => Of(s) \in secret \/ Of(s) \in clashed)
    BY <2>1 DEF SetFactor, IInv, FactorsAreKept, Factor
  <2>3. {c} \in SUBSET Codes /\ \A d \in {c} : d \in codes[Of(s)] \/ d \notin issued
    OBVIOUS
  <2> QED BY <2>1, <2>2, <2>3, SetFactorKeeps, Zenon
<1>4. CASE DisableTotp(s)
  <2>1. SetFactor(s, "disable", FALSE, FALSE, {})
    BY <1>4 DEF DisableTotp
  <2>2. "disable" \in Factor /\ {} \in SUBSET Codes
    BY DEF Factor
  <2> QED BY <2>1, <2>2, SetFactorKeeps
<1>5. CASE UpdateBackupCodes(s)
  <2>1. PICK c \in Codes \ issued : SetFactor(s, "newCodes", Of(s) \in secret, Of(s) \in totp, {c})
    BY <1>5 DEF UpdateBackupCodes
  <2>2. "newCodes" \in Factor /\ (Of(s) \in totp => Of(s) \in secret \/ Of(s) \in clashed)
    BY DEF Factor, IInv, FactorsAreKept, FactorHasItsSecret
  <2>3. {c} \in SUBSET Codes /\ \A d \in {c} : d \in codes[Of(s)] \/ d \notin issued
    OBVIOUS
  <2> QED BY <2>1, <2>2, <2>3, SetFactorKeeps, Zenon
<1> QED BY <1>2, <1>3, <1>4, <1>5

(* Who loses the role is not the last, or is about to have it again. *)
LEMMA DeleteRolesKeeps ==
  ASSUME IInv, NEW s \in Slots, DeleteRoles(s), UNCHANGED <<started, mishaps>>
  PROVE  IInv'
<1>1. At(s, "deleteRoles") /\ RequestsTyped /\ Of(s) \in Users /\ "deleteRoles" \in Left(s) /\ requests[s].todo \in Todos /\ Busy(s)
  BY OfIsUser DEF DeleteRoles
<1>2. /\ status' = status /\ supers' = supers \ {Of(s)} /\ totp' = totp /\ secret' = secret /\ codes' = codes
      /\ issued' = issued /\ sessions' = sessions /\ active' = active /\ locked' = locked
      /\ opened' = opened /\ late' = late /\ shared' = shared /\ unrevoked' = unrevoked
      /\ tokens' = tokens /\ failures' = failures
      /\ clashed' = clashed /\ muddled' = muddled /\ started' = started /\ mishaps' = mishaps
  BY DEF DeleteRoles, lock, history, logins, factor
<1>3. Lessens(s, {"deleteRoles"}) /\ requests'[s].todo = Rest(s)
  BY <1>1, GoLessens DEF DeleteRoles
<1>4. Rest(s) # <<>> /\ Head(Rest(s)) = "insertRoles"
  BY <1>1, Follows DEF At, Rest, Busy
<1>5. RestTyped'
  BY <1>2 DEF RestTyped, IInv, Typed
<1>6. RolesAreKept'
  <2> SUFFICES ASSUME ~muddled
               PROVE  /\ \A r, t \in Slots : Left(r)' \cap Roles # {} /\ Left(t)' \cap Roles # {} => r = t
                      /\ \A t \in Slots : Left(t)' \cap Roles # {} => requests'[t].arg \in {"super", "other"}
                      /\ supers' = {} => \E t \in Slots : At(t, "insertRoles")' /\ requests'[t].arg = "super"
                      /\ \A t \in Slots : At(t, "deleteRoles")' /\ requests'[t].arg = "other"
                           => supers' \ {Of(t)'} # {}
    BY <1>2 DEF RolesAreKept
  <2>1. /\ \A r, t \in Slots : Left(r) \cap Roles # {} /\ Left(t) \cap Roles # {} => r = t
        /\ \A t \in Slots : Left(t) \cap Roles # {} => requests[t].arg \in {"super", "other"}
        /\ \A t \in Slots : At(t, "deleteRoles") /\ requests[t].arg = "other" => supers \ {Of(t)} # {}
    BY DEF IInv, RolesAreKept
  <2>2. Left(s) \cap Roles # {} /\ At(s, "insertRoles")' /\ ~At(s, "deleteRoles")' /\ requests'[s].arg = requests[s].arg
    BY <1>1, <1>3, <1>4 DEF Roles, At, Busy, Lessens
  <2>3. ASSUME NEW t \in Slots, Left(t)' \cap Roles # {}
        PROVE  t = s
    <3>1. t # s => Left(t) \cap Roles # {}
      BY <1>3, <2>3, OthersKeep DEF Lessens
    <3> QED BY <2>1, <2>2, <3>1
  <2>4. ASSUME NEW t \in Slots, At(t, "deleteRoles")' PROVE FALSE
    <3>1. t # s /\ At(t, "deleteRoles")
      BY <1>3, <2>2, <2>4, OthersKeep DEF Lessens
    <3>2. "deleteRoles" \in Left(t)
      BY <1>1, <3>1, OfIsUser
    <3> QED BY <2>1, <2>2, <3>1, <3>2 DEF Roles
  <2>5. supers' = {} => requests'[s].arg = "super"
    BY <1>1, <1>2, <2>1, <2>2
  <2> QED BY <2>1, <2>2, <2>3, <2>4, <2>5
<1> QED BY <1>1, <1>2, <1>3, <1>5, <1>6, StatementKeeps

LEMMA InsertRolesKeeps ==
  ASSUME IInv, NEW s \in Slots, InsertRoles(s), UNCHANGED <<started, mishaps>>
  PROVE  IInv'
<1>1. At(s, "insertRoles") /\ RequestsTyped /\ Of(s) \in Users /\ "insertRoles" \in Left(s)
  BY OfIsUser DEF InsertRoles
<1>2. /\ status' = status /\ totp' = totp /\ secret' = secret /\ codes' = codes
      /\ issued' = issued /\ sessions' = sessions /\ active' = active /\ locked' = locked
      /\ opened' = opened /\ late' = late /\ shared' = shared /\ unrevoked' = unrevoked
      /\ tokens' = tokens /\ failures' = failures
      /\ clashed' = clashed /\ muddled' = muddled /\ started' = started /\ mishaps' = mishaps
  BY DEF InsertRoles, lock, history, logins, factor
<1>3. supers' = supers \cup {Of(s)} \/ (supers' = supers /\ requests[s].arg # "super")
  BY DEF InsertRoles
<1>4. Lessens(s, {"insertRoles"})
  BY <1>1, GoLessens DEF InsertRoles
<1>5. RestTyped'
  BY <1>1, <1>2, <1>3 DEF RestTyped, IInv, Typed
<1>6. RolesAreKept'
  <2> SUFFICES ASSUME ~muddled
               PROVE  /\ \A r, t \in Slots : Left(r)' \cap Roles # {} /\ Left(t)' \cap Roles # {} => r = t
                      /\ \A t \in Slots : Left(t)' \cap Roles # {} => requests'[t].arg \in {"super", "other"}
                      /\ supers' # {}
                      /\ \A t \in Slots : ~At(t, "deleteRoles")'
    BY <1>2 DEF RolesAreKept
  <2>1. /\ \A r, t \in Slots : Left(r) \cap Roles # {} /\ Left(t) \cap Roles # {} => r = t
        /\ \A t \in Slots : Left(t) \cap Roles # {} => requests[t].arg \in {"super", "other"}
        /\ supers = {} => \E t \in Slots : At(t, "insertRoles") /\ requests[t].arg = "super"
    BY DEF IInv, RolesAreKept
  <2>2. Left(s) \cap Roles # {} /\ ~At(s, "deleteRoles")'
    BY <1>1, <1>4 DEF Roles, At, Lessens
  <2>3. ASSUME NEW t \in Slots, Left(t)' \cap Roles # {}
        PROVE  t = s /\ Left(s)' \subseteq Left(s) /\ requests'[t].arg = requests[t].arg
    <3>1. t # s => Left(t) \cap Roles # {}
      BY <1>4, <2>3, OthersKeep DEF Lessens
    <3> QED BY <1>4, <2>1, <2>2, <2>3, <3>1 DEF Lessens
  <2>4. ASSUME NEW t \in Slots, At(t, "deleteRoles")' PROVE FALSE
    <3>1. t # s /\ At(t, "deleteRoles")
      BY <1>4, <2>2, <2>4, OthersKeep DEF Lessens
    <3>2. "deleteRoles" \in Left(t)
      BY <1>1, <3>1, OfIsUser
    <3> QED BY <2>1, <2>2, <3>1, <3>2 DEF Roles
  <2>5. supers' # {}
    <3> SUFFICES ASSUME supers = {}, supers' = supers, requests[s].arg # "super" PROVE FALSE
      BY <1>3
    <3>1. PICK t \in Slots : At(t, "insertRoles") /\ requests[t].arg = "super"
      BY <2>1
    <3>2. "insertRoles" \in Left(t)
      BY <3>1, OfIsUser
    <3> QED BY <2>1, <2>2, <3>1, <3>2 DEF Roles
  <2> QED BY <2>1, <2>2, <2>3, <2>4, <2>5
<1> QED BY <1>1, <1>2, <1>4, <1>5, <1>6, StatementKeeps
(* The status is set; who is put out has the revocation next, or is known not to. *)
LEMMA SetStatusKeeps ==
  ASSUME IInv, NEW s \in Slots, NEW name \in {"status", "softDelete", "upsert"}, NEW new \in Statuses,
         NEW todo \in {Rest(s), <<>>}, SetStatus(s, name, new, todo), UNCHANGED <<started, mishaps>>,
         name = "status" /\ new # "active" => todo = Rest(s)
  PROVE  IInv'
<1> DEFINE u == Of(s)
<1>1. At(s, name) /\ RequestsTyped /\ u \in Users /\ name \in Left(s) /\ requests[s].todo \in Todos /\ Busy(s)
  BY OfIsUser DEF SetStatus
<1>2. /\ status' = [status EXCEPT ![u] = IF @ = "deleted" THEN @ ELSE new]
      /\ unrevoked' = IF "revoke" \notin Names(todo) /\ new # "active" /\ name # "status"
                      THEN unrevoked \cup OfUser(u) ELSE unrevoked
  BY DEF SetStatus, Names
<1>3. /\ supers' = supers /\ totp' = totp /\ secret' = secret /\ codes' = codes
      /\ issued' = issued /\ sessions' = sessions /\ active' = active /\ locked' = locked
      /\ opened' = opened /\ late' = late /\ shared' = shared
      /\ tokens' = tokens /\ failures' = failures
      /\ clashed' = clashed /\ muddled' = muddled /\ started' = started /\ mishaps' = mishaps
  BY DEF SetStatus, lock, logins, factor
<1>4. Lessens(s, {name}) /\ requests'[s].todo = todo /\ Touches(s)
  BY <1>1, TouchLessens DEF SetStatus
<1>5. Left(s)' \cap Entering = {}
  <2>1. Left(s) \cap Entering = {}
    BY <1>1, ChangingIsNotEntering DEF Left, Changing
  <2> QED BY <1>4, <2>1 DEF Lessens
<1>6. /\ status \in [Users -> Statuses] /\ status'[u] = (IF status[u] = "deleted" THEN "deleted" ELSE new)
      /\ \A v \in Users \ {u} : status'[v] = status[v]
  BY <1>1, <1>2 DEF IInv, Typed, RestTyped
<1>7. RestTyped'
  <2>1. status' \in [Users -> Statuses]
    BY <1>2, <1>6
  <2>2. unrevoked' \subseteq {k \in Sessions : sessions[k] # None}
    BY <1>1, <1>2 DEF IInv, Typed, RestTyped, OfUser
  <2> QED BY <1>3, <2>1, <2>2 DEF IInv, Typed, RestTyped
<1>8. EnteringIsActive'
  <2> SUFFICES ASSUME NEW t \in Slots, Left(t)' \cap Entering # {}, "activeUser" \notin Left(t)',
                      ~requests'[t].touched
               PROVE  status'[Of(t)'] = "active"
    BY DEF EnteringIsActive
  <2>1. t # s
    BY <1>5
  <2>2. /\ Left(t) \cap Entering # {} /\ "activeUser" \notin Left(t) /\ ~requests[t].touched
        /\ Of(t)' = Of(t) /\ Of(t) # u
    <3>1. Left(t)' = Left(t) /\ Of(t)' = Of(t)
      BY <1>4, <2>1, OthersKeep DEF Lessens
    <3>2. Of(t) # u
      BY <1>4, <2>1, <3>1 DEF Touches
    <3>3. ~requests[t].touched
      BY <1>4, <2>1 DEF Lessens, Others
    <3> QED BY <3>1, <3>2, <3>3
  <2>3. Of(t) \in Users
    <3>1. Left(t) # {}
      BY <2>2
    <3>2. Busy(t)
      BY <3>1, Nothing DEF Left, Busy
    <3> QED BY <3>2 DEF IInv, Typed, RequestsMakeSense
  <2> QED BY <1>6, <2>2, <2>3 DEF IInv, EnteringIsActive
<1>9. SessionsEnd'
  <2> SUFFICES ASSUME NEW k \in active \ (late \cup unrevoked'), status'[sessions[k]] # "active"
               PROVE  \E t \in Slots : At(t, "revoke")' /\ Of(t)' = sessions[k] /\ requests'[t].arg # k
    BY <1>3 DEF SessionsEnd
  <2>1. k \in Sessions /\ sessions[k] \in Users
    BY DEF IInv, Typed, RestTyped
  <2>2. k \notin unrevoked
    BY <1>2
  <2>3. CASE status[sessions[k]] # "active"
    <3>1. PICK t \in Slots : At(t, "revoke") /\ Of(t) = sessions[k] /\ requests[t].arg # k
      BY <2>2, <2>3 DEF IInv, SessionsEnd
    <3>2. t # s
      BY <1>1, <3>1 DEF At
    <3> QED BY <1>4, <3>1, <3>2, OthersKeep DEF Lessens
  <2>4. CASE status[sessions[k]] = "active"
    <3>1. sessions[k] = u /\ new # "active"
      BY <1>6, <2>1, <2>4
    <3>2. Rest(s) # <<>> /\ Head(Rest(s)) = "revoke" /\ todo = Rest(s)
      <4>1. CASE name = "status"
        BY <1>1, <3>1, <4>1, Follows DEF At, Rest, Busy
      <4>2. CASE name \in {"softDelete", "upsert"}
        <5>1. "revoke" \in Names(todo)
          BY <1>2, <3>1, <4>2 DEF OfUser
        <5>2. todo = Rest(s)
          BY <5>1, Nothing
        <5>3. "revoke" \in Names(requests[s].todo)
          BY <1>1, <5>1, <5>2, HeadIsLeft DEF Left
        <5> QED BY <1>1, <4>2, <5>2, <5>3, Follows DEF At, Rest, Busy
      <4> QED BY <4>1, <4>2
    <3>3. Busy(s)' /\ At(s, "revoke")'
      BY <1>4, <3>2 DEF Busy, At
    <3>4. Of(s)' = sessions[k] /\ requests'[s].arg = requests[s].arg
      BY <1>4, <3>1, <3>3 DEF Lessens, Of
    <3>5. requests[s].arg \notin Sessions
      <4>1. requests[s].arg \in {"active", "suspended", "other", None}
        BY <1>1 DEF IInv, Typed, RequestsMakeSense
      <4> QED BY <4>1, AccountsAssumption DEF Statuses
    <3> QED BY <2>1, <3>3, <3>4, <3>5
  <2> QED BY <2>3, <2>4
<1>10. RolesAreKept'
  <2>1. ASSUME At(s, "deleteRoles")', requests[s].arg = "other", ~muddled PROVE FALSE
    <3>1. Busy(s)' /\ Left(s)' \subseteq Left(s) /\ name = "upsert"
      BY <1>4, <2>1 DEF Lessens, At
    <3>2. "upsert" \in Left(s)
      BY <1>1, <3>1
    <3> QED BY <2>1, <3>2 DEF IInv, Typed, RequestsMakeSense
  <2>2. ~At(s, "insertRoles")
    BY <1>1 DEF At
  <2> QED BY <1>3, <1>4, <2>1, <2>2, RolesLessen DEF IInv, Typed, RestTyped
<1>11. name \notin {"activeUser", "removeCode", "startedSetup"}
  OBVIOUS
<1> QED BY <1>1, <1>3, <1>4, <1>7, <1>8, <1>9, <1>10, <1>11, StatementKeeps

LEMMA StatusStatementsKeep ==
  ASSUME IInv, NEW s \in Slots, UNCHANGED <<started, mishaps>>,
         UpdateStatus(s) \/ SoftDelete(s) \/ UpsertLdapUser(s)
  PROVE  IInv'
<1>1. CASE UpdateStatus(s)
  <2> DEFINE todo == IF requests[s].arg = "active" THEN <<>> ELSE Rest(s)
  <2>1. SetStatus(s, "status", requests[s].arg, todo)
    BY <1>1 DEF UpdateStatus
  <2>2. requests[s].arg \in Statuses
    <3>1. "status" \in Left(s)
      BY <2>1, OfIsUser DEF SetStatus
    <3> QED BY <3>1 DEF IInv, Typed, RequestsMakeSense, Statuses
  <2>3. todo \in {Rest(s), <<>>} /\ (requests[s].arg # "active" => todo = Rest(s))
    OBVIOUS
  <2> HIDE DEF todo
  <2> QED BY <2>1, <2>2, <2>3, SetStatusKeeps
<1>2. CASE SoftDelete(s)
  <2>1. SetStatus(s, "softDelete", "deleted", Rest(s)) /\ "deleted" \in Statuses
    BY <1>2 DEF SoftDelete, Statuses
  <2> QED BY <2>1, SetStatusKeeps
<1>3. CASE UpsertLdapUser(s)
  <2>1. SetStatus(s, "upsert", requests[s].arg, Rest(s))
    BY <1>3 DEF UpsertLdapUser
  <2>2. requests[s].arg \in Statuses
    <3>1. "upsert" \in Left(s)
      BY <2>1, OfIsUser DEF SetStatus
    <3> QED BY <3>1 DEF IInv, Typed, RequestsMakeSense, Statuses
  <2> QED BY <2>1, <2>2, SetStatusKeeps
<1> QED BY <1>1, <1>2, <1>3

(* A request is cut short. *)
LEMMA FailKeeps ==
  ASSUME IInv, NEW s \in Slots, Fail(s)
  PROVE  IInv'
<1> USE NoneIsNobody DEF IInv, Typed
<1>1. RequestsTyped /\ Busy(s) /\ requests[s].user \in Users
  BY DEF Fail, RequestsMakeSense, Of
<1>2. Lessens(s, {}) /\ ~Busy(s)'
  BY <1>1, EndLessens DEF Fail
<1>3. /\ unrevoked' = IF At(s, "revoke") THEN unrevoked \cup OfUser(Of(s)) ELSE unrevoked
      /\ muddled' = (muddled \/ At(s, "insertRoles"))
  BY DEF Fail, Of
<1>4. /\ status' = status /\ supers' = supers /\ totp' = totp /\ secret' = secret /\ codes' = codes
      /\ issued' = issued /\ sessions' = sessions /\ active' = active /\ locked' = locked
      /\ opened' = opened /\ late' = late /\ shared' = shared
      /\ tokens' = tokens /\ failures' = failures /\ clashed' = clashed /\ started' = started
      /\ mishaps < MaxMishaps /\ mishaps' = mishaps + 1
  BY DEF Fail, lock, logins, factor
<1>5. RequestsTyped' /\ RequestsMakeSense'
  BY <1>2, SenseLessens
<1>6. RestTyped'
  <2>1. unrevoked' \subseteq {k \in Sessions : sessions[k] # None}
    BY <1>1, <1>3 DEF RestTyped, OfUser
  <2>2. muddled' \in BOOLEAN
    BY <1>3 DEF At, Busy
  <2>3. mishaps' \in 0..MaxMishaps
    BY <1>4, AccountsAssumption DEF RestTyped
  <2> QED BY <1>4, <2>1, <2>2, <2>3 DEF RestTyped
<1>7. FailuresWereTried'
  <2>1. /\ \A u \in Users : failures'[u] <= failures[u]
        /\ failures \in [Users -> Nat] /\ failures' \in [Users -> Nat] /\ started \in Nat
    BY <1>4, Settings DEF RestTyped
  <2>2. \A u \in Users : Trying(u)' \subseteq Trying(u)
    BY <1>2, TryingLessens
  <2> QED BY <1>4, <2>1, <2>2, TriesLessen
<1>8. EnteringIsActive'
  BY <1>2, <1>4, EnteringLessens
<1>9. SessionsEnd'
  <2>1. At(s, "revoke") => \A k \in active' \ unrevoked' : sessions[k] = Of(s) => k = requests[s].arg
    BY <1>3, <1>4 DEF OfUser
  <2>2. unrevoked \subseteq unrevoked'
    BY <1>3
  <2> QED BY <1>2, <1>4, <2>1, <2>2, SessionsLessen
<1>10. CodesAreHeldOnce'
  BY <1>2, <1>4, CodesLessen
<1>11. FactorsAreKept'
  <2>1. FactorHasItsSecret'
    BY <1>4 DEF FactorsAreKept, FactorHasItsSecret
  <2> QED BY <1>2, <1>4, <2>1, FactorsLessen
<1>12. RolesAreKept'
  <2>1. ~At(s, "deleteRoles")'
    BY <1>2 DEF At
  <2>2. (muddled => muddled') /\ (At(s, "insertRoles") => muddled')
    BY <1>3
  <2> QED BY <1>2, <1>4, <1>6, <2>1, <2>2, RolesLessen DEF RestTyped
<1>13. LoginsStand'
  BY <1>2, <1>4, LoginsLessen
<1> QED BY <1>5, <1>6, <1>7, <1>8, <1>9, <1>10, <1>11, <1>12, <1>13
(* A login or a challenge that found what it asked for goes on with what that allows: r is its
   request then, with the statements of a way to a session. *)
LEMMA EntersKeeps ==
  ASSUME IInv, NEW s \in Slots, NEW h \in {"credentials", "code"}, At(s, h),
         NEW r \in Request, r.todo # <<>>, Continue(s, r), r.user = Of(s), r.touched = requests[s].touched,
         UNCHANGED <<status, supers, lock, factor, logins, unrevoked, clashed, muddled, started, mishaps>>,
         shared \subseteq shared', shared' \subseteq Codes,
         Names(r.todo) \subseteq {"increment", "resetFailures", "session", "removeCode"},
         h = "code" => "increment" \notin Names(r.todo),
         "resetFailures" \in Names(r.todo) /\ r.arg \notin {"answer"} \cup Codes => Of(s) \notin locked,
         "session" \in Names(r.todo) /\ r.arg = "login" => Of(s) \notin totp,
         {"session", "resetFailures"} \cap Names(r.todo) # {} /\ r.arg \in {"answer"} \cup Codes
           => Of(s) \in tokens \cap totp,
         "session" \in Names(r.todo) /\ r.arg \in Codes \ shared' =>
           /\ r.arg \in codes[Of(s)] /\ "removeCode" \in Names(r.todo)
           /\ \A t \in Slots \ {s} : Busy(t) => requests[t].arg # r.arg
  PROVE  IInv'
<1> USE NoneIsNobody DEF IInv, Typed
<1>1. RequestsTyped /\ Busy(s) /\ Of(s) \in Users /\ h \in Left(s) /\ requests[s].todo \in Todos
  BY OfIsUser
<1>2. /\ status' = status /\ supers' = supers /\ failures' = failures /\ locked' = locked
      /\ secret' = secret /\ totp' = totp /\ codes' = codes /\ issued' = issued
      /\ tokens' = tokens /\ sessions' = sessions /\ active' = active /\ opened' = opened /\ late' = late
      /\ started' = started /\ mishaps' = mishaps
      /\ unrevoked' = unrevoked /\ clashed' = clashed /\ muddled' = muddled
  BY DEF lock, factor, logins
<1>3. requests' \in [Slots -> Request] /\ Others(s) /\ requests'[s] = r
  BY <1>1, SetRequest
<1>4. /\ Left(s)' = Names(r.todo) /\ Of(s)' = Of(s) /\ Busy(s)' /\ requests'[s].arg = r.arg
      /\ requests'[s].touched = requests[s].touched
  BY <1>3 DEF Left, Of, Busy
<1>5. ASSUME NEW x \in {"enable", "deleteRoles", "insertRoles", "revoke"} PROVE ~At(s, x)'
  <2>1. r.todo \in Todos
    BY DEF Request
  <2>2. Head(r.todo) \in Names(r.todo)
    BY <2>1, Follows
  <2> QED BY <1>3, <2>2 DEF At
<1>6. ASSUME NEW t \in Slots \ {s}
      PROVE  /\ Left(t)' = Left(t) /\ Of(t)' = Of(t) /\ (Busy(t)' <=> Busy(t))
             /\ \A x : At(t, x)' <=> At(t, x)
             /\ requests'[t].arg = requests[t].arg
             /\ requests[t].touched => requests'[t].touched
  BY <1>3, OthersKeep DEF Others
<1>7. RequestsTyped' /\ RequestsMakeSense'
  <2>1. RequestsTyped'
    BY <1>3 DEF RequestsTyped
  <2>2. ASSUME NEW t \in Slots
        PROVE  /\ Busy(t)' => Of(t)' \in Users
               /\ Left(t)' \cap {"status", "upsert"} # {} => requests'[t].arg \in {"active", "suspended"}
               /\ "softDelete" \in Left(t)' => requests'[t].arg \in {"other", None}
               /\ "code" \in Left(t)' => requests'[t].arg = None
    <3>1. CASE t # s
      BY <1>6, <3>1 DEF RequestsMakeSense
    <3>2. CASE t = s
      BY <1>1, <1>4, <3>2
    <3> QED BY <3>1, <3>2
  <2> QED BY <2>1, <2>2 DEF RequestsMakeSense
<1>8. RestTyped'
  BY <1>2 DEF RestTyped
<1>9. FailuresWereTried'
  <2>1. ASSUME NEW u \in Users PROVE Trying(u)' \subseteq Trying(u)
    <3> SUFFICES ASSUME NEW t \in Slots, Of(t)' = u, Left(t)' \cap {"credentials", "increment"} # {}
                 PROVE  Of(t) = u /\ Left(t) \cap {"credentials", "increment"} # {}
      BY DEF Trying
    <3>1. CASE t # s
      BY <1>6, <3>1
    <3>2. CASE t = s
      BY <1>1, <1>4, <3>2
    <3> QED BY <3>1, <3>2
  <2>2. \A u \in Users : failures'[u] <= failures[u]
    BY <1>2 DEF RestTyped
  <2> QED BY <1>2, <2>1, <2>2, Settings, TriesLessen DEF RestTyped
<1>10. EnteringIsActive'
  <2> SUFFICES ASSUME NEW t \in Slots, Left(t)' \cap Entering # {}, "activeUser" \notin Left(t)',
                      ~requests'[t].touched
               PROVE  status[Of(t)'] = "active"
    BY <1>2 DEF EnteringIsActive
  <2>1. CASE t # s
    BY <1>6, <2>1 DEF EnteringIsActive
  <2>2. CASE t = s
    <3>1. "activeUser" \notin Left(s)
      BY <1>1, Follows DEF At, Busy, Left
    <3>2. Left(s) \cap Entering # {}
      BY <1>1 DEF Entering
    <3> QED BY <1>4, <2>2, <3>1, <3>2 DEF EnteringIsActive
  <2> QED BY <2>1, <2>2
<1>11. SessionsEnd'
  <2> SUFFICES ASSUME NEW k \in active \ (late \cup unrevoked), status[sessions[k]] # "active"
               PROVE  \E t \in Slots : At(t, "revoke")' /\ Of(t)' = sessions[k] /\ requests'[t].arg # k
    BY <1>2 DEF SessionsEnd
  <2>1. PICK t \in Slots : At(t, "revoke") /\ Of(t) = sessions[k] /\ requests[t].arg # k
    BY DEF SessionsEnd
  <2>2. t # s
    BY <2>1 DEF At
  <2> QED BY <1>6, <2>1, <2>2
<1>12. CodesAreHeldOnce'
  <2> SUFFICES ASSUME NEW c \in Codes, c \notin shared'
               PROVE  /\ \A q, t \in Slots : Holds(q, c)' /\ Holds(t, c)' => q = t
                      /\ \A t \in Slots : Holds(t, c)' =>
                           /\ opened[c] = 0 /\ c \in issued
                           /\ \A v \in Users : c \in codes[v] => v = Of(t)' /\ "removeCode" \in Left(t)'
                      /\ opened[c] \in {0, 1}
                      /\ opened[c] = 1 => c \in issued /\ \A v \in Users : c \notin codes[v]
    BY <1>2 DEF CodesAreHeldOnce
  <2>1. /\ \A q, t \in Slots : Holds(q, c) /\ Holds(t, c) => q = t
        /\ \A t \in Slots : Holds(t, c) =>
             /\ opened[c] = 0 /\ c \in issued
             /\ \A v \in Users : c \in codes[v] => v = Of(t) /\ "removeCode" \in Left(t)
        /\ opened[c] \in {0, 1}
        /\ opened[c] = 1 => c \in issued /\ \A v \in Users : c \notin codes[v]
    BY DEF CodesAreHeldOnce
  <2>2. ASSUME NEW t \in Slots, Holds(t, c)', t # s
        PROVE  Holds(t, c) /\ Of(t)' = Of(t) /\ Left(t)' = Left(t)
    BY <1>6, <2>2 DEF Holds
  <2>3. ASSUME Holds(s, c)'
        PROVE  /\ c \in codes[Of(s)] /\ "removeCode" \in Left(s)'
               /\ \A t \in Slots \ {s} : ~Holds(t, c)'
    <3>1. r.arg = c /\ "session" \in Names(r.todo)
      BY <1>4, <2>3 DEF Holds
    <3>2. ASSUME NEW t \in Slots \ {s}, Holds(t, c)' PROVE FALSE
      <4>1. "session" \in Left(t) /\ requests[t].arg = c
        BY <2>2, <3>2 DEF Holds
      <4>2. Busy(t)
        BY <4>1, Nothing DEF Left, Busy
      <4> QED BY <3>1, <4>1, <4>2
    <3> QED BY <1>4, <3>1, <3>2
  <2>4. ASSUME Holds(s, c)'
        PROVE  opened[c] = 0 /\ c \in issued /\ \A v \in Users : c \in codes[v] => v = Of(s)
    <3>1. c \in codes[Of(s)]
      BY <2>3, <2>4
    <3>2. opened[c] = 0
      BY <1>1, <2>1, <3>1
    <3> QED BY <1>1, <3>1, <3>2 DEF RestTyped
  <2>5. ASSUME NEW t \in Slots, Holds(t, c)'
        PROVE  /\ opened[c] = 0 /\ c \in issued
               /\ \A v \in Users : c \in codes[v] => v = Of(t)' /\ "removeCode" \in Left(t)'
    <3>1. CASE t # s
      BY <2>1, <2>2, <2>5, <3>1
    <3>2. CASE t = s
      BY <1>4, <2>3, <2>4, <2>5, <3>2
    <3> QED BY <3>1, <3>2
  <2>6. ASSUME NEW q \in Slots, NEW t \in Slots, Holds(q, c)', Holds(t, c)' PROVE q = t
    BY <2>1, <2>2, <2>3, <2>6
  <2> QED BY <2>1, <2>5, <2>6
<1>13. FactorsAreKept'
  <2>1. FactorHasItsSecret'
    BY <1>2 DEF FactorsAreKept, FactorHasItsSecret
  <2>2. Left(s)' \cap Factor = {}
    BY <1>4 DEF Factor
  <2>3. ASSUME NEW q \in Slots, NEW t \in Slots, q # t, Of(q)' = Of(t)',
               Left(q)' \cap Factor # {}, Left(t)' \cap Factor # {}
        PROVE  Of(q)' \in clashed
    BY <1>6, <2>2, <2>3 DEF FactorsAreKept
  <2>4. ASSUME NEW t \in Slots, At(t, "enable")' PROVE Of(t)' \in secret \cup clashed
    BY <1>5, <1>6, <2>4 DEF FactorsAreKept
  <2> QED BY <1>2, <2>1, <2>3, <2>4 DEF FactorsAreKept
<1>14. RolesAreKept'
  <2> SUFFICES ASSUME ~muddled
               PROVE  /\ \A q, t \in Slots : Left(q)' \cap Roles # {} /\ Left(t)' \cap Roles # {} => q = t
                      /\ \A t \in Slots : Left(t)' \cap Roles # {} => requests'[t].arg \in {"super", "other"}
                      /\ supers = {} => \E t \in Slots : At(t, "insertRoles")' /\ requests'[t].arg = "super"
                      /\ \A t \in Slots : At(t, "deleteRoles")' /\ requests'[t].arg = "other"
                           => supers \ {Of(t)'} # {}
    BY <1>2 DEF RolesAreKept
  <2>1. /\ \A q, t \in Slots : Left(q) \cap Roles # {} /\ Left(t) \cap Roles # {} => q = t
        /\ \A t \in Slots : Left(t) \cap Roles # {} => requests[t].arg \in {"super", "other"}
        /\ supers = {} => \E t \in Slots : At(t, "insertRoles") /\ requests[t].arg = "super"
        /\ \A t \in Slots : At(t, "deleteRoles") /\ requests[t].arg = "other" => supers \ {Of(t)} # {}
    BY DEF RolesAreKept
  <2>2. Left(s)' \cap Roles = {}
    BY <1>4 DEF Roles
  <2>3. ASSUME NEW t \in Slots, Left(t)' \cap Roles # {}
        PROVE  t # s /\ Left(t) \cap Roles # {} /\ requests'[t].arg = requests[t].arg
    BY <1>6, <2>2, <2>3
  <2>4. supers = {} => \E t \in Slots : At(t, "insertRoles")' /\ requests'[t].arg = "super"
    <3>1. ~At(s, "insertRoles")
      BY DEF At
    <3> QED BY <1>6, <2>1, <3>1
  <2>5. ASSUME NEW t \in Slots, At(t, "deleteRoles")', requests'[t].arg = "other"
        PROVE  supers \ {Of(t)'} # {}
    <3>1. t # s
      BY <1>5, <2>5
    <3> QED BY <1>6, <2>1, <2>5, <3>1
  <2> QED BY <2>1, <2>3, <2>4, <2>5
<1>15. LoginsStand'
  <2> SUFFICES ASSUME NEW t \in Slots PROVE Stands(t)'
    BY DEF LoginsStand
  <2>3. Stands(t)
    BY DEF LoginsStand
  <2>1. CASE t # s
    BY <1>2, <1>6, <2>1, <2>3 DEF Stands, Answered
  <2>2. CASE t = s
    BY <1>2, <1>4, <2>2 DEF Stands, Answered
  <2> QED BY <2>1, <2>2
<1> QED BY <1>7, <1>8, <1>9, <1>10, <1>11, <1>12, <1>13, <1>14, <1>15

(* The ways of a login and of a challenge. *)
LEMMA Ways ==
  /\ <<"increment">> \in Todos /\ Names(<<"increment">>) = {"increment"}
  /\ <<"resetFailures">> \in Todos /\ Names(<<"resetFailures">>) = {"resetFailures"}
  /\ <<"resetFailures", "session">> \in Todos
  /\ Names(<<"resetFailures", "session">>) = {"resetFailures", "session"}
  /\ <<"removeCode", "session", "resetFailures">> \in Todos
  /\ Names(<<"removeCode", "session", "resetFailures">>) = {"removeCode", "session", "resetFailures"}
  /\ <<"session", "resetFailures">> \in Todos
  /\ Names(<<"session", "resetFailures">>) = {"session", "resetFailures"}
<1>1. /\ <<"increment">> \in Paths /\ <<"resetFailures">> \in Paths
      /\ <<"resetFailures", "session">> \in Paths
      /\ <<"removeCode", "session", "resetFailures">> \in Paths
  BY DEF Paths
<1>2. /\ Names(<<"increment">>) = {"increment"} /\ Names(<<"resetFailures">>) = {"resetFailures"}
      /\ Names(<<"resetFailures", "session">>) = {"resetFailures", "session"}
      /\ Names(<<"session", "resetFailures">>) = {"session", "resetFailures"}
      /\ Names(<<"removeCode", "session", "resetFailures">>) = {"removeCode", "session", "resetFailures"}
  BY DEF Names
<1>3. <<"session", "resetFailures">> \in Todos
  <2> DEFINE p == <<"removeCode", "session", "resetFailures">>
  <2>1. Tail(p) = <<"session", "resetFailures">> /\ p # <<>>
    OBVIOUS
  <2>2. p \in Todos
    BY <1>1, PathIsSuffix
  <2> HIDE DEF p
  <2>3. Tail(p) \in Todos
    BY <2>1, <2>2, Follows
  <2> QED BY <2>1, <2>3
<1> QED BY <1>1, <1>2, <1>3, PathIsSuffix
LEMMA CredentialsKeeps ==
  ASSUME IInv, NEW s \in Slots, Credentials(s), UNCHANGED <<started, mishaps>>
  PROVE  IInv'
<1>1. /\ At(s, "credentials") /\ RequestsTyped /\ Busy(s) /\ requests[s] \in Request
      /\ ~At(s, "revoke") /\ ~At(s, "insertRoles")
  BY OfIsUser DEF Credentials, At, RequestsTyped
<1>2. UNCHANGED <<status, supers, lock, factor, logins, started, mishaps, history>>
  BY DEF Credentials
<1>3. CASE Continue(s, Idle)
  <2>1. Lessens(s, {}) /\ ~Busy(s)'
    BY <1>1, <1>3, EndLessens
  <2>2. ~At(s, "deleteRoles")'
    BY <2>1 DEF At
  <2> QED BY <1>1, <1>2, <2>1, <2>2, OnlyRequests
<1>4. /\ UNCHANGED <<status, supers, lock, factor, logins, unrevoked, clashed, muddled, started, mishaps>>
      /\ shared \subseteq shared' /\ shared' \subseteq Codes
  BY <1>2 DEF history, IInv, Typed, RestTyped
<1>5. CASE Todo(s, <<"increment">>)
  <2> DEFINE r == [requests[s] EXCEPT !.todo = <<"increment">>]
  <2>1. /\ r \in Request /\ r.todo = <<"increment">> /\ r.user = Of(s) /\ r.touched = requests[s].touched
    BY <1>1, Todoed, Ways DEF Of
  <2>2. Continue(s, r) /\ Names(r.todo) = {"increment"} /\ r.todo # <<>>
    BY <1>5, <2>1, Ways DEF Todo
  <2> HIDE DEF r
  <2> QED BY <1>1, <1>4, <2>1, <2>2, EntersKeeps
<1>6. CASE /\ Of(s) \notin locked
           /\ LET totpOn == Of(s) \in totp IN
              Continue(s, [requests[s] EXCEPT !.todo = IF totpOn THEN <<"resetFailures">>
                                                                  ELSE <<"resetFailures", "session">>,
                                              !.arg = IF totpOn THEN "challenge" ELSE "login"])
  <2> DEFINE todo == IF Of(s) \in totp THEN <<"resetFailures">> ELSE <<"resetFailures", "session">>
             arg == IF Of(s) \in totp THEN "challenge" ELSE "login"
             r == [requests[s] EXCEPT !.todo = todo, !.arg = arg]
  <2>1. /\ todo \in Todos /\ Names(todo) \subseteq {"resetFailures", "session"} /\ todo # <<>>
        /\ "session" \in Names(todo) => Of(s) \notin totp
    <3>1. CASE Of(s) \in totp
      BY <3>1, Ways
    <3>2. CASE Of(s) \notin totp
      BY <3>2, Ways
    <3> QED BY <3>1, <3>2
  <2>2. arg \in Args /\ arg \notin {"answer"} \cup Codes
    BY NoneIsNobody DEF Args, Words
  <2> HIDE DEF todo, arg
  <2>3. /\ r \in Request /\ r.todo = todo /\ r.arg = arg
        /\ r.user = Of(s) /\ r.touched = requests[s].touched
    BY <1>1, <2>1, <2>2 DEF Request, Of
  <2>4. Continue(s, r)
    BY <1>6 DEF todo, arg
  <2> HIDE DEF r
  <2> QED BY <1>1, <1>4, <1>6, <2>1, <2>2, <2>3, <2>4, EntersKeeps
<1>7. Continue(s, Idle) \/ Todo(s, <<"increment">>) \/
           (/\ Of(s) \notin locked
            /\ LET totpOn == Of(s) \in totp IN
               Continue(s, [requests[s] EXCEPT !.todo = IF totpOn THEN <<"resetFailures">>
                                                                   ELSE <<"resetFailures", "session">>,
                                               !.arg = IF totpOn THEN "challenge" ELSE "login"]))
  BY DEF Credentials
<1> QED BY <1>3, <1>5, <1>6, <1>7

LEMMA CodeKeeps ==
  ASSUME IInv, NEW s \in Slots, Code(s), UNCHANGED <<started, mishaps>>
  PROVE  IInv'
<1> DEFINE end == <<"session", "resetFailures">>
           inHand == {requests[t].arg : t \in {t \in Slots \ {s} : Busy(t)}}
<1>1. /\ At(s, "code") /\ RequestsTyped /\ Busy(s) /\ requests[s] \in Request
      /\ ~At(s, "revoke") /\ ~At(s, "insertRoles") /\ "code" \in Left(s) /\ Of(s) \in Users
  BY OfIsUser DEF Code, At, RequestsTyped
<1>2. requests[s].arg = None
  BY <1>1 DEF IInv, Typed, RequestsMakeSense
<1>3. UNCHANGED <<status, supers, lock, factor, logins, unrevoked, clashed, muddled, started, mishaps>>
  BY DEF Code
<1>4. CASE Continue(s, Idle) /\ UNCHANGED shared
  <2>1. Lessens(s, {}) /\ ~Busy(s)'
    BY <1>1, <1>4, EndLessens
  <2>2. ~At(s, "deleteRoles")'
    BY <2>1 DEF At
  <2>3. UNCHANGED <<status, supers, lock, factor, logins, started, mishaps, history>>
    BY <1>3, <1>4 DEF history
  <2> QED BY <1>1, <2>1, <2>2, <2>3, OnlyRequests
<1>7. Of(s) \in tokens
  BY <1>1 DEF IInv, LoginsStand, Stands
<1>5. CASE /\ Of(s) \in totp \cap secret /\ UNCHANGED shared
           /\ Continue(s, [requests[s] EXCEPT !.todo = end, !.arg = "answer"])
  <2> DEFINE r == [requests[s] EXCEPT !.todo = end, !.arg = "answer"]
  <2>1. end \in Todos /\ Names(end) = {"session", "resetFailures"} /\ end # <<>> /\ "answer" \in Args
    BY Ways DEF Args, Words
  <2> HIDE DEF end
  <2>2. /\ r \in Request /\ r.todo = end /\ r.user = Of(s) /\ r.touched = requests[s].touched
        /\ r.arg = "answer"
    BY <1>1, <2>1 DEF Request, Of
  <2>3. shared \subseteq shared' /\ shared' \subseteq Codes
    BY <1>5 DEF IInv, Typed, RestTyped
  <2>4. "answer" \notin Codes /\ Of(s) \in totp /\ Continue(s, r)
    BY <1>5, NoneIsNobody
  <2> HIDE DEF r
  <2> QED BY <1>1, <1>3, <1>7, <2>1, <2>2, <2>3, <2>4, EntersKeeps
<1>6. CASE /\ Of(s) \in totp
           /\ \E c \in codes[Of(s)] :
             /\ Continue(s, [requests[s] EXCEPT !.todo = <<"removeCode", "session", "resetFailures">>, !.arg = c])
             /\ shared' = shared \cup ({c} \cap inHand)
  <2> DEFINE way == <<"removeCode", "session", "resetFailures">>
  <2>1. PICK c \in codes[Of(s)] :
          /\ Continue(s, [requests[s] EXCEPT !.todo = <<"removeCode", "session", "resetFailures">>, !.arg = c])
          /\ shared' = shared \cup ({c} \cap inHand)
    BY <1>6
  <2> DEFINE r == [requests[s] EXCEPT !.todo = way, !.arg = c]
  <2>2. c \in Codes /\ c \in Args /\ c \notin {"login", "challenge"}
    BY <1>1, NoneIsNobody DEF IInv, Typed, RestTyped, Args
  <2>3. /\ r \in Request /\ r.todo = way /\ r.arg = c
        /\ r.user = Of(s) /\ r.touched = requests[s].touched
    <3>1. way \in Todos
      BY Ways
    <3> HIDE DEF way
    <3> QED BY <1>1, <2>2, <3>1 DEF Request, Of
  <2>4. Continue(s, r)
    BY <2>1
  <2>5. Names(r.todo) = {"removeCode", "session", "resetFailures"} /\ r.todo # <<>>
    BY <2>3, Ways
  <2>6. shared \subseteq shared' /\ shared' \subseteq Codes
    BY <2>1, <2>2 DEF IInv, Typed, RestTyped
  <2>7. c \notin shared' => \A t \in Slots \ {s} : Busy(t) => requests[t].arg # c
    BY <2>1
  <2> HIDE DEF r, way, inHand
  <2> QED BY <1>1, <1>3, <1>6, <1>7, <2>1, <2>2, <2>3, <2>4, <2>5, <2>6, <2>7, EntersKeeps
<1> QED BY <1>4, <1>5, <1>6 DEF Code
-----------------------------------------------------------------------------
(* What a request is to run when it arrives, and what it carries. *)
Fits(p, kind, arg) ==
  /\ p \in Paths /\ arg \in Args
  /\ Names(p) \cap {"increment", "resetFailures", "removeCode"} = {}
  /\ Names(p) \cap Entering # {} => "activeUser" \in Names(p)
  /\ Names(p) \cap {"session", "code"} # {} => arg = None
  /\ Names(p) \cap {"status", "upsert"} # {} => arg \in {"active", "suspended"}
  /\ "softDelete" \in Names(p) => arg \in {"other", None}
  /\ Names(p) \cap Roles # {} => kind = "ldapRoles" \/ arg \in {"super", "other"}
  /\ p[1] \notin {"enable", "deleteRoles"}
  /\ "code" \in Names(p) => kind = "challenge"

(* A request that arrives has checked nothing: the invariant asks nothing of it that what it
   carries does not say. *)
LEMMA BeginKeeps ==
  ASSUME IInv, NEW s \in Slots, NEW kind, NEW u \in Users, NEW arg, NEW p, p = Kinds[kind],
         Fits(p, kind, arg), Begin(s, kind, u, arg), kind = "challenge" => u \in tokens
  PROVE  IInv'
<1> DEFINE r == [Idle EXCEPT !.todo = p, !.user = u, !.arg = arg]
<1> USE DEF IInv, Typed
<1>1. p \in Todos /\ p # <<>> /\ Head(p) = p[1] /\ p \in Paths /\ arg \in Args
  <2>1. p \in Paths /\ arg \in Args
    BY DEF Fits
  <2>2. PICK n \in 1..5 : DOMAIN p = 1..n
    BY <2>1, PathsShort
  <2>3. p = Suffix(p, 1) /\ p \in Todos
    BY <2>1, PathIsSuffix
  <2>4. /\ Suffix(p, 1) # <<>> <=> 1 <= n
        /\ 1 <= n => Head(Suffix(p, 1)) = p[1]
    <3>1. 1 \in 1..6
      OBVIOUS
    <3> QED BY <2>1, <2>2, <3>1, Suffixes
  <2>5. p # <<>> /\ Head(p) = p[1]
    <3> DEFINE q == Suffix(p, 1)
    <3> HIDE DEF q
    <3>1. q # <<>> /\ Head(q) = p[1]
      BY <2>2, <2>4 DEF q
    <3>2. p = q
      BY <2>3 DEF q
    <3> QED BY <3>1, <3>2
  <2> QED BY <2>1, <2>3, <2>5
<1>2. r \in Request /\ r.todo = p /\ r.user = u /\ r.arg = arg /\ ~r.touched
  BY <1>1 DEF Idle, Request
<1>3. /\ ~Busy(s) /\ started < MaxRequests /\ started' = started + 1
      /\ requests' = [requests EXCEPT ![s] = r]
      /\ muddled' = (muddled \/ (Has(r, Roles) /\ \E t \in Slots : Has(requests[t], Roles)) \/ kind = "ldapRoles")
      /\ clashed' = clashed \cup {u : t \in {t \in Slots : /\ Has(r, Factor) /\ Has(requests[t], Factor)
                                                           /\ Of(t) = u}}
  BY DEF Begin
<1>4. /\ status' = status /\ supers' = supers /\ failures' = failures /\ locked' = locked
      /\ secret' = secret /\ totp' = totp /\ codes' = codes /\ issued' = issued
      /\ tokens' = tokens /\ sessions' = sessions /\ active' = active /\ opened' = opened /\ late' = late
      /\ mishaps' = mishaps /\ shared' = shared /\ unrevoked' = unrevoked
  BY DEF Begin, lock, factor, logins
<1> HIDE DEF r
<1>5. /\ requests' \in [Slots -> Request] /\ requests'[s] = r
      /\ \A t \in Slots \ {s} : requests'[t] = requests[t]
  BY <1>2, <1>3 DEF RequestsTyped
<1>6. \A t \in Slots \ {s} :
        /\ Left(t)' = Left(t) /\ Of(t)' = Of(t) /\ (Busy(t)' <=> Busy(t))
        /\ (\A x : At(t, x)' <=> At(t, x)) /\ requests'[t] = requests[t]
  BY <1>5 DEF Left, Of, Busy, At
<1>7. /\ Left(s)' = Names(p) /\ Of(s)' = u /\ requests'[s].arg = arg /\ ~requests'[s].touched
      /\ \A x : At(s, x)' <=> p[1] = x
  BY <1>1, <1>2, <1>5 DEF Left, Of, Busy, At
<1>8. Left(s) = {} /\ \A x : ~At(s, x)
  BY <1>3, Nothing DEF Busy, At, Left
<1>9. \A names : Has(r, names) <=> Names(p) \cap names # {}
  BY <1>2 DEF Has, Names
<1>10. RequestsTyped' /\ RequestsMakeSense'
  <2>1. RequestsTyped'
    BY <1>5 DEF RequestsTyped
  <2>2. ASSUME NEW t \in Slots
        PROVE  /\ Busy(t)' => Of(t)' \in Users
               /\ Left(t)' \cap {"status", "upsert"} # {} => requests'[t].arg \in {"active", "suspended"}
               /\ "softDelete" \in Left(t)' => requests'[t].arg \in {"other", None}
               /\ "code" \in Left(t)' => requests'[t].arg = None
    <3>1. CASE t # s
      BY <1>6, <3>1 DEF RequestsMakeSense
    <3>2. CASE t = s
      BY <1>7, <3>2 DEF Fits
    <3> QED BY <3>1, <3>2
  <2> QED BY <2>1, <2>2 DEF RequestsMakeSense
<1>11. RestTyped'
  <2>1. started' \in 0..MaxRequests
    BY <1>3, AccountsAssumption DEF RestTyped
  <2>2. clashed' \subseteq Users /\ muddled' \in BOOLEAN
    BY <1>3 DEF RestTyped
  <2> QED BY <1>4, <2>1, <2>2 DEF RestTyped
<1>12. FailuresWereTried'
  <2> SUFFICES ASSUME NEW v \in Users PROVE failures[v] + Cardinality(Trying(v)') <= started + 1
    BY <1>3, <1>4 DEF FailuresWereTried
  <2>1. /\ failures[v] + Cardinality(Trying(v)) <= started /\ failures[v] \in Nat /\ started \in Nat
        /\ IsFiniteSet(Trying(v)) /\ Cardinality(Trying(v)) \in Nat
    BY Settings, TryingIsFinite DEF RestTyped, FailuresWereTried
  <2>2. Trying(v)' \subseteq Trying(v) \cup {s}
    BY <1>6 DEF Trying
  <2>3. /\ IsFiniteSet(Trying(v) \cup {s}) /\ Cardinality(Trying(v) \cup {s}) \in Nat
        /\ Cardinality(Trying(v) \cup {s}) <= Cardinality(Trying(v)) + 1
    <3>1. /\ IsFiniteSet(Trying(v) \cup {s})
          /\ \/ Cardinality(Trying(v) \cup {s}) = Cardinality(Trying(v))
             \/ Cardinality(Trying(v) \cup {s}) = Cardinality(Trying(v)) + 1
      BY <2>1, FS_AddElement, Zenon
    <3> QED BY <2>1, <3>1
  <2>4. Cardinality(Trying(v)') <= Cardinality(Trying(v) \cup {s}) /\ Cardinality(Trying(v)') \in Nat
    BY <2>2, <2>3, FS_Subset, FS_CardinalityType
  <2> QED BY <2>1, <2>3, <2>4
<1>13. EnteringIsActive'
  <2> SUFFICES ASSUME NEW t \in Slots, Left(t)' \cap Entering # {}, "activeUser" \notin Left(t)',
                      ~requests'[t].touched
               PROVE  status[Of(t)'] = "active"
    BY <1>4 DEF EnteringIsActive
  <2>1. t # s
    BY <1>7 DEF Fits
  <2> QED BY <1>6, <2>1 DEF EnteringIsActive
<1>14. SessionsEnd'
  <2> SUFFICES ASSUME NEW k \in active \ (late \cup unrevoked), status[sessions[k]] # "active"
               PROVE  \E t \in Slots : At(t, "revoke")' /\ Of(t)' = sessions[k] /\ requests'[t].arg # k
    BY <1>4 DEF SessionsEnd
  <2>1. PICK t \in Slots : At(t, "revoke") /\ Of(t) = sessions[k] /\ requests[t].arg # k
    BY DEF SessionsEnd
  <2>2. t # s
    BY <1>8, <2>1
  <2> QED BY <1>6, <2>1, <2>2
<1>15. CodesAreHeldOnce'
  <2> SUFFICES ASSUME NEW c \in Codes, c \notin shared
               PROVE  /\ \A q, t \in Slots : Holds(q, c)' /\ Holds(t, c)' => q = t
                      /\ \A t \in Slots : Holds(t, c)' =>
                           /\ opened[c] = 0 /\ c \in issued
                           /\ \A v \in Users : c \in codes[v] => v = Of(t)' /\ "removeCode" \in Left(t)'
                      /\ opened[c] \in {0, 1}
                      /\ opened[c] = 1 => c \in issued /\ \A v \in Users : c \notin codes[v]
    BY <1>4 DEF CodesAreHeldOnce
  <2>1. ~Holds(s, c)'
    BY <1>7, NoneIsNobody DEF Holds, Fits
  <2>2. ASSUME NEW t \in Slots, Holds(t, c)'
        PROVE  t # s /\ Holds(t, c) /\ Of(t)' = Of(t) /\ Left(t)' = Left(t)
    BY <1>6, <2>1, <2>2 DEF Holds
  <2> QED BY <2>2 DEF CodesAreHeldOnce
<1>16. FactorsAreKept'
  <2>1. FactorHasItsSecret' /\ clashed \subseteq clashed'
    BY <1>3, <1>4 DEF FactorsAreKept, FactorHasItsSecret
  <2>2. ASSUME NEW t \in Slots \ {s}, Of(t) = u, Names(p) \cap Factor # {}, Left(t) \cap Factor # {}
        PROVE  u \in clashed'
    <3>1. Has(r, Factor) /\ Has(requests[t], Factor)
      BY <1>9, <2>2, HasIsLeft
    <3> QED BY <1>3, <2>2, <3>1
  <2>3. ASSUME NEW q \in Slots, NEW t \in Slots, q # t, Of(q)' = Of(t)',
               Left(q)' \cap Factor # {}, Left(t)' \cap Factor # {}
        PROVE  Of(q)' \in clashed'
    <3>1. CASE q # s /\ t # s
      BY <1>6, <2>1, <2>3, <3>1 DEF FactorsAreKept
    <3>2. CASE q = s
      BY <1>6, <1>7, <2>2, <2>3, <3>2
    <3>3. CASE t = s
      BY <1>6, <1>7, <2>2, <2>3, <3>3
    <3> QED BY <3>1, <3>2, <3>3
  <2>4. ASSUME NEW t \in Slots, At(t, "enable")' PROVE Of(t)' \in secret \cup clashed'
    <3>1. t # s
      BY <1>7, <2>4 DEF Fits
    <3> QED BY <1>6, <2>1, <2>4, <3>1 DEF FactorsAreKept
  <2> QED BY <1>4, <2>1, <2>3, <2>4 DEF FactorsAreKept
<1>17. RolesAreKept'
  <2> SUFFICES ASSUME ~muddled', ~muddled
               PROVE  /\ \A q, t \in Slots : Left(q)' \cap Roles # {} /\ Left(t)' \cap Roles # {} => q = t
                      /\ \A t \in Slots : Left(t)' \cap Roles # {} => requests'[t].arg \in {"super", "other"}
                      /\ supers = {} => \E t \in Slots : At(t, "insertRoles")' /\ requests'[t].arg = "super"
                      /\ \A t \in Slots : At(t, "deleteRoles")' /\ requests'[t].arg = "other"
                           => supers \ {Of(t)'} # {}
    BY <1>3, <1>4 DEF RolesAreKept
  <2>1. /\ \A q, t \in Slots : Left(q) \cap Roles # {} /\ Left(t) \cap Roles # {} => q = t
        /\ \A t \in Slots : Left(t) \cap Roles # {} => requests[t].arg \in {"super", "other"}
        /\ supers = {} => \E t \in Slots : At(t, "insertRoles") /\ requests[t].arg = "super"
        /\ \A t \in Slots : At(t, "deleteRoles") /\ requests[t].arg = "other" => supers \ {Of(t)} # {}
    BY DEF RolesAreKept
  <2>2. ASSUME Names(p) \cap Roles # {}
        PROVE  /\ \A t \in Slots : Left(t) \cap Roles = {}
               /\ arg \in {"super", "other"}
    <3>1. \A t \in Slots : ~Has(requests[t], Roles)
      BY <1>3, <1>9, <2>2
    <3>2. kind # "ldapRoles"
      BY <1>3
    <3> QED BY <2>2, <3>1, <3>2, HasIsLeft DEF Fits
  <2>3. ASSUME NEW q \in Slots, NEW t \in Slots, Left(q)' \cap Roles # {}, Left(t)' \cap Roles # {}
        PROVE  q = t
    <3>1. CASE q # s /\ t # s
      BY <1>6, <2>1, <2>3, <3>1
    <3>2. CASE q = s
      BY <1>6, <1>7, <2>2, <2>3, <3>2
    <3>3. CASE t = s
      BY <1>6, <1>7, <2>2, <2>3, <3>3
    <3> QED BY <3>1, <3>2, <3>3
  <2>4. ASSUME NEW t \in Slots, Left(t)' \cap Roles # {} PROVE requests'[t].arg \in {"super", "other"}
    <3>1. CASE t # s
      BY <1>6, <2>1, <2>4, <3>1
    <3>2. CASE t = s
      BY <1>7, <2>2, <2>4, <3>2
    <3> QED BY <3>1, <3>2
  <2>5. supers = {} => \E t \in Slots : At(t, "insertRoles")' /\ requests'[t].arg = "super"
    BY <1>6, <1>8, <2>1
  <2>6. ASSUME NEW t \in Slots, At(t, "deleteRoles")', requests'[t].arg = "other"
        PROVE  supers \ {Of(t)'} # {}
    <3>1. t # s
      BY <1>7, <2>6 DEF Fits
    <3> QED BY <1>6, <2>1, <2>6, <3>1
  <2> QED BY <2>3, <2>4, <2>5, <2>6
<1>18. LoginsStand'
  <2> SUFFICES ASSUME NEW t \in Slots PROVE Stands(t)'
    BY DEF LoginsStand
  <2>3. Stands(t)
    BY DEF LoginsStand
  <2>1. CASE t # s
    BY <1>4, <1>6, <2>1, <2>3 DEF Stands, Answered
  <2>2. CASE t = s
    <3>1. "resetFailures" \notin Names(p)
      BY DEF Fits
    <3>2. "session" \in Names(p) => arg = None /\ arg \notin {"login", "answer"} \cup Codes
      BY AccountsAssumption DEF Fits
    <3>3. "code" \in Names(p) => u \in tokens
      BY DEF Fits
    <3> QED BY <1>4, <1>7, <2>2, <3>1, <3>2, <3>3 DEF Stands, Answered
  <2> QED BY <2>1, <2>2
<1> QED BY <1>10, <1>11, <1>12, <1>13, <1>14, <1>15, <1>16, <1>17, <1>18
(* Each kind of request fits. *)
LEMMA NamesOf ==
  /\ \A a : Names(<<a>>) = {a}
  /\ \A a, b : Names(<<a, b>>) = {a, b}
  /\ \A a, b, c : Names(<<a, b, c>>) = {a, b, c}
  /\ \A a, b, c, d : Names(<<a, b, c, d>>) = {a, b, c, d}
  /\ \A a, b, c, d, e : Names(<<a, b, c, d, e>>) = {a, b, c, d, e}
BY DEF Names

LEMMA KindsFit ==
  ASSUME NEW k \in Sessions \cup {None}, NEW new \in {"active", "suspended"}, NEW role \in {"super", "other"}
  PROVE  /\ Fits(Kinds["login"], "login", "login")
         /\ Fits(Kinds["external"], "external", None)
         /\ Fits(Kinds["challenge"], "challenge", None)
         /\ Fits(Kinds["logout"], "logout", k)
         /\ Fits(Kinds["logoutAll"], "logoutAll", k)
         /\ Fits(Kinds["setup"], "setup", None)
         /\ Fits(Kinds["enable"], "enable", None)
         /\ Fits(Kinds["disable"], "disable", None)
         /\ Fits(Kinds["regenerate"], "regenerate", None)
         /\ Fits(Kinds["disable2fa"], "disable2fa", None)
         /\ Fits(Kinds["password"], "password", None)
         /\ Fits(Kinds["reset"], "reset", None)
         /\ Fits(Kinds["roles"], "roles", role)
         /\ Fits(Kinds["status"], "status", new)
         /\ Fits(Kinds["delete"], "delete", "other")
         /\ Fits(Kinds["scim"], "scim", new)
         /\ Fits(Kinds["scimDelete"], "scimDelete", None)
         /\ Fits(Kinds["ldap"], "ldap", new)
         /\ Fits(Kinds["ldapRoles"], "ldapRoles", new)
         /\ Fits(Kinds["ldapGone"], "ldapGone", "suspended")
<1> USE DEF Fits, Entering, Roles
<1>0. /\ None \in Args /\ k \in Args /\ new \in Args /\ role \in Args
      /\ "login" \in Args /\ "other" \in Args /\ "suspended" \in Args
  BY DEF Args, Words, Statuses
<1>1. Fits(Kinds["login"], "login", "login")
  <2>1. Kinds["login"] = <<"activeUser", "credentials">>
    BY DEF Kinds
  <2> QED BY <1>0, <2>1, NamesOf DEF Paths
<1>2. Fits(Kinds["external"], "external", None)
  <2>1. Kinds["external"] = <<"activeUser", "session">>
    BY DEF Kinds
  <2> QED BY <1>0, <2>1, NamesOf DEF Paths
<1>3. Fits(Kinds["challenge"], "challenge", None)
  <2>1. Kinds["challenge"] = <<"activeUser", "code">>
    BY DEF Kinds
  <2> QED BY <1>0, <2>1, NamesOf DEF Paths
<1>4. Fits(Kinds["logout"], "logout", k)
  <2>1. Kinds["logout"] = <<"deactivate">>
    BY DEF Kinds
  <2> QED BY <1>0, <2>1, NamesOf DEF Paths
<1>5. Fits(Kinds["logoutAll"], "logoutAll", k)
  <2>1. Kinds["logoutAll"] = <<"revoke">>
    BY DEF Kinds
  <2> QED BY <1>0, <2>1, NamesOf DEF Paths
<1>6. Fits(Kinds["setup"], "setup", None)
  <2>1. Kinds["setup"] = <<"secret">>
    BY DEF Kinds
  <2> QED BY <1>0, <2>1, NamesOf DEF Paths
<1>7. Fits(Kinds["enable"], "enable", None)
  <2>1. Kinds["enable"] = <<"startedSetup", "enable">>
    BY DEF Kinds
  <2> QED BY <1>0, <2>1, NamesOf DEF Paths
<1>8. Fits(Kinds["disable"], "disable", None)
  <2>1. Kinds["disable"] = <<"enabled", "disable">>
    BY DEF Kinds
  <2> QED BY <1>0, <2>1, NamesOf DEF Paths
<1>9. Fits(Kinds["regenerate"], "regenerate", None)
  <2>1. Kinds["regenerate"] = <<"enabled", "newCodes">>
    BY DEF Kinds
  <2> QED BY <1>0, <2>1, NamesOf DEF Paths
<1>10. Fits(Kinds["disable2fa"], "disable2fa", None)
  <2>1. Kinds["disable2fa"] = <<"found", "totpOn", "disable", "revoke">>
    BY DEF Kinds
  <2> QED BY <1>0, <2>1, NamesOf DEF Paths
<1>11. Fits(Kinds["password"], "password", None)
  <2>1. Kinds["password"] = <<"password">>
    BY DEF Kinds
  <2> QED BY <1>0, <2>1, NamesOf DEF Paths
<1>12. Fits(Kinds["reset"], "reset", None)
  <2>1. Kinds["reset"] = <<"found", "password", "revoke">>
    BY DEF Kinds
  <2> QED BY <1>0, <2>1, NamesOf DEF Paths
<1>13. Fits(Kinds["roles"], "roles", role)
  <2>1. Kinds["roles"] = <<"found", "wasSuper", "several", "deleteRoles", "insertRoles">>
    BY DEF Kinds
  <2> QED BY <1>0, <2>1, NamesOf DEF Paths
<1>14. Fits(Kinds["status"], "status", new)
  <2>1. Kinds["status"] = <<"found", "status", "revoke">>
    BY DEF Kinds
  <2> QED BY <1>0, <2>1, NamesOf DEF Paths
<1>15. Fits(Kinds["delete"], "delete", "other")
  <2>1. Kinds["delete"] = <<"found", "wasSuper", "several", "softDelete", "revoke">>
    BY DEF Kinds
  <2> QED BY <1>0, <2>1, NamesOf DEF Paths
<1>16. Fits(Kinds["scim"], "scim", new)
  <2>1. Kinds["scim"] = <<"differs", "status", "revoke">>
    BY DEF Kinds
  <2> QED BY <1>0, <2>1, NamesOf DEF Paths
<1>17. Fits(Kinds["scimDelete"], "scimDelete", None)
  <2>1. Kinds["scimDelete"] = <<"found", "softDelete">>
    BY DEF Kinds
  <2> QED BY <1>0, <2>1, NamesOf DEF Paths
<1>18. Fits(Kinds["ldap"], "ldap", new)
  <2>1. Kinds["ldap"] = <<"upsert">>
    BY DEF Kinds
  <2> QED BY <1>0, <2>1, NamesOf DEF Paths
<1>19. Fits(Kinds["ldapRoles"], "ldapRoles", new)
  <2>1. Kinds["ldapRoles"] = <<"upsert", "deleteRoles", "insertRoles">>
    BY DEF Kinds
  <2> QED BY <1>0, <2>1, NamesOf DEF Paths
<1>20. Fits(Kinds["ldapGone"], "ldapGone", "suspended")
  <2>1. Kinds["ldapGone"] = <<"upsert", "revoke">>
    BY DEF Kinds
  <2> QED BY <1>0, <2>1, NamesOf DEF Paths
<1> QED BY <1>1, <1>2, <1>3, <1>4, <1>5, <1>6, <1>7, <1>8, <1>9, <1>10, <1>11, <1>12, <1>13, <1>14, <1>15, <1>16, <1>17, <1>18, <1>19, <1>20
LEMMA ArriveKeeps ==
  ASSUME IInv, NEW s \in Slots, Arrive(s)
  PROVE  IInv'
<1>1. active \subseteq Sessions /\ \A k \in active : sessions[k] \in Users
  BY DEF IInv, Typed, RestTyped
<1>2. ASSUME NEW u \in Users, NEW kind, NEW arg, Fits(Kinds[kind], kind, arg), Begin(s, kind, u, arg),
             kind = "challenge" => u \in tokens
      PROVE  IInv'
  BY <1>2, BeginKeeps
<1> DEFINE Kept(kind, arg) == \A u \in Users : Begin(s, kind, u, arg) /\ (kind = "challenge" => u \in tokens) => IInv'
<1>3. /\ Kept("login", "login") /\ Kept("external", None) /\ Kept("challenge", None)
      /\ Kept("setup", None) /\ Kept("enable", None) /\ Kept("disable", None) /\ Kept("regenerate", None)
      /\ Kept("disable2fa", None) /\ Kept("password", None) /\ Kept("reset", None)
      /\ Kept("delete", "other") /\ Kept("scimDelete", None) /\ Kept("ldapGone", "suspended")
  BY <1>2, KindsFit
<1>4. ASSUME NEW k \in Sessions \cup {None} PROVE Kept("logout", k) /\ Kept("logoutAll", k)
  BY <1>2, KindsFit
<1>5. ASSUME NEW role \in {"super", "other"} PROVE Kept("roles", role)
  BY <1>2, KindsFit
<1>6. ASSUME NEW new \in {"active", "suspended"}
      PROVE  Kept("status", new) /\ Kept("scim", new) /\ Kept("ldap", new) /\ Kept("ldapRoles", new)
  BY <1>2, KindsFit
<1>7. CASE \E k \in Sessions : Logout(s, k)
  BY <1>1, <1>4, <1>7 DEF Logout
<1>8. ASSUME NEW u \in Users,
             \/ Login(s, u) \/ LoginElsewhere(s, u) \/ VerifyTotpChallenge(s, u) \/ LogoutAll(s, u)
             \/ OwnFactor(s, u) \/ ChangePassword(s, u) \/ UpdateRoles(s, u) \/ UpdateUser(s, u)
             \/ DeleteUser(s, u) \/ DisableUser2fa(s, u) \/ ResetUserPassword(s, u)
             \/ ScimPatch(s, u) \/ ScimRemove(s, u) \/ SyncLdapUser(s, u) \/ DisableLdapUser(s, u)
      PROVE  IInv'
  <2>1. CASE \/ Login(s, u) \/ LoginElsewhere(s, u) \/ VerifyTotpChallenge(s, u) \/ ChangePassword(s, u)
             \/ DeleteUser(s, u) \/ DisableUser2fa(s, u) \/ ResetUserPassword(s, u) \/ ScimRemove(s, u)
             \/ DisableLdapUser(s, u)
    BY <1>3, <2>1 DEF Login, LoginElsewhere, VerifyTotpChallenge, ChangePassword, DeleteUser,
                      DisableUser2fa, ResetUserPassword, ScimRemove, DisableLdapUser
  <2>2. CASE OwnFactor(s, u)
    BY <1>3, <2>2 DEF OwnFactor
  <2>3. CASE LogoutAll(s, u)
    BY <1>1, <1>4, <2>3 DEF LogoutAll
  <2>4. CASE UpdateRoles(s, u)
    BY <1>5, <2>4 DEF UpdateRoles
  <2>5. CASE UpdateUser(s, u) \/ ScimPatch(s, u)
    BY <1>6, <2>5 DEF UpdateUser, ScimPatch
  <2>6. CASE SyncLdapUser(s, u)
    BY <1>6, <2>6 DEF SyncLdapUser
  <2> QED BY <1>8, <2>1, <2>2, <2>3, <2>4, <2>5, <2>6
<1> QED BY <1>7, <1>8 DEF Arrive

(* The clock only unlocks; nothing happens, or that. *)
LEMMA UnlockingKeeps ==
  ASSUME IInv, locked' \subseteq locked,
         UNCHANGED <<status, supers, failures, factor, logins, requests, started, mishaps, history>>
  PROVE  IInv'
<1>1. /\ status' = status /\ supers' = supers /\ failures' = failures /\ locked' \subseteq locked
      /\ secret' = secret /\ totp' = totp /\ codes' = codes /\ issued' = issued
      /\ tokens' = tokens /\ sessions' = sessions /\ active' = active /\ opened' = opened /\ late' = late
      /\ requests' = requests /\ started' = started /\ mishaps' = mishaps
      /\ shared' = shared /\ unrevoked' = unrevoked /\ clashed' = clashed /\ muddled' = muddled
  BY DEF factor, logins, history
<1>2. \A s : Left(s)' = Left(s) /\ Of(s)' = Of(s) /\ (Busy(s)' <=> Busy(s)) /\ \A x : At(s, x)' <=> At(s, x)
  BY <1>1 DEF Left, Of, Busy, At
<1> USE DEF IInv, Typed
<1>3. RequestsTyped' /\ RequestsMakeSense' /\ RestTyped'
  BY <1>1, <1>2 DEF RequestsTyped, RequestsMakeSense, RestTyped
<1>4. FailuresWereTried'
  <2>1. \A v : Trying(v)' = Trying(v)
    BY <1>2 DEF Trying
  <2> QED BY <1>1, <2>1 DEF FailuresWereTried
<1>5. EnteringIsActive' /\ SessionsEnd'
  BY <1>1, <1>2 DEF EnteringIsActive, SessionsEnd
<1>6. CodesAreHeldOnce'
  <2>1. \A s, c : Holds(s, c)' <=> Holds(s, c)
    BY <1>1, <1>2 DEF Holds
  <2> QED BY <1>1, <1>2, <2>1 DEF CodesAreHeldOnce
<1>7. FactorsAreKept' /\ RolesAreKept'
  BY <1>1, <1>2 DEF FactorsAreKept, FactorHasItsSecret, RolesAreKept
<1>8. LoginsStand'
  BY <1>1, <1>2 DEF LoginsStand, Stands, Answered
<1> QED BY <1>3, <1>4, <1>5, <1>6, <1>7, <1>8
LEMMA InitIInv == Init => IInv
<1> SUFFICES ASSUME Init PROVE IInv
  OBVIOUS
<1>1. /\ requests = [s \in Slots |-> Idle] /\ requests \in [Slots -> Request]
      /\ \A s \in Slots : /\ requests[s] = Idle /\ requests[s].touched = FALSE
                          /\ requests[s].user = None /\ requests[s].todo = <<>>
  BY IdleTyped DEF Init, Idle
<1>2. \A s \in Slots : ~Busy(s) /\ Left(s) = {} /\ \A x : ~At(s, x)
  BY <1>1, Nothing DEF Busy, Left, At
<1>3. RequestsTyped /\ RequestsMakeSense
  BY <1>1, <1>2 DEF RequestsTyped, RequestsMakeSense
<1>4. /\ codes \in [Users -> SUBSET issued] /\ issued \subseteq Codes
      /\ \A u, v \in Users : u # v => codes[u] \cap codes[v] = {}
  <2>1. codes \in [Users -> {{}} \cup {{c} : c \in Codes}] /\ issued = UNION {codes[u] : u \in Users}
    BY DEF Init
  <2>2. \A u \in Users : codes[u] \subseteq issued /\ codes[u] \subseteq Codes
    BY <2>1
  <2>3. \A u, v \in Users : u # v => codes[u] \cap codes[v] = {}
    BY DEF Init
  <2> QED BY <2>1, <2>2, <2>3
<1>5. RestTyped
  <2>1. /\ status \in [Users -> Statuses] /\ supers \subseteq Users
        /\ failures \in [Users -> Nat] /\ locked \subseteq Users
        /\ secret \cup totp \cup tokens \subseteq Users
    BY DEF Init, Statuses
  <2>2. /\ sessions \in [Sessions -> Users \cup {None}]
        /\ active \cup late \cup unrevoked \subseteq {k \in Sessions : sessions[k] # None}
    BY DEF Init
  <2>3. started \in 0..MaxRequests /\ mishaps \in 0..MaxMishaps
    <3>1. started = 0 /\ mishaps = 0
      BY DEF Init
    <3> QED BY <3>1, AccountsAssumption
  <2>4. /\ opened \in [Codes -> Nat] /\ shared \subseteq Codes
        /\ clashed \subseteq Users /\ muddled \in BOOLEAN
    BY DEF Init
  <2> QED BY <1>4, <2>1, <2>2, <2>3, <2>4 DEF RestTyped
<1>6. FailuresWereTried
  <2> SUFFICES ASSUME NEW u \in Users PROVE failures[u] + Cardinality(Trying(u)) <= started
    BY DEF FailuresWereTried
  <2>1. Trying(u) = {}
    BY <1>2 DEF Trying
  <2>2. failures[u] = 0 /\ started = 0
    BY DEF Init
  <2> QED BY <2>1, <2>2, FS_EmptySet
<1>7. EnteringIsActive /\ SessionsEnd /\ LoginsStand
  <2>1. active = {}
    BY DEF Init
  <2> QED BY <1>2, <2>1 DEF EnteringIsActive, SessionsEnd, LoginsStand, Stands
<1>8. CodesAreHeldOnce
  <2>1. \A s \in Slots : \A c \in Codes : ~Holds(s, c)
    BY <1>2 DEF Holds
  <2>2. \A c \in Codes : opened[c] = 0
    BY DEF Init
  <2> QED BY <2>1, <2>2 DEF CodesAreHeldOnce
<1>9. FactorsAreKept /\ RolesAreKept
  <2>1. totp = secret /\ supers # {}
    BY DEF Init
  <2> QED BY <1>2, <2>1 DEF FactorsAreKept, FactorHasItsSecret, RolesAreKept
<1> QED BY <1>3, <1>5, <1>6, <1>7, <1>8, <1>9 DEF IInv, Typed

LEMMA NextIInv == IInv /\ [Next]_vars => IInv'
<1> SUFFICES ASSUME IInv, [Next]_vars PROVE IInv'
  OBVIOUS
<1>1. ASSUME NEW s \in Slots, Arrive(s) PROVE IInv'
  BY <1>1, ArriveKeeps
<1>2. ASSUME NEW s \in Slots, Statement(s), UNCHANGED <<started, mishaps>> PROVE IInv'
  <2>1. CASE \/ ActiveUser(s) \/ Found(s) \/ Differs(s) \/ StartedSetup(s) \/ Enabled(s) \/ TotpOn(s)
             \/ Several(s)
    BY <1>2, <2>1, ChecksKeep
  <2>2. CASE WasSuper(s)
    BY <1>2, <2>2, WasSuperKeeps
  <2>3. CASE Credentials(s)
    BY <1>2, <2>3, CredentialsKeeps
  <2>4. CASE IncrementFailedAttempts(s)
    BY <1>2, <2>4, IncrementKeeps
  <2>5. CASE ResetFailedAttempts(s)
    BY <1>2, <2>5, ResetKeeps
  <2>6. CASE Code(s)
    BY <1>2, <2>6, CodeKeeps
  <2>7. CASE RemoveBackupCode(s)
    BY <1>2, <2>7, RemoveCodeKeeps
  <2>8. CASE CreateSession(s)
    BY <1>2, <2>8, CreateSessionKeeps
  <2>9. CASE Deactivate(s) \/ DeactivateAllForUser(s)
    BY <1>2, <2>9, DeactivateKeeps
  <2>10. CASE SetTotpSecret(s) \/ EnableTotp(s) \/ DisableTotp(s) \/ UpdateBackupCodes(s)
    BY <1>2, <2>10, FactorStatementsKeep
  <2>11. CASE UpdatePassword(s)
    BY <1>2, <2>11, PasswordKeeps
  <2>12. CASE DeleteRoles(s)
    BY <1>2, <2>12, DeleteRolesKeeps
  <2>13. CASE InsertRoles(s)
    BY <1>2, <2>13, InsertRolesKeeps
  <2>14. CASE UpdateStatus(s) \/ SoftDelete(s) \/ UpsertLdapUser(s)
    BY <1>2, <2>14, StatusStatementsKeep
  <2> QED BY <1>2, <2>1, <2>2, <2>3, <2>4, <2>5, <2>6, <2>7, <2>8, <2>9, <2>10, <2>11, <2>12, <2>13,
             <2>14 DEF Statement
<1>3. ASSUME NEW s \in Slots, Fail(s) PROVE IInv'
  BY <1>3, FailKeeps
<1>4. ASSUME NEW u \in Users, LockExpires(u) PROVE IInv'
  <2>1. /\ locked' \subseteq locked
        /\ UNCHANGED <<status, supers, failures, factor, logins, requests, started, mishaps, history>>
    BY <1>4 DEF LockExpires
  <2> QED BY <2>1, UnlockingKeeps
<1>5. CASE UNCHANGED vars
  <2>1. /\ locked' \subseteq locked
        /\ UNCHANGED <<status, supers, failures, factor, logins, requests, started, mishaps, history>>
    BY <1>5 DEF vars, lock
  <2> QED BY <2>1, UnlockingKeeps
<1> QED BY <1>1, <1>2, <1>3, <1>4, <1>5 DEF Next

LEMMA Invariance == Spec => []IInv
BY InitIInv, NextIInv, PTL DEF Spec

-----------------------------------------------------------------------------
(* Every part of an account has its kind: a code is of one account only, who has an active
   session is somebody, and no account counts more failed logins than requests came. *)
THEOREM TypeCorrect == Spec => []TypeOK
<1>1. ASSUME IInv PROVE TypeOK
  <2> USE <1>1 DEF IInv, Typed
  <2>1. failures \in [Users -> 0..MaxRequests]
    <3>1. ASSUME NEW u \in Users PROVE failures[u] \in 0..MaxRequests
      <4>1. /\ failures[u] + Cardinality(Trying(u)) <= started
            /\ failures[u] \in Nat /\ Cardinality(Trying(u)) \in Nat /\ started \in 0..MaxRequests
        BY TryingIsFinite DEF FailuresWereTried, RestTyped
      <4> QED BY <4>1, AccountsAssumption
    <3>2. failures \in [Users -> Nat]
      BY DEF RestTyped
    <3> QED BY <3>1, <3>2
  <2>2. \A s \in Slots : requests[s].user \in Users \cup {None}
    BY DEF RequestsTyped, Request
  <2> QED BY <2>1, <2>2 DEF TypeOK, RestTyped
<1> QED BY <1>1, Invariance, PTL

(* An account that is not active has no session but those that the property names: opened or left
   open past a change of the account, by a revocation cut short or by a directory; a backup code
   opens one session but for two challenges at once; the second factor has its secret; the role
   super_admin keeps a holder, active or not, but for overlaps and LDAP (services/auth, admin and
   scim): of every number of users, codes and requests at once. *)
THEOREM AccountsKept == Spec => []AccountsAreKept
<1>1. ASSUME IInv PROVE AccountsAreKept
  <2> USE <1>1 DEF IInv, Typed
  <2>1. SessionsEndWithTheAccount
    BY DEF SessionsEnd, SessionsEndWithTheAccount
  <2>2. CodesOpenOnce
    BY DEF CodesAreHeldOnce, CodesOpenOnce
  <2>3. FactorHasItsSecret
    BY DEF FactorsAreKept
  <2>4. SomeRowIsSuper
    BY DEF RolesAreKept, SomeRowIsSuper
  <2> QED BY <2>1, <2>2, <2>3, <2>4 DEF AccountsAreKept, GuardsHold
<1> QED BY <1>1, Invariance, PTL

(* No login ends a lock that it should have met; a challenge, which does not look at the lock,
   ends it only for who holds a token; and a session is opened of an active account, by a login
   without and by a challenge with the second factor, unless the account changed while the
   request was under way (AuthService.login, verifyTotpChallenge). *)
THEOREM LoginsAllowed == Spec => LoginsWereAllowed
<1> DEFINE Allowed(s) ==
      LET r == requests[s]
          u == r.user
      IN
        /\ ResetFailedAttempts(s) => IF Answers(r) THEN u \in tokens ELSE u \notin locked \/ r.touched
        /\ CreateSession(s) =>
             /\ r.touched \/ status[u] = "active"
             /\ r.arg = "login" => r.touched \/ u \notin totp
             /\ Answers(r) => u \in tokens /\ (r.touched \/ u \in totp)
<1>1. ASSUME IInv, NEW s \in Slots PROVE Allowed(s)
  <2> DEFINE r == requests[s]
  <2>1. Stands(s) /\ (Answers(r) <=> Answered(s)) /\ Of(s) = r.user
    BY <1>1 DEF IInv, LoginsStand, Answers, Answered, Of
  <2>2. ASSUME ResetFailedAttempts(s) PROVE "resetFailures" \in Left(s)
    BY <1>1, <2>2, OfIsUser DEF ResetFailedAttempts
  <2>3. ASSUME CreateSession(s)
        PROVE  "session" \in Left(s) /\ (r.touched \/ status[r.user] = "active")
    <3>1. At(s, "session") /\ "session" \in Left(s) /\ r.todo \in Todos
      BY <1>1, <2>3, OfIsUser DEF CreateSession
    <3>2. "activeUser" \notin Left(s)
      BY <3>1, Follows DEF At, Left, Busy
    <3>3. Left(s) \cap Entering # {}
      BY <3>1 DEF Entering
    <3> QED BY <1>1, <2>1, <3>1, <3>2, <3>3 DEF IInv, EnteringIsActive
  <2> QED BY <2>1, <2>2, <2>3 DEF Stands
<1>2. IInv => [\A s \in Slots : Allowed(s)]_vars
  BY <1>1
<1> QED BY <1>2, Invariance, PTL DEF LoginsWereAllowed
=============================================================================
