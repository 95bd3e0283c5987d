------------------------------ MODULE Accounts ------------------------------
(***************************************************************************)
(* Accounts, sessions, the second factor and the super_admin role             *)
(* (services/auth, admin and scim, the credential, session and user           *)
(* repositories).                                                             *)
(*                                                                         *)
(* A request is the list of the statements it has still to run, with an await *)
(* between any two: a check is a statement, and what it found may have        *)
(* changed when the next one runs.  Any statement may be the last.            *)
(*                                                                         *)
(* Abstracted: hashes and tokens (a password or a code is right or wrong),    *)
(* roles other than super_admin, profiles, the audit log, which provider an   *)
(* account is of, and who is an administrator.                                *)
(***************************************************************************)
EXTENDS Naturals, Sequences, FiniteSets

CONSTANTS
  Users,
  Codes,          \* backup codes
  Sessions,
  Slots,          \* requests in flight at once
  MaxFailures,    \* failed attempts that lock an account
  MaxRequests, MaxMishaps,   \* bounds: requests of the run, requests cut short
  None

Statuses == {"active", "suspended", "deleted"}

ASSUME AccountsAssumption ==
  /\ MaxFailures \in Nat \ {0} /\ MaxRequests \in Nat /\ MaxMishaps \in Nat
  /\ IsFiniteSet(Slots)
  /\ LET words == Statuses \cup {"login", "challenge", "answer", "super", "other"} IN
       /\ None \notin Users \cup Codes \cup Sessions \cup words
       /\ (Codes \cup Sessions) \cap words = {}

VARIABLES
  status,      \* users.status
  supers,      \* user_roles: users with the role super_admin
  failures, locked,            \* failed_attempts; users whose locked_until is in the future
  secret, totp, codes, issued, \* totp_secret, totp_enabled, totp_backup_codes; codes given so far
  tokens,      \* users that hold the token of a second-factor challenge
  sessions,    \* user_sessions: sessions[k] is the user, None when there is none
  active,      \* sessions with is_active
  requests,    \* requests[s]: see Idle
  started, mishaps,
  opened,      \* history: opened[c], sessions that a backup code has opened
  shared,      \* history: codes that two challenges tried at once
  late,        \* history: sessions opened by a request during which the account changed
  unrevoked,   \* history: sessions that a directory left to whom it put out, or a revocation cut short
  clashed,     \* history: users for whom two requests changed the second factor at once
  muddled      \* history: roles were changed by two requests at once, half-way or by LDAP

lock == <<failures, locked>>
factor == <<secret, totp, codes, issued>>
logins == <<tokens, sessions, active, opened, late>>
history == <<shared, unrevoked, clashed, muddled>>
vars == <<status, supers, lock, factor, logins, requests, started, mishaps, history>>

(* A request: what it has to run, for whom, and what it carries: a status, a role,
   a session, a code, whether it is a login, one that goes on with a challenge, or its answer; (history) whether the account
   that comes in has changed since it began. *)
Idle == [todo |-> <<>>, user |-> None, arg |-> None, touched |-> FALSE]

Kinds == [login |-> <<"activeUser", "credentials">>,
          external |-> <<"activeUser", "session">>,
          challenge |-> <<"activeUser", "code">>,
          logout |-> <<"deactivate">>,
          logoutAll |-> <<"revoke">>,
          setup |-> <<"secret">>,
          enable |-> <<"startedSetup", "enable">>,
          disable |-> <<"enabled", "disable">>,
          regenerate |-> <<"enabled", "newCodes">>,
          disable2fa |-> <<"found", "totpOn", "disable", "revoke">>,
          password |-> <<"password">>,
          reset |-> <<"found", "password", "revoke">>,
          roles |-> <<"found", "wasSuper", "several", "deleteRoles", "insertRoles">>,
          status |-> <<"found", "status", "revoke">>,
          delete |-> <<"found", "wasSuper", "several", "softDelete", "revoke">>,
          scim |-> <<"differs", "status", "revoke">>,
          scimDelete |-> <<"found", "softDelete">>,
          ldap |-> <<"upsert">>,
          ldapRoles |-> <<"upsert", "deleteRoles", "insertRoles">>,
          ldapGone |-> <<"upsert", "revoke">>]

TypeOK ==
  /\ status \in [Users -> Statuses] /\ supers \subseteq Users
  /\ failures \in [Users -> 0..MaxRequests] /\ locked \subseteq Users
  /\ secret \cup totp \cup tokens \subseteq Users
  /\ codes \in [Users -> SUBSET issued] /\ issued \subseteq Codes
  /\ \A u, v \in Users : u # v => codes[u] \cap codes[v] = {}
  /\ sessions \in [Sessions -> Users \cup {None}]
  /\ active \cup late \cup unrevoked \subseteq {k \in Sessions : sessions[k] # None}
  /\ \A s \in Slots : requests[s].user \in Users \cup {None}
  /\ started \in 0..MaxRequests /\ mishaps \in 0..MaxMishaps
  /\ opened \in [Codes -> Nat] /\ shared \subseteq Codes
  /\ clashed \subseteq Users /\ muddled \in BOOLEAN

(* There is a super_admin; some have set up the second factor, and of those some have just
   given their password. *)
Init ==
  /\ status = [u \in Users |-> "active"] /\ supers \in (SUBSET Users) \ {{}}
  /\ failures = [u \in Users |-> 0] /\ locked = {}
  /\ totp \in SUBSET Users /\ secret = totp /\ tokens \in SUBSET totp
  /\ codes \in [Users -> {{}} \cup {{c} : c \in Codes}] /\ issued = UNION {codes[u] : u \in Users}
  /\ \A u, v \in Users : (u \in totp <=> codes[u] # {}) /\ (u # v => codes[u] \cap codes[v] = {})
  /\ sessions = [k \in Sessions |-> None] /\ active = {}
  /\ requests = [s \in Slots |-> Idle] /\ started = 0 /\ mishaps = 0
  /\ opened = [c \in Codes |-> 0] /\ late = {} /\ shared = {}
  /\ unrevoked = {} /\ clashed = {} /\ muddled = FALSE

-----------------------------------------------------------------------------
Busy(s) == requests[s].todo # <<>>
At(s, name) == Busy(s) /\ Head(requests[s].todo) = name
Rest(s) == Tail(requests[s].todo)
Of(s) == requests[s].user
OfUser(u) == {k \in active : sessions[k] = u}
Has(r, names) == \E i \in DOMAIN r.todo : r.todo[i] \in names

Entering == {"activeUser", "credentials", "code", "resetFailures", "session"}
Roles == {"deleteRoles", "insertRoles"}
Factor == {"secret", "enable", "disable", "newCodes"}

(* The request of slot s goes on as r; nothing left to run ends it. *)
Continue(s, r) == requests' = [requests EXCEPT ![s] = IF r.todo = <<>> THEN Idle ELSE r]
Go(s) == Continue(s, [requests[s] EXCEPT !.todo = Rest(s)])
Todo(s, todo) == Continue(s, [requests[s] EXCEPT !.todo = todo])

Begin(s, kind, u, arg) ==
  LET r == [Idle EXCEPT !.todo = Kinds[kind], !.user = u, !.arg = arg]
      both(names) == Has(r, names) /\ \E t \in Slots : Has(requests[t], names)
  IN
  /\ ~Busy(s) /\ s = (CHOOSE t \in Slots : ~Busy(t))
  /\ started < MaxRequests /\ started' = started + 1
  /\ requests' = [requests EXCEPT ![s] = r]
  /\ muddled' = (muddled \/ both(Roles) \/ kind = "ldapRoles")
  /\ clashed' = clashed \cup {u : t \in {t \in Slots : /\ Has(r, Factor) /\ Has(requests[t], Factor)
                                                       /\ Of(t) = u}}
  /\ UNCHANGED <<status, supers, lock, factor, logins, mishaps, shared, unrevoked>>

SignedIn(u) == \E k \in active : sessions[k] = u /\ status[u] = "active"

(* Of the user: *)
Login(s, u) == Begin(s, "login", u, "login")
LoginElsewhere(s, u) == Begin(s, "external", u, None)   \* LDAP or a provider says who it is
VerifyTotpChallenge(s, u) == u \in tokens /\ Begin(s, "challenge", u, None)
Logout(s, k) == k \in active /\ SignedIn(sessions[k]) /\ Begin(s, "logout", sessions[k], k)
LogoutAll(s, u) ==
  SignedIn(u) /\ \E k \in active \cup {None} : (k # None => sessions[k] = u) /\ Begin(s, "logoutAll", u, k)
OwnFactor(s, u) ==
  SignedIn(u) /\ \E kind \in {"setup", "enable", "disable", "regenerate"} : Begin(s, kind, u, None)
ChangePassword(s, u) == SignedIn(u) /\ Begin(s, "password", u, None)

(* Of an administrator, who is somebody else when the status changes: *)
UpdateRoles(s, u) == \E new \in {"super", "other"} : Begin(s, "roles", u, new)
UpdateUser(s, u) == \E new \in {"active", "suspended"} : Begin(s, "status", u, new)
DeleteUser(s, u) == Begin(s, "delete", u, "other")
DisableUser2fa(s, u) == Begin(s, "disable2fa", u, None)
ResetUserPassword(s, u) == Begin(s, "reset", u, None)

(* Of a directory: an account that is active or is not, a deletion, an import of the user, a user that is no longer there. *)
ScimPatch(s, u) == \E new \in {"active", "suspended"} : Begin(s, "scim", u, new)
ScimRemove(s, u) == Begin(s, "scimDelete", u, None)
SyncLdapUser(s, u) ==
  \E new \in {"active", "suspended"}, kind \in {"ldap", "ldapRoles"} : Begin(s, kind, u, new)
DisableLdapUser(s, u) == status[u] = "active" /\ Begin(s, "ldapGone", u, "suspended")

-----------------------------------------------------------------------------
(* Slot s goes on with the statements todo, and the requests of its user to come in see the
   account change. *)
Touch(s, todo) ==
  requests' = [t \in Slots |->
    IF t = s THEN IF todo = <<>> THEN Idle ELSE [requests[s] EXCEPT !.todo = todo]
    ELSE [requests[t] EXCEPT !.touched = @ \/ (Has(requests[t], Entering) /\ Of(t) = Of(s))]]

(* A statement that only reads: the request goes on if it finds what it needs. *)
Check(s, name, ok) ==
  /\ At(s, name) /\ (IF ok THEN Go(s) ELSE Continue(s, Idle))
  /\ UNCHANGED <<status, supers, lock, factor, logins, history>>


(* Suspended or not. *)
ActiveUserSinMirar(s) == Check(s, "activeUser", status[Of(s)] # "deleted")

ActiveUser(s) == Check(s, "activeUser", status[Of(s)] = "active")
Found(s) == Check(s, "found", status[Of(s)] # "deleted")
StartedSetup(s) == Check(s, "startedSetup", Of(s) \in secret \ totp)
Enabled(s) == Check(s, "enabled", Of(s) \in secret \cap totp)
Differs(s) == Check(s, "differs", status[Of(s)] \notin {"deleted", requests[s].arg})
TotpOn(s) == Check(s, "totpOn", Of(s) \in totp)

(* Only who is super_admin and is not to be has the others counted. *)
WasSuper(s) ==
  /\ At(s, "wasSuper")
  /\ Todo(s, IF Of(s) \in supers /\ requests[s].arg = "other" THEN Rest(s) ELSE Tail(Rest(s)))
  /\ UNCHANGED <<status, supers, lock, factor, logins, history>>

(* The count is of rows: whoever is suspended or deleted still counts. *)
Several(s) == Check(s, "several", Cardinality(supers) > 1)

(* login reads the credentials and then compares the password, right or wrong. *)
Credentials(s) ==
  LET totpOn == Of(s) \in totp IN
  /\ At(s, "credentials")
  /\ IF Of(s) \in locked THEN Continue(s, Idle)
     ELSE \/ Todo(s, <<"increment">>)
          \/ Continue(s, [requests[s] EXCEPT !.todo = IF totpOn THEN <<"resetFailures">>
                                                                ELSE <<"resetFailures", "session">>,
                                             !.arg = IF totpOn THEN "challenge" ELSE "login"])
  /\ UNCHANGED <<status, supers, lock, factor, logins, history>>

Increment(s, n) ==
  LET u == Of(s) IN
  /\ At(s, "increment")
  /\ failures' = [failures EXCEPT ![u] = @ + n]
  /\ IF failures[u] + n >= MaxFailures THEN locked' = locked \cup {u} /\ Touch(s, Rest(s))
                                       ELSE Go(s) /\ UNCHANGED locked
  /\ UNCHANGED <<status, supers, factor, logins, history>>

(* A failure that counts twice. *)
IncrementDoble(s) == Increment(s, 2)

IncrementFailedAttempts(s) == Increment(s, 1)

(* It unlocks the account, which a challenge does whatever the lock, and a login with a second
   factor leaves with its token. *)
ResetFailedAttempts(s) ==
  LET u == Of(s) IN
  /\ At(s, "resetFailures") /\ Go(s)
  /\ failures' = [failures EXCEPT ![u] = 0] /\ locked' = locked \ {u}
  /\ tokens' = IF requests[s].arg = "challenge" THEN tokens \cup {u} ELSE tokens
  /\ UNCHANGED <<status, supers, factor, sessions, active, opened, late, history>>

(* The challenge reads the credentials: a backup code, a right one of the application, or
   neither. *)
Code(s) ==
  LET u == Of(s)
      inHand == {requests[t].arg : t \in {t \in Slots \ {s} : Busy(t)}}
  IN
  /\ At(s, "code")
  /\ \/ Continue(s, Idle) /\ UNCHANGED shared
     \/ /\ u \in totp \cap secret /\ UNCHANGED shared
        /\ Continue(s, [requests[s] EXCEPT !.todo = <<"session", "resetFailures">>, !.arg = "answer"])
     \/ /\ u \in totp
        /\ \E c \in codes[u] :
             /\ Continue(s, [requests[s] EXCEPT !.todo = <<"removeCode", "session", "resetFailures">>,
                                                !.arg = c])
             /\ shared' = shared \cup ({c} \cap inHand)
  /\ UNCHANGED <<status, supers, lock, factor, logins, unrevoked, clashed, muddled>>

RemoveBackupCode(s) ==
  LET u == Of(s) IN
  /\ At(s, "removeCode") /\ Go(s)
  /\ codes' = [codes EXCEPT ![u] = @ \ {requests[s].arg}]
  /\ UNCHANGED <<status, supers, lock, secret, totp, issued, logins, history>>

(* Every way to a session ends here. *)
CreateSession(s) ==
  LET r == requests[s] IN
  /\ At(s, "session") /\ Go(s)
  /\ \E k \in Sessions :
       /\ sessions[k] = None /\ k = (CHOOSE l \in Sessions : sessions[l] = None)
       /\ sessions' = [sessions EXCEPT ![k] = r.user] /\ active' = active \cup {k}
       /\ late' = IF r.touched THEN late \cup {k} ELSE late
  /\ opened' = IF r.arg \in Codes THEN [opened EXCEPT ![r.arg] = @ + 1] ELSE opened
  /\ UNCHANGED <<status, supers, lock, factor, tokens, history>>

Deactivate(s) ==
  /\ At(s, "deactivate") /\ Go(s) /\ active' = active \ {requests[s].arg}
  /\ UNCHANGED <<status, supers, lock, factor, tokens, sessions, opened, late, history>>

(* All of the user's, or all but the one of the request that asks for it. *)
DeactivateAllForUser(s) ==
  /\ At(s, "revoke") /\ Go(s)
  /\ active' = {k \in active : sessions[k] # Of(s) \/ k = requests[s].arg}
  /\ UNCHANGED <<status, supers, lock, factor, tokens, sessions, opened, late, history>>

-----------------------------------------------------------------------------
(* The statements that change the second factor, whatever was read before. *)
SetFactor(s, name, hasSecret, on, new) ==
  LET u == Of(s)
      put(set, yes) == IF yes THEN set \cup {u} ELSE set \ {u}
  IN
  /\ At(s, name) /\ Touch(s, Rest(s))
  /\ secret' = put(secret, hasSecret) /\ totp' = put(totp, on)
  /\ codes' = [codes EXCEPT ![u] = new] /\ issued' = issued \cup new
  /\ UNCHANGED <<status, supers, lock, logins, history>>

SetTotpSecret(s) == SetFactor(s, "secret", TRUE, FALSE, codes[Of(s)])
EnableTotp(s) == \E c \in Codes \ issued : SetFactor(s, "enable", Of(s) \in secret, TRUE, {c})
DisableTotp(s) == SetFactor(s, "disable", FALSE, FALSE, {})
UpdateBackupCodes(s) ==
  \E c \in Codes \ issued : SetFactor(s, "newCodes", Of(s) \in secret, Of(s) \in totp, {c})

(* A new password forgets the failures, not the lock. *)
UpdatePassword(s) ==
  /\ At(s, "password") /\ Go(s) /\ failures' = [failures EXCEPT ![Of(s)] = 0]
  /\ UNCHANGED <<status, supers, locked, factor, logins, history>>

(* setUserRoles: two statements.  With LDAP it is the groups that say which roles. *)
DeleteRoles(s) ==
  /\ At(s, "deleteRoles") /\ Go(s) /\ supers' = supers \ {Of(s)}
  /\ UNCHANGED <<status, lock, factor, logins, history>>
InsertRoles(s) ==
  /\ At(s, "insertRoles") /\ Go(s)
  /\ \/ requests[s].arg # "other" /\ supers' = supers \cup {Of(s)}
     \/ requests[s].arg # "super" /\ supers' = supers
  /\ UNCHANGED <<status, lock, factor, logins, history>>

(* Nothing brings back who is deleted. *)
SetStatus(s, name, new, todo) ==
  LET u == Of(s) IN
  /\ At(s, name) /\ Touch(s, todo)
  /\ status' = [status EXCEPT ![u] = IF @ = "deleted" THEN @ ELSE new]
  /\ unrevoked' = IF "revoke" \notin {todo[i] : i \in DOMAIN todo} /\ new # "active" /\ name # "status"
                  THEN unrevoked \cup OfUser(u) ELSE unrevoked
  /\ UNCHANGED <<supers, lock, factor, logins, shared, clashed, muddled>>

(* A suspension that leaves the sessions. *)
UpdateStatusSinRevocar(s) == SetStatus(s, "status", requests[s].arg, <<>>)

UpdateStatus(s) ==
  SetStatus(s, "status", requests[s].arg, IF requests[s].arg = "active" THEN <<>> ELSE Rest(s))
SoftDelete(s) == SetStatus(s, "softDelete", "deleted", Rest(s))
UpsertLdapUser(s) == SetStatus(s, "upsert", requests[s].arg, Rest(s))

(* The clock. *)
LockExpires(u) ==
  /\ locked' = locked \ {u} /\ u \in locked
  /\ UNCHANGED <<status, supers, failures, factor, logins, requests, started, mishaps, history>>

(* A statement fails or the instance stops. *)
Fail(s) ==
  LET r == requests[s] IN
  /\ Busy(s) /\ mishaps < MaxMishaps /\ mishaps' = mishaps + 1
  /\ Continue(s, Idle)
  /\ unrevoked' = IF At(s, "revoke") THEN unrevoked \cup OfUser(r.user) ELSE unrevoked
  /\ muddled' = (muddled \/ At(s, "insertRoles"))
  /\ UNCHANGED <<status, supers, lock, factor, logins, started, shared, clashed>>

Arrive(s) ==
  \/ \E u \in Users :
       \/ Login(s, u) \/ LoginElsewhere(s, u) \/ VerifyTotpChallenge(s, u) \/ LogoutAll(s, u)
       \/ OwnFactor(s, u) \/ ChangePassword(s, u) \/ UpdateRoles(s, u) \/ UpdateUser(s, u)
       \/ DeleteUser(s, u) \/ DisableUser2fa(s, u) \/ ResetUserPassword(s, u)
       \/ ScimPatch(s, u) \/ ScimRemove(s, u) \/ SyncLdapUser(s, u) \/ DisableLdapUser(s, u)
  \/ \E k \in Sessions : Logout(s, k)

Statement(s) ==
  \/ ActiveUser(s) \/ Found(s) \/ Differs(s) \/ StartedSetup(s) \/ Enabled(s) \/ TotpOn(s)
  \/ WasSuper(s) \/ Several(s)
  \/ Credentials(s) \/ IncrementFailedAttempts(s) \/ ResetFailedAttempts(s) \/ Code(s)
  \/ RemoveBackupCode(s) \/ CreateSession(s) \/ Deactivate(s) \/ DeactivateAllForUser(s)
  \/ SetTotpSecret(s) \/ EnableTotp(s) \/ DisableTotp(s) \/ UpdateBackupCodes(s) \/ UpdatePassword(s)
  \/ DeleteRoles(s) \/ InsertRoles(s) \/ UpdateStatus(s) \/ SoftDelete(s) \/ UpsertLdapUser(s)

Next ==
  \/ \E s \in Slots : Arrive(s) \/ (Statement(s) /\ UNCHANGED <<started, mishaps>>) \/ Fail(s)
  \/ \E u \in Users : LockExpires(u)

Spec == Init /\ [][Next]_vars

-----------------------------------------------------------------------------
(* An account that is not active has no session, unless its revocation is the next statement of
   a request, or the session was opened by a request during which the account changed, or was
   left open: by a revocation that failed, by a SCIM DELETE or by an LDAP import, which put the
   user out without one. *)
SessionsEndWithTheAccount ==
  \A k \in active \ (late \cup unrevoked) :
    \/ status[sessions[k]] = "active"
    \/ \E s \in Slots : Of(s) = sessions[k] /\ At(s, "revoke")

(* A backup code opens one session, unless two challenges tried it at once. *)
CodesOpenOnce == \A c \in Codes \ shared : opened[c] <= 1

(* The second factor has its secret, unless two requests changed it at once. *)
FactorHasItsSecret == totp \subseteq secret \cup clashed

(* Some account, be it suspended or deleted, keeps the role super_admin, unless two requests
   changed roles at once, one of them is or was left half-way, or LDAP took it away. *)
SomeRowIsSuper == supers = {} => muddled \/ \E s \in Slots : At(s, "insertRoles")

GuardsHold == CodesOpenOnce /\ FactorHasItsSecret /\ SomeRowIsSuper

(* What must be so of an account between one request and the next. *)
AccountsAreKept == SessionsEndWithTheAccount /\ GuardsHold

(* The request is a challenge that was answered well. *)
Answers(r) == r.arg = "answer" \/ r.arg \in Codes

(* A login ends the lock and counts afresh only if the account was not locked; a challenge does
   it without reading the lock, but only for who holds the token that a login gave.  A session is
   opened for an active account, by a login if the second factor is off, by a challenge if it is
   on and to who holds a token.  What is read may be stale if the account changed while the
   request was under way; the token may not. *)
LoginsWereAllowed ==
  [][\A s \in Slots : LET r == requests[s]
                          u == r.user
     IN
       /\ ResetFailedAttempts(s) => IF Answers(r) THEN u \in tokens ELSE u \notin locked \/ r.touched
       /\ CreateSession(s) =>
            /\ r.touched \/ status[u] = "active"
            /\ r.arg = "login" => r.touched \/ u \notin totp
            /\ Answers(r) => u \in tokens /\ (r.touched \/ u \in totp)]_vars

-----------------------------------------------------------------------------
(* What the documentation says of it, which the code does not keep: the system does not let an
   administrator delete the last super_admin (admin/usuarios.md:45). *)
LastSuperAdminStays ==
  [][\A s \in Slots :
       SoftDelete(s) /\ requests[s].arg = "other" /\ Of(s) \in supers
         => \E u \in supers \ {Of(s)} : status[u] # "deleted"]_vars
=============================================================================
