------------------------------ MODULE JobLock ------------------------------
(***************************************************************************)
(* The lock that decides which backend instance runs a tick of a           *)
(* background job (backend/src/jobs/index.ts, claimRun).  With Redis it is  *)
(* the key jobs:lock:<job>, taken by SET NX EX 30 and never released: it    *)
(* disappears when its 30 s have passed, whether or not the run it allowed  *)
(* has ended.  Without Redis there is no key and every tick is allowed.     *)
(***************************************************************************)
CONSTANT
  Redis         \* TRUE iff REDIS_URL is configured

VARIABLE
  lock          \* TRUE iff the key exists

LockTypeOK == lock \in BOOLEAN

LockInit == lock = FALSE

(* claimRun answers true: no Redis, or the SET NX found no key. *)
Claim ==
  \/ /\ ~Redis
     /\ UNCHANGED lock
  \/ /\ Redis
     /\ ~lock
     /\ lock' = TRUE

(* The reply to SET NX is lost: the key exists, but claimRun's catch answers
   false and the tick is skipped. *)
ClaimReplyLost ==
  /\ Redis
  /\ ~lock
  /\ lock' = TRUE

(* A key set without EX. *)
ExpireNunca ==
  /\ lock
  /\ UNCHANGED lock

(* The key's TTL runs out. *)
Expire ==
  /\ lock
  /\ lock' = FALSE
============================================================================
