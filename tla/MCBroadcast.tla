---------------------------- MODULE MCBroadcast ----------------------------
(* One broadcast, the request that creates it on one instance and runs of the job on
   another, with a list that may hold two users, one run at a time, and a crash or a
   failed statement. *)
EXTENDS Broadcast

CONSTANTS i1, i2, w1

MCHostOf == [d \in Dispatchers |-> IF d = w1 THEN i1 ELSE i2]
============================================================================
