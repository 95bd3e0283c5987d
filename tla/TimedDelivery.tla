--------------------------- MODULE TimedDelivery ---------------------------
(***************************************************************************)
(* What EchoChat promises about anything a user leaves for later (a        *)
(* scheduled message, a reminder): an item waits until it is taken, it can *)
(* be withdrawn only while it waits, and once taken it goes out at most    *)
(* once.  Nothing is promised about an item that is taken and then lost.   *)
(***************************************************************************)
EXTENDS Naturals

CONSTANT Items

VARIABLES
  stage,    \* stage[i]: where item i is in its life
  out       \* out[i]: how many times item i has gone out

vars == <<stage, out>>

Stages == {"absent", "waiting", "withdrawn", "taken", "delivered", "failed"}

Init ==
  /\ stage = [i \in Items |-> "absent"]
  /\ out = [i \in Items |-> 0]

Leave(i) ==
  /\ stage[i] = "absent"
  /\ stage' = [stage EXCEPT ![i] = "waiting"]
  /\ UNCHANGED out

Withdraw(i) ==
  /\ stage[i] = "waiting"
  /\ stage' = [stage EXCEPT ![i] = "withdrawn"]
  /\ UNCHANGED out

(* One sweep takes any number of waiting items at once. *)
Take ==
  /\ \E S \in SUBSET {i \in Items : stage[i] = "waiting"} :
       stage' = [i \in Items |-> IF i \in S THEN "taken" ELSE stage[i]]
  /\ UNCHANGED out

GoOut(i) ==
  /\ stage[i] = "taken"
  /\ out[i] = 0
  /\ out' = [out EXCEPT ![i] = 1]
  /\ UNCHANGED stage

(* Only an item that went out is recorded as delivered. *)
RecordDelivered(i) ==
  /\ stage[i] = "taken"
  /\ out[i] = 1
  /\ stage' = [stage EXCEPT ![i] = "delivered"]
  /\ UNCHANGED out

(* A failure may be recorded whether or not the item went out, and over a
   delivery whose acknowledgement was lost. *)
RecordFailed(i) ==
  /\ stage[i] \in {"taken", "delivered"}
  /\ stage' = [stage EXCEPT ![i] = "failed"]
  /\ UNCHANGED out

Next ==
  \/ Take
  \/ \E i \in Items :
       \/ Leave(i)
       \/ Withdraw(i)
       \/ GoOut(i)
       \/ RecordDelivered(i)
       \/ RecordFailed(i)

Spec == Init /\ [][Next]_vars
============================================================================
