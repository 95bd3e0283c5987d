------------------------- MODULE MCCallSignalling -------------------------
(* Two members and two calls, one from their chat and one from a group that they share,
   which either may start, with a lost connection: the clients and the server alone. *)
EXTENDS Calls, TLC

SignalsAlone == Init /\ [][Signalling!Next /\ NoRecords]_vars

Alike == Permutations(Users)
============================================================================
