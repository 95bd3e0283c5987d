------------------------------ MODULE MCCalls ------------------------------
(* Two members and one call, with a lost connection. *)
EXTENDS Calls
============================================================================
