---------------------------- MODULE MCMembership ----------------------------
(* Two users, their direct conversations and a channel, two requests at a time: four requests,
   or three of which one is cut short. *)
EXTENDS Membership, TLC

FourEvents == started + mishaps <= 4

BoundedSpec == Init /\ [][Next /\ FourEvents']_vars

symmetry == Permutations(Users) \cup Permutations(Directs)
=============================================================================
