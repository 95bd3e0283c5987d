----------------------------- MODULE MCAccounts -----------------------------
(* Two users, two sessions and two backup codes, two requests at a time: three requests, or
   two of which one is cut short. *)
EXTENDS Accounts, TLC

ThreeEvents == started + mishaps <= 3

BoundedSpec == Init /\ [][Next /\ ThreeEvents']_vars

symmetry == Permutations(Users) \cup Permutations(Codes)
=============================================================================
