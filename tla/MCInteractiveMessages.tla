----------------------- MODULE MCInteractiveMessages -----------------------
(* Two voters and two options, a word of two letters, two requests at a time. *)
EXTENDS InteractiveMessages, TLC

symmetry == Permutations(Users) \cup Permutations(Options)
=============================================================================
