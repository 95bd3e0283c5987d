----------------------------- MODULE MCPresence -----------------------------
(* One instance, one tab that comes and goes, and two handlers at a time.  A run has requests
   of the person or a mishap: after a mishap a choice that is lost is not the server's doing. *)
EXTENDS Presence, TLC

CONSTANTS t1, t2

TwoTasks == {t1, t2}

RequestsOrMishap == requests = 0 \/ mishaps = 0

BoundedSpec == Init /\ [][Next /\ RequestsOrMishap']_vars /\ Fairness
=============================================================================
