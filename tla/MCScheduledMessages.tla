------------------------ MODULE MCScheduledMessages ------------------------
(* Two scheduled messages and a reminder, one run of the job on each of two
   instances, batches of one, and up to two crashes or failed statements. *)
EXTENDS ScheduledMessages

CONSTANTS i1, i2, w1

MCHostOf == [w \in Runs |-> IF w = w1 THEN i1 ELSE i2]
============================================================================
