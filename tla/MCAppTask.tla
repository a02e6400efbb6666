----------------------------- MODULE MCAppTask -----------------------------
(* Two senders and a pair of queues of two: both queues fill up, and the   *)
(* two sends of the two callers interleave with the task.                  *)
EXTENDS AppTask
=============================================================================
