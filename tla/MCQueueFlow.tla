---------------------------- MODULE MCQueueFlow -----------------------------
(* A small instance of QueueFlow for TLC. *)
EXTENDS QueueFlow

CONSTANTS p1, p2

=============================================================================
