---------------------------- MODULE MCWaveLoop ------------------------------
(* A small instance of WaveLoop for TLC. *)
EXTENDS WaveLoop

LevelRange == 0 .. 3

\* Polled resets, pushed ones, lost answers of polls and of pushes and polls during a
\* push, and repeated lines without them.
SomeDeployments ==
  {{}, {"loss"}, {"push"}, {"push", "loss"}, {"push", "unanswered"},
   {"push", "loss", "overlap", "unanswered"}, {"repeat"}}
=============================================================================
