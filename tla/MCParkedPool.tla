---------------------------- MODULE MCParkedPool ----------------------------
(* A small instance of ParkedPool for TLC. *)
EXTENDS ParkedPool

=============================================================================
