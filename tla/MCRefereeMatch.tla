--------------------------- MODULE MCRefereeMatch ---------------------------
(* Small instances of RefereeMatch for TLC.                                *)
EXTENDS RefereeMatch, TLC

\* Player names are interchangeable: no action or property names one.
Symmetry == Permutations(Players)
=============================================================================
