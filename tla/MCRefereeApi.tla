----------------------------- MODULE MCRefereeApi -----------------------------
(* Small instances of RefereeApi for TLC: every kind of handler, or wave starts. *)
EXTENDS RefereeApi
CONSTANTS p1, p2, c1, c2

Bound(players, rounds, sends, again) ==
  [players |-> players, rounds |-> rounds, sends |-> sends, rematches |-> again]
WaveStarts == [ingress |-> Bound({p1}, 2, 4, 0)]
Handlers ==
  [ingress |-> WaveStarts.ingress, fanout |-> Bound({p1}, 0, 0, 1), records |-> Bound({p1, p2}, 0, 0, 1)]
=============================================================================
