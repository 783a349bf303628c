---------------------------- MODULE MCWorldServices ----------------------------
EXTENDS WorldServices
CONSTANTS t1, t2

TwoSides == <<"recorder", "cycle">>
OneVolume == <<"wine">>
Mounts == [box |-> {"wine"}, recorder |-> {"wine"}, cycle |-> {}]
Scene(callers, modes, worlds, n, errors, events) ==
  [callers |-> callers, modes |-> modes, worlds |-> worlds, calls |-> n, faults |-> errors, events |-> events]
\* One caller with worlds, faults and events; two that race, with a fault, with a
\* third call, or with an event.
Scenes ==
  {Scene({t1}, {"self", "persona"}, {NoWorld, "A"}, 2, 1, 1), Scene({t1, t2}, {"self"}, {NoWorld}, 2, 1, 0),
   Scene({t1, t2}, {"self"}, {NoWorld}, 3, 0, 0), Scene({t1, t2}, {"self"}, {NoWorld}, 2, 0, 1)}

\* Requests one after another with a fault and a death, and two at once.
ConfigBounds ==
  {[requests |-> 3, configs |-> 1, faults |-> 1, deaths |-> 1],
   [requests |-> 2, configs |-> 2, faults |-> 0, deaths |-> 0]}
Bodies == {{"mode"}, {"mission"}}
=============================================================================
