------------------------------ MODULE MatchCount ------------------------------
\* The matches of one server process, told apart: the handlers of api.rs that work
\* on after their lock section may do so in a later match than they began in.
EXTENDS RefereeMatch

CONSTANT MaxMatches   \* bound: matches started
VARIABLE match        \* history: matches started

StartsMatch == phase # "running" /\ phase' = "running"
CountMatch ==
  /\ match' = match + (IF StartsMatch THEN 1 ELSE 0)
  /\ match' <= MaxMatches
=============================================================================
