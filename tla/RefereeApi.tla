------------------------------ MODULE RefereeApi ------------------------------
\* What the referee's handlers (tournament/src/api.rs) do around the match state,
\* one kind of handler at a time, with any other request of the match between its
\* steps: wave starts with their pushes, starts and pauses with their fan-outs,
\* matches that end with their records.
EXTENDS WaveIngress, MatchFanout, MatchRecords

CONSTANT ApiBounds   \* per kind of handler: bounds on players, rounds, sends, rematches

VARIABLE serving     \* the kind that is looked at
apiVars == <<serving, vars, match, calls, got, fanout, frozen, started, recordVars>>

ApiInit ==
  /\ serving \in DOMAIN ApiBounds
  /\ IngressInit /\ FanoutInit /\ RecordsInit

InBounds(bound) ==
  /\ \A w \in Worlds : player'[w] \in bound.players \cup {None, Mirror}
  /\ round' <= bound.rounds + 1 /\ nextId' <= bound.sends /\ rematches' <= bound.rematches

ApiNext ==
  /\ UNCHANGED serving
  /\ \/ serving = "ingress" /\ IngressNext /\ UNCHANGED <<fanout, frozen, started, recordVars>>
     \/ serving = "fanout" /\ FanoutNext /\ UNCHANGED <<calls, got, recordVars>>
     \/ serving = "records" /\ RecordsNext /\ UNCHANGED <<match, calls, got, fanout, frozen, started>>
  /\ InBounds(ApiBounds[serving])

ApiSpec ==
  /\ ApiInit /\ [][ApiNext]_apiVars
  /\ \A c \in Fanouts : WF_fanoutVars(serving = "fanout" /\ SendNext(c))
-----------------------------------------------------------------------------
\* Waves reach their world once, in the order of the sends, and only those that a
\* wave start drained for it.
PushesAreRight == PushedInOrder /\ PushesAreDrained

\* A pause freezes both worlds and a start of a duel reaches both.
FanoutReachesBoth ==
  /\ [](serving = "fanout" => PausedMeansFrozen)
  /\ serving = "fanout" => DuelStartsBothWorlds

\* Every result whose insert went through is on record for both players, and no
\* row tells what did not happen.
RecordsTellMatches == RowsTellAMatch /\ ResultsOnRecord
=============================================================================
