------------------------------- MODULE ParkedVs -------------------------------
\* deploy/parked/parked_vs.py: one warm server kept for a match of two.  Its world
\* is resumed when both have joined and both are ready.  The pool below it is
\* called in line; one call of this layer is one step.
EXTENDS Naturals, FiniteSets

CONSTANTS VsPlayers, Required,
          VsFaults, VsRounds     \* bounds
ASSUME SomeRequired == Required \in Nat \ {0}      \* parked_vs.py:113

VARIABLES
  vsState, vsJoined, vsReady,    \* the session: state, players, ready
  vsEntry, vsMoves,              \* the pool's entry; the world is not paused
  vsSaid,                        \* history: who was ready since the last recycle,
  vsLost,                        \* and whether a failed call had its effect all the same
  vsCount                        \* faults and rounds so far
vsVars == <<vsState, vsJoined, vsReady, vsEntry, vsMoves, vsSaid, vsLost, vsCount>>

VsInit ==
  /\ vsState = "none" /\ vsJoined = {} /\ vsReady = {}
  /\ vsEntry = "none" /\ vsMoves = FALSE /\ vsSaid = {} /\ vsLost = FALSE
  /\ vsCount = [faults |-> 0, rounds |-> 0]

VsWaiting == vsState \in {"waiting_opponent", "waiting_both_ready"}
VsFault == vsCount.faults < VsFaults /\ vsCount' = [vsCount EXCEPT !.faults = @ + 1]

\* warm_up: again for a session that waits is nothing; a failure leaves no session.
VsWarmUp ==
  /\ vsState = "none"
  /\ \/ vsState' = "waiting_opponent" /\ vsEntry' = "parked" /\ UNCHANGED vsCount
     \/ VsFault /\ UNCHANGED <<vsState, vsEntry>>
  /\ UNCHANGED <<vsJoined, vsReady, vsMoves, vsSaid, vsLost>>

VsJoin(p) ==
  /\ VsWaiting /\ p \notin vsJoined /\ Cardinality(vsJoined) < Required
  /\ vsJoined' = vsJoined \cup {p}
  /\ vsState' = IF Cardinality(vsJoined') >= Required THEN "waiting_both_ready" ELSE vsState
  /\ UNCHANGED <<vsReady, vsEntry, vsMoves, vsSaid, vsLost, vsCount>>

\* The last ready claims: the pool resumes a parked, healthy server.  A claim
\* that fails takes the flag back (bug: it stays), whatever it did to the world.
KeepsFlag(p) == vsReady' = vsReady \cup {p}
TakesFlagBack(p) == UNCHANGED vsReady
VsComplete(ready) == Cardinality(vsJoined) >= Required /\ Cardinality(ready) >= Required
VsReady(p) ==
  /\ VsWaiting /\ p \in vsJoined \ vsReady
  /\ vsSaid' = vsSaid \cup {p}
  /\ \/ /\ ~VsComplete(vsReady \cup {p}) /\ vsReady' = vsReady \cup {p}
        /\ UNCHANGED <<vsState, vsEntry, vsMoves, vsLost, vsCount>>
     \/ /\ VsComplete(vsReady \cup {p}) /\ vsEntry = "parked"
        /\ vsReady' = vsReady \cup {p}
        /\ vsState' = "claimed" /\ vsEntry' = "claimed" /\ vsMoves' = TRUE
        /\ UNCHANGED <<vsLost, vsCount>>
     \/ /\ VsComplete(vsReady \cup {p}) /\ VsFault
        /\ TakesFlagBack(p)
        /\ vsMoves' \in {vsMoves, TRUE} /\ vsLost' = (vsLost \/ vsMoves')
        /\ UNCHANGED <<vsState, vsEntry>>
  /\ UNCHANGED vsJoined

\* recycle: end_game, round_reset and pause, or stop; the slots are emptied.  A
\* failure leaves session and entry recycling.
NobodyReady == vsReady' = {}
VsRecycle(keep) ==
  /\ vsState = "claimed" /\ vsCount.rounds < VsRounds
  /\ \/ /\ vsCount' = [vsCount EXCEPT !.rounds = @ + 1]
        /\ vsState' = (IF keep THEN "waiting_opponent" ELSE "stopped")
        /\ vsEntry' = (IF keep THEN "parked" ELSE "stopped") /\ vsMoves' = FALSE
        /\ vsJoined' = {} /\ NobodyReady /\ vsSaid' = {} /\ vsLost' = FALSE
     \/ /\ VsFault
        /\ vsState' = "recycling" /\ vsEntry' = "recycling" /\ vsMoves' \in BOOLEAN
        /\ UNCHANGED <<vsJoined, vsReady, vsSaid, vsLost>>

VsNext ==
  \/ VsWarmUp \/ (\E keep \in BOOLEAN : VsRecycle(keep))
  \/ \E p \in VsPlayers : VsJoin(p) \/ VsReady(p)
VsSpec == VsInit /\ [][VsNext]_vsVars
-----------------------------------------------------------------------------
\* The ready gate (parked_vs.py:12-20): before all players of this round have
\* joined and said ready the world does not move, unless a claim that failed set
\* it moving; what was said for an earlier round does not count.
ReadyGate ==
  vsMoves /\ ~vsLost =>
    vsState \in {"claimed", "recycling"} /\ Cardinality(vsJoined) >= Required /\ vsJoined \subseteq vsSaid
\* A session that waits can still be started: somebody's ready is open
\* (parked_vs.py:241-242, "Retry mit demselben ready moeglich").
SomeoneCanStart == VsWaiting => Cardinality(vsJoined) < Required \/ vsJoined \ vsReady # {}

\* The gate opens for two who are ready, and can be opened again.
GateOpensForTwo == ReadyGate /\ SomeoneCanStart
=============================================================================
