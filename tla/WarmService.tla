----------------------------- MODULE WarmService -----------------------------
\* deploy/compose/warm: the stand-in of the parked pool for one static server.
\* Its service keeps PARKED or CLAIMED in memory and holds one lock over a whole
\* claim or recycle, bridge calls included.
EXTENDS Naturals, FiniteSets

CONSTANTS
  WmClients,      \* who claims and recycles (the capsule, an operator)
  WmAsks, WmFaults, WmCrashes   \* bounds: requests, bridge faults, crashes

VARIABLES
  wmState,        \* of the controller: "parked", "claimed"; "down" before start() parked the world
  wmWorld,        \* "moves" or "still"
  wmLock,         \* the client whose request holds the controller's lock
  wmCall,         \* per client: its request
  wmHolds,        \* per client: "no", or how it was handed the server, "resumed" or "paused"
  wmPark,         \* WARM_PARK_ON_START
  wmSlip,         \* history: a death, a bridge call with unknown effect, an answer that came too late
  wmBounds        \* requests, faults and crashes so far
wmVars == <<wmState, wmWorld, wmLock, wmCall, wmHolds, wmPark, wmSlip, wmBounds>>

WmIdle == [at |-> "idle", op |-> "none", resume |-> FALSE, keep |-> TRUE, result |-> FALSE]
NoHolder == "nobody"
ASSUME ClientsAreSomebody == NoHolder \notin WmClients

\* The world of the dedicated server moves when it comes up; start() pauses it.
WmInit ==
  /\ wmPark \in BOOLEAN
  /\ wmState = (IF wmPark THEN "down" ELSE "parked") /\ wmWorld = "moves"
  /\ wmLock = NoHolder
  /\ wmCall = [c \in WmClients |-> WmIdle] /\ wmHolds = [c \in WmClients |-> "no"]
  /\ wmSlip = FALSE /\ wmBounds = [asks |-> 0, faults |-> 0, crashes |-> 0]

WmFault == wmBounds.faults < WmFaults /\ wmBounds' = [wmBounds EXCEPT !.faults = @ + 1]
WmAt(c, step) == wmCall[c].at = step
WmGo(c, step) == wmCall' = [wmCall EXCEPT ![c].at = step]
WmEnd(c) == wmCall' = [wmCall EXCEPT ![c] = WmIdle] /\ wmLock' = NoHolder

\* start(): pause_game, else the process ends with 3 and is started again.
StartPark ==
  /\ wmState = "down" /\ wmPark
  /\ wmState' = "parked" /\ wmWorld' = "still"
  /\ UNCHANGED <<wmLock, wmCall, wmHolds, wmPark, wmSlip, wmBounds>>

\* _dispatch: a request comes in; a client recycles what it was handed and claims
\* while it holds nothing.
WmAsk(c, call) ==
  /\ wmState # "down" /\ WmAt(c, "idle")
  /\ wmBounds.asks < WmAsks /\ wmBounds' = [wmBounds EXCEPT !.asks = @ + 1]
  /\ call.op = "claim" => wmHolds[c] = "no"
  /\ call.op = "recycle" => wmHolds[c] # "no"
  /\ wmCall' = [wmCall EXCEPT ![c] = call]
  /\ UNCHANGED <<wmState, wmWorld, wmLock, wmHolds, wmPark, wmSlip>>
WmRequests ==
  [at : {"ask"}, op : {"claim"}, resume : BOOLEAN, keep : {TRUE}, result : {FALSE}] \cup
  [at : {"ask"}, op : {"recycle"}, resume : {FALSE}, keep : BOOLEAN, result : BOOLEAN]

\* Inside the lock (bug: beside it): PARKED to claim, CLAIMED and keep_warm to recycle.
BesideTheLock(c) == wmLock' = wmLock
TakesLock(c) == wmLock = NoHolder /\ wmLock' = c
WmAccepted(call) ==
  IF call.op = "claim" THEN wmState = "parked" ELSE wmState = "claimed" /\ call.keep
WmEnter(c) ==
  /\ WmAt(c, "ask") /\ wmState # "down"
  /\ \/ /\ WmAccepted(wmCall[c]) /\ TakesLock(c)
        /\ WmGo(c, IF wmCall[c].op = "claim" THEN "health"
                   ELSE IF wmCall[c].result THEN "end" ELSE "reset")
     \/ wmLock = NoHolder /\ ~WmAccepted(wmCall[c]) /\ WmEnd(c)
  /\ UNCHANGED <<wmState, wmWorld, wmHolds, wmPark, wmSlip, wmBounds>>

\* GET /health decides a claim; without resume it is all a claim needs.
WmHealth(c) ==
  /\ WmAt(c, "health")
  /\ \/ WmGo(c, IF wmCall[c].resume THEN "resume" ELSE "commit") /\ UNCHANGED <<wmLock, wmBounds>>
     \/ WmFault /\ WmEnd(c)
  /\ UNCHANGED <<wmState, wmWorld, wmHolds, wmPark, wmSlip>>

\* A bridge call: done, or failed before or after it took effect.
WmBridge(c, step, world, then) ==
  /\ WmAt(c, step)
  /\ \/ wmWorld' = world /\ WmGo(c, then) /\ UNCHANGED <<wmLock, wmSlip, wmBounds>>
     \/ WmFault /\ WmEnd(c) /\ wmWorld' \in {wmWorld, world} /\ wmSlip' = TRUE
  /\ UNCHANGED <<wmState, wmHolds, wmPark>>
\* claim resumes; recycle ends the game, resets the round, which pauses nothing,
\* and pauses.
WmResume(c) == WmBridge(c, "resume", "moves", "commit")
WmEndGame(c) == WmBridge(c, "end", wmWorld, "reset")
WmRoundReset(c) == WmBridge(c, "reset", wmWorld, "pause")
WmPause(c) == WmBridge(c, "pause", "still", "commit")

\* The state is written last, still in the lock; the answer may miss its client.
WmCommit(c) ==
  LET claim == wmCall[c].op = "claim"
      handed == IF ~claim THEN "no" ELSE IF wmCall[c].resume THEN "resumed" ELSE "paused"
  IN /\ WmAt(c, "commit")
     /\ wmState' = IF claim THEN "claimed" ELSE "parked"
     /\ WmEnd(c)
     /\ \/ wmHolds' = [wmHolds EXCEPT ![c] = handed] /\ UNCHANGED <<wmSlip, wmBounds>>
        \/ WmFault /\ wmSlip' = TRUE /\ UNCHANGED wmHolds
     /\ UNCHANGED <<wmWorld, wmPark>>

\* The service dies and starts anew: what it had handed out is forgotten.  The
\* dedicated server comes back with a world that moves.
WmServiceDies ==
  /\ wmBounds.crashes < WmCrashes /\ wmBounds' = [wmBounds EXCEPT !.crashes = @ + 1]
  /\ wmState' = (IF wmPark THEN "down" ELSE "parked") /\ wmSlip' = TRUE
  /\ wmLock' = NoHolder /\ wmCall' = [c \in WmClients |-> WmIdle]
  /\ UNCHANGED <<wmWorld, wmHolds, wmPark>>
DedicatedRestarts ==
  /\ wmBounds.crashes < WmCrashes /\ wmBounds' = [wmBounds EXCEPT !.crashes = @ + 1]
  /\ wmWorld' = "moves" /\ wmSlip' = TRUE
  /\ UNCHANGED <<wmState, wmLock, wmCall, wmHolds, wmPark>>

WmWork(c) ==
  WmEnter(c) \/ WmHealth(c) \/ WmResume(c) \/ WmEndGame(c) \/ WmRoundReset(c) \/ WmPause(c) \/ WmCommit(c)
WmNext ==
  \/ \E c \in WmClients : WmWork(c) \/ \E call \in WmRequests : WmAsk(c, call)
  \/ StartPark \/ WmServiceDies \/ DedicatedRestarts
WmFair == \A c \in WmClients : WF_wmVars(WmWork(c))
WmSpec == WmInit /\ [][WmNext]_wmVars /\ WmFair
-----------------------------------------------------------------------------
\* While nothing died and every answer came, the static server is handed to one
\* client at a time, and CLAIMED says so; between calls its world moves for a
\* client that asked to have it resumed, and stands still when it is free
\* (warm_service.py:226-230, 294-347) - unless it was never parked at the start.
WarmHandsOutOnce == ~wmSlip =>
  /\ \A c, d \in WmClients : c # d => wmHolds[c] = "no" \/ wmHolds[d] = "no"
  /\ wmLock = NoHolder =>
       /\ wmState = "claimed" <=> \E c \in WmClients : wmHolds[c] # "no"
       /\ \A c \in WmClients : wmHolds[c] = "resumed" => wmWorld = "moves"
WarmParkedStands == ~wmSlip /\ wmPark /\ wmState = "parked" /\ wmLock = NoHolder => wmWorld = "still"

\* The static server: at most one holder, and still when it is free.
WarmIsHandedOver == WarmHandsOutOnce /\ WarmParkedStands
=============================================================================
