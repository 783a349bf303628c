---------------------------- MODULE CapsuleFlow ----------------------------
\* deploy/capsule: the coordinator that makes one played round of a warm server.
\* It claims a paused world from the parked pool, resumes it and starts its attack
\* cycle on "ready", and has the pool recycle it on "finish".  The service's
\* threads share no lock; the pool is ParkedPool, its only client the capsule.
EXTENDS ParkedPool

CONSTANTS
  CapThreads,     \* threads of the capsule service
  MaxOpens,       \* bound: capsules opened
  MaxAsked        \* bound: requests

VARIABLES
  cap,            \* the capsule of the env: its number, phase and instance
  capCall,        \* per thread: the request it serves
  slip,           \* history: an answer was lost, a service died, or requests overlapped
  asked
capVars == <<cap, capCall, slip, asked>>
flowVars == <<vars, capVars>>

NoCapsule == [no |-> 0, phase |-> "idle", id |-> 0]
NoRequest == [at |-> "idle", no |-> 0, id |-> 0, previous |-> "idle"]

CapInit ==
  /\ Init /\ cap = NoCapsule
  /\ capCall = [t \in CapThreads |-> NoRequest]
  /\ slip = FALSE /\ asked = 0

Active == {"claimed", "warmup"}
At(t, step) == capCall[t].at = step
Goes(t, call) == capCall' = [capCall EXCEPT ![t] = call]
Ends(t) == Goes(t, NoRequest)
\* A thread writes to the capsule it read, which may be another's by now.
SetPhase(t, phase) == cap' = IF cap.no = capCall[t].no THEN [cap EXCEPT !.phase = phase] ELSE cap
PoolStays == UNCHANGED vars

Ask(t, call) ==
  /\ At(t, "idle") /\ asked < MaxAsked /\ asked' = asked + 1
  /\ Goes(t, call)
  /\ slip' = (slip \/ \E u \in CapThreads \ {t} : ~At(u, "idle"))

\* open: refused while a capsule is there that is not parked again.
Open(t) ==
  /\ cap.phase \in {"idle", "parked"} /\ cap.no < MaxOpens
  /\ Ask(t, [NoRequest EXCEPT !.at = "claim"])
  /\ PoolStays /\ UNCHANGED cap

\* The pool's /claim with resume FALSE is one step of it (Claim, then Take).
ClaimPaused(t, i) ==
  /\ At(t, "claim") /\ Free
  /\ entry[i] = "parked" /\ box[i] = "running"
  /\ Becomes(i, "claimed") /\ marker' = marker \union {i} /\ games' = games \union {i}
  /\ \/ Goes(t, [capCall[t] EXCEPT !.at = "opened", !.id = i]) /\ UNCHANGED <<faults, slip>>
     \/ Fault /\ Ends(t) /\ slip' = TRUE
  /\ UNCHANGED <<counter, known, backoff, task, boxVars, crashes, cap, asked>>
ClaimRefused(t) ==
  /\ At(t, "claim") /\ Free
  /\ \A i \in Parked : box[i] # "running"
  /\ Ends(t) /\ PoolStays /\ UNCHANGED <<cap, slip, asked>>

Opened(t) ==
  /\ At(t, "opened")
  /\ cap' = [no |-> cap.no + 1, phase |-> "claimed", id |-> capCall[t].id]
  /\ Ends(t) /\ PoolStays /\ UNCHANGED <<slip, asked>>

\* ready: the world first, then the cycle, then the phase; already warmup: ok.
Ready(t) ==
  /\ cap.phase = "claimed"
  /\ Ask(t, [at |-> "resume", no |-> cap.no, id |-> cap.id, previous |-> "claimed"])
  /\ PoolStays /\ UNCHANGED cap

BridgeOnly == UNCHANGED <<poolVars, marker, task, games, crashes>>

\* A resume that fails leaves the phase claimed, whatever it did.
ResumeWorld(t) ==
  LET i == capCall[t].id IN
  /\ At(t, "resume")
  /\ \/ /\ SetMoving(i, TRUE) /\ played' = played \union {i} /\ UNCHANGED <<disturbed, faults>>
        /\ Goes(t, [capCall[t] EXCEPT !.at = "cycle"])
     \/ /\ BridgeFails(i, SetMoving(i, TRUE) /\ disturbed' = disturbed \union {i} /\ UNCHANGED played)
        /\ Ends(t)
  /\ BridgeOnly /\ UNCHANGED <<cap, slip, asked>>

\* The attack cycle's /start, whose state is not kept here; when it fails the world
\* is paused again.
PauseAgain(t) == Goes(t, [capCall[t] EXCEPT !.at = "repause"])
StartCycle(t) ==
  LET i == capCall[t].id IN
  /\ At(t, "cycle") /\ UNCHANGED <<poolVars, marker, task, boxVars, games, crashes>>
  /\ \/ /\ box[i] = "running" /\ UNCHANGED faults
        /\ SetPhase(t, "warmup") /\ Ends(t)
     \/ /\ IF box[i] = "running" THEN Fault ELSE UNCHANGED faults
        /\ PauseAgain(t) /\ UNCHANGED cap
  /\ UNCHANGED <<slip, asked>>
Repause(t) ==
  LET i == capCall[t].id IN
  /\ At(t, "repause")
  /\ \/ SetMoving(i, FALSE) /\ UNCHANGED <<disturbed, played, faults>>
     \/ /\ IF box[i] = "running" THEN Fault ELSE UNCHANGED faults
        /\ disturbed' = disturbed \union {i} /\ UNCHANGED <<box, moving, played>>
  /\ Ends(t) /\ BridgeOnly /\ UNCHANGED <<cap, slip, asked>>

\* auto hands the pause back to the engine: the world goes on.
HandBack(t) ==
  /\ cap.phase \in Active /\ box[cap.id] = "running"
  /\ Ask(t, NoRequest) /\ SetMoving(cap.id, TRUE)
  /\ disturbed' = disturbed \union {cap.id}
  /\ UNCHANGED <<played, poolVars, marker, task, games, boundVars, cap>>

\* finish: recycling, the pool's /recycle, parked; an error restores the phase.
Finish(t) ==
  /\ cap.phase \in Active
  /\ Ask(t, [at |-> "recycle", no |-> cap.no, id |-> cap.id, previous |-> cap.phase])
  /\ cap' = [cap EXCEPT !.phase = "recycling"]
  /\ PoolStays

AskRecycle(t) ==
  LET i == capCall[t].id IN
  /\ At(t, "recycle") /\ Free
  /\ \/ /\ Recycle(i, TRUE) /\ Goes(t, [capCall[t] EXCEPT !.at = "recycling"]) /\ UNCHANGED cap
     \/ entry[i] # "claimed" /\ PoolStays /\ SetPhase(t, capCall[t].previous) /\ Ends(t)
  /\ UNCHANGED <<slip, asked>>

\* The pool goes on; when it has done with a recycle the thread has its answer.
PoolStep ==
  /\ TaskStep
  /\ capCall' = [t \in CapThreads |->
       IF At(t, "recycling") /\ task.id = capCall[t].id /\ task' = Idle
       THEN [capCall[t] EXCEPT !.at = IF entry'[task.id] = "parked" THEN "recycled" ELSE "failed"]
       ELSE capCall[t]]
  /\ UNCHANGED <<cap, slip, asked>>

\* finish ends: parked, or the phase it had (bugs: an error counts as an answer; an
\* error leaves it recycling).
ParkedAnyway(t) == "parked"
NotRestored(t) == IF At(t, "recycled") THEN "parked" ELSE "recycling"
PhaseAfter(t) == IF At(t, "recycled") THEN "parked" ELSE capCall[t].previous
Finished(t) ==
  /\ capCall[t].at \in {"recycled", "failed"}
  /\ SetPhase(t, PhaseAfter(t)) /\ Ends(t)
  /\ PoolStays /\ UNCHANGED <<slip, asked>>

\* The capsule's own timeout cuts the recycle's answer off; the pool goes on.
TimesOut(t) ==
  /\ At(t, "recycling") /\ Fault /\ slip' = TRUE
  /\ SetPhase(t, capCall[t].previous) /\ Ends(t)
  /\ UNCHANGED <<poolVars, marker, task, boxVars, games, crashes, asked>>

\* Capsules are memory.
CapsuleDies ==
  /\ crashes < MaxCrashes /\ crashes' = crashes + 1 /\ slip' = TRUE
  /\ cap' = [NoCapsule EXCEPT !.no = cap.no] /\ capCall' = [t \in CapThreads |-> NoRequest]
  /\ UNCHANGED <<poolVars, marker, task, boxVars, games, faults, asked>>
PoolDies ==
  /\ Crash /\ slip' = TRUE
  /\ capCall' = [t \in CapThreads |-> IF At(t, "recycling") THEN [capCall[t] EXCEPT !.at = "failed"]
                                      ELSE capCall[t]]
  /\ UNCHANGED <<cap, asked>>

CapThreadStep(t) ==
  \/ (\E i \in Ids : ClaimPaused(t, i)) \/ ClaimRefused(t) \/ Opened(t) \/ ResumeWorld(t)
  \/ StartCycle(t) \/ Repause(t) \/ AskRecycle(t) \/ Finished(t)
CapStep(t) == Open(t) \/ Ready(t) \/ HandBack(t) \/ Finish(t) \/ CapThreadStep(t) \/ TimesOut(t)
PoolMoves ==
  /\ \/ (\E stages \in Stages : Maintain(stages)) \/ WaitOver
     \/ \E i \in Ids : BoxDies(i) \/ BoxRestarts(i)
  /\ UNCHANGED capVars
FlowNext == (\E t \in CapThreads : CapStep(t)) \/ PoolStep \/ PoolMoves \/ PoolDies \/ CapsuleDies
FlowSpec ==
  /\ CapInit /\ [][FlowNext]_flowVars
  /\ WF_flowVars(PoolStep) /\ \A t \in CapThreads : SF_flowVars(CapThreadStep(t))
-----------------------------------------------------------------------------
Between(t) == capCall[t].at \in {"resume", "cycle", "repause"}

\* The player joins a paused game (capsule_flow.py:22-24, 31-34): a claimed
\* capsule's world stands still while nobody is just getting it ready, unless
\* docker, auto or a bridge call that failed left it moving.
JoinsPaused ==
  cap.phase = "claimed" /\ ~slip /\ (\A t \in CapThreads : ~Between(t)) =>
    cap.id \in disturbed \/ ~moving[cap.id]

\* While no answer was lost, nothing died and requests came one at a time, the
\* capsule and the pool agree: the capsule's server is claimed or being recycled
\* for it, and no other server is held (capsule_flow.py:12-21, parked_pool.py:
\* 461-515): a failed finish or claim leaves neither a held nor a double server.
HoldsItsServer == ~slip =>
  /\ cap.phase \in Active => entry[cap.id] \in {"claimed", "recycling"} /\ cap.id \in marker
  /\ (\A t \in CapThreads : At(t, "idle")) =>
       marker = IF cap.phase \in Active THEN {cap.id} ELSE {}

\* A capsule that was claimed holds one paused server until it gives it back
\* (capsule_flow.py:12-21, 317-345).
CapsuleHoldsServer == JoinsPaused /\ HoldsItsServer

\* A recycling ends, in one of the two phases: the capsule never stays between.
RecyclingEnds == cap.phase = "recycling" ~> cap.phase # "recycling"
=============================================================================
