---------------------------- MODULE ServiceProofs ----------------------------
(***************************************************************************)
(* Machine-checked proofs about the services that hold and run game worlds *)
(* (WorldServices), each for every set of its clients and every bound.     *)
(***************************************************************************)
EXTENDS WorldServices, FiniteSetTheorems, SequenceTheorems, TLAPS

-----------------------------------------------------------------------------
(* The static warm server (WarmService).                                   *)

\* Whoever is past "ask" holds the lock, alone, and the state is the one its
\* request was accepted in; the world is the one the step before left.
WmSteps == {"idle", "ask", "health", "resume", "end", "reset", "pause", "commit"}
WmCalls == [at : WmSteps, op : {"none", "claim", "recycle"}, resume : BOOLEAN, keep : BOOLEAN, result : BOOLEAN]
WmTypes ==
  /\ wmState \in {"down", "parked", "claimed"} /\ wmWorld \in {"moves", "still"}
  /\ wmLock \in WmClients \cup {NoHolder} /\ wmCall \in [WmClients -> WmCalls]
  /\ wmHolds \in [WmClients -> {"no", "resumed", "paused"}]
InLock(c) == wmCall[c].at \notin {"idle", "ask"}
LockAgrees == \A c \in WmClients : InLock(c) <=> wmLock = c
CallAgrees == \A c \in WmClients :
  /\ wmCall[c].at \in {"health", "resume"} => wmCall[c].op = "claim"
  /\ wmCall[c].at = "resume" => wmCall[c].resume
  /\ wmCall[c].at \in {"end", "reset", "pause"} => wmCall[c].op = "recycle"
  /\ wmCall[c].at \in {"ask", "commit"} => wmCall[c].op \in {"claim", "recycle"}
  /\ wmCall[c].at # "idle" /\ wmCall[c].op = "recycle" => wmHolds[c] # "no"
StateAgrees == \A c \in WmClients :
  InLock(c) => wmState = IF wmCall[c].op = "claim" THEN "parked" ELSE "claimed"
HoldersAgree == ~wmSlip =>
  /\ \A c, d \in WmClients : c # d => wmHolds[c] = "no" \/ wmHolds[d] = "no"
  /\ wmState = "claimed" <=> \E c \in WmClients : wmHolds[c] # "no"
Commits(c, op) == wmCall[c].at = "commit" /\ wmCall[c].op = op
WorldAgrees == ~wmSlip =>
  /\ \A c \in WmClients : Commits(c, "recycle") => wmWorld = "still"
  /\ \A c \in WmClients : Commits(c, "claim") /\ wmCall[c].resume => wmWorld = "moves"
  /\ (\E c \in WmClients : wmHolds[c] = "resumed") /\ wmWorld # "moves" =>
       \E c \in WmClients : Commits(c, "recycle")
  /\ wmPark /\ wmState = "parked" /\ wmWorld # "still" => \E c \in WmClients : Commits(c, "claim")
WmInv == WmTypes /\ LockAgrees /\ CallAgrees /\ StateAgrees /\ HoldersAgree /\ WorldAgrees

\* The service is down at first and nobody holds its lock.
LEMMA WmInvHoldsAtFirst == WmInit => WmInv
<1> SUFFICES ASSUME WmInit PROVE WmInv
  OBVIOUS
<1>1. WmIdle \in WmCalls /\ WmIdle.at = "idle" /\ WmIdle.op = "none"
  BY DEF WmIdle, WmCalls, WmSteps
<1>2. \A c \in WmClients : wmCall[c] = WmIdle /\ wmHolds[c] = "no"
  BY DEF WmInit
<1>3. WmTypes
  BY <1>1 DEF WmInit, WmTypes
<1>4. LockAgrees
  BY <1>1, <1>2, ClientsAreSomebody DEF LockAgrees, InLock, WmInit
<1>5. CallAgrees /\ StateAgrees
  BY <1>1, <1>2 DEF CallAgrees, StateAgrees, InLock
<1>6. HoldersAgree
  BY <1>2 DEF HoldersAgree, WmInit
<1>7. WorldAgrees
  BY <1>1, <1>2 DEF WorldAgrees, Commits, WmInit
<1> QED BY <1>3, <1>4, <1>5, <1>6, <1>7 DEF WmInv

\* A request that goes on within the lock and leaves state and holders alone.
LEMMA WithinLock ==
  ASSUME WmInv, NEW c \in WmClients, InLock(c), NEW step \in WmSteps \ {"idle", "ask"}, WmGo(c, step),
         UNCHANGED <<wmLock, wmState, wmHolds, wmPark, wmSlip>>, wmWorld' \in {"moves", "still"},
         step \in {"health", "resume"} => wmCall[c].op = "claim",
         step = "resume" => wmCall[c].resume,
         step \in {"end", "reset", "pause"} => wmCall[c].op = "recycle"
  PROVE  /\ WmTypes' /\ LockAgrees' /\ CallAgrees' /\ StateAgrees' /\ HoldersAgree'
         /\ wmCall'[c] = [wmCall[c] EXCEPT !.at = step]
         /\ \A d \in WmClients \ {c} : wmCall'[d] = wmCall[d] /\ ~InLock(d)
<1>1. wmCall[c] \in WmCalls /\ wmCall \in [WmClients -> WmCalls]
  BY DEF WmInv, WmTypes
<1>2. /\ wmCall'[c] = [wmCall[c] EXCEPT !.at = step]
      /\ \A d \in WmClients \ {c} : wmCall'[d] = wmCall[d]
  BY <1>1 DEF WmGo
<1>3. /\ wmCall'[c] \in WmCalls /\ wmCall'[c].at = step /\ wmCall'[c].op = wmCall[c].op
      /\ wmCall'[c].resume = wmCall[c].resume
  BY <1>1, <1>2 DEF WmCalls
<1>4. WmTypes'
  BY <1>1, <1>3 DEF WmInv, WmTypes, WmGo
<1>5. \A d \in WmClients \ {c} : ~InLock(d)
  BY DEF WmInv, LockAgrees
<1>6. LockAgrees'
  BY <1>2, <1>3 DEF WmInv, LockAgrees, InLock
<1>7. wmCall[c].op \in {"claim", "recycle"} /\ (wmCall[c].op = "recycle" => wmHolds[c] # "no")
  BY <1>1 DEF WmInv, CallAgrees, InLock, WmCalls, WmSteps
<1>8. CallAgrees'
  BY <1>2, <1>3, <1>7 DEF WmInv, CallAgrees, WmSteps
<1>9. StateAgrees'
  <2>1. \A d \in WmClients : (InLock(d)' => InLock(d)) /\ wmCall'[d].op = wmCall[d].op
    BY <1>2, <1>3 DEF InLock
  <2> QED BY <2>1 DEF WmInv, StateAgrees
<1>10. HoldersAgree'
  BY DEF WmInv, HoldersAgree
<1> QED BY <1>2, <1>4, <1>5, <1>6, <1>8, <1>9, <1>10

\* A request that ends without a change of state: it was in the lock, or none was.
LEMMA LeavesLock ==
  ASSUME WmInv, NEW c \in WmClients, InLock(c) \/ wmLock = NoHolder, WmEnd(c), UNCHANGED <<wmState, wmHolds>>
  PROVE  /\ LockAgrees' /\ CallAgrees' /\ StateAgrees'
         /\ wmWorld' \in {"moves", "still"} => WmTypes'
         /\ \A d \in WmClients : ~InLock(d)'
<1>1. WmIdle \in WmCalls /\ WmIdle.at = "idle" /\ WmIdle.op = "none"
  BY DEF WmIdle, WmCalls, WmSteps
<1>2. wmCall'[c] = WmIdle /\ \A d \in WmClients \ {c} : wmCall'[d] = wmCall[d]
  BY DEF WmInv, WmTypes, WmEnd
<1>3. \A d \in WmClients : ~InLock(d)'
  BY <1>1, <1>2, ClientsAreSomebody DEF WmInv, LockAgrees, InLock
<1>4. LockAgrees'
  BY <1>3, ClientsAreSomebody DEF LockAgrees, WmEnd
<1>5. CallAgrees' /\ StateAgrees'
  BY <1>1, <1>2, <1>3 DEF WmInv, CallAgrees, StateAgrees
<1>6. wmWorld' \in {"moves", "still"} => WmTypes'
  BY <1>1 DEF WmInv, WmTypes, WmEnd
<1> QED BY <1>3, <1>4, <1>5, <1>6

\* A request that arrives holds nothing yet.
LEMMA WmAskStep == ASSUME NEW c \in WmClients, NEW call \in WmRequests, WmInv, WmAsk(c, call) PROVE WmInv'
<1>1. call \in WmCalls /\ call.at = "ask" /\ call.op \in {"claim", "recycle"}
  BY DEF WmRequests, WmCalls, WmSteps
<1>2. wmCall'[c] = call /\ wmCall[c].at = "idle" /\ \A d \in WmClients \ {c} : wmCall'[d] = wmCall[d]
  BY DEF WmInv, WmTypes, WmAsk, WmAt
<1>3. UNCHANGED <<wmState, wmWorld, wmLock, wmHolds, wmPark, wmSlip>>
  BY DEF WmAsk
<1>4. WmTypes'
  BY <1>1, <1>3 DEF WmInv, WmTypes, WmAsk
<1>5. \A d \in WmClients : InLock(d)' <=> InLock(d)
  BY <1>1, <1>2 DEF InLock
<1>6. LockAgrees' /\ StateAgrees' /\ HoldersAgree'
  BY <1>1, <1>2, <1>3, <1>5 DEF WmInv, LockAgrees, StateAgrees, HoldersAgree, InLock
<1>7. CallAgrees'
  BY <1>1, <1>2, <1>3 DEF WmInv, CallAgrees, WmAsk
<1>8. \A d \in WmClients, op \in {"claim", "recycle"} :
        /\ Commits(d, op)' <=> Commits(d, op)
        /\ Commits(d, op) => wmCall'[d].resume = wmCall[d].resume
  BY <1>1, <1>2 DEF Commits
<1>9. WorldAgrees'
  BY <1>3, <1>8 DEF WmInv, WorldAgrees
<1> QED BY <1>4, <1>6, <1>7, <1>9 DEF WmInv

\* A request that gets the lock looks at the state again.
LEMMA WmEnterStep == ASSUME NEW c \in WmClients, WmInv, WmEnter(c) PROVE WmInv'
<1> DEFINE step == IF wmCall[c].op = "claim" THEN "health" ELSE IF wmCall[c].result THEN "end" ELSE "reset"
<1>1. /\ UNCHANGED <<wmState, wmWorld, wmHolds, wmPark, wmSlip>>
      /\ wmCall[c].at = "ask" /\ wmCall[c].op \in {"claim", "recycle"}
  BY DEF WmInv, CallAgrees, WmEnter, WmAt
<1>2. CASE WmAccepted(wmCall[c]) /\ TakesLock(c) /\ WmGo(c, step)
  <2>1. wmCall[c] \in WmCalls /\ wmLock = NoHolder /\ wmLock' = c
    BY <1>2 DEF WmInv, WmTypes, TakesLock
  <2>2. /\ wmCall'[c] = [wmCall[c] EXCEPT !.at = step]
        /\ \A d \in WmClients \ {c} : wmCall'[d] = wmCall[d]
    BY <1>2 DEF WmInv, WmTypes, WmGo
  <2>3. /\ wmCall'[c] \in WmCalls /\ wmCall'[c].op = wmCall[c].op /\ wmCall'[c].resume = wmCall[c].resume
        /\ wmCall'[c].at = step
    BY <2>1, <2>2 DEF WmCalls, WmSteps
  <2>4. WmTypes'
    BY <1>1, <1>2, <2>1, <2>3 DEF WmInv, WmTypes, WmGo
  <2>5. \A d \in WmClients : ~InLock(d) /\ d # NoHolder
    BY <2>1, ClientsAreSomebody DEF WmInv, LockAgrees
  <2>6. LockAgrees'
    BY <2>1, <2>2, <2>3, <2>5 DEF LockAgrees, InLock
  <2>7. CallAgrees'
    <3>1. /\ step \in {"health", "end", "reset"}
          /\ step = "health" <=> wmCall[c].op = "claim"
      OBVIOUS
    <3>2. wmCall[c].op = "recycle" => wmHolds'[c] # "no"
      BY <1>1 DEF WmInv, CallAgrees
    <3> HIDE DEF step
    <3>3. /\ wmCall'[c].at \in {"health", "resume"} => wmCall'[c].op = "claim"
          /\ wmCall'[c].at # "resume" /\ wmCall'[c].at \notin {"ask", "commit"}
          /\ wmCall'[c].at \in {"end", "reset", "pause"} => wmCall'[c].op = "recycle"
          /\ wmCall'[c].at # "idle" /\ wmCall'[c].op = "recycle" => wmHolds'[c] # "no"
      BY <1>1, <2>3, <3>1, <3>2
    <3>4. \A d \in WmClients \ {c} : wmCall'[d] = wmCall[d] /\ wmHolds'[d] = wmHolds[d]
      BY <1>1, <2>2
    <3> QED BY <3>3, <3>4 DEF WmInv, CallAgrees
  <2>8. StateAgrees'
    BY <1>1, <1>2, <2>2, <2>3, <2>5 DEF StateAgrees, InLock, WmAccepted
  <2>9. HoldersAgree'
    BY <1>1 DEF WmInv, HoldersAgree
  <2>10. \A d \in WmClients, op \in {"claim", "recycle"} : ~Commits(d, op) /\ ~Commits(d, op)'
    BY <2>2, <2>3, <2>5 DEF Commits, InLock
  <2>11. WorldAgrees'
    BY <1>1, <2>10 DEF WmInv, WorldAgrees
  <2> QED BY <2>4, <2>6, <2>7, <2>8, <2>9, <2>11 DEF WmInv
<1>3. CASE wmLock = NoHolder /\ ~WmAccepted(wmCall[c]) /\ WmEnd(c)
  <2>1. WmTypes' /\ LockAgrees' /\ CallAgrees' /\ StateAgrees' /\ \A d \in WmClients : ~InLock(d)'
    BY <1>1, <1>3, LeavesLock DEF WmInv, WmTypes
  <2>2. \A d \in WmClients : ~InLock(d)
    BY <1>3, ClientsAreSomebody DEF WmInv, LockAgrees
  <2>3. HoldersAgree'
    BY <1>1 DEF WmInv, HoldersAgree
  <2>4. WorldAgrees'
    BY <1>1, <2>1, <2>2 DEF WmInv, WorldAgrees, Commits, InLock
  <2> QED BY <2>1, <2>3, <2>4 DEF WmInv
<1> QED BY <1>2, <1>3 DEF WmEnter

\* A claim of a server that does not answer changes nothing.
LEMMA WmHealthStep == ASSUME NEW c \in WmClients, WmInv, WmHealth(c) PROVE WmInv'
<1> DEFINE step == IF wmCall[c].resume THEN "resume" ELSE "commit"
<1>1. /\ UNCHANGED <<wmState, wmWorld, wmHolds, wmPark, wmSlip>>
      /\ wmCall[c].at = "health" /\ wmCall[c].op = "claim" /\ InLock(c) /\ wmCall[c] \in WmCalls
  BY DEF WmInv, WmTypes, CallAgrees, WmHealth, WmAt, InLock
<1>2. \A d \in WmClients \ {c} : ~InLock(d)
  BY <1>1 DEF WmInv, LockAgrees
<1>3. \A d \in WmClients, op \in {"claim", "recycle"} : ~Commits(d, op)
  BY <1>1, <1>2 DEF Commits, InLock
<1>4. CASE WmGo(c, step) /\ UNCHANGED wmLock
  <2>1. /\ WmTypes' /\ LockAgrees' /\ CallAgrees' /\ StateAgrees' /\ HoldersAgree'
        /\ wmCall'[c] = [wmCall[c] EXCEPT !.at = step]
        /\ \A d \in WmClients \ {c} : wmCall'[d] = wmCall[d] /\ ~InLock(d)
    BY <1>1, <1>4, WithinLock DEF WmInv, WmTypes, WmSteps
  <2>2. \A d \in WmClients : ~Commits(d, "recycle")' /\ ~(Commits(d, "claim")' /\ wmCall'[d].resume)
    BY <1>1, <2>1 DEF Commits, InLock, WmCalls
  <2>3. WorldAgrees'
    BY <1>1, <1>3, <2>2 DEF WmInv, WorldAgrees
  <2> QED BY <2>1, <2>3 DEF WmInv
<1>5. CASE WmEnd(c)
  <2>1. WmTypes' /\ LockAgrees' /\ CallAgrees' /\ StateAgrees' /\ \A d \in WmClients : ~InLock(d)'
    BY <1>1, <1>5, LeavesLock DEF WmInv, WmTypes
  <2>2. HoldersAgree'
    BY <1>1 DEF WmInv, HoldersAgree
  <2>3. WorldAgrees'
    BY <1>1, <1>3, <2>1 DEF WmInv, WorldAgrees, Commits, InLock
  <2> QED BY <2>1, <2>2, <2>3 DEF WmInv
<1> QED BY <1>4, <1>5 DEF WmHealth

\* A bridge call that fails is a slip, and a slip leaves only types and lock to show.
LEMMA WmBridgeFails ==
  ASSUME NEW c \in WmClients, WmInv, InLock(c), WmEnd(c), wmWorld' \in {"moves", "still"}, wmSlip' = TRUE,
         UNCHANGED <<wmState, wmHolds, wmPark>>
  PROVE  WmInv'
<1>1. WmTypes' /\ LockAgrees' /\ CallAgrees' /\ StateAgrees'
  BY LeavesLock
<1>2. HoldersAgree' /\ WorldAgrees'
  BY DEF HoldersAgree, WorldAgrees
<1> QED BY <1>1, <1>2 DEF WmInv

\* A claim's resume moves the world, or the claim fails.
LEMMA WmResumeStep == ASSUME NEW c \in WmClients, WmInv, WmResume(c) PROVE WmInv'
<1>1. /\ UNCHANGED <<wmState, wmHolds, wmPark>>
      /\ wmCall[c].at = "resume" /\ wmCall[c].op = "claim" /\ wmCall[c].resume /\ InLock(c) /\ wmCall[c] \in WmCalls
      /\ wmState = "parked" /\ wmWorld \in {"moves", "still"}
  BY DEF WmInv, WmTypes, CallAgrees, StateAgrees, WmResume, WmBridge, WmAt, InLock
<1>2. CASE wmWorld' = "moves" /\ WmGo(c, "commit") /\ UNCHANGED <<wmLock, wmSlip>>
  <2>1. /\ WmTypes' /\ LockAgrees' /\ CallAgrees' /\ StateAgrees' /\ HoldersAgree'
        /\ wmCall'[c] = [wmCall[c] EXCEPT !.at = "commit"]
        /\ \A d \in WmClients \ {c} : wmCall'[d] = wmCall[d] /\ ~InLock(d)
    BY <1>1, <1>2, WithinLock DEF WmSteps
  <2>2. Commits(c, "claim")' /\ \A d \in WmClients : ~Commits(d, "recycle")'
    BY <1>1, <2>1 DEF Commits, InLock, WmCalls
  <2>3. WorldAgrees'
    BY <1>2, <2>2 DEF WorldAgrees
  <2> QED BY <2>1, <2>3 DEF WmInv
<1>3. CASE WmEnd(c) /\ wmSlip' = TRUE
  BY <1>1, <1>3, WmBridgeFails DEF WmResume, WmBridge
<1> QED BY <1>2, <1>3 DEF WmResume, WmBridge

\* end_game and round_reset leave the world as it is.
LEMMA WmKeepsWorldStep ==
  ASSUME NEW c \in WmClients, WmInv, WmEndGame(c) \/ WmRoundReset(c) PROVE WmInv'
<1> DEFINE step == IF wmCall[c].at = "end" THEN "reset" ELSE "pause"
<1>1. /\ UNCHANGED <<wmState, wmHolds, wmPark, wmWorld>>
      /\ wmCall[c].at \in {"end", "reset"} /\ wmCall[c].op = "recycle" /\ InLock(c) /\ wmCall[c] \in WmCalls
      /\ wmWorld \in {"moves", "still"}
  BY DEF WmInv, WmTypes, CallAgrees, WmEndGame, WmRoundReset, WmBridge, WmAt, InLock
<1>2. \A d \in WmClients, op \in {"claim", "recycle"} : ~Commits(d, op)
  BY <1>1 DEF WmInv, LockAgrees, Commits, InLock
<1>3. CASE WmGo(c, step) /\ UNCHANGED <<wmLock, wmSlip>>
  <2>1. /\ WmTypes' /\ LockAgrees' /\ CallAgrees' /\ StateAgrees' /\ HoldersAgree'
        /\ wmCall'[c] = [wmCall[c] EXCEPT !.at = step]
        /\ \A d \in WmClients \ {c} : wmCall'[d] = wmCall[d] /\ ~InLock(d)
    BY <1>1, <1>3, WithinLock DEF WmSteps
  <2>2. \A d \in WmClients, op \in {"claim", "recycle"} : ~Commits(d, op)'
    BY <1>1, <1>2, <2>1 DEF Commits, WmCalls
  <2>3. WorldAgrees'
    BY <1>1, <1>2, <1>3, <2>2 DEF WmInv, WorldAgrees
  <2> QED BY <2>1, <2>3 DEF WmInv
<1>4. CASE WmEnd(c) /\ wmSlip' = TRUE
  BY <1>1, <1>4, WmBridgeFails
<1> QED BY <1>1, <1>3, <1>4 DEF WmEndGame, WmRoundReset, WmBridge, WmAt

\* A recycle's pause stops the world, or the recycle fails.
LEMMA WmPauseStep == ASSUME NEW c \in WmClients, WmInv, WmPause(c) PROVE WmInv'
<1>1. /\ UNCHANGED <<wmState, wmHolds, wmPark>>
      /\ wmCall[c].at = "pause" /\ wmCall[c].op = "recycle" /\ InLock(c) /\ wmCall[c] \in WmCalls
      /\ wmState = "claimed" /\ wmWorld \in {"moves", "still"}
  BY DEF WmInv, WmTypes, CallAgrees, StateAgrees, WmPause, WmBridge, WmAt, InLock
<1>2. CASE wmWorld' = "still" /\ WmGo(c, "commit") /\ UNCHANGED <<wmLock, wmSlip>>
  <2>1. /\ WmTypes' /\ LockAgrees' /\ CallAgrees' /\ StateAgrees' /\ HoldersAgree'
        /\ wmCall'[c] = [wmCall[c] EXCEPT !.at = "commit"]
        /\ \A d \in WmClients \ {c} : wmCall'[d] = wmCall[d] /\ ~InLock(d)
    BY <1>1, <1>2, WithinLock DEF WmSteps
  <2>2. Commits(c, "recycle")' /\ \A d \in WmClients : ~Commits(d, "claim")'
    BY <1>1, <2>1 DEF Commits, InLock, WmCalls
  <2>3. WorldAgrees'
    BY <1>2, <2>2 DEF WorldAgrees
  <2> QED BY <2>1, <2>3 DEF WmInv
<1>3. CASE WmEnd(c) /\ wmSlip' = TRUE
  BY <1>1, <1>3, WmBridgeFails DEF WmPause, WmBridge
<1> QED BY <1>2, <1>3 DEF WmPause, WmBridge

\* The commit of a claim finds no holder, that of a recycle its own client as the
\* only one.
LEMMA WmCommitStep == ASSUME NEW c \in WmClients, WmInv, WmCommit(c) PROVE WmInv'
<1> DEFINE claim == wmCall[c].op = "claim"
           handed == IF ~claim THEN "no" ELSE IF wmCall[c].resume THEN "resumed" ELSE "paused"
<1>1. /\ wmCall[c].at = "commit" /\ wmCall[c].op \in {"claim", "recycle"} /\ InLock(c)
      /\ wmState = (IF claim THEN "parked" ELSE "claimed") /\ wmState' = (IF claim THEN "claimed" ELSE "parked")
      /\ WmEnd(c) /\ UNCHANGED <<wmWorld, wmPark>> /\ handed \in {"no", "resumed", "paused"}
  BY DEF WmInv, CallAgrees, StateAgrees, WmCommit, WmAt, InLock
<1>2. WmIdle \in WmCalls /\ WmIdle.at = "idle" /\ WmIdle.op = "none"
  BY DEF WmIdle, WmCalls, WmSteps
<1>3. wmCall'[c] = WmIdle /\ wmLock' = NoHolder /\ \A d \in WmClients \ {c} : wmCall'[d] = wmCall[d] /\ ~InLock(d)
  BY <1>1 DEF WmInv, WmTypes, LockAgrees, WmEnd
<1>4. \A d \in WmClients : ~InLock(d)'
  BY <1>2, <1>3 DEF InLock
<1>5. LockAgrees' /\ StateAgrees'
  BY <1>3, <1>4, ClientsAreSomebody DEF LockAgrees, StateAgrees
<1>6. CASE wmHolds' = [wmHolds EXCEPT ![c] = handed] /\ UNCHANGED wmSlip
  <2>1. wmHolds'[c] = handed /\ \A d \in WmClients \ {c} : wmHolds'[d] = wmHolds[d]
    BY <1>6 DEF WmInv, WmTypes
  <2>2. WmTypes'
    BY <1>1, <1>2, <1>3, <1>6 DEF WmInv, WmTypes, WmEnd
  <2>3. CallAgrees'
    BY <1>2, <1>3, <2>1 DEF WmInv, CallAgrees
  <2>4. ~wmSlip => \A d \in WmClients \ {c} : wmHolds[d] = "no"
    BY <1>1 DEF WmInv, HoldersAgree, CallAgrees
  <2>5. HoldersAgree'
    BY <1>1, <1>6, <2>1, <2>4 DEF HoldersAgree
  <2>6. ~wmSlip => (claim /\ wmCall[c].resume => wmWorld = "moves") /\ (~claim => wmWorld = "still")
    BY <1>1 DEF WmInv, WorldAgrees, Commits
  <2>7. \A d \in WmClients, op \in {"claim", "recycle"} : ~Commits(d, op)'
    BY <1>4 DEF Commits, InLock
  <2>8. WorldAgrees'
    BY <1>1, <1>6, <2>1, <2>4, <2>6, <2>7 DEF WorldAgrees
  <2> QED BY <1>5, <2>2, <2>3, <2>5, <2>8 DEF WmInv
<1>7. CASE wmSlip' = TRUE /\ UNCHANGED wmHolds
  <2>1. WmTypes'
    BY <1>1, <1>2, <1>3, <1>7 DEF WmInv, WmTypes, WmEnd
  <2>2. CallAgrees'
    BY <1>2, <1>3, <1>7 DEF WmInv, CallAgrees
  <2> QED BY <1>5, <1>7, <2>1, <2>2 DEF WmInv, HoldersAgree, WorldAgrees
<1> QED BY <1>6, <1>7 DEF WmCommit

\* The parking at the start, a death of the service and a restart of the server.
LEMMA WmOthersStep == WmInv /\ (StartPark \/ WmServiceDies \/ DedicatedRestarts) => WmInv'
<1>1. ASSUME WmInv, StartPark PROVE WmInv'
  <2>1. UNCHANGED <<wmLock, wmCall, wmHolds, wmPark, wmSlip>> /\ wmState = "down"
        /\ wmState' = "parked" /\ wmWorld' = "still"
    BY <1>1 DEF StartPark
  <2>2. \A c \in WmClients : ~InLock(c)
    BY <1>1, <2>1 DEF WmInv, StateAgrees
  <2>3. WmTypes' /\ CallAgrees'
    BY <1>1, <2>1 DEF WmInv, WmTypes, CallAgrees
  <2>4. LockAgrees' /\ StateAgrees'
    BY <1>1, <2>1, <2>2 DEF WmInv, LockAgrees, StateAgrees, InLock
  <2>5. HoldersAgree' /\ WorldAgrees'
    BY <1>1, <2>1, <2>2 DEF WmInv, HoldersAgree, WorldAgrees, Commits, InLock
  <2> QED BY <2>3, <2>4, <2>5 DEF WmInv
<1>2. ASSUME WmInv, WmServiceDies PROVE WmInv'
  <2>1. WmIdle \in WmCalls /\ WmIdle.at = "idle" /\ WmIdle.op = "none"
    BY DEF WmIdle, WmCalls, WmSteps
  <2>2. \A c \in WmClients : wmCall'[c] = WmIdle
    BY <1>2 DEF WmServiceDies
  <2>3. WmTypes'
    BY <1>2, <2>1 DEF WmInv, WmTypes, WmServiceDies
  <2>4. LockAgrees'
    BY <1>2, <2>1, <2>2, ClientsAreSomebody DEF LockAgrees, InLock, WmServiceDies
  <2>5. CallAgrees' /\ StateAgrees'
    BY <2>1, <2>2 DEF CallAgrees, StateAgrees, InLock
  <2>6. HoldersAgree' /\ WorldAgrees'
    BY <1>2 DEF HoldersAgree, WorldAgrees, WmServiceDies
  <2> QED BY <2>3, <2>4, <2>5, <2>6 DEF WmInv
<1>3. ASSUME WmInv, DedicatedRestarts PROVE WmInv'
  <2>1. UNCHANGED <<wmState, wmLock, wmCall, wmHolds>> /\ wmWorld' = "moves" /\ wmSlip' = TRUE
    BY <1>3 DEF DedicatedRestarts
  <2>2. WmTypes' /\ CallAgrees' /\ LockAgrees' /\ StateAgrees'
    BY <1>3, <2>1 DEF WmInv, WmTypes, CallAgrees, LockAgrees, StateAgrees, InLock
  <2>3. HoldersAgree' /\ WorldAgrees'
    BY <2>1 DEF HoldersAgree, WorldAgrees
  <2> QED BY <2>2, <2>3 DEF WmInv
<1> QED BY <1>1, <1>2, <1>3

\* Every step keeps the invariant.
LEMMA WmInvStays == WmInv /\ [WmNext]_wmVars => WmInv'
<1> SUFFICES ASSUME WmInv, [WmNext]_wmVars PROVE WmInv'
  OBVIOUS
<1>1. CASE UNCHANGED wmVars
  BY <1>1 DEF wmVars, WmInv, WmTypes, LockAgrees, CallAgrees, StateAgrees, HoldersAgree, WorldAgrees, InLock, Commits
<1>2. ASSUME NEW c \in WmClients, WmWork(c) PROVE WmInv'
  BY <1>2, WmEnterStep, WmHealthStep, WmResumeStep, WmKeepsWorldStep, WmPauseStep, WmCommitStep DEF WmWork
<1> QED BY <1>1, <1>2, WmAskStep, WmOthersStep DEF WmNext

\* The static server has at most one holder, CLAIMED says so, its world moves for
\* one who had it resumed and stands still when it is free (warm_service.py:294-347),
\* for any number of clients, requests and deaths.
THEOREM HandedOverAlways == WmSpec => []WarmIsHandedOver
<1>1. WmInv => WarmIsHandedOver
  <2> SUFFICES ASSUME WmInv PROVE WarmIsHandedOver
    OBVIOUS
  <2>1. wmLock = NoHolder => \A c \in WmClients, op \in {"claim", "recycle"} : ~Commits(c, op)
    BY ClientsAreSomebody DEF WmInv, LockAgrees, InLock, Commits
  <2>2. WarmHandsOutOnce
    BY <2>1 DEF WmInv, HoldersAgree, WorldAgrees, WarmHandsOutOnce
  <2>3. WarmParkedStands
    BY <2>1 DEF WmInv, WmTypes, WorldAgrees, WarmParkedStands
  <2> QED BY <2>2, <2>3 DEF WarmIsHandedOver
<1>2. WmSpec => []WmInv
  BY WmInvHoldsAtFirst, WmInvStays, PTL DEF WmSpec
<1> QED BY <1>1, <1>2, PTL

-----------------------------------------------------------------------------
(* The gate of the parked VS (ParkedVs).                                   *)

\* The gate's promise is not inductive: that a claim finds all who joined ready
\* rests on nobody being ready who did not join or say so, on no more having joined
\* than are required, and on a waiting session that is never complete.
VsTypes ==
  /\ vsState \in {"none", "waiting_opponent", "waiting_both_ready", "claimed", "recycling", "stopped"}
  /\ IsFiniteSet(vsJoined) /\ Cardinality(vsJoined) <= Required
  /\ vsMoves \in BOOLEAN /\ vsLost \in BOOLEAN
ReadyHaveJoined == vsReady \subseteq vsJoined /\ vsReady \subseteq vsSaid
StandsUnlessLost == vsState \in {"none", "waiting_opponent", "waiting_both_ready", "stopped"} /\ vsMoves => vsLost
NotComplete == VsWaiting => ~VsComplete(vsReady)
AllHaveSaid ==
  vsState \in {"claimed", "recycling"} => Cardinality(vsJoined) >= Required /\ vsJoined \subseteq vsSaid
NobodyYet == vsState = "none" => vsJoined = {}
VsInv == VsTypes /\ ReadyHaveJoined /\ StandsUnlessLost /\ NotComplete /\ AllHaveSaid /\ NobodyYet

\* Nobody is fewer than are required.
LEMMA NobodyIsFew == IsFiniteSet({}) /\ Cardinality({}) <= Required
<1>1. IsFiniteSet({}) /\ Cardinality({}) = 0
  BY FS_EmptySet
<1> QED BY <1>1, SomeRequired

\* There is no session at first.
LEMMA VsInvHoldsAtFirst == VsInit => VsInv
BY NobodyIsFew
   DEF VsInit, VsInv, VsTypes, ReadyHaveJoined, StandsUnlessLost, NotComplete, AllHaveSaid, NobodyYet, VsWaiting

\* Whoever is ready has joined: a session nobody has joined is not complete.
LEMMA EmptyIsNotComplete == ASSUME vsJoined' = {} PROVE ~VsComplete(vsReady)'
BY FS_EmptySet, SomeRequired DEF VsComplete

\* A warm-up opens a session nobody has joined.
LEMMA VsWarmUpStep == VsInv /\ VsWarmUp => VsInv'
<1> SUFFICES ASSUME VsInv, VsWarmUp PROVE VsInv'
  OBVIOUS
<1>1. vsJoined' = {}
  BY DEF VsInv, NobodyYet, VsWarmUp
<1>2. VsTypes' /\ NobodyYet' /\ AllHaveSaid'
  BY <1>1 DEF VsInv, VsTypes, NobodyYet, AllHaveSaid, VsWarmUp
<1>3. ReadyHaveJoined' /\ StandsUnlessLost'
  BY DEF VsInv, ReadyHaveJoined, StandsUnlessLost, VsWarmUp
<1>4. NotComplete'
  BY <1>1, EmptyIsNotComplete DEF NotComplete
<1> QED BY <1>2, <1>3, <1>4 DEF VsInv

\* A join adds one, and only while places are left.
LEMMA VsJoinStep == ASSUME NEW p \in VsPlayers, VsInv, VsJoin(p) PROVE VsInv'
<1>1. /\ vsJoined' = vsJoined \cup {p} /\ p \notin vsJoined
      /\ IsFiniteSet(vsJoined') /\ Cardinality(vsJoined') = Cardinality(vsJoined) + 1
      /\ Cardinality(vsJoined) < Required /\ Cardinality(vsJoined) \in Nat
  BY FS_AddElement, FS_CardinalityType DEF VsInv, VsTypes, VsJoin
<1>2. VsTypes'
  BY <1>1, SomeRequired DEF VsInv, VsTypes, VsJoin
<1>3. ReadyHaveJoined' /\ StandsUnlessLost' /\ AllHaveSaid' /\ NobodyYet'
  BY <1>1 DEF VsInv, VsTypes, ReadyHaveJoined, StandsUnlessLost, AllHaveSaid, NobodyYet, VsJoin, VsWaiting
<1>4. vsReady' \subseteq vsJoined /\ Cardinality(vsReady') <= Cardinality(vsJoined)
  BY FS_Subset DEF VsInv, VsTypes, ReadyHaveJoined, VsJoin
<1>5. Cardinality(vsReady') \in Nat
  BY <1>4, FS_Subset, FS_CardinalityType DEF VsInv, VsTypes
<1>6. ~VsComplete(vsReady)'
  BY <1>1, <1>4, <1>5, SomeRequired DEF VsComplete
<1> QED BY <1>2, <1>3, <1>6 DEF VsInv, NotComplete

\* The last ready of a round is that of everybody who joined.
LEMMA CompleteIsAll ==
  ASSUME VsInv, NEW p \in vsJoined, VsComplete(vsReady \cup {p})
  PROVE  vsJoined = vsReady \cup {p} /\ Cardinality(vsJoined) >= Required
<1>1. vsReady \cup {p} \in SUBSET vsJoined /\ IsFiniteSet(vsJoined)
  BY DEF VsInv, ReadyHaveJoined, VsTypes
<1>2. /\ IsFiniteSet(vsReady \cup {p})
      /\ Cardinality(vsReady \cup {p}) <= Cardinality(vsJoined)
      /\ Cardinality(vsJoined) = Cardinality(vsReady \cup {p}) => vsJoined = vsReady \cup {p}
  BY <1>1, FS_Subset
<1>3. Cardinality(vsJoined) \in Nat /\ Cardinality(vsReady \cup {p}) \in Nat
  BY <1>1, <1>2, FS_CardinalityType
<1> QED BY <1>2, <1>3, SomeRequired DEF VsComplete, VsInv, VsTypes

\* A ready adds a flag, claims when it was the last, and takes it back when the claim fails.
LEMMA VsReadyStep == ASSUME NEW p \in VsPlayers, VsInv, VsReady(p) PROVE VsInv'
<1>1. p \in vsJoined /\ vsSaid' = vsSaid \cup {p} /\ UNCHANGED vsJoined /\ VsWaiting
  BY DEF VsReady
<1>2. CASE ~VsComplete(vsReady \cup {p})
  <2>1. vsReady' = vsReady \cup {p} /\ UNCHANGED <<vsState, vsMoves, vsLost>>
    BY <1>2 DEF VsReady
  <2>2. VsTypes' /\ ReadyHaveJoined' /\ StandsUnlessLost' /\ NobodyYet'
    BY <1>1, <2>1 DEF VsInv, VsTypes, ReadyHaveJoined, StandsUnlessLost, NobodyYet
  <2>3. AllHaveSaid' /\ NotComplete'
    BY <1>1, <1>2, <2>1 DEF VsInv, AllHaveSaid, NotComplete, VsComplete
  <2> QED BY <2>2, <2>3 DEF VsInv
<1>3. CASE VsComplete(vsReady \cup {p}) /\ vsState' = "claimed"
  <2>1. vsReady' = vsReady \cup {p} /\ vsMoves' = TRUE /\ UNCHANGED vsLost
    BY <1>1, <1>3 DEF VsReady, VsWaiting
  <2>2. vsJoined = vsReady' /\ Cardinality(vsJoined) >= Required
    BY <1>1, <1>3, <2>1, CompleteIsAll
  <2>3. VsTypes' /\ ReadyHaveJoined' /\ AllHaveSaid'
    BY <1>1, <1>3, <2>1, <2>2 DEF VsInv, VsTypes, ReadyHaveJoined, AllHaveSaid
  <2>4. StandsUnlessLost' /\ NobodyYet' /\ NotComplete'
    BY <1>3 DEF StandsUnlessLost, NobodyYet, NotComplete, VsWaiting
  <2> QED BY <2>3, <2>4 DEF VsInv
<1>4. CASE VsComplete(vsReady \cup {p}) /\ vsState' # "claimed"
  <2>1. UNCHANGED <<vsReady, vsState>> /\ vsMoves' \in {vsMoves, TRUE} /\ vsLost' = (vsLost \/ vsMoves')
    BY <1>4 DEF VsReady, TakesFlagBack
  <2>2. VsTypes'
    BY <1>1, <2>1 DEF VsInv, VsTypes
  <2>3. ReadyHaveJoined' /\ AllHaveSaid' /\ NobodyYet'
    BY <1>1, <2>1 DEF VsInv, ReadyHaveJoined, AllHaveSaid, NobodyYet
  <2>4. StandsUnlessLost'
    BY <2>1 DEF VsInv, StandsUnlessLost
  <2>5. NotComplete'
    BY <1>1, <2>1 DEF VsInv, NotComplete, VsComplete, VsWaiting
  <2> QED BY <2>2, <2>3, <2>4, <2>5 DEF VsInv
<1> QED BY <1>2, <1>3, <1>4

\* A recycle lets everybody go.
LEMMA VsRecycleStep == ASSUME NEW keep \in BOOLEAN, VsInv, VsRecycle(keep) PROVE VsInv'
<1>1. CASE vsState' = "recycling"
  <2>1. UNCHANGED <<vsJoined, vsReady, vsSaid, vsLost>> /\ vsMoves' \in BOOLEAN /\ vsState = "claimed"
    BY <1>1 DEF VsRecycle
  <2> QED BY <1>1, <2>1 DEF VsInv, VsTypes, ReadyHaveJoined, StandsUnlessLost, NotComplete, AllHaveSaid,
                            NobodyYet, VsWaiting
<1>2. CASE vsState' # "recycling"
  <2>1. /\ vsState' \in {"waiting_opponent", "stopped"} /\ vsMoves' = FALSE /\ vsLost' = FALSE
        /\ vsJoined' = {} /\ vsReady' = {} /\ vsSaid' = {}
    BY <1>2 DEF VsRecycle, NobodyReady
  <2>2. VsTypes'
    BY <2>1, NobodyIsFew DEF VsTypes
  <2>3. NotComplete'
    BY <2>1, EmptyIsNotComplete DEF NotComplete
  <2> QED BY <2>1, <2>2, <2>3 DEF VsInv, ReadyHaveJoined, StandsUnlessLost, AllHaveSaid, NobodyYet
<1> QED BY <1>1, <1>2

\* Every step keeps the invariant.
LEMMA VsInvStays == VsInv /\ [VsNext]_vsVars => VsInv'
<1> SUFFICES ASSUME VsInv, [VsNext]_vsVars PROVE VsInv'
  OBVIOUS
<1>1. CASE UNCHANGED vsVars
  BY <1>1 DEF vsVars, VsInv, VsTypes, ReadyHaveJoined, StandsUnlessLost, NotComplete, AllHaveSaid, NobodyYet,
              VsWaiting, VsComplete
<1> QED BY <1>1, VsWarmUpStep, VsJoinStep, VsReadyStep, VsRecycleStep DEF VsNext

\* The invariant implies the gate's promise.
LEMMA VsInvOpensGate == VsInv => GateOpensForTwo
<1> SUFFICES ASSUME VsInv PROVE GateOpensForTwo
  OBVIOUS
<1>1. ReadyGate
  BY DEF VsInv, VsTypes, StandsUnlessLost, AllHaveSaid, ReadyGate
<1>2. SomeoneCanStart
  <2> SUFFICES ASSUME VsWaiting, vsJoined \subseteq vsReady PROVE Cardinality(vsJoined) < Required
    BY DEF SomeoneCanStart
  <2>1. vsJoined = vsReady /\ ~VsComplete(vsReady)
    BY DEF VsInv, ReadyHaveJoined, NotComplete
  <2> QED BY <2>1, FS_CardinalityType, SomeRequired DEF VsComplete, VsInv, VsTypes
<1> QED BY <1>1, <1>2 DEF GateOpensForTwo

\* The ready gate opens for all who are required, who joined and said ready in
\* this round, and a session that waits can still be started (parked_vs.py:12-20,
\* 239-242), for any number of players and rounds and whatever claims fail.
THEOREM GateAlways == VsSpec => []GateOpensForTwo
<1>1. VsSpec => []VsInv
  BY VsInvHoldsAtFirst, VsInvStays, PTL DEF VsSpec
<1> QED BY <1>1, VsInvOpensGate, PTL

-----------------------------------------------------------------------------
(* The match loop (MatchLoop).                                             *)

Hps == Nat \cup {Gone, NoHp}
Counts == [maps : Nat, faults : Nat, deaths : Nat, ended : Nat, foreign : Nat]
MlTypes ==
  /\ hq \in Nat \cup {Gone} /\ mlView \in Nat \cup {Gone} /\ mlHp \in Hps /\ refereeHp \in Hps
  /\ mlSeen \in BOOLEAN /\ mlVs \in BOOLEAN /\ mlSlip \in BOOLEAN
  /\ mlAt \in {"sleep", "hp", "dead", "end"}
  /\ mlCount \in Counts

\* With a referee the loop never ends a game nor waits for a new map; it reports
\* the death of an HQ it did not see alive.
ByMode ==
  /\ mlVs => mlAt # "end" /\ mlDefeat = "none"
  /\ mlAt = "dead" => ~MlAlive(mlView)

\* Every end of a game, the one on its way and the one the latch still stands for
\* are paid for by a death or by a map that others reset.
OnItsWay == IF mlAt = "end" THEN 1 ELSE 0
LatchHolds == IF mlSeen /\ hq \in {0, Gone} THEN 1 ELSE 0
EndsArePaid == mlCount.ended + OnItsWay + LatchHolds <= mlCount.deaths + mlCount.foreign

\* What counts as reported was told, unless others reset the map since.
Told == mlVs /\ ~mlSlip =>
  /\ refereeHp = mlHp \/ (mlCount.foreign > 0 /\ refereeHp = NoHp)
  /\ mlAt = "sleep" /\ MlAlive(mlView) => mlHp = mlView
MlInv == MlTypes /\ ByMode /\ EndsArePaid /\ Told

\* The loop starts asleep and has seen no HQ.
LEMMA MlInvHoldsAtFirst == MlInit => MlInv
<1> SUFFICES ASSUME MlInit PROVE MlInv
  OBVIOUS
<1>1. MlTypes
  BY DEF MlInit, MlTypes, Hps, Counts, Gone, NoHp
<1>2. ByMode
  BY DEF MlInit, ByMode
<1>3. EndsArePaid
  BY DEF MlInit, EndsArePaid, OnItsWay, LatchHolds
<1>4. Told
  BY DEF MlInit, Told, MlAlive, Gone
<1> QED BY <1>1, <1>2, <1>3, <1>4 DEF MlInv

\* The game's HQ is built, hit and removed; a death pays for one end.
LEMMA GameStep == ASSUME MlInv, GameMoves PROVE MlInv'
<1>1. UNCHANGED <<mlVs, mlSeen, mlDefeat, mlHp, mlAt, mlView, refereeHp, mlSlip>>
  BY DEF GameMoves, mlLoop, referee
<1>2. CASE HitHq
  <2>1. hq \in Nat /\ hq > 0 /\ hq' = hq - 1 /\ hq' \in Nat
    BY <1>2 DEF HitHq, MlInv, MlTypes, Gone
  <2>2. CASE hq # 1
    <3>1. UNCHANGED mlCount /\ hq' \notin {0, Gone} /\ hq \notin {0, Gone}
      BY <1>2, <2>1, <2>2 DEF HitHq, Gone
    <3> QED BY <1>1, <2>1, <3>1
         DEF MlInv, MlTypes, ByMode, EndsArePaid, OnItsWay, LatchHolds, Told
  <2>3. CASE hq = 1
    <3>1. /\ mlCount' \in Counts /\ mlCount'.deaths = mlCount.deaths + 1
          /\ mlCount'.ended = mlCount.ended /\ mlCount'.foreign = mlCount.foreign
      BY <1>2, <2>3 DEF HitHq, MlInv, MlTypes, Counts
    <3>2. hq \notin {0, Gone}
      BY <2>3 DEF Gone
    <3>3. EndsArePaid'
      BY <1>1, <3>1, <3>2 DEF MlInv, MlTypes, Counts, EndsArePaid, OnItsWay, LatchHolds
    <3> QED BY <1>1, <2>1, <3>1, <3>3 DEF MlInv, MlTypes, ByMode, Told
  <2> QED BY <2>2, <2>3
<1>3. CASE RemoveHq
  BY <1>1, <1>3 DEF RemoveHq, MlInv, MlTypes, ByMode, EndsArePaid, OnItsWay, LatchHolds, Told
<1>4. CASE BuildHq
  <2>1. UNCHANGED mlCount /\ hq' = MlMaxHp /\ MlMaxHp \in Nat \ {0}
    BY <1>4, HqStands DEF BuildHq
  <2>2. hq' \notin {0, Gone} /\ hq' \in Nat
    BY <2>1 DEF Gone
  <2>3. EndsArePaid'
    BY <1>1, <2>1, <2>2 DEF MlInv, MlTypes, Counts, EndsArePaid, OnItsWay, LatchHolds
  <2> QED BY <1>1, <2>1, <2>2, <2>3 DEF MlInv, MlTypes, ByMode, Told
<1> QED BY <1>2, <1>3, <1>4 DEF GameMoves

\* A map that others reset pays for one end, too.
LEMMA NewMapStep == ASSUME MlInv, NewMap PROVE MlInv'
<1>1. /\ UNCHANGED <<mlVs, mlSeen, mlDefeat, mlHp, mlAt, mlView, mlSlip>>
      /\ hq' = Gone /\ refereeHp' = NoHp
  BY DEF NewMap, mlLoop
<1>2. /\ mlCount' \in Counts /\ mlCount'.foreign = mlCount.foreign + 1
      /\ mlCount'.ended = mlCount.ended /\ mlCount'.deaths = mlCount.deaths
  <2> DEFINE c == [mlCount EXCEPT !.maps = @ + 1]
  <2>1. c \in Counts /\ c.foreign = mlCount.foreign /\ c.ended = mlCount.ended /\ c.deaths = mlCount.deaths
    BY DEF MlInv, MlTypes, Counts
  <2>2. mlCount' = [c EXCEPT !.foreign = @ + 1]
    BY DEF NewMap, MlInv, MlTypes, Counts
  <2> HIDE DEF c
  <2> QED BY <2>1, <2>2 DEF Counts
<1>3. MlTypes'
  BY <1>1, <1>2 DEF MlInv, MlTypes, Hps
<1>4. EndsArePaid'
  BY <1>1, <1>2 DEF MlInv, MlTypes, Counts, EndsArePaid, OnItsWay, LatchHolds
<1>5. mlCount'.foreign > 0
  BY <1>2 DEF MlInv, MlTypes, Counts
<1>6. ByMode' /\ Told'
  BY <1>1, <1>5 DEF MlInv, ByMode, Told
<1> QED BY <1>3, <1>4, <1>6 DEF MlInv

\* A poll reports or ends at most what it saw change.
LEMMA PollStep == ASSUME MlInv, MlPoll PROVE MlInv'
<1>1. UNCHANGED <<hq, mlVs, refereeHp, mlSlip>> /\ mlAt = "sleep"
  BY DEF MlPoll, game, referee
<1>2. CASE MlFault /\ UNCHANGED mlLoop
  <2>1. /\ mlCount' \in Counts /\ mlCount'.foreign = mlCount.foreign
        /\ mlCount'.ended = mlCount.ended /\ mlCount'.deaths = mlCount.deaths
    BY <1>2 DEF MlFault, MlInv, MlTypes, Counts
  <2> QED BY <1>1, <1>2, <2>1
       DEF mlLoop, MlInv, MlTypes, ByMode, EndsArePaid, OnItsWay, LatchHolds, Told
<1>3. CASE mlView' = hq /\ UNCHANGED <<mlCount, mlHp, mlDefeat>>
  <2>1. CASE MlAlive(hq) /\ mlSeen' = TRUE /\ mlAt' = IF mlVs /\ ToldAnew(hq) THEN "hp" ELSE "sleep"
    <3>1. hq \notin {0, Gone}
      BY <2>1 DEF MlAlive, Gone
    <3>2. MlTypes' /\ ByMode'
      BY <1>1, <1>3, <2>1 DEF MlInv, MlTypes, ByMode
    <3>3. LatchHolds' = 0 /\ OnItsWay' = 0 /\ LatchHolds = 0 /\ OnItsWay = 0
      BY <1>1, <2>1, <3>1 DEF OnItsWay, LatchHolds
    <3>4. EndsArePaid'
      BY <1>3, <3>3 DEF MlInv, MlTypes, Counts, EndsArePaid
    <3>5. Told'
      BY <1>1, <1>3, <2>1 DEF MlInv, Told, ToldAnew
    <3> QED BY <3>2, <3>4, <3>5 DEF MlInv
  <2>2. CASE /\ IsDefeat(hq) /\ mlSeen' = FALSE
             /\ mlAt' = IF ~mlVs THEN "end" ELSE IF hq # Gone /\ ToldAnew(hq) THEN "hp" ELSE "dead"
    <3>1. mlSeen /\ hq \in {0, Gone} /\ ~MlAlive(hq)
      BY <2>2 DEF IsDefeat, MlAlive, MlInv, MlTypes, Gone
    <3>2. MlTypes' /\ ByMode'
      BY <1>1, <1>3, <2>2, <3>1 DEF MlInv, MlTypes, ByMode
    <3>3. LatchHolds = 1 /\ OnItsWay = 0 /\ LatchHolds' = 0 /\ OnItsWay' \in {0, 1}
      BY <1>1, <2>2, <3>1 DEF OnItsWay, LatchHolds
    <3>4. EndsArePaid'
      BY <1>3, <3>3 DEF MlInv, MlTypes, Counts, EndsArePaid
    <3>5. Told'
      BY <1>1, <1>3, <3>1 DEF MlInv, Told
    <3> QED BY <3>2, <3>4, <3>5 DEF MlInv
  <2>3. CASE ~MlAlive(hq) /\ ~IsDefeat(hq) /\ mlAt' = "sleep" /\ UNCHANGED mlSeen
    BY <1>1, <1>3, <2>3 DEF MlInv, MlTypes, ByMode, EndsArePaid, OnItsWay, LatchHolds, Told
  <2> QED BY <1>2, <2>1, <2>2, <2>3 DEF MlPoll
<1> QED BY <1>2, <1>3 DEF MlPoll

\* A report, arrived or lost, marks what it told.
LEMMA ReportStep == ASSUME MlInv, ReportHp \/ ReportDead PROVE MlInv'
<1>1. /\ UNCHANGED <<hq, mlVs, mlSeen, mlView, mlDefeat>> /\ mlAt \in {"hp", "dead"}
      /\ mlAt' \in {"sleep", "dead"} /\ (mlAt' = "dead" => ~MlAlive(mlView))
  BY DEF ReportHp, ReportDead, MlPost, game
<1>2. mlSlip' = TRUE \/ mlSlip' = mlSlip
  BY DEF ReportHp, ReportDead, MlPost
<1>3. /\ mlCount' \in Counts /\ mlCount'.foreign = mlCount.foreign
      /\ mlCount'.ended = mlCount.ended /\ mlCount'.deaths = mlCount.deaths
  <2>1. UNCHANGED mlCount \/ mlCount' = [mlCount EXCEPT !.faults = @ + 1]
    <3>1. CASE ReportHp
      BY <3>1 DEF ReportHp, MlPost, MlFault
    <3>2. CASE ReportDead
      BY <3>2 DEF ReportDead, MlPost, MlFault
    <3> QED BY <3>1, <3>2
  <2> QED BY <2>1 DEF MlInv, MlTypes, Counts
<1>4. MlTypes' /\ ByMode'
  BY <1>1, <1>2, <1>3 DEF ReportHp, ReportDead, MlPost, referee, MlInv, MlTypes, Hps, ByMode
<1>5. EndsArePaid'
  BY <1>1, <1>3 DEF MlInv, MlTypes, Counts, EndsArePaid, OnItsWay, LatchHolds
<1>6. Told'
  <2>1. CASE ReportHp
    BY <1>1, <1>3, <2>1 DEF ReportHp, MlPost, MlInv, Told
  <2>2. CASE ReportDead
    <3>1. ~MlAlive(mlView') /\ UNCHANGED <<mlHp, refereeHp>>
      BY <1>1, <2>2 DEF ReportDead, MlPost, referee, MlInv, ByMode
    <3> QED BY <1>1, <1>2, <1>3, <3>1 DEF MlInv, Told
  <2> QED BY <2>1, <2>2
<1> QED BY <1>4, <1>5, <1>6 DEF MlInv

\* Solo only: the game is ended, and after the delay the map is reset.
LEMMA SoloStep == ASSUME MlInv, EndLostGame \/ RestartMap \/ DelayOver PROVE MlInv'
<1>1. ~mlVs /\ UNCHANGED <<mlVs, mlHp, mlView, refereeHp>>
  BY DEF EndLostGame, RestartMap, DelayOver, referee, MlInv, ByMode
<1>2. mlSlip' \in BOOLEAN /\ mlSeen' \in BOOLEAN /\ mlAt' \in {"sleep", "hp", "dead", "end"} /\ hq' \in Nat \cup {Gone}
  BY DEF EndLostGame, RestartMap, DelayOver, game, MlInv, MlTypes
<1>3. mlCount' \in Counts /\ EndsArePaid'
  <2>1. CASE EndLostGame
    <3>1. mlAt = "end" /\ mlAt' = "sleep" /\ LatchHolds' = LatchHolds
      BY <2>1 DEF EndLostGame, LatchHolds
    <3>2. /\ mlCount' \in Counts /\ mlCount'.ended <= mlCount.ended + 1
          /\ mlCount'.foreign = mlCount.foreign /\ mlCount'.deaths = mlCount.deaths
      BY <2>1 DEF EndLostGame, MlFault, MlInv, MlTypes, Counts
    <3>3. LatchHolds \in {0, 1} /\ OnItsWay = 1 /\ OnItsWay' = 0
      BY <3>1 DEF LatchHolds, OnItsWay
    <3> QED BY <3>1, <3>2, <3>3 DEF MlInv, MlTypes, Counts, EndsArePaid
  <2>2. CASE RestartMap
    <3>1. mlAt' = mlAt /\ mlSeen' = FALSE
      BY <2>2 DEF RestartMap
    <3>2. /\ mlCount' \in Counts /\ mlCount'.ended = mlCount.ended
          /\ mlCount'.foreign = mlCount.foreign /\ mlCount'.deaths = mlCount.deaths
      BY <2>2 DEF RestartMap, MlFault, MlInv, MlTypes, Counts
    <3>3. LatchHolds \in {0, 1} /\ LatchHolds' = 0 /\ OnItsWay' = OnItsWay /\ OnItsWay \in {0, 1}
      BY <3>1 DEF LatchHolds, OnItsWay
    <3> QED BY <3>2, <3>3 DEF MlInv, MlTypes, Counts, EndsArePaid
  <2>3. CASE DelayOver
    BY <2>3 DEF DelayOver, game, MlInv, MlTypes, EndsArePaid, OnItsWay, LatchHolds
  <2> QED BY <2>1, <2>2, <2>3
<1>4. MlTypes'
  BY <1>1, <1>2, <1>3 DEF MlInv, MlTypes
<1>5. mlAt' = "dead" => mlAt = "dead"
  BY DEF EndLostGame, RestartMap, DelayOver
<1>6. ByMode' /\ Told'
  BY <1>1, <1>5 DEF MlInv, ByMode, Told
<1> QED BY <1>3, <1>4, <1>6 DEF MlInv

\* A loop that starts again has told nothing.
LEMMA LoopDiesStep == ASSUME MlInv, LoopDies PROVE MlInv'
<1>1. /\ UNCHANGED <<hq, mlVs, refereeHp>> /\ mlSlip' = TRUE
      /\ mlSeen' = FALSE /\ mlDefeat' = "none" /\ mlHp' = NoHp /\ mlAt' = "sleep" /\ mlView' = Gone
  BY DEF LoopDies, game, referee
<1>2. /\ mlCount' \in Counts /\ mlCount'.ended = mlCount.ended
      /\ mlCount'.foreign = mlCount.foreign /\ mlCount'.deaths = mlCount.deaths
  BY DEF LoopDies, MlFault, MlInv, MlTypes, Counts
<1>3. LatchHolds \in {0, 1} /\ LatchHolds' = 0 /\ OnItsWay' = 0 /\ OnItsWay \in {0, 1}
  BY <1>1 DEF LatchHolds, OnItsWay
<1>4. EndsArePaid'
  BY <1>2, <1>3 DEF MlInv, MlTypes, Counts, EndsArePaid
<1> QED BY <1>1, <1>2, <1>4 DEF MlInv, MlTypes, Hps, ByMode, Told

\* The invariant holds of every reachable state of the loop (match_loop.py).
THEOREM MlInvAlways == MlSpec => []MlInv
<1>1. MlInv /\ [MlNext]_mlVars => MlInv'
  <2> SUFFICES ASSUME MlInv, [MlNext]_mlVars PROVE MlInv'
    OBVIOUS
  <2>1. CASE MlNext
    BY <2>1, GameStep, NewMapStep, PollStep, ReportStep, SoloStep, LoopDiesStep DEF MlNext, MlStep
  <2>2. CASE UNCHANGED mlVars
    BY <2>2 DEF mlVars, MlInv, MlTypes, ByMode, EndsArePaid, OnItsWay, LatchHolds, Told
  <2> QED BY <2>1, <2>2
<1> QED BY MlInvHoldsAtFirst, <1>1, PTL DEF MlSpec

\* The loop ends no more games than headquarters died or others took away, and a
\* referee holds the hit points the loop last saw (match_loop.py: step, is_defeat).
THEOREM LoopTellsAlways == MlSpec => []LoopTellsTheGame
<1>1. MlInv => LoopTellsTheGame
  <2> SUFFICES ASSUME MlInv PROVE LoopTellsTheGame
    OBVIOUS
  <2>1. OneEndPerDeath
    <3>1. LatchHolds \in {0, 1}
      BY DEF LatchHolds
    <3> QED BY <3>1 DEF MlInv, MlTypes, Counts, EndsArePaid, OnItsWay, OneEndPerDeath
  <2>2. RefereeKnowsHp
    BY DEF MlInv, Told, RefereeKnowsHp
  <2> QED BY <2>1, <2>2 DEF LoopTellsTheGame
<1> QED BY MlInvAlways, <1>1, PTL

-----------------------------------------------------------------------------
(* The control agent (ServerControl).                                      *)

\* Threads, files and texts.
ScTexts == {NoText, DeployedText, TornText} \cup {Rendered(body) : body \in ScBodies}
ScSteps == {"idle", "render", "open", "write", "replace", "docker", "moving", "answer"}
ScOps == {"none", "start", "stop", "restart", "config"}
ScCalls == [at : ScSteps, op : ScOps, body : ScBodies \cup {{}}, inode : Nat]
ScCounts == [requests : Nat, faults : Nat, deaths : Nat]
ScTypes ==
  /\ scBound \in ScBounds /\ scCount \in ScCounts
  /\ scFile \in Inodes /\ scTmp \in Inodes \cup {0}
  /\ scText \in [Inodes -> ScTexts]
  /\ scCall \in [ScThreads -> ScCalls]
  /\ scRuns \in ScTexts /\ scKept \subseteq ScThreads

\* The file and the temporary file are two, both in use; so is what a request
\* writes to.
FilesInUse ==
  /\ scText[scFile] # NoText
  /\ scTmp # 0 => scTmp # scFile /\ scText[scTmp] # NoText
ScWrites(t) == scCall[t].at \in {"write", "replace"}
HandsOnFiles == \A t \in ScThreads :
  /\ scCall[t].at \in {"render", "open", "write", "replace"} => scCall[t].op = "config"
  /\ scCall[t].op = "config" => scCall[t].body \in ScBodies
  /\ ScWrites(t) => scCall[t].inode \in Inodes /\ scText[scCall[t].inode] # NoText

\* A request no one else had a hand in writes its own file, and the text it wrote is
\* the file's, then the server's.
IsKept(t) == t \in scKept /\ scCall[t].op = "config"
KeptWriteAlone == \A t \in ScThreads : IsKept(t) /\ ScWrites(t) =>
  /\ scTmp # 0 /\ scCall[t].inode = scTmp
  /\ \A u \in ScThreads \ {t} : scCall[u].at = "write" => scCall[u].inode # scTmp
  /\ scText[scTmp] = IF scCall[t].at = "write" THEN TornText ELSE Rendered(scCall[t].body)
KeptTextStays == \A t \in ScThreads : IsKept(t) =>
  /\ scCall[t].at \in {"docker", "moving", "answer"} => scText[scFile] = Rendered(scCall[t].body)
  /\ scCall[t].at = "answer" => scRuns = Rendered(scCall[t].body)

\* Config requests one at a time: the one there is holds the temporary file alone.
SerialWrites == scBound.configs = 1 =>
  /\ \A t, u \in ScThreads : scCall[t].op = "config" /\ scCall[u].op = "config" => t = u
  /\ \A t \in ScThreads : ScWrites(t) =>
       /\ scTmp # 0 /\ scCall[t].inode = scTmp
       /\ scText[scTmp] = IF scCall[t].at = "write" THEN TornText ELSE Rendered(scCall[t].body)
  /\ scText[scFile] # TornText /\ scRuns # TornText

ScInv == ScTypes /\ FilesInUse /\ HandsOnFiles /\ KeptWriteAlone /\ KeptTextStays /\ SerialWrites

\* The deployed file is there, nobody asks.
LEMMA ScInvHoldsAtFirst == ScInit => ScInv
<1> SUFFICES ASSUME ScInit PROVE ScInv
  OBVIOUS
<1>1. scBound.requests \in Nat /\ 1 \in Inodes
  BY BoundsAreNumbers DEF ScInit, Inodes
<1>2. DeployedText # NoText /\ DeployedText # TornText
  BY DEF DeployedText, NoText, TornText
<1>3. ScTypes
  BY <1>1 DEF ScInit, ScTypes, ScTexts, ScCalls, ScCounts, ScIdle, ScSteps, ScOps
<1>4. FilesInUse /\ KeptWriteAlone /\ KeptTextStays
  BY <1>1, <1>2 DEF ScInit, FilesInUse, KeptWriteAlone, KeptTextStays, IsKept, ScIdle
<1>5. HandsOnFiles /\ SerialWrites
  BY <1>1, <1>2 DEF ScInit, ScIdle, HandsOnFiles, SerialWrites, ScWrites
<1> QED BY <1>3, <1>4, <1>5 DEF ScInv

\* A body's text says something, and what it says is whole.
LEMMA TextsDiffer == ASSUME NEW body \in ScBodies
                     PROVE  Rendered(body) = body /\ Rendered(body) \in ScTexts /\ Rendered(body) \notin {NoText, TornText}
BY BodiesAreTexts DEF Rendered, DeployedText, ScTexts

\* A request comes: nobody has touched its file yet, and with one config request at
\* a time it is the only one.
LEMMA AskStep == ASSUME ScInv, NEW t \in ScThreads, AskLifecycle(t) \/ AskConfig(t) PROVE ScInv'
<1>1. PICK op \in ScOps \ {"none"}, body \in ScBodies \cup {{}}, step \in {"docker", "render"} :
        /\ ScAsk(t, op, body, step)
        /\ op = "config" => step = "render" /\ body \in ScBodies
        /\ op # "config" => step = "docker"
  BY DEF AskLifecycle, AskConfig, ScOps
<1>2. /\ UNCHANGED <<scTmp, scFile, scText, scLock, scRuns, scBound>> /\ scKept' = scKept \cup {t}
      /\ scCall' = [scCall EXCEPT ![t] = [ScIdle EXCEPT !.at = step, !.op = op, !.body = body]]
      /\ scCount' = [scCount EXCEPT !.requests = @ + 1] /\ scCall[t].at = "idle"
  BY <1>1 DEF ScAsk, ScAt
<1>3. scCall'[t] = [at |-> step, op |-> op, body |-> body, inode |-> 0] /\ \A u \in ScThreads \ {t} : scCall'[u] = scCall[u]
  BY <1>2 DEF ScInv, ScTypes, ScIdle
<1>4. ScTypes'
  <2>1. scCall'[t] \in ScCalls
    BY <1>3 DEF ScCalls, ScSteps
  <2>2. scCall' \in [ScThreads -> ScCalls]
    BY <2>1, <1>2, <1>3 DEF ScInv, ScTypes
  <2>3. scCount' \in ScCounts
    BY <1>2 DEF ScInv, ScTypes, ScCounts
  <2> QED BY <2>2, <2>3, <1>2 DEF ScInv, ScTypes, Inodes
<1>5. FilesInUse' /\ HandsOnFiles'
  <2>1. FilesInUse'
    BY <1>2 DEF ScInv, FilesInUse
  <2>2. /\ scCall'[t].at \in {"render", "docker"} /\ (scCall'[t].at = "render" => scCall'[t].op = "config")
        /\ scCall'[t].op = "config" => scCall'[t].body \in ScBodies
    BY <1>1, <1>3
  <2> QED BY <2>1, <2>2, <1>2, <1>3 DEF ScInv, HandsOnFiles, ScWrites, Inodes
<1>6. KeptWriteAlone' /\ KeptTextStays'
  BY <1>1, <1>2, <1>3 DEF ScInv, KeptWriteAlone, KeptTextStays, IsKept, ScWrites
<1>7. SerialWrites'
  <2>1. ASSUME scBound.configs = 1, op = "config" PROVE \A u \in ScThreads : scCall[u].op # "config"
    <3>1. Cardinality(ScConfigs) < 1 /\ IsFiniteSet(ScConfigs)
      BY <2>1, <1>1, ThreadsAreFinite, FS_Subset DEF ScAsk, ScConfigs
    <3>2. ScConfigs = {}
      BY <3>1, FS_CardinalityType, FS_EmptySet
    <3> QED BY <3>2 DEF ScConfigs
  <2> QED BY <2>1, <1>1, <1>2, <1>3 DEF ScInv, SerialWrites, ScWrites
<1> QED BY <1>4, <1>5, <1>6, <1>7 DEF ScInv

\* Steps that touch no file and not what runs: a render, a turn at docker's lock, an
\* answer, an error.
LEMMA QuietStep ==
  ASSUME ScInv, NEW t \in ScThreads, UNCHANGED <<scTmp, scFile, scText, scRuns, scBound, scKept>>,
         scCount' \in ScCounts,
         \/ \E step \in {"open", "moving"} : ScGo(t, step) /\ (step = "open" => scCall[t].at = "render") /\ (step = "moving" => scCall[t].at = "docker")
         \/ ScDone(t)
  PROVE  ScInv'
<1>1. /\ \A u \in ScThreads \ {t} : scCall'[u] = scCall[u]
      /\ scCall' \in [ScThreads -> ScCalls]
      /\ ~ScWrites(t)'
      /\ \/ scCall'[t] = ScIdle
         \/ /\ scCall'[t].op = scCall[t].op /\ scCall'[t].body = scCall[t].body
            /\ \/ scCall'[t].at = "open" /\ scCall[t].at = "render"
               \/ scCall'[t].at = "moving" /\ scCall[t].at = "docker"
  BY DEF ScInv, ScTypes, ScGo, ScDone, ScCalls, ScIdle, ScSteps, ScOps, ScWrites
<1>2. ScTypes'
  BY <1>1 DEF ScInv, ScTypes, Inodes
<1>3. FilesInUse' /\ HandsOnFiles'
  BY <1>1 DEF ScInv, FilesInUse, HandsOnFiles, ScWrites, Inodes, ScIdle
<1>4. KeptWriteAlone' /\ KeptTextStays'
  BY <1>1 DEF ScInv, KeptWriteAlone, KeptTextStays, IsKept, ScWrites, ScIdle
<1>5. SerialWrites'
  BY <1>1 DEF ScInv, SerialWrites, ScWrites, ScIdle
<1> QED BY <1>2, <1>3, <1>4, <1>5 DEF ScInv

\* The temporary file is opened: a new one, or the one another request has there,
\* which takes all claims away.
LEMMA OpenStep == ASSUME ScInv, NEW t \in ScThreads, OpenTmp(t) PROVE ScInv'
<1>1. PICK i \in IF scTmp = 0 THEN ScFresh ELSE {scTmp} :
        /\ scCall[t].at = "open" /\ scCall' = [scCall EXCEPT ![t].at = "write", ![t].inode = i]
        /\ scText' = [scText EXCEPT ![i] = TornText] /\ scTmp' = i
        /\ scKept' = (IF scTmp = 0 THEN scKept ELSE {})
        /\ UNCHANGED <<scFile, scLock, scRuns, scCount, scBound>>
  BY DEF OpenTmp, ScAt
<1>2. i \in Inodes /\ i # 0 /\ i # scFile /\ TornText # NoText
  <2>1. TornText # NoText
    BY DEF TornText, NoText
  <2> QED BY <2>1, <1>1 DEF ScInv, ScTypes, ScFresh, FilesInUse, Inodes
<1>3. /\ \A u \in ScThreads \ {t} : scCall'[u] = scCall[u]
      /\ scCall'[t].at = "write" /\ scCall'[t].inode = i
      /\ scCall'[t].op = scCall[t].op /\ scCall'[t].body = scCall[t].body
      /\ scCall' \in [ScThreads -> ScCalls]
  <2>1. scCall[t] \in ScCalls /\ i \in Nat
    BY <1>2, BoundsAreNumbers DEF ScInv, ScTypes, Inodes
  <2>2. scCall' = [scCall EXCEPT ![t] = [scCall[t] EXCEPT !.at = "write", !.inode = i]]
    BY <1>1 DEF ScInv, ScTypes
  <2>3. [scCall[t] EXCEPT !.at = "write", !.inode = i] \in ScCalls
    BY <2>1 DEF ScCalls, ScSteps
  <2> QED BY <2>1, <2>2, <2>3 DEF ScInv, ScTypes, ScCalls
<1>4. scText'[i] = TornText /\ \A j \in Inodes \ {i} : scText'[j] = scText[j]
  BY <1>1, <1>2 DEF ScInv, ScTypes
<1>5. scTmp = 0 => \A u \in ScThreads : ScWrites(u) => scCall[u].inode # i
  BY <1>1 DEF ScInv, HandsOnFiles, ScFresh
<1>6. ScTypes'
  BY <1>1, <1>2, <1>3 DEF ScInv, ScTypes, ScTexts, Inodes
<1>7. FilesInUse' /\ HandsOnFiles'
  BY <1>1, <1>2, <1>3, <1>4 DEF ScInv, ScTypes, FilesInUse, HandsOnFiles, ScWrites, Inodes
<1>8. KeptWriteAlone'
  <2>1. CASE scTmp # 0
    BY <2>1, <1>1 DEF KeptWriteAlone, IsKept
  <2>2. CASE scTmp = 0
    <3>1. \A u \in ScThreads \ {t} : IsKept(u) => ~ScWrites(u)
      BY <2>2 DEF ScInv, KeptWriteAlone
    <3> QED BY <3>1, <2>2, <1>1, <1>2, <1>3, <1>4, <1>5 DEF KeptWriteAlone, IsKept, ScWrites
  <2> QED BY <2>1, <2>2
<1>9. KeptTextStays'
  BY <1>1, <1>2, <1>3, <1>4 DEF ScInv, ScTypes, KeptTextStays, IsKept
<1>10. SerialWrites'
  <2> SUFFICES ASSUME scBound.configs = 1 PROVE SerialWrites'
    BY <1>1 DEF SerialWrites
  <2>1. scCall[t].op = "config"
    BY <1>1 DEF ScInv, HandsOnFiles
  <2>2. \A u \in ScThreads \ {t} : ~ScWrites(u)
    BY <2>1 DEF ScInv, SerialWrites, HandsOnFiles, ScWrites
  <2> QED BY <2>2, <1>1, <1>2, <1>3, <1>4 DEF ScInv, ScTypes, SerialWrites, ScWrites
<1> QED BY <1>6, <1>7, <1>8, <1>9, <1>10 DEF ScInv

\* The text is written, over another's rest or not; where no one else has the file
\* open, nothing of another text is in it.
LEMMA WriteStep == ASSUME ScInv, NEW t \in ScThreads, WriteText(t) PROVE ScInv'
<1> DEFINE i == scCall[t].inode
           text == Rendered(scCall[t].body)
<1>1. /\ scCall[t].at = "write" /\ scCall[t].op = "config" /\ scCall[t].body \in ScBodies /\ i \in Inodes
      /\ scCall' = [scCall EXCEPT ![t].at = "replace"]
      /\ scKept' = (IF i = scFile THEN {} ELSE scKept)
      /\ UNCHANGED <<scTmp, scFile, scLock, scRuns, scCount, scBound>>
  BY DEF WriteText, ScAt, ScGo, ScInv, HandsOnFiles, ScWrites
<1>2. /\ scText'[i] \in {text, TornText} /\ (scText[i] = TornText => scText'[i] = text)
      /\ \A j \in Inodes \ {i} : scText'[j] = scText[j]
      /\ scText' \in [Inodes -> ScTexts]
  <2>1. text \in ScTexts /\ TornText \in ScTexts
    BY <1>1, TextsDiffer DEF ScTexts
  <2>2. \/ scText' = [scText EXCEPT ![i] = text]
        \/ scText[i] # TornText /\ scText' = [scText EXCEPT ![i] = TornText]
    BY DEF WriteText
  <2> QED BY <2>1, <2>2, <1>1 DEF ScInv, ScTypes
<1>3. scText'[i] # NoText /\ text \notin {NoText, TornText}
  <2>1. TornText # NoText
    BY DEF TornText, NoText
  <2> QED BY <2>1, <1>1, <1>2, TextsDiffer
<1> HIDE DEF text
<1>4. /\ \A u \in ScThreads \ {t} : scCall'[u] = scCall[u]
      /\ scCall'[t].at = "replace" /\ scCall'[t].inode = i
      /\ scCall'[t].op = "config" /\ scCall'[t].body = scCall[t].body
      /\ scCall' \in [ScThreads -> ScCalls]
  BY <1>1 DEF ScInv, ScTypes, ScCalls, ScSteps
<1>5. ScTypes'
  BY <1>1, <1>2, <1>4 DEF ScInv, ScTypes, Inodes
<1>6. FilesInUse' /\ HandsOnFiles'
  BY <1>1, <1>2, <1>3, <1>4 DEF ScInv, ScTypes, FilesInUse, HandsOnFiles, ScWrites, Inodes
<1>7. KeptWriteAlone'
  <2> SUFFICES ASSUME NEW u \in ScThreads, IsKept(u)', ScWrites(u)'
               PROVE  /\ scTmp # 0 /\ scCall'[u].inode = scTmp
                      /\ \A w \in ScThreads \ {u} : scCall'[w].at = "write" => scCall'[w].inode # scTmp
                      /\ scText'[scTmp] = IF scCall'[u].at = "write" THEN TornText ELSE Rendered(scCall'[u].body)
    BY <1>1 DEF KeptWriteAlone
  <2>1. IsKept(u) /\ ScWrites(u)
    BY <1>1, <1>4 DEF IsKept, ScWrites
  <2>2. /\ scTmp # 0 /\ scCall[u].inode = scTmp
        /\ \A w \in ScThreads \ {u} : scCall[w].at = "write" => scCall[w].inode # scTmp
        /\ scText[scTmp] = IF scCall[u].at = "write" THEN TornText ELSE Rendered(scCall[u].body)
    BY <2>1 DEF ScInv, KeptWriteAlone
  <2>3. CASE u = t
    BY <2>2, <2>3, <1>1, <1>2, <1>4 DEF text
  <2>4. CASE u # t
    BY <2>2, <2>4, <1>1, <1>2, <1>4 DEF ScInv, ScTypes
  <2> QED BY <2>3, <2>4
<1>8. KeptTextStays'
  BY <1>1, <1>2, <1>4 DEF ScInv, ScTypes, KeptTextStays, IsKept
<1>9. SerialWrites'
  <2> SUFFICES ASSUME scBound.configs = 1 PROVE SerialWrites'
    BY <1>1 DEF SerialWrites
  <2>1. \A u \in ScThreads \ {t} : ~ScWrites(u)
    BY <1>1 DEF ScInv, SerialWrites, HandsOnFiles, ScWrites
  <2>2. i = scTmp /\ scTmp # 0 /\ scText[i] = TornText /\ i # scFile
    BY <1>1 DEF ScInv, SerialWrites, ScWrites, FilesInUse
  <2> QED BY <2>1, <2>2, <1>1, <1>2, <1>4 DEF ScInv, ScTypes, SerialWrites, ScWrites, text
<1> QED BY <1>5, <1>6, <1>7, <1>8, <1>9 DEF ScInv

\* The temporary file becomes the file; the others lose their claim to it.
LEMMA ReplaceStep == ASSUME ScInv, NEW t \in ScThreads, ScReplace(t) PROVE ScInv'
<1>1. CASE scTmp = 0
  BY <1>1, QuietStep DEF ScReplace, ScInv, ScTypes
<1>2. CASE scTmp # 0
  <2>1. /\ scCall[t].at = "replace" /\ scCall[t].op = "config" /\ scFile' = scTmp /\ scTmp' = 0
        /\ scCall' = [scCall EXCEPT ![t].at = "docker"] /\ scKept' = scKept \ (ScConfigs \ {t})
        /\ UNCHANGED <<scText, scLock, scRuns, scCount, scBound>>
    BY <1>2 DEF ScReplace, ScAt, ScGo, ScInv, HandsOnFiles
  <2>2. /\ \A u \in ScThreads \ {t} : scCall'[u] = scCall[u]
        /\ scCall'[t].at = "docker" /\ scCall'[t].op = "config" /\ scCall'[t].body = scCall[t].body
        /\ scCall' \in [ScThreads -> ScCalls]
    BY <2>1 DEF ScInv, ScTypes, ScCalls, ScSteps
  <2>3. ScTypes'
    BY <1>2, <2>1, <2>2 DEF ScInv, ScTypes, Inodes
  <2>4. FilesInUse' /\ HandsOnFiles'
    BY <1>2, <2>1, <2>2 DEF ScInv, ScTypes, FilesInUse, HandsOnFiles, ScWrites, Inodes
  <2>5. \A u \in ScThreads \ {t} : ~IsKept(u)'
    BY <2>1, <2>2 DEF IsKept, ScConfigs
  <2>6. KeptWriteAlone' /\ KeptTextStays'
    BY <2>1, <2>2, <2>5 DEF ScInv, KeptWriteAlone, KeptTextStays, IsKept, ScWrites
  <2>7. SerialWrites'
    <3>1. scBound.configs = 1 => \A u \in ScThreads \ {t} : ~ScWrites(u)
      BY <2>1 DEF ScInv, SerialWrites, HandsOnFiles, ScWrites
    <3>2. Rendered(scCall[t].body) # TornText
      BY <2>1, TextsDiffer DEF ScInv, HandsOnFiles
    <3> QED BY <3>1, <3>2, <2>1, <2>2 DEF ScInv, ScTypes, SerialWrites, ScWrites
  <2> QED BY <2>3, <2>4, <2>6, <2>7 DEF ScInv
<1> QED BY <1>1, <1>2

\* Docker moves the container, or is cut off having done it or not: what starts
\* takes the file's text.
LEMMA MovingStep == ASSUME ScInv, NEW t \in ScThreads, Moving(t) PROVE ScInv'
<1>1. /\ scCall[t].at = "moving" /\ scRuns' \in {scRuns, Moved(scCall[t].op)}
      /\ (scCall'[t].at = "answer" => scRuns' = Moved(scCall[t].op))
      /\ \/ scCall' = [scCall EXCEPT ![t].at = "answer"]
         \/ scCall' = [scCall EXCEPT ![t] = ScIdle]
      /\ scKept' = (IF scCall[t].op = "stop" THEN {} ELSE scKept)
      /\ UNCHANGED <<scTmp, scFile, scText, scBound>>
  BY DEF Moving, ScAt, ScGo, ScDone, ScInv, ScTypes, ScIdle
<1>2. scCount' \in ScCounts
  BY DEF Moving, ScFault, ScInv, ScTypes, ScCounts
<1>3. /\ \A u \in ScThreads \ {t} : scCall'[u] = scCall[u]
      /\ \/ scCall'[t].at = "answer" /\ scCall'[t].op = scCall[t].op /\ scCall'[t].body = scCall[t].body
         \/ scCall'[t].at = "idle" /\ scCall'[t].op = "none"
      /\ scCall' \in [ScThreads -> ScCalls]
  BY <1>1 DEF ScInv, ScTypes, ScCalls, ScSteps, ScOps, ScIdle
<1>4. /\ Moved(scCall[t].op) \in {NoText, scRuns, scText[scFile]}
      /\ scCall[t].op \notin {"stop", "start"} => Moved(scCall[t].op) = scText[scFile]
      /\ scCall[t].op = "start" => Moved(scCall[t].op) = IF scRuns = NoText THEN scText[scFile] ELSE scRuns
      /\ scCall[t].op = "stop" <=> Moved(scCall[t].op) = NoText /\ scCall[t].op = "stop"
  BY DEF Moved
<1>5. NoText # TornText /\ NoText \in ScTexts
  BY DEF NoText, TornText, ScTexts
<1>6. ScTypes'
  BY <1>1, <1>2, <1>3, <1>4, <1>5 DEF ScInv, ScTypes, Inodes
<1>7. FilesInUse' /\ HandsOnFiles'
  BY <1>1, <1>3 DEF ScInv, FilesInUse, HandsOnFiles, ScWrites, Inodes
<1>8. KeptWriteAlone'
  BY <1>1, <1>3 DEF ScInv, KeptWriteAlone, IsKept, ScWrites
<1>9. KeptTextStays'
  <2> SUFFICES ASSUME NEW u \in ScThreads, IsKept(u)', scCall'[u].at \in {"docker", "moving", "answer"}
               PROVE  /\ scText[scFile] = Rendered(scCall'[u].body)
                      /\ scCall'[u].at = "answer" => scRuns' = Rendered(scCall'[u].body)
    BY <1>1 DEF KeptTextStays
  <2>1. /\ IsKept(u) /\ scCall[t].op # "stop" /\ scCall'[u].body = scCall[u].body
        /\ scCall[u].at \in {"docker", "moving", "answer"} /\ (u # t => scCall'[u] = scCall[u])
    BY <1>1, <1>3 DEF IsKept
  <2>2. /\ scText[scFile] = Rendered(scCall[u].body)
        /\ scCall[u].at = "answer" => scRuns = Rendered(scCall[u].body)
    BY <2>1 DEF ScInv, KeptTextStays
  <2>3. CASE u = t
    BY <2>1, <2>2, <2>3, <1>1, <1>4 DEF IsKept
  <2>4. CASE u # t
    <3>1. scRuns # NoText => Moved(scCall[t].op) \in {scRuns, scText[scFile]}
      BY <1>4, <2>1
    <3>2. scText[scFile] # NoText
      BY DEF ScInv, FilesInUse
    <3> QED BY <3>1, <3>2, <2>1, <2>2, <2>4, <1>1
  <2> QED BY <2>3, <2>4
<1>10. SerialWrites'
  BY <1>1, <1>3, <1>4, <1>5 DEF ScInv, SerialWrites, ScWrites
<1> QED BY <1>6, <1>7, <1>8, <1>9, <1>10 DEF ScInv

\* A death forgets all requests and the name of the temporary file.
LEMMA AgentDiesStep == ASSUME ScInv, AgentDies PROVE ScInv'
<1>1. /\ scCall' = [u \in ScThreads |-> ScIdle] /\ scTmp' = 0 /\ scKept' = {}
      /\ UNCHANGED <<scFile, scText, scRuns, scBound>> /\ scCount' \in ScCounts
  BY DEF AgentDies, ScInv, ScTypes, ScCounts
<1>2. ScTypes'
  BY <1>1 DEF ScInv, ScTypes, ScCalls, ScSteps, ScOps, ScIdle, Inodes
<1> QED BY <1>1, <1>2 DEF ScInv, FilesInUse, HandsOnFiles, KeptWriteAlone, KeptTextStays, SerialWrites, IsKept, ScWrites, ScIdle, Inodes

LEMMA ScInvStays == ASSUME ScInv, [ScNext]_scVars PROVE ScInv'
<1>1. ASSUME NEW t \in ScThreads, ScWork(t) PROVE ScInv'
  <2>1. ASSUME ScRender(t) \/ TakeDocker(t) \/ ScAnswer(t) PROVE ScInv'
    <3>1. scCount' \in ScCounts
      BY <2>1 DEF ScRender, TakeDocker, ScAnswer, ScFault, ScInv, ScTypes, ScCounts
    <3> QED BY <2>1, <3>1, QuietStep DEF ScRender, TakeDocker, ScAnswer, ScAt
  <2> QED BY <1>1, <2>1, OpenStep, WriteStep, ReplaceStep, MovingStep DEF ScWork
<1>2. CASE UNCHANGED scVars
  BY <1>2 DEF scVars, ScInv, ScTypes, FilesInUse, HandsOnFiles, KeptWriteAlone, KeptTextStays, SerialWrites, IsKept, ScWrites, Inodes
<1> QED BY <1>1, <1>2, AskStep, AgentDiesStep DEF ScNext

\* A config request about to be answered has the server run with what it asked for,
\* unless others had a hand in it, and with config requests one at a time the
\* server never starts with a torn file: for any number of threads, texts, failures
\* and deaths.
THEOREM ConfigAlwaysTakesEffect == ScSpec => []ConfigTakesEffect
<1>1. ScInv => ConfigTakesEffect
  BY DEF ScInv, ScTypes, KeptTextStays, SerialWrites, IsKept, ScAt, ConfigTakesEffect, AnsweredConfigRuns, SerialConfigIsWhole
<1>2. ScInit => ScInv
  BY ScInvHoldsAtFirst
<1>3. ScInv /\ [ScNext]_scVars => ScInv'
  BY ScInvStays
<1> QED BY <1>1, <1>2, <1>3, PTL DEF ScSpec

-----------------------------------------------------------------------------
(* One instance of the provisioner (Provisioner).                          *)

\* What a call's plan may hold, by its kind.
FreshSteps ==
  {"preflight", "dirs", "config", "personas", "net", "box", "health", "seed", "answer"} \cup Sides \cup PvVolumes
ExistingSteps == {"wake", "health", "answer"} \cup Sides
StopSteps == {"net", "dirs"} \cup PvContainers \cup PvVolumes
PvSteps == PvResources \cup PvPhases

PvModes == (UNION {s.modes : s \in PvScenes}) \cup {"self", "none"}
PvWorlds == (UNION {s.worlds : s \in PvScenes}) \cup {NoWorld}
Selections == [mode : PvModes, world : PvWorlds, send_yourself : BOOLEAN, persona : BOOLEAN]
PvBoxes == [mode : PvModes, world : PvWorlds, seed : Selections]
PvCallSet ==
  [op : {"none", "start", "stop"}, mode : PvModes, world : PvWorlds, plan : Seq(PvSteps),
   at : {"idle", "inspect", "start", "rollback", "stop", "done"}, made : SUBSET PvResources,
   res : {"none", "ok", "error"}, fresh : BOOLEAN, found : SUBSET PvResources,
   half : SUBSET PvContainers, alone : BOOLEAN, torn : BOOLEAN, stopped : BOOLEAN]
PvTypes ==
  /\ pvThere \subseteq PvResources /\ pvUp \subseteq PvContainers
  /\ pvBox \in PvBoxes /\ pvArgs \in [Sides -> Selections]
  /\ pvBy \in [PvContainers -> PvCallers \cup {"none"}]
  /\ pvCall \in [PvCallers -> PvCallSet] /\ pvScene \in PvScenes

\* Docker: what runs is there and has its network, what mounts a volume keeps it.
DockerHolds ==
  /\ pvUp \subseteq pvThere /\ (pvUp # {} => "net" \in pvThere)
  /\ \A r \in pvThere \cap PvContainers : PvMounts[r] \subseteq pvThere

\* In a plan, what is of the first kind comes before what is of the second.
Ahead(plan, first, second) ==
  \A i, j \in DOMAIN plan : plan[i] \in first /\ plan[j] \in second => i < j

\* The plan of a call, step by step.
PlanFits(call) ==
  /\ call.at = "idle" => ~call.alone
  /\ call.at \in {"inspect", "start", "rollback"} => call.op = "start"
  /\ call.at = "stop" => call.op = "stop"
  /\ call.at = "inspect" => call.made = {}
  /\ call.at \in {"inspect", "start"} => ~call.torn /\ call.half = {}
  /\ call.at = "start" =>
       /\ "answer" \in Range(call.plan) /\ Ahead(call.plan, PvSteps \ {"answer"}, {"answer"})
       /\ call.fresh => /\ Range(call.plan) \subseteq FreshSteps
                        /\ Ahead(call.plan, {"dirs"}, {"config", "personas"})
                        /\ Ahead(call.plan, PvVolumes, PvContainers)
                        /\ Ahead(call.plan, {"preflight"}, PvSteps \ {"preflight"})
       /\ ~call.fresh => /\ Range(call.plan) \subseteq ExistingSteps
                         /\ Ahead(call.plan, {"wake", "health"}, Sides)
  /\ call.at = "stop" =>
       /\ Range(call.plan) \subseteq StopSteps
       /\ Ahead(call.plan, PvContainers, PvVolumes \cup {"net"})
PlansFit == \A c \in PvCallers : PlanFits(pvCall[c])

\* Nobody is beside a call that is alone, and nobody beside a call that no stop
\* reached was reached by one.
LonersAreAlone == \A c, d \in PvCallers : c # d /\ pvCall[c].alone => ~PvBusy(d)
Unstopped(c) == PvBusy(c) /\ pvCall[c].op = "start" /\ ~pvCall[c].stopped
StopsSpread == \A c, d \in PvCallers : c # d /\ Unstopped(c) /\ PvBusy(d) => Unstopped(d)
\* What such a call made is there, and its own.
OwnersHold == \A c \in PvCallers : Unstopped(c) =>
  \A r \in pvCall[c].made \cap PvContainers : r \in pvThere /\ pvBy[r] = c

\* A start that is alone has done what its plan holds no more.
FreshDone(mode, world, r) ==
  /\ r \in PvContainers => r \in pvUp
  /\ r = "box" => pvBox.mode = mode /\ pvBox.world = world
  /\ r \in PvVolumes \cup {"net", "dirs", "config"} => r \in pvThere
  /\ r = "seed" => "box" \in pvUp /\ pvBox.seed = Selection(mode, world)
ExistingDone(call) ==
  /\ "box" \in pvThere /\ pvBox.mode = call.mode /\ pvBox.world \in {call.world, NoWorld}
  /\ "wake" \in Range(call.plan) \/ "box" \in pvUp
  /\ \A r \in Sides : r \in Range(call.plan) \/ r \in pvUp
  /\ call.made \subseteq Sides
  /\ "wake" \in Range(call.plan) \/ "health" \in Range(call.plan) => call.made = {}
  /\ \A r \in call.made : pvArgs[r] = Selection(pvBox.mode, pvBox.world)
StartIsDone(call) == call.alone /\ call.at = "start" =>
  IF call.fresh
  THEN /\ \A r \in FreshSteps : r \in Range(call.plan) \/ FreshDone(call.mode, call.world, r)
       /\ \A r \in Sides \cap call.made : pvArgs[r] = Selection(call.mode, call.world)
       /\ "preflight" \in Range(call.plan) => call.made = {}
  ELSE ExistingDone(call)
\* What is there it found or made, so what it found and made tell what may go.
FoundOrMade(call) == call.alone /\ call.op = "start" /\ call.at # "done" =>
  /\ \A r \in call.found \cap PvContainers : PvMounts[r] \subseteq call.found
  /\ ~call.torn /\ call.half = {} =>
       /\ pvThere \subseteq call.found \cup call.made
       /\ call.at = "rollback" /\ ~call.fresh => call.made \subseteq Sides
       /\ call.at \in {"start", "rollback"} /\ call.fresh /\ pvUp \ call.made # {} => "net" \in call.found
\* A stop that is alone has removed what its plan holds no more.
StopIsDone(call) == call.alone /\ call.at = "stop" /\ ~call.torn =>
  pvThere \subseteq Range(call.plan) \cup IF "dirs" \in Range(call.plan) THEN {"config", "personas"} ELSE {}

\* An answer to a call that was alone is true (AnswersAreTrue, call by call).
AnswerFits(call) == call.at = "done" /\ call.alone =>
  /\ call.op = "start" /\ call.res = "ok" =>
       /\ pvUp = PvContainers /\ "net" \in pvThere /\ pvBox.mode = call.mode
       /\ pvBox.world \in {call.world, NoWorld}
       /\ \A r \in Sides \cap call.made : pvArgs[r] = Selection(pvBox.mode, pvBox.world)
       /\ call.fresh => /\ pvBox.seed = Selection(call.mode, call.world)
                        /\ {"config"} \cup PvVolumes \subseteq pvThere
  /\ call.op = "start" /\ call.res = "error" /\ ~call.torn /\ call.half = {} =>
       pvThere \subseteq call.found \/ pvUp = PvContainers
  /\ call.op = "stop" /\ call.res = "ok" /\ ~call.torn => pvThere = {}
CallFits(call) ==
  PlanFits(call) /\ StartIsDone(call) /\ FoundOrMade(call) /\ StopIsDone(call) /\ AnswerFits(call)
CallsFit == \A c \in PvCallers : CallFits(pvCall[c])

PvInv == PvTypes /\ DockerHolds /\ CallsFit /\ LonersAreAlone /\ StopsSpread /\ OwnersHold

\* Plans are sequences: what they hold, behind their head and put together.
LEMMA RangeOfTail ==
  ASSUME NEW S, NEW s \in Seq(S), s # <<>>
  PROVE  Head(s) \in S /\ Tail(s) \in Seq(S) /\ Range(s) = {Head(s)} \cup Range(Tail(s))
<1>1. Len(s) \in Nat \ {0} /\ DOMAIN s = 1 .. Len(s) /\ Head(s) = s[1] /\ \A i \in 1 .. Len(s) : s[i] \in S
  OBVIOUS
<1>2. Tail(s) \in Seq(S) /\ Len(Tail(s)) = Len(s) - 1 /\ DOMAIN Tail(s) = 1 .. Len(s) - 1
      /\ \A i \in 1 .. Len(s) - 1 : Tail(s)[i] = s[i + 1]
  BY <1>1
<1>3. Range(s) = {s[i] : i \in 1 .. Len(s)} /\ Range(Tail(s)) = {Tail(s)[i] : i \in 1 .. Len(s) - 1}
  BY <1>1, <1>2 DEF Range
<1>4. ASSUME NEW x \in Range(s) PROVE x = s[1] \/ x \in Range(Tail(s))
  <2>1. PICK i \in 1 .. Len(s) : x = s[i]
    BY <1>3
  <2>2. CASE i # 1
    <3>1. i - 1 \in 1 .. Len(s) - 1 /\ x = Tail(s)[i - 1]
      BY <1>1, <1>2, <2>1, <2>2
    <3> QED BY <3>1, <1>3
  <2> QED BY <2>1, <2>2
<1>5. ASSUME NEW x \in Range(Tail(s)) PROVE x \in Range(s)
  <2>1. PICK i \in 1 .. Len(s) - 1 : x = Tail(s)[i]
    BY <1>3, <1>5
  <2>2. i + 1 \in 1 .. Len(s) /\ x = s[i + 1]
    BY <1>1, <1>2, <2>1
  <2> QED BY <2>2, <1>3
<1>6. 1 \in 1 .. Len(s)
  BY <1>1
<1> QED BY <1>1, <1>2, <1>3, <1>4, <1>5, <1>6

LEMMA RangeOfJoined ==
  ASSUME NEW S, NEW s \in Seq(S), NEW t \in Seq(S)
  PROVE  s \o t \in Seq(S) /\ Range(s \o t) = Range(s) \cup Range(t)
<1>1. /\ s \o t \in Seq(S) /\ Len(s \o t) = Len(s) + Len(t) /\ DOMAIN (s \o t) = 1 .. Len(s) + Len(t)
      /\ \A i \in 1 .. Len(s) + Len(t) : (s \o t)[i] = IF i <= Len(s) THEN s[i] ELSE t[i - Len(s)]
  BY ConcatProperties
<1>2. Len(s) \in Nat /\ Len(t) \in Nat /\ DOMAIN s = 1 .. Len(s) /\ DOMAIN t = 1 .. Len(t)
  OBVIOUS
<1>3. ASSUME NEW x \in Range(s \o t) PROVE x \in Range(s) \cup Range(t)
  <2>1. PICK i \in 1 .. Len(s) + Len(t) : x = (s \o t)[i]
    BY <1>1 DEF Range
  <2>2. CASE i <= Len(s)
    <3>1. i \in DOMAIN s /\ x = s[i]
      BY <1>1, <1>2, <2>1, <2>2
    <3> QED BY <3>1 DEF Range
  <2>3. CASE i > Len(s)
    <3>1. i - Len(s) \in DOMAIN t /\ x = t[i - Len(s)]
      BY <1>1, <1>2, <2>1, <2>3
    <3> QED BY <3>1 DEF Range
  <2> QED BY <2>1, <2>2, <2>3, <1>2
<1>4. ASSUME NEW x \in Range(s) PROVE x \in Range(s \o t)
  <2>1. PICK i \in 1 .. Len(s) : x = s[i]
    BY <1>2, <1>4 DEF Range
  <2>2. i \in 1 .. Len(s) + Len(t) /\ x = (s \o t)[i]
    BY <1>1, <1>2, <2>1
  <2> QED BY <2>2, <1>1 DEF Range
<1>5. ASSUME NEW x \in Range(t) PROVE x \in Range(s \o t)
  <2>1. PICK i \in 1 .. Len(t) : x = t[i]
    BY <1>2, <1>5 DEF Range
  <2>2. Len(s) + i \in 1 .. Len(s) + Len(t) /\ x = (s \o t)[Len(s) + i]
    BY <1>1, <1>2, <2>1
  <2> QED BY <2>2, <1>1 DEF Range
<1> QED BY <1>1, <1>3, <1>4, <1>5

\* The order of two kinds of steps: behind the head, and before a plan's end.
LEMMA AheadOfTail ==
  ASSUME NEW S, NEW s \in Seq(S), s # <<>>, NEW A, NEW B, Ahead(s, A, B)
  PROVE  Ahead(Tail(s), A, B) /\ (Head(s) \in B => Range(s) \cap A = {})
<1>1. Len(s) \in Nat \ {0} /\ DOMAIN s = 1 .. Len(s) /\ Head(s) = s[1]
      /\ DOMAIN Tail(s) = 1 .. Len(s) - 1 /\ \A i \in 1 .. Len(s) - 1 : Tail(s)[i] = s[i + 1]
  OBVIOUS
<1>2. ASSUME NEW i \in DOMAIN Tail(s), NEW j \in DOMAIN Tail(s), Tail(s)[i] \in A, Tail(s)[j] \in B PROVE i < j
  <2>1. i + 1 \in DOMAIN s /\ j + 1 \in DOMAIN s /\ s[i + 1] \in A /\ s[j + 1] \in B /\ i \in Int /\ j \in Int
    BY <1>1, <1>2
  <2>2. i + 1 < j + 1
    BY <2>1 DEF Ahead
  <2> QED BY <2>1, <2>2
<1>3. ASSUME NEW i \in DOMAIN s, s[i] \in A, Head(s) \in B PROVE FALSE
  <2>1. 1 \in DOMAIN s /\ s[1] \in B /\ i \in Int /\ i >= 1
    BY <1>1, <1>3
  <2>2. i < 1
    BY <2>1, <1>3 DEF Ahead
  <2> QED BY <2>1, <2>2
<1> QED BY <1>2, <1>3 DEF Ahead, Range

LEMMA AheadOfJoined ==
  ASSUME NEW S, NEW s \in Seq(S), NEW t \in Seq(S), NEW A, NEW B, Ahead(s, A, B), Range(t) \cap A = {}
  PROVE  Ahead(s \o t, A, B)
<1>1. /\ DOMAIN (s \o t) = 1 .. Len(s) + Len(t)
      /\ \A i \in 1 .. Len(s) + Len(t) : (s \o t)[i] = IF i <= Len(s) THEN s[i] ELSE t[i - Len(s)]
  BY ConcatProperties
<1>2. Len(s) \in Nat /\ Len(t) \in Nat /\ DOMAIN s = 1 .. Len(s) /\ DOMAIN t = 1 .. Len(t)
  OBVIOUS
<1>3. SUFFICES ASSUME NEW i \in 1 .. Len(s) + Len(t), NEW j \in 1 .. Len(s) + Len(t),
                      (s \o t)[i] \in A, (s \o t)[j] \in B
               PROVE  i < j
  BY <1>1 DEF Ahead
<1>4. i \in DOMAIN s /\ s[i] \in A
  <2>1. CASE i > Len(s)
    <3>1. i - Len(s) \in DOMAIN t /\ t[i - Len(s)] \in A
      BY <1>1, <1>2, <1>3, <2>1
    <3> QED BY <3>1 DEF Range
  <2> QED BY <2>1, <1>1, <1>2, <1>3
<1>5. CASE j > Len(s)
  BY <1>4, <1>5, <1>2
<1>6. CASE j <= Len(s)
  <2>1. j \in DOMAIN s /\ s[j] \in B
    BY <1>1, <1>2, <1>3, <1>6
  <2> QED BY <2>1, <1>4 DEF Ahead
<1> QED BY <1>5, <1>6, <1>2

LEMMA AheadOfNone ==
  ASSUME NEW s, NEW A, NEW B, Range(s) \cap A = {} \/ Range(s) \cap B = {} PROVE Ahead(s, A, B)
BY DEF Ahead, Range

LEMMA RangesOfTuples ==
  /\ \A a : Range(<<a>>) = {a}
  /\ \A a, b : Range(<<a, b>>) = {a, b}
  /\ \A a, b, c : Range(<<a, b, c>>) = {a, b, c}
<1>1. ASSUME NEW a PROVE Range(<<a>>) = {a}
  <2>1. DOMAIN <<a>> = {1} /\ <<a>>[1] = a
    OBVIOUS
  <2> QED BY <2>1 DEF Range
<1>2. ASSUME NEW a, NEW b PROVE Range(<<a, b>>) = {a, b}
  <2>1. DOMAIN <<a, b>> = {1, 2} /\ <<a, b>>[1] = a /\ <<a, b>>[2] = b
    OBVIOUS
  <2> QED BY <2>1 DEF Range
<1>3. ASSUME NEW a, NEW b, NEW c PROVE Range(<<a, b, c>>) = {a, b, c}
  <2>1. DOMAIN <<a, b, c>> = {1, 2, 3} /\ <<a, b, c>>[1] = a /\ <<a, b, c>>[2] = b /\ <<a, b, c>>[3] = c
    OBVIOUS
  <2> QED BY <2>1 DEF Range
<1> QED BY <1>1, <1>2, <1>3

LEMMA NamesRange == /\ Range(PvSidecars) = Sides /\ PvSidecars \in Seq(PvSteps) 
                    /\ Range(PvVolumeList) = PvVolumes /\ PvVolumeList \in Seq(PvSteps)
<1>1. Sides \subseteq PvSteps /\ PvVolumes \subseteq PvSteps
  BY DEF PvSteps, PvResources, PvContainers
<1>2. \A S, T : S \subseteq T => Seq(S) \subseteq Seq(T)
  OBVIOUS
<1> QED BY <1>1, <1>2, NamesAreLists DEF Sides, PvVolumes

\* The plans of a new start, a start of one that is there, a stop and a rollback.
LEMMA FreshPlanFits ==
  ASSUME NEW mode
  PROVE  /\ FreshPlan(mode) \in Seq(PvSteps) /\ "answer" \in Range(FreshPlan(mode))
         /\ Range(FreshPlan(mode)) \subseteq FreshSteps /\ FreshSteps \ {"personas"} \subseteq Range(FreshPlan(mode))
         /\ Ahead(FreshPlan(mode), PvSteps \ {"answer"}, {"answer"})
         /\ Ahead(FreshPlan(mode), {"dirs"}, {"config", "personas"})
         /\ Ahead(FreshPlan(mode), PvVolumes, PvContainers)
         /\ Ahead(FreshPlan(mode), {"preflight"}, PvSteps \ {"preflight"})
<1> DEFINE personas == IF mode = "persona" THEN <<"personas">> ELSE <<>>
           p1 == <<"preflight", "dirs", "config">>
           p2 == p1 \o personas
           p3 == p2 \o <<"net">>
           p4 == p3 \o PvVolumeList
           boot == <<"box", "health", "seed">>
           p5 == p4 \o boot
           p6 == p5 \o PvSidecars
           last == <<"answer">>
<1>1. FreshPlan(mode) = p6 \o last
  BY DEF FreshPlan
<1>2. /\ {"preflight", "dirs", "config", "personas", "net", "box", "health", "seed", "answer"} \subseteq PvSteps
  BY DEF PvSteps, PvResources, PvPhases, PvContainers
<1>3. p1 \in Seq(PvSteps) /\ Range(p1) = {"preflight", "dirs", "config"}
  BY <1>2, RangesOfTuples
<1>4. personas \in Seq(PvSteps) /\ Range(personas) \subseteq {"personas"}
  <2>1. CASE mode = "persona"
    BY <2>1, <1>2, RangesOfTuples
  <2>2. CASE mode # "persona"
    BY <2>2 DEF Range
  <2> QED BY <2>1, <2>2
<1> HIDE DEF p1, personas
<1>5. p2 \in Seq(PvSteps) /\ Range(p2) = {"preflight", "dirs", "config"} \cup Range(personas)
  BY <1>3, <1>4, RangeOfJoined
<1>6. <<"net">> \in Seq(PvSteps) /\ Range(<<"net">>) = {"net"}
  BY <1>2, RangesOfTuples
<1> HIDE DEF p2
<1>7. p3 \in Seq(PvSteps) /\ Range(p3) = {"preflight", "dirs", "config", "net"} \cup Range(personas)
  <2>1. p3 \in Seq(PvSteps) /\ Range(p3) = Range(p2) \cup {"net"}
    BY <1>5, <1>6, RangeOfJoined
  <2> HIDE DEF p3
  <2> QED BY <2>1, <1>5
<1> HIDE DEF p3
<1>8. p4 \in Seq(PvSteps) /\ Range(p4) = {"preflight", "dirs", "config", "net"} \cup Range(personas) \cup PvVolumes
  <2>1. p4 \in Seq(PvSteps) /\ Range(p4) = Range(p3) \cup PvVolumes
    BY <1>7, NamesRange, RangeOfJoined
  <2> HIDE DEF p4
  <2> QED BY <2>1, <1>7
<1>9. boot \in Seq(PvSteps) /\ Range(boot) = {"box", "health", "seed"}
  BY <1>2, RangesOfTuples
<1> HIDE DEF p4, boot
<1>10. p5 \in Seq(PvSteps)
       /\ Range(p5) = {"preflight", "dirs", "config", "net", "box", "health", "seed"} \cup Range(personas) \cup PvVolumes
  <2>1. p5 \in Seq(PvSteps) /\ Range(p5) = Range(p4) \cup {"box", "health", "seed"}
    BY <1>8, <1>9, RangeOfJoined
  <2> HIDE DEF p5
  <2> QED BY <2>1, <1>8
<1> HIDE DEF p5
<1>11. p6 \in Seq(PvSteps)
       /\ Range(p6) = {"preflight", "dirs", "config", "net", "box", "health", "seed"} \cup Range(personas) \cup PvVolumes \cup Sides
  <2>1. p6 \in Seq(PvSteps) /\ Range(p6) = Range(p5) \cup Sides
    BY <1>10, NamesRange, RangeOfJoined
  <2> HIDE DEF p6
  <2> QED BY <2>1, <1>10
<1>12. last \in Seq(PvSteps) /\ Range(last) = {"answer"}
  BY <1>2, RangesOfTuples
<1>13. "answer" \notin Range(p6)
  BY <1>4, <1>11, NamesDiffer DEF PvPhases
<1> HIDE DEF p6, last
<1>14. FreshPlan(mode) \in Seq(PvSteps) /\ Range(FreshPlan(mode)) = Range(p6) \cup {"answer"}
  BY <1>1, <1>11, <1>12, RangeOfJoined
<1>15. Ahead(FreshPlan(mode), PvSteps \ {"answer"}, {"answer"})
  <2>1. Ahead(p6, PvSteps \ {"answer"}, {"answer"})
    BY <1>13, AheadOfNone
  <2>2. Range(last) \cap (PvSteps \ {"answer"}) = {}
    BY <1>12
  <2> QED BY <1>1, <1>11, <1>12, <2>1, <2>2, AheadOfJoined
<1>16. Ahead(FreshPlan(mode), {"dirs"}, {"config", "personas"})
  <2>1. Ahead(p1, {"dirs"}, {"config", "personas"})
    BY DEF Ahead, p1
  <2>2. Ahead(p2, {"dirs"}, {"config", "personas"})
    BY <2>1, <1>3, <1>4, AheadOfJoined DEF p2
  <2>3. Ahead(p3, {"dirs"}, {"config", "personas"})
    BY <2>2, <1>5, <1>6, AheadOfJoined DEF p3
  <2>4. Ahead(p4, {"dirs"}, {"config", "personas"})
    BY <2>3, <1>7, NamesRange, NamesDiffer, AheadOfJoined DEF p4
  <2>5. Ahead(p5, {"dirs"}, {"config", "personas"})
    BY <2>4, <1>8, <1>9, AheadOfJoined DEF p5
  <2>6. Ahead(p6, {"dirs"}, {"config", "personas"})
    BY <2>5, <1>10, NamesRange, NamesDiffer, AheadOfJoined DEF p6
  <2> QED BY <2>6, <1>1, <1>11, <1>12, AheadOfJoined
<1>17. Ahead(FreshPlan(mode), PvVolumes, PvContainers)
  <2>1. Range(p4) \cap PvContainers = {}
    BY <1>4, <1>8, NamesDiffer DEF PvContainers, PvPhases
  <2>2. Ahead(p4, PvVolumes, PvContainers)
    BY <2>1, AheadOfNone
  <2>3. Ahead(p5, PvVolumes, PvContainers)
    <3>1. Range(boot) \cap PvVolumes = {}
      BY <1>9, NamesDiffer DEF PvPhases
    <3> QED BY <2>2, <3>1, <1>8, <1>9, AheadOfJoined DEF p5
  <2>4. Ahead(p6, PvVolumes, PvContainers)
    <3>1. Range(PvSidecars) \cap PvVolumes = {}
      BY NamesRange, NamesDiffer
    <3> QED BY <2>3, <3>1, <1>10, NamesRange, AheadOfJoined DEF p6
  <2>5. Range(last) \cap PvVolumes = {}
    BY <1>12, NamesDiffer DEF PvPhases
  <2> QED BY <2>4, <2>5, <1>1, <1>11, <1>12, AheadOfJoined
<1>18. Ahead(FreshPlan(mode), {"preflight"}, PvSteps \ {"preflight"})
  <2> DEFINE B == PvSteps \ {"preflight"}
  <2>1. Ahead(p1, {"preflight"}, B)
    BY DEF Ahead, p1
  <2> HIDE DEF B
  <2>2. Ahead(p2, {"preflight"}, B)
    BY <2>1, <1>3, <1>4, AheadOfJoined DEF p2
  <2>3. Ahead(p3, {"preflight"}, B)
    BY <2>2, <1>5, <1>6, AheadOfJoined DEF p3
  <2>4. Ahead(p4, {"preflight"}, B)
    BY <2>3, <1>7, NamesRange, NamesDiffer, AheadOfJoined DEF p4, PvPhases
  <2>5. Ahead(p5, {"preflight"}, B)
    BY <2>4, <1>8, <1>9, AheadOfJoined DEF p5
  <2>6. Ahead(p6, {"preflight"}, B)
    BY <2>5, <1>10, NamesRange, NamesDiffer, AheadOfJoined DEF p6, PvPhases
  <2>7. Ahead(p6 \o last, {"preflight"}, B)
    BY <2>6, <1>11, <1>12, AheadOfJoined
  <2> QED BY <2>7, <1>1 DEF B
<1> QED BY <1>4, <1>11, <1>14, <1>15, <1>16, <1>17, <1>18 DEF FreshSteps

LEMMA ExistingPlanFits ==
  ASSUME NEW plan \in {ExistingPlan, Tail(ExistingPlan)}
  PROVE  /\ plan \in Seq(PvSteps) /\ "answer" \in Range(plan)
         /\ Range(plan) \subseteq ExistingSteps /\ ExistingSteps \ {"wake"} \subseteq Range(plan)
         /\ plan = ExistingPlan => "wake" \in Range(plan)
         /\ Ahead(plan, PvSteps \ {"answer"}, {"answer"}) /\ Ahead(plan, {"wake", "health"}, Sides)
<1> DEFINE up == <<"wake", "health">>
           q == up \o PvSidecars
           last == <<"answer">>
<1>1. ExistingPlan = q \o last
  BY DEF ExistingPlan
<1>2. {"wake", "health", "answer"} \subseteq PvSteps
  BY DEF PvSteps, PvPhases
<1>3. up \in Seq(PvSteps) /\ Range(up) = {"wake", "health"}
  BY <1>2, RangesOfTuples
<1>4. last \in Seq(PvSteps) /\ Range(last) = {"answer"}
  BY <1>2, RangesOfTuples
<1>9. Head(ExistingPlan) = "wake" /\ ExistingPlan # <<>>
  <2>1. Len(q) = 2 + Len(PvSidecars) /\ q[1] = "wake" /\ q \in Seq(PvSteps)
    BY NamesRange, <1>2
  <2>2. Len(PvSidecars) \in Nat
    BY NamesAreLists
  <2> HIDE DEF q
  <2>3. Len(ExistingPlan) = Len(q) + 1 /\ ExistingPlan[1] = "wake"
    BY <2>1, <2>2, <1>1, <1>4
  <2> QED BY <2>1, <2>2, <2>3, <1>1, <1>4
<1> HIDE DEF up, last
<1>5. q \in Seq(PvSteps) /\ Range(q) = {"wake", "health"} \cup Sides
  BY <1>3, NamesRange, RangeOfJoined
<1>6. Ahead(up, {"wake", "health"}, Sides)
  BY <1>3, NamesDiffer, AheadOfNone DEF PvPhases
<1>7. Ahead(q, {"wake", "health"}, Sides)
  BY <1>3, <1>6, NamesRange, NamesDiffer, AheadOfJoined DEF PvPhases
<1>8. "answer" \notin Range(q)
  BY <1>5, NamesDiffer DEF PvPhases
<1> HIDE DEF q
<1>10. ExistingPlan \in Seq(PvSteps) /\ Range(ExistingPlan) = {"wake", "health", "answer"} \cup Sides
  BY <1>1, <1>4, <1>5, RangeOfJoined
<1>11. Ahead(ExistingPlan, PvSteps \ {"answer"}, {"answer"})
  <2>1. Ahead(q, PvSteps \ {"answer"}, {"answer"})
    BY <1>8, AheadOfNone
  <2>2. Range(last) \cap (PvSteps \ {"answer"}) = {}
    BY <1>4
  <2> QED BY <1>1, <1>4, <1>5, <2>1, <2>2, AheadOfJoined
<1>12. Ahead(ExistingPlan, {"wake", "health"}, Sides)
  BY <1>1, <1>4, <1>5, <1>7, AheadOfJoined
<1>13. Tail(ExistingPlan) \in Seq(PvSteps) /\ Range(ExistingPlan) = {"wake"} \cup Range(Tail(ExistingPlan))
  BY <1>9, <1>10, RangeOfTail
<1>14. /\ Ahead(Tail(ExistingPlan), PvSteps \ {"answer"}, {"answer"})
       /\ Ahead(Tail(ExistingPlan), {"wake", "health"}, Sides)
  BY <1>9, <1>10, <1>11, <1>12, AheadOfTail
<1>15. CASE plan = ExistingPlan
  BY <1>15, <1>10, <1>11, <1>12 DEF ExistingSteps
<1>16. CASE plan = Tail(ExistingPlan)
  <2>1. ExistingSteps \ {"wake"} \subseteq Range(plan) /\ Range(plan) \subseteq ExistingSteps /\ "answer" \in Range(plan)
    BY <1>16, <1>10, <1>13 DEF ExistingSteps
  <2>2. plan # ExistingPlan
    BY <1>16, <1>9, <1>10
  <2> QED BY <1>16, <1>13, <1>14, <2>1, <2>2
<1> QED BY <1>15, <1>16

LEMMA StopPlanFits ==
  /\ StopPlan \in Seq(PvSteps) /\ Range(StopPlan) = StopSteps
  /\ Ahead(StopPlan, PvContainers, PvVolumes \cup {"net"})
<1> DEFINE first == <<"box">>
           net == <<"net">>
           last == <<"dirs">>
           s1 == first \o PvSidecars
           s2 == s1 \o net
           s3 == s2 \o PvVolumeList
<1>1. StopPlan = s3 \o last
  BY DEF StopPlan
<1>2. {"box", "net", "dirs"} \subseteq PvSteps
  BY DEF PvSteps, PvResources, PvContainers
<1>3. /\ first \in Seq(PvSteps) /\ Range(first) = {"box"} /\ net \in Seq(PvSteps) /\ Range(net) = {"net"}
      /\ last \in Seq(PvSteps) /\ Range(last) = {"dirs"}
  BY <1>2, RangesOfTuples
<1> HIDE DEF first, net, last
<1>4. s1 \in Seq(PvSteps) /\ Range(s1) = PvContainers
  BY <1>3, NamesRange, RangeOfJoined DEF PvContainers
<1> HIDE DEF s1
<1>5. s2 \in Seq(PvSteps) /\ Range(s2) = PvContainers \cup {"net"}
  BY <1>3, <1>4, RangeOfJoined
<1> HIDE DEF s2
<1>6. s3 \in Seq(PvSteps) /\ Range(s3) = Range(s2) \cup PvVolumes
  BY <1>5, NamesRange, RangeOfJoined
<1>7. PvContainers \cap (PvVolumes \cup {"net", "dirs"}) = {}
  BY NamesDiffer DEF PvContainers
<1>8. Ahead(s1, PvContainers, PvVolumes \cup {"net"})
  BY <1>4, <1>7, AheadOfNone
<1>9. Ahead(s2, PvContainers, PvVolumes \cup {"net"})
  <2>1. Range(net) \cap PvContainers = {}
    BY <1>3, <1>7
  <2> QED BY <1>3, <1>4, <1>8, <2>1, AheadOfJoined DEF s2
<1>10. Ahead(s3, PvContainers, PvVolumes \cup {"net"})
  <2>1. Range(PvVolumeList) \cap PvContainers = {}
    BY <1>7, NamesRange
  <2> QED BY <1>5, <1>9, <2>1, NamesRange, AheadOfJoined DEF s3
<1> HIDE DEF s3
<1>11. StopPlan \in Seq(PvSteps) /\ Range(StopPlan) = Range(s3) \cup {"dirs"}
  BY <1>1, <1>3, <1>6, RangeOfJoined
<1>12. Ahead(StopPlan, PvContainers, PvVolumes \cup {"net"})
  <2>1. Range(last) \cap PvContainers = {}
    BY <1>3, <1>7
  <2> QED BY <1>1, <1>3, <1>6, <1>10, <2>1, AheadOfJoined
<1> QED BY <1>5, <1>6, <1>11, <1>12 DEF StopSteps

LEMMA RollbackPlanFits ==
  Range(RollbackPlan) = PvResources /\ Ahead(RollbackPlan, PvContainers, PvVolumes \cup {"net"})
  /\ RollbackPlan \in Seq(PvSteps)
<1> DEFINE first == <<"box">>
           r1 == first \o PvSidecars
           r2 == r1 \o PvVolumeList
           r0 == <<"config", "personas", "net", "dirs">>
<1>1. RollbackPlan = r2 \o r0
  BY DEF RollbackPlan
<1>2. {"box", "config", "personas", "net", "dirs"} \subseteq PvSteps
  BY DEF PvSteps, PvResources, PvContainers
<1>3. first \in Seq(PvSteps) /\ Range(first) = {"box"}
  BY <1>2, RangesOfTuples
<1>4. r0 \in Seq(PvSteps) /\ Range(r0) = {"config", "personas", "net", "dirs"}
  <2>1. DOMAIN r0 = {1, 2, 3, 4} /\ r0[1] = "config" /\ r0[2] = "personas" /\ r0[3] = "net" /\ r0[4] = "dirs"
    OBVIOUS
  <2>2. r0 \in Seq(PvSteps)
    BY <1>2
  <2> HIDE DEF r0
  <2> QED BY <2>1, <2>2 DEF Range
<1> HIDE DEF r0, first
<1>5. r1 \in Seq(PvSteps) /\ Range(r1) = PvContainers
  BY <1>3, NamesRange, RangeOfJoined DEF PvContainers
<1> HIDE DEF r1
<1>6. r2 \in Seq(PvSteps) /\ Range(r2) = PvContainers \cup PvVolumes
  BY <1>5, NamesRange, RangeOfJoined
<1>7. PvContainers \cap (PvVolumes \cup {"net", "dirs", "config", "personas"}) = {}
  BY NamesDiffer DEF PvContainers
<1>8. Ahead(r1, PvContainers, PvVolumes \cup {"net"})
  BY <1>5, <1>7, AheadOfNone
<1>9. Ahead(r2, PvContainers, PvVolumes \cup {"net"})
  <2>1. Range(PvVolumeList) \cap PvContainers = {}
    BY <1>7, NamesRange
  <2> QED BY <1>5, <1>8, <2>1, NamesRange, AheadOfJoined DEF r2
<1> HIDE DEF r2
<1>10. RollbackPlan \in Seq(PvSteps) /\ Range(RollbackPlan) = Range(r2) \cup Range(r0)
  BY <1>1, <1>4, <1>6, RangeOfJoined
<1>11. Ahead(RollbackPlan, PvContainers, PvVolumes \cup {"net"})
  <2>1. Range(r0) \cap PvContainers = {}
    BY <1>4, <1>7
  <2> QED BY <1>1, <1>4, <1>6, <1>9, <2>1, AheadOfJoined
<1> QED BY <1>4, <1>6, <1>10, <1>11 DEF PvResources

\* Volumes and the network have their turn when all containers have had theirs.
LEMMA TurnIsRight ==
  ASSUME NEW made \in SUBSET PvResources, NEW r, PvTurn(r, made)
  PROVE  r \in made /\ (r \in PvVolumes \cup {"net"} => made \cap PvContainers = {})
<1>1. PICK i \in DOMAIN RollbackPlan :
        r = RollbackPlan[i] /\ r \in made /\ \A j \in 1 .. i - 1 : RollbackPlan[j] \notin made
  BY DEF PvTurn
<1>2. DOMAIN RollbackPlan = 1 .. Len(RollbackPlan) /\ Len(RollbackPlan) \in Nat
  BY RollbackPlanFits
<1>3. ASSUME r \in PvVolumes \cup {"net"}, NEW x \in made \cap PvContainers PROVE FALSE
  <2>1. PICK k \in DOMAIN RollbackPlan : x = RollbackPlan[k]
    BY RollbackPlanFits DEF Range
  <2>2. k < i
    BY <1>1, <1>3, <2>1, RollbackPlanFits DEF Ahead
  <2>3. k \in 1 .. i - 1
    BY <1>2, <2>2
  <2> QED BY <1>1, <1>3, <2>1, <2>3
<1> QED BY <1>1, <1>3

LEMMA NamesInSets ==
  /\ "box" \in PvContainers /\ Sides \subseteq PvContainers /\ "box" \notin Sides
  /\ PvContainers \cap (PvVolumes \cup {"net", "dirs", "config", "personas"} \cup PvPhases) = {}
  /\ PvVolumes \cap ({"net", "dirs", "config", "personas"} \cup PvPhases) = {}
  /\ PvContainers \cup PvVolumes \cup {"net", "dirs", "config", "personas"} = PvResources
BY NamesDiffer DEF PvContainers, PvPhases, PvResources

LEMMA SelectionIn == ASSUME NEW mode \in PvModes, NEW world \in PvWorlds
                     PROVE  Selection(mode, world) \in Selections /\ NoBox \in PvBoxes /\ NoBox.seed \in Selections
<1>1. Selection(mode, world) \in Selections
  BY DEF Selection, Selections
<1>2. "none" \in PvModes /\ NoWorld \in PvWorlds
  BY DEF PvModes, PvWorlds
<1>3. Selection("none", NoWorld) \in Selections
  BY <1>2 DEF Selection, Selections
<1> QED BY <1>1, <1>2, <1>3 DEF NoBox, PvBoxes

LEMMA IdleFits == PvIdle \in PvCallSet /\ CallFits(PvIdle) /\ CallFits(PvIdle)' /\ ~PvIdle.alone /\ PvIdle.at = "idle"
<1>1. <<>> \in Seq(PvSteps) /\ "self" \in PvModes /\ NoWorld \in PvWorlds
  BY DEF PvModes, PvWorlds
<1> QED BY <1>1 DEF PvIdle, PvCallSet, CallFits, PlanFits, StartIsDone, FoundOrMade, StopIsDone, AnswerFits

\* A call that is not alone keeps the order of its plan, and no more.
LEMMA OthersFit == ASSUME NEW d, ~pvCall'[d].alone, PlanFits(pvCall'[d]) PROVE CallFits(pvCall[d])'
BY DEF CallFits, StartIsDone, FoundOrMade, StopIsDone, AnswerFits

\* One call takes a step: what has to be shown of it alone.
DockerIn ==
  /\ pvThere \subseteq PvResources /\ pvUp \subseteq PvContainers
  /\ pvBox \in PvBoxes /\ pvArgs \in [Sides -> Selections]
  /\ pvBy \in [PvContainers -> PvCallers \cup {"none"}]
LEMMA OneWorks ==
  ASSUME PvInv, NEW c \in PvCallers, PvBusy(c), pvCall' \in [PvCallers -> PvCallSet],
         \A d \in PvCallers \ {c} : pvCall'[d] = pvCall[d], pvScene' = pvScene,
         DockerIn', DockerHolds', PlanFits(pvCall'[c]), pvCall'[c].alone => pvCall[c].alone,
         PvBusy(c)' => pvCall'[c].op = pvCall[c].op /\ pvCall'[c].stopped = pvCall[c].stopped,
         pvCall[c].alone => CallFits(pvCall[c])',
         \A d \in PvCallers \ {c} : Unstopped(d) =>
           \A r \in pvCall[d].made \cap PvContainers : r \in pvThere' /\ pvBy'[r] = d,
         Unstopped(c)' => \A r \in pvCall'[c].made \cap PvContainers : r \in pvThere' /\ pvBy'[r] = c
  PROVE  PvInv'
<1>1. PvTypes'
  BY DEF PvInv, PvTypes, DockerIn
<1>2. \A d \in PvCallers \ {c} : ~pvCall[d].alone /\ (PvBusy(d)' <=> PvBusy(d)) /\ (Unstopped(d)' <=> Unstopped(d))
  BY DEF PvInv, LonersAreAlone, PvBusy, Unstopped
<1>3. CallsFit'
  <2> SUFFICES ASSUME NEW d \in PvCallers PROVE CallFits(pvCall[d])'
    BY DEF CallsFit
  <2>1. CASE d # c
    <3>1. PlanFits(pvCall'[d]) /\ ~pvCall'[d].alone
      BY <2>1, <1>2 DEF PvInv, CallsFit, CallFits
    <3> QED BY <3>1, OthersFit
  <2>2. CASE d = c /\ ~pvCall[c].alone
    BY <2>2, OthersFit
  <2>3. CASE d = c /\ pvCall[c].alone
    BY <2>3
  <2> QED BY <2>1, <2>2, <2>3
<1>4. LonersAreAlone'
  <2> SUFFICES ASSUME NEW d \in PvCallers, NEW e \in PvCallers, d # e, pvCall'[d].alone PROVE ~PvBusy(e)'
    BY DEF LonersAreAlone
  <2>1. d = c /\ e # c /\ pvCall[c].alone
    BY <1>2
  <2> QED BY <2>1, <1>2 DEF PvInv, LonersAreAlone
<1>5. StopsSpread'
  <2> SUFFICES ASSUME NEW d \in PvCallers, NEW e \in PvCallers, d # e, Unstopped(d)', PvBusy(e)' PROVE Unstopped(e)'
    BY DEF StopsSpread
  <2>1. Unstopped(c)' => Unstopped(c)
    BY DEF Unstopped
  <2>2. PvBusy(c)' /\ Unstopped(c) => Unstopped(c)'
    BY DEF Unstopped
  <2> QED BY <1>2, <2>1, <2>2 DEF PvInv, StopsSpread
<1>6. OwnersHold'
  BY <1>2 DEF OwnersHold
<1> QED BY <1>1, <1>3, <1>4, <1>5, <1>6 DEF PvInv

\* It goes on with its plan.
LEMMA GoesOn ==
  ASSUME PvInv, NEW c \in PvCallers, pvCall[c].at = "start", PvStep(c) # "answer",
         NEW made \in SUBSET PvResources, PvGoOn(c, made)
  PROVE  /\ pvCall' \in [PvCallers -> PvCallSet] /\ \A d \in PvCallers \ {c} : pvCall'[d] = pvCall[d]
         /\ pvCall'[c] = [pvCall[c] EXCEPT !.plan = Tail(pvCall[c].plan), !.made = pvCall[c].made \cup made]
         /\ PlanFits(pvCall'[c]) /\ Range(pvCall[c].plan) = {PvStep(c)} \cup Range(pvCall'[c].plan)
         /\ PvStep(c) \in IF pvCall[c].fresh THEN FreshSteps ELSE ExistingSteps
         /\ pvCall[c].fresh /\ PvStep(c) \in {"config", "personas"} => "dirs" \notin Range(pvCall[c].plan)
         /\ pvCall[c].fresh /\ PvStep(c) \in PvContainers => Range(pvCall[c].plan) \cap PvVolumes = {}
         /\ pvCall[c].fresh /\ PvStep(c) # "preflight" => "preflight" \notin Range(pvCall[c].plan)
         /\ ~pvCall[c].fresh /\ PvStep(c) \in Sides => Range(pvCall[c].plan) \cap {"wake", "health"} = {}
<1>1. PICK call \in PvCallSet : call = pvCall[c]
  BY DEF PvInv, PvTypes
<1>2. PlanFits(call)
  BY <1>1 DEF PvInv, CallsFit, CallFits
<1>3. call.plan \in Seq(PvSteps) /\ "answer" \in Range(call.plan) /\ call.fresh \in BOOLEAN /\ call.made \subseteq PvResources
  BY <1>1, <1>2 DEF PlanFits, PvCallSet
<1>4. call.plan # <<>>
  BY <1>3 DEF Range
<1>5. PICK rest \in Seq(PvSteps) : rest = Tail(call.plan)
  BY <1>3, <1>4, RangeOfTail
<1>6. Range(call.plan) = {PvStep(c)} \cup Range(rest) /\ PvStep(c) \in PvSteps /\ PvStep(c) = Head(call.plan)
  BY <1>1, <1>3, <1>4, <1>5, RangeOfTail DEF PvStep
<1>7. PICK new \in PvCallSet : new = [call EXCEPT !.plan = rest, !.made = call.made \cup made]
  BY <1>3 DEF PvCallSet
<1>8. pvCall' = [pvCall EXCEPT ![c] = new]
  BY <1>1, <1>5, <1>7 DEF PvGoOn
<1>9. pvCall' \in [PvCallers -> PvCallSet] /\ pvCall'[c] = new /\ \A d \in PvCallers \ {c} : pvCall'[d] = pvCall[d]
  BY <1>8 DEF PvInv, PvTypes
<1>10. /\ Ahead(rest, PvSteps \ {"answer"}, {"answer"})
       /\ call.fresh => /\ Ahead(rest, {"dirs"}, {"config", "personas"})
                        /\ PvStep(c) \in {"config", "personas"} => Range(call.plan) \cap {"dirs"} = {}
                        /\ Ahead(rest, PvVolumes, PvContainers)
                        /\ PvStep(c) \in PvContainers => Range(call.plan) \cap PvVolumes = {}
                        /\ Ahead(rest, {"preflight"}, PvSteps \ {"preflight"})
                        /\ PvStep(c) # "preflight" => Range(call.plan) \cap {"preflight"} = {}
       /\ ~call.fresh => /\ Ahead(rest, {"wake", "health"}, Sides)
                         /\ PvStep(c) \in Sides => Range(call.plan) \cap {"wake", "health"} = {}
  <2>1. \A A, B : Ahead(call.plan, A, B) =>
          Ahead(rest, A, B) /\ (PvStep(c) \in B => Range(call.plan) \cap A = {})
    BY <1>3, <1>4, <1>5, <1>6, AheadOfTail
  <2>2. /\ Ahead(call.plan, PvSteps \ {"answer"}, {"answer"})
        /\ call.fresh => /\ Ahead(call.plan, {"dirs"}, {"config", "personas"})
                         /\ Ahead(call.plan, PvVolumes, PvContainers)
                         /\ Ahead(call.plan, {"preflight"}, PvSteps \ {"preflight"})
        /\ ~call.fresh => Ahead(call.plan, {"wake", "health"}, Sides)
    BY <1>1, <1>2 DEF PlanFits
  <2>3. Ahead(rest, PvSteps \ {"answer"}, {"answer"})
    BY <2>1, <2>2
  <2>4. ASSUME call.fresh
        PROVE  /\ Ahead(rest, {"dirs"}, {"config", "personas"})
               /\ PvStep(c) \in {"config", "personas"} => Range(call.plan) \cap {"dirs"} = {}
    BY <2>1, <2>2, <2>4
  <2>5. ASSUME call.fresh
        PROVE  /\ Ahead(rest, PvVolumes, PvContainers)
               /\ PvStep(c) \in PvContainers => Range(call.plan) \cap PvVolumes = {}
    BY <2>1, <2>2, <2>5
  <2>6. ASSUME call.fresh
        PROVE  /\ Ahead(rest, {"preflight"}, PvSteps \ {"preflight"})
               /\ PvStep(c) # "preflight" => Range(call.plan) \cap {"preflight"} = {}
    BY <2>1, <2>2, <2>6, <1>6
  <2>7. ASSUME ~call.fresh
        PROVE  /\ Ahead(rest, {"wake", "health"}, Sides)
               /\ PvStep(c) \in Sides => Range(call.plan) \cap {"wake", "health"} = {}
    BY <2>1, <2>2, <2>7
  <2> QED BY <2>3, <2>4, <2>5, <2>6, <2>7
<1>11. /\ "answer" \in Range(rest)
       /\ call.fresh => Range(call.plan) \subseteq FreshSteps
       /\ ~call.fresh => Range(call.plan) \subseteq ExistingSteps
  BY <1>1, <1>2, <1>3, <1>6 DEF PlanFits
<1>12. new.plan = rest /\ new.at = "start" /\ new.op = call.op /\ new.fresh = call.fresh /\ new.alone = call.alone
       /\ new.torn = call.torn /\ new.half = call.half
  BY <1>1, <1>7 DEF PvCallSet
<1>13. PlanFits(new)
  <2>1. Range(rest) \subseteq Range(call.plan)
    BY <1>6
  <2>2. call.op = "start" /\ ~call.torn /\ call.half = {}
    BY <1>1, <1>2 DEF PlanFits
  <2> QED BY <2>1, <2>2, <1>10, <1>11, <1>12 DEF PlanFits
<1>14. new = [pvCall[c] EXCEPT !.plan = Tail(pvCall[c].plan), !.made = pvCall[c].made \cup made]
  BY <1>1, <1>5, <1>7
<1>15. PvStep(c) \in IF call.fresh THEN FreshSteps ELSE ExistingSteps
  BY <1>6, <1>11
<1>16. /\ pvCall[c].fresh /\ PvStep(c) \in {"config", "personas"} => "dirs" \notin Range(pvCall[c].plan)
       /\ pvCall[c].fresh /\ PvStep(c) \in PvContainers => Range(pvCall[c].plan) \cap PvVolumes = {}
       /\ pvCall[c].fresh /\ PvStep(c) # "preflight" => "preflight" \notin Range(pvCall[c].plan)
       /\ ~pvCall[c].fresh /\ PvStep(c) \in Sides => Range(pvCall[c].plan) \cap {"wake", "health"} = {}
  BY <1>1, <1>10
<1>17. Range(pvCall[c].plan) = {PvStep(c)} \cup Range(pvCall'[c].plan)
  BY <1>1, <1>6, <1>9, <1>12
<1> QED BY <1>1, <1>9, <1>13, <1>14, <1>15, <1>16, <1>17

\* A start that goes on.
LEMMA StartGoesOn ==
  ASSUME PvInv, NEW c \in PvCallers, pvCall[c].at = "start", PvStep(c) # "answer",
         NEW made \in SUBSET PvResources, PvGoOn(c, made), pvScene' = pvScene, DockerIn', DockerHolds',
         pvCall[c].alone => StartIsDone(pvCall[c])' /\ FoundOrMade(pvCall[c])',
         \A r \in pvThere \cap PvContainers : r \in pvThere' /\ pvBy'[r] = pvBy[r],
         \A r \in made \cap PvContainers : r \in pvThere' /\ pvBy'[r] = c
  PROVE  PvInv'
<1>1. /\ pvCall' \in [PvCallers -> PvCallSet] /\ \A d \in PvCallers \ {c} : pvCall'[d] = pvCall[d]
      /\ pvCall'[c] = [pvCall[c] EXCEPT !.plan = Tail(pvCall[c].plan), !.made = pvCall[c].made \cup made]
      /\ PlanFits(pvCall'[c])
  BY GoesOn
<1>2. /\ pvCall'[c].at = "start" /\ pvCall'[c].op = pvCall[c].op /\ pvCall'[c].stopped = pvCall[c].stopped
      /\ pvCall'[c].alone = pvCall[c].alone /\ pvCall'[c].made = pvCall[c].made \cup made
  BY <1>1 DEF PvInv, PvTypes, PvCallSet
<1>3. pvCall[c].alone => CallFits(pvCall[c])'
  BY <1>1, <1>2 DEF CallFits, StopIsDone, AnswerFits
<1>4. PvBusy(c) /\ PvBusy(c)'
  BY <1>2 DEF PvBusy
<1>5. \A d \in PvCallers : Unstopped(d) =>
        \A r \in pvCall[d].made \cap PvContainers : r \in pvThere' /\ pvBy'[r] = d
  BY DEF PvInv, OwnersHold
<1>6. Unstopped(c)' => \A r \in pvCall'[c].made \cap PvContainers : r \in pvThere' /\ pvBy'[r] = c
  BY <1>2, <1>4, <1>5 DEF Unstopped
<1> QED BY <1>1, <1>2, <1>3, <1>4, <1>5, <1>6, OneWorks

\* A start turns back, with or without a container its docker run left.
LEMMA StartRollsBack ==
  ASSUME PvInv, NEW c \in PvCallers, pvCall[c].at = "start", NEW half \in SUBSET PvContainers, PvRollBack(c, half),
         pvScene' = pvScene, DockerIn', DockerHolds', half = {} => pvThere' = pvThere /\ pvUp' = pvUp,
         \A r \in pvThere \cap PvContainers : r \in pvThere' /\ pvBy'[r] = pvBy[r]
  PROVE  PvInv'
<1>1. PICK call \in PvCallSet : call = pvCall[c]
  BY DEF PvInv, PvTypes
<1>2. PICK new \in PvCallSet : new = [call EXCEPT !.at = "rollback", !.half = half]
  BY DEF PvCallSet
<1>3. pvCall' \in [PvCallers -> PvCallSet] /\ pvCall'[c] = new /\ \A d \in PvCallers \ {c} : pvCall'[d] = pvCall[d]
  BY <1>1, <1>2 DEF PvRollBack, PvInv, PvTypes
<1>4. /\ new.at = "rollback" /\ new.half = half /\ new.op = call.op /\ new.stopped = call.stopped /\ new.alone = call.alone
      /\ new.made = call.made /\ new.found = call.found /\ new.fresh = call.fresh /\ new.torn = call.torn
  BY <1>2 DEF PvCallSet
<1>5. CallFits(call)
  BY <1>1 DEF PvInv, CallsFit
<1>6. call.op = "start" /\ ~call.torn /\ call.half = {}
  BY <1>1, <1>5 DEF CallFits, PlanFits
<1>7. PlanFits(new)
  BY <1>4, <1>6 DEF PlanFits
<1>8. call.alone => FoundOrMade(new)'
  <2> SUFFICES ASSUME call.alone PROVE FoundOrMade(new)'
    OBVIOUS
  <2>1. ~call.fresh => call.made \subseteq Sides
    BY <1>1, <1>5 DEF CallFits, StartIsDone, ExistingDone
  <2>2. /\ \A r \in call.found \cap PvContainers : PvMounts[r] \subseteq call.found
        /\ pvThere \subseteq call.found \cup call.made
        /\ call.fresh /\ pvUp \ call.made # {} => "net" \in call.found
    BY <1>1, <1>5, <1>6 DEF CallFits, FoundOrMade
  <2> QED BY <1>4, <2>1, <2>2 DEF FoundOrMade
<1>9. call.alone => CallFits(new)'
  BY <1>4, <1>7, <1>8 DEF CallFits, StartIsDone, StopIsDone, AnswerFits
<1>10. PvBusy(c) /\ PvBusy(c)'
  BY <1>1, <1>3, <1>4 DEF PvBusy
<1>11. \A d \in PvCallers : Unstopped(d) =>
        \A r \in pvCall[d].made \cap PvContainers : r \in pvThere' /\ pvBy'[r] = d
  BY DEF PvInv, OwnersHold
<1>12. Unstopped(c)' => \A r \in pvCall'[c].made \cap PvContainers : r \in pvThere' /\ pvBy'[r] = c
  BY <1>1, <1>3, <1>4, <1>10, <1>11 DEF Unstopped
<1>13. pvCall[c].alone => CallFits(pvCall[c])'
  BY <1>1, <1>3, <1>9
<1> QED BY <1>1, <1>3, <1>4, <1>7, <1>10, <1>11, <1>12, <1>13, OneWorks

\* A call ends, with its answer when it was alone.
LEMMA CallEnds ==
  ASSUME PvInv, NEW c \in PvCallers, PvBusy(c), NEW res \in {"ok", "error"}, PvEnd(c, res),
         UNCHANGED <<pvThere, pvUp, pvBox, pvArgs, pvBy, pvScene>>,
         pvCall[c].alone => AnswerFits([pvCall[c] EXCEPT !.plan = <<>>, !.at = "done", !.res = res])
  PROVE  PvInv'
<1>1. PICK call \in PvCallSet : call = pvCall[c]
  BY DEF PvInv, PvTypes
<1>2. PICK told \in PvCallSet : told = [call EXCEPT !.plan = <<>>, !.at = "done", !.res = res]
  BY EmptySeq DEF PvCallSet
<1>3. PICK new \in PvCallSet : new = IF call.alone THEN told ELSE PvIdle
  BY IdleFits
<1>4. pvCall' \in [PvCallers -> PvCallSet] /\ pvCall'[c] = new /\ \A d \in PvCallers \ {c} : pvCall'[d] = pvCall[d]
  BY <1>1, <1>2, <1>3 DEF PvEnd, PvInv, PvTypes
<1>5. told.at = "done" /\ told.alone = call.alone
  BY <1>2 DEF PvCallSet
<1>6. CallFits(new)'
  <2>1. CASE call.alone
    <3>1. AnswerFits(told)
      BY <1>1, <1>2, <2>1
    <3>2. AnswerFits(told)'
      BY <3>1 DEF AnswerFits
    <3> QED BY <1>3, <1>5, <2>1, <3>2 DEF CallFits, PlanFits, StartIsDone, FoundOrMade, StopIsDone
  <2>2. CASE ~call.alone
    BY <1>3, <2>2, IdleFits
  <2> QED BY <2>1, <2>2
<1>7. PlanFits(new) /\ ~PvBusy(c)' /\ (new.alone => call.alone)
  BY <1>3, <1>4, <1>5, IdleFits DEF CallFits, PlanFits, PvBusy
<1>8. CallFits(pvCall[c])'
  BY <1>4, <1>6
<1>9. ~Unstopped(c)'
  BY <1>7 DEF Unstopped
<1>10. \A d \in PvCallers : Unstopped(d) =>
         \A r \in pvCall[d].made \cap PvContainers : r \in pvThere' /\ pvBy'[r] = d
  BY DEF PvInv, OwnersHold
<1>11. DockerIn' /\ DockerHolds'
  BY DEF DockerIn, DockerHolds, PvInv, PvTypes
<1> QED BY <1>1, <1>4, <1>7, <1>8, <1>9, <1>10, <1>11, OneWorks

\* What a new start has done stays done, and so does what it found.
LEMMA FreshGoesOn ==
  ASSUME PvInv, NEW c \in PvCallers, pvCall[c].at = "start", pvCall[c].alone, pvCall[c].fresh, PvStep(c) # "answer",
         NEW made \in SUBSET PvResources, PvGoOn(c, made),
         NEW mode, mode = pvCall[c].mode, NEW world, world = pvCall[c].world, NEW step, step = PvStep(c),
         made # {} => step # "preflight", pvThere \subseteq pvThere', pvThere' \subseteq pvThere \cup made,
         pvUp \subseteq pvUp', pvUp' \subseteq pvUp \cup made,
         "box" \in pvUp => pvBox'.mode = pvBox.mode /\ pvBox'.world = pvBox.world,
         "box" \in pvUp /\ PvStep(c) # "seed" => pvBox'.seed = pvBox.seed,
         FreshDone(mode, world, step)', \A r \in Sides \ made : pvArgs'[r] = pvArgs[r],
         \A r \in Sides \cap made : pvArgs'[r] = Selection(mode, world)
  PROVE  StartIsDone(pvCall[c])' /\ FoundOrMade(pvCall[c])'
<1>1. PICK call \in PvCallSet : call = pvCall[c]
  BY DEF PvInv, PvTypes
<1>2. PICK new \in PvCallSet : new = pvCall'[c]
  BY GoesOn
<1>3. new = [call EXCEPT !.plan = Tail(call.plan), !.made = call.made \cup made]
  BY <1>1, <1>2, GoesOn
<1>4. /\ new.at = "start" /\ new.alone /\ new.fresh /\ new.mode = mode /\ new.world = world /\ new.made = call.made \cup made
      /\ new.found = call.found /\ new.op = call.op /\ new.torn = call.torn /\ new.half = call.half
  BY <1>1, <1>3 DEF PvCallSet
<1>5. /\ Range(call.plan) = {PvStep(c)} \cup Range(new.plan)
      /\ PvStep(c) # "preflight" => "preflight" \notin Range(call.plan)
  BY <1>1, <1>2, GoesOn
<1>6. /\ \A r \in FreshSteps : r \in Range(call.plan) \/ FreshDone(mode, world, r)
      /\ \A r \in Sides \cap call.made : pvArgs[r] = Selection(mode, world)
      /\ "preflight" \in Range(call.plan) => call.made = {}
      /\ FoundOrMade(call) /\ PlanFits(call)
  BY <1>1 DEF PvInv, CallsFit, CallFits, StartIsDone
<1>7. ASSUME NEW r \in FreshSteps, r \notin Range(new.plan) PROVE FreshDone(mode, world, r)'
  <2>1. CASE r = PvStep(c)
    BY <2>1
  <2>2. CASE r # PvStep(c)
    <3>1. FreshDone(mode, world, r)
      BY <2>2, <1>5, <1>6, <1>7
    <3>2. r = "seed" => PvStep(c) # "seed"
      BY <2>2
    <3>3. r \in PvContainers => r \in pvUp'
      BY <3>1 DEF FreshDone
    <3>4. r = "box" => pvBox'.mode = mode /\ pvBox'.world = world
      BY <3>1, NamesInSets DEF FreshDone
    <3>5. r \in PvVolumes \cup {"net", "dirs", "config"} => r \in pvThere'
      BY <3>1 DEF FreshDone
    <3>6. r = "seed" => "box" \in pvUp' /\ pvBox'.seed = Selection(mode, world)
      BY <3>1, <3>2 DEF FreshDone
    <3> QED BY <3>3, <3>4, <3>5, <3>6 DEF FreshDone
  <2> QED BY <2>1, <2>2
<1>8. \A r \in Sides \cap new.made : pvArgs'[r] = Selection(mode, world)
  BY <1>4, <1>6
<1>9. StartIsDone(new)'
  <2>1. "preflight" \in Range(new.plan) => new.made = {}
    BY <1>4, <1>5, <1>6
  <2> QED BY <1>4, <1>7, <1>8, <2>1 DEF StartIsDone
<1>10. FoundOrMade(new)'
  <2>1. call.op = "start" /\ ~call.torn /\ call.half = {} /\ call.at = "start"
    BY <1>1, <1>6 DEF PlanFits
  <2>2. /\ \A r \in call.found \cap PvContainers : PvMounts[r] \subseteq call.found
        /\ pvThere \subseteq call.found \cup call.made /\ (pvUp \ call.made # {} => "net" \in call.found)
    BY <1>1, <1>6, <2>1 DEF FoundOrMade
  <2>3. pvThere' \subseteq new.found \cup new.made /\ (pvUp' \ new.made # {} => "net" \in new.found)
    BY <1>4, <2>2
  <2> QED BY <1>4, <2>1, <2>2, <2>3 DEF FoundOrMade
<1> QED BY <1>2, <1>9, <1>10

\* The same of a start of one that is there.
LEMMA ExistingGoesOn ==
  ASSUME PvInv, NEW c \in PvCallers, pvCall[c].at = "start", pvCall[c].alone, ~pvCall[c].fresh, PvStep(c) # "answer",
         NEW made \in SUBSET Sides, PvGoOn(c, made), made # {} => PvStep(c) \in Sides,
         pvThere \subseteq pvThere', pvThere' \subseteq pvThere \cup made, pvUp \subseteq pvUp',
         pvBox'.mode = pvBox.mode, pvBox'.world = pvBox.world,
         PvStep(c) \in Sides => PvStep(c) \in pvUp', PvStep(c) = "wake" => "box" \in pvUp',
         \A r \in Sides \ made : pvArgs'[r] = pvArgs[r],
         \A r \in made : pvArgs'[r] = Selection(pvBox.mode, pvBox.world)
  PROVE  StartIsDone(pvCall[c])' /\ FoundOrMade(pvCall[c])'
<1>0. made \in SUBSET PvResources
  BY NamesInSets
<1>1. PICK call \in PvCallSet : call = pvCall[c]
  BY DEF PvInv, PvTypes
<1>2. PICK new \in PvCallSet : new = pvCall'[c]
  BY <1>0, GoesOn
<1>3. new = [call EXCEPT !.plan = Tail(call.plan), !.made = call.made \cup made]
  BY <1>0, <1>1, <1>2, GoesOn
<1>4. /\ new.at = "start" /\ new.alone /\ ~new.fresh /\ new.mode = call.mode /\ new.world = call.world
      /\ new.made = call.made \cup made
      /\ new.found = call.found /\ new.op = call.op /\ new.torn = call.torn /\ new.half = call.half
  BY <1>1, <1>3 DEF PvCallSet
<1>5. /\ Range(call.plan) = {PvStep(c)} \cup Range(new.plan)
      /\ PvStep(c) \in Sides => Range(call.plan) \cap {"wake", "health"} = {}
  BY <1>0, <1>1, <1>2, GoesOn
<1>6. ExistingDone(call) /\ FoundOrMade(call) /\ PlanFits(call)
  BY <1>1 DEF PvInv, CallsFit, CallFits, StartIsDone
<1>7. ExistingDone(new)'
  <2>1. "box" \in pvThere' /\ pvBox'.mode = new.mode /\ pvBox'.world \in {new.world, NoWorld}
    BY <1>4, <1>6 DEF ExistingDone
  <2>2. "wake" \in Range(new.plan) \/ "box" \in pvUp'
    BY <1>5, <1>6 DEF ExistingDone
  <2>3. \A r \in Sides : r \in Range(new.plan) \/ r \in pvUp'
    BY <1>5, <1>6 DEF ExistingDone
  <2>4. new.made \subseteq Sides
    BY <1>4, <1>6 DEF ExistingDone
  <2>5. "wake" \in Range(new.plan) \/ "health" \in Range(new.plan) => new.made = {}
    BY <1>4, <1>5, <1>6 DEF ExistingDone
  <2>6. \A r \in new.made : pvArgs'[r] = Selection(pvBox'.mode, pvBox'.world)
    BY <1>4, <1>6, <2>4 DEF ExistingDone
  <2> QED BY <2>1, <2>2, <2>3, <2>4, <2>5, <2>6 DEF ExistingDone
<1>8. StartIsDone(new)'
  BY <1>4, <1>7 DEF StartIsDone
<1>9. FoundOrMade(new)'
  <2>1. call.op = "start" /\ ~call.torn /\ call.half = {} /\ call.at = "start"
    BY <1>1, <1>6 DEF PlanFits
  <2>2. /\ \A r \in call.found \cap PvContainers : PvMounts[r] \subseteq call.found
        /\ pvThere \subseteq call.found \cup call.made
    BY <1>1, <1>6, <2>1 DEF FoundOrMade
  <2> QED BY <1>4, <2>1, <2>2 DEF FoundOrMade
<1> QED BY <1>2, <1>8, <1>9

LEMMA StepOfPlan ==
  ASSUME PvInv, NEW c \in PvCallers, pvCall[c].at = "start"
  PROVE  PvStep(c) \in Range(pvCall[c].plan) /\ (PvStep(c) = "answer" => Range(pvCall[c].plan) = {"answer"})
<1>1. PICK plan \in Seq(PvSteps) : plan = pvCall[c].plan
  BY DEF PvInv, PvTypes, PvCallSet
<1>2. "answer" \in Range(plan) /\ Ahead(plan, PvSteps \ {"answer"}, {"answer"})
  BY <1>1 DEF PvInv, CallsFit, CallFits, PlanFits
<1>3. plan # <<>>
  BY <1>2 DEF Range
<1>4. PvStep(c) = Head(plan) /\ Head(plan) \in Range(plan)
  BY <1>1, <1>3, RangeOfTail DEF PvStep
<1>5. Head(plan) = "answer" => Range(plan) \cap (PvSteps \ {"answer"}) = {}
  BY <1>2, <1>3, AheadOfTail
<1>6. Range(plan) \subseteq PvSteps
  BY DEF Range
<1> QED BY <1>1, <1>2, <1>4, <1>5, <1>6

LEMMA DockerStays ==
  ASSUME PvInv, UNCHANGED <<pvThere, pvUp, pvBox, pvArgs, pvBy>>
  PROVE  DockerIn' /\ DockerHolds' /\ \A r \in pvThere \cap PvContainers : r \in pvThere' /\ pvBy'[r] = pvBy[r]
BY DEF DockerIn, DockerHolds, PvInv, PvTypes

\* A step that changes nothing of docker's.
LEMMA StartStays ==
  ASSUME PvInv, NEW c \in PvCallers, pvCall[c].at = "start", PvStep(c) # "answer", PvGoOn(c, {}),
         UNCHANGED <<pvThere, pvUp, pvBox, pvArgs, pvBy, pvScene>>,
         NEW mode, mode = pvCall[c].mode, NEW world, world = pvCall[c].world, NEW step, step = PvStep(c),
         pvCall[c].fresh => FreshDone(mode, world, step),
         ~pvCall[c].fresh => (step \in Sides => step \in pvUp) /\ (step = "wake" => "box" \in pvUp)
  PROVE  PvInv'
<1>1. pvCall[c].fresh => FreshDone(mode, world, step)'
  BY DEF FreshDone
<1>2. {} \in SUBSET PvResources /\ {} \in SUBSET Sides
  OBVIOUS
<1>3. pvCall[c].fresh /\ pvCall[c].alone => StartIsDone(pvCall[c])' /\ FoundOrMade(pvCall[c])'
  BY <1>1, <1>2, FreshGoesOn
<1>4. ~pvCall[c].fresh /\ pvCall[c].alone => StartIsDone(pvCall[c])' /\ FoundOrMade(pvCall[c])'
  BY <1>2, ExistingGoesOn
<1> QED BY <1>2, <1>3, <1>4, DockerStays, StartGoesOn

LEMMA StartTurnsBack ==
  ASSUME PvInv, NEW c \in PvCallers, pvCall[c].at = "start", PvRollBack(c, {}),
         UNCHANGED <<pvThere, pvUp, pvBox, pvArgs, pvBy, pvScene>>
  PROVE  PvInv'
BY DockerStays, StartRollsBack

\* docker inspect decides what a start does.
LEMMA InspectStep == ASSUME PvInv, NEW c \in PvCallers, Inspect(c) PROVE PvInv'
<1>1. PICK call \in PvCallSet : call = pvCall[c]
  BY DEF PvInv, PvTypes
<1>2. /\ call.at = "inspect" /\ call.op = "start" /\ call.made = {} /\ ~call.torn /\ call.half = {}
      /\ FoundOrMade(call) /\ UNCHANGED <<pvThere, pvUp, pvBox, pvArgs, pvBy, pvScene>> /\ PvBusy(c)
  BY <1>1 DEF Inspect, PvInv, CallsFit, CallFits, PlanFits, PvFrame, PvBusy
<1>3. PICK fresh \in BOOLEAN : fresh = ("box" \notin pvThere)
  OBVIOUS
<1>4. PICK rest : rest = IF fresh THEN FreshPlan(call.mode)
                         ELSE IF "box" \in pvUp THEN Tail(ExistingPlan) ELSE ExistingPlan
  OBVIOUS
<1>5. CASE /\ fresh \/ ~(pvBox.mode # call.mode \/ (pvBox.world # NoWorld /\ pvBox.world # call.world))
           /\ pvCall' = [pvCall EXCEPT ![c].at = "start", ![c].plan = rest, ![c].fresh = fresh]
  <2>1. rest \in Seq(PvSteps) /\ "answer" \in Range(rest) /\ Ahead(rest, PvSteps \ {"answer"}, {"answer"})
    BY <1>4, FreshPlanFits, ExistingPlanFits
  <2>2. fresh => /\ Range(rest) \subseteq FreshSteps /\ FreshSteps \ {"personas"} \subseteq Range(rest)
                 /\ Ahead(rest, {"dirs"}, {"config", "personas"}) /\ Ahead(rest, PvVolumes, PvContainers)
                 /\ Ahead(rest, {"preflight"}, PvSteps \ {"preflight"})
    BY <1>4, FreshPlanFits
  <2>3. ~fresh => /\ Range(rest) \subseteq ExistingSteps /\ ExistingSteps \ {"wake"} \subseteq Range(rest)
                  /\ Ahead(rest, {"wake", "health"}, Sides) /\ ("wake" \in Range(rest) \/ "box" \in pvUp)
    BY <1>4, ExistingPlanFits
  <2>4. PICK new \in PvCallSet : new = [call EXCEPT !.at = "start", !.plan = rest, !.fresh = fresh]
    BY <2>1 DEF PvCallSet
  <2>5. pvCall' \in [PvCallers -> PvCallSet] /\ pvCall'[c] = new /\ \A d \in PvCallers \ {c} : pvCall'[d] = pvCall[d]
    BY <1>1, <1>5, <2>4 DEF PvInv, PvTypes
  <2>6. /\ new.at = "start" /\ new.plan = rest /\ new.fresh = fresh /\ new.op = "start" /\ new.mode = call.mode
        /\ new.world = call.world /\ new.made = {} /\ ~new.torn /\ new.half = {} /\ new.found = call.found
        /\ new.alone = call.alone /\ new.stopped = call.stopped
    BY <1>2, <2>4 DEF PvCallSet
  <2>7. PlanFits(new)
    BY <2>1, <2>2, <2>3, <2>6 DEF PlanFits
  <2>8. call.alone => StartIsDone(new)
    <3>1. CASE fresh
      <4>1. FreshDone(new.mode, new.world, "personas")
        BY NamesInSets DEF FreshDone
      <4> QED BY <3>1, <4>1, <2>2, <2>6 DEF StartIsDone
    <3>2. CASE ~fresh
      <4>1. ExistingDone(new)
        BY <1>3, <1>5, <3>2, <2>3, <2>6, NamesInSets DEF ExistingDone, ExistingSteps, PvPhases
      <4> QED BY <3>2, <4>1, <2>6 DEF StartIsDone
    <3> QED BY <3>1, <3>2
  <2>9. call.alone => FoundOrMade(new)
    <3> SUFFICES ASSUME call.alone PROVE FoundOrMade(new)
      OBVIOUS
    <3>1. (\A r \in call.found \cap PvContainers : PvMounts[r] \subseteq call.found) /\ pvThere \subseteq call.found
      BY <1>2 DEF FoundOrMade
    <3>2. pvUp # {} => "net" \in call.found
      BY <3>1 DEF PvInv, DockerHolds
    <3> QED BY <3>1, <3>2, <2>6 DEF FoundOrMade
  <2>10. call.alone => CallFits(new)'
    <3>1. StartIsDone(new)' <=> StartIsDone(new)
      BY <1>2 DEF StartIsDone, FreshDone, ExistingDone
    <3>2. FoundOrMade(new)' <=> FoundOrMade(new)
      BY <1>2 DEF FoundOrMade
    <3> QED BY <3>1, <3>2, <2>6, <2>7, <2>8, <2>9 DEF CallFits, StopIsDone, AnswerFits
  <2>11. pvCall[c].alone => CallFits(pvCall[c])'
    BY <1>1, <2>5, <2>10
  <2>12. \A d \in PvCallers : Unstopped(d) =>
           \A r \in pvCall[d].made \cap PvContainers : r \in pvThere' /\ pvBy'[r] = d
    BY <1>2 DEF PvInv, OwnersHold
  <2>13. pvCall'[c].made = {} /\ PlanFits(pvCall'[c]) /\ (pvCall'[c].alone => pvCall[c].alone)
         /\ pvCall'[c].op = pvCall[c].op /\ pvCall'[c].stopped = pvCall[c].stopped
    BY <1>1, <1>2, <2>5, <2>6, <2>7
  <2> QED BY <1>2, <2>5, <2>11, <2>12, <2>13, DockerStays, OneWorks
<1>6. CASE PvEnd(c, "error")
  <2>1. call.alone => AnswerFits([call EXCEPT !.plan = <<>>, !.at = "done", !.res = "error"])
    BY <1>2 DEF AnswerFits, FoundOrMade, PvCallSet
  <2> QED BY <1>1, <1>2, <1>6, <2>1, CallEnds
<1> QED BY <1>1, <1>3, <1>4, <1>5, <1>6 DEF Inspect

LEMMA PreflightStep == ASSUME PvInv, NEW c \in PvCallers, Preflight(c) PROVE PvInv'
<1>1. /\ pvCall[c].at = "start" /\ PvStep(c) = "preflight" /\ PvBusy(c)
      /\ UNCHANGED <<pvThere, pvUp, pvBox, pvArgs, pvBy, pvScene>>
  BY DEF Preflight, PvStarting, PvBusy, PvFrame
<1>2. CASE PvGoOn(c, {})
  <2>1. \A mode, world : FreshDone(mode, world, "preflight")
    BY NamesInSets DEF FreshDone, PvPhases
  <2>2. "preflight" \notin Sides
    BY NamesInSets DEF PvPhases
  <2> QED BY <1>1, <1>2, <2>1, <2>2, StartStays
<1>3. CASE PvEnd(c, "error")
  <2>1. PICK call \in PvCallSet : call = pvCall[c]
    BY DEF PvInv, PvTypes
  <2>2. "preflight" \in Range(call.plan)
    BY <1>1, <2>1, StepOfPlan
  <2>3. CallFits(call)
    BY <2>1 DEF PvInv, CallsFit
  <2>4. call.op = "start" /\ ~call.torn /\ call.half = {} /\ call.at = "start" /\ call.fresh
    BY <1>1, <2>1, <2>2, <2>3, NamesDiffer DEF CallFits, PlanFits, ExistingSteps, PvPhases
  <2>5. call.alone => pvThere \subseteq call.found
    BY <2>2, <2>3, <2>4 DEF CallFits, StartIsDone, FoundOrMade
  <2>6. call.alone => AnswerFits([call EXCEPT !.plan = <<>>, !.at = "done", !.res = "error"])
    BY <2>4, <2>5 DEF AnswerFits, PvCallSet
  <2> QED BY <1>1, <1>3, <2>1, <2>6, CallEnds
<1> QED BY <1>2, <1>3 DEF Preflight

LEMMA StageFileStep == ASSUME PvInv, NEW c \in PvCallers, StageFile(c) PROVE PvInv'
<1>1. PICK f : f = PvStep(c)
  OBVIOUS
<1>2. /\ pvCall[c].at = "start" /\ f \in {"config", "personas"} /\ UNCHANGED <<pvUp, pvBox, pvArgs, pvBy, pvScene>>
  BY <1>1 DEF StageFile, PvStarting, PvFrame
<1>3. CASE PvGoOn(c, {f}) /\ pvThere' = pvThere \cup {f, "dirs"}
  <2>1. {f} \in SUBSET PvResources /\ {f, "dirs"} \subseteq PvResources /\ f \notin PvContainers /\ f \notin ExistingSteps
        /\ f # "answer" /\ f # "preflight" /\ f # "seed"
    BY <1>2, NamesInSets DEF ExistingSteps
  <2>2. pvCall[c].fresh
    <3>1. PvStep(c) \in IF pvCall[c].fresh THEN FreshSteps ELSE ExistingSteps
      BY <1>1, <1>2, <1>3, <2>1, GoesOn
    <3> QED BY <1>1, <2>1, <3>1
  <2>3. DockerIn' /\ DockerHolds'
    BY <1>2, <1>3, <2>1, NamesInSets DEF DockerIn, DockerHolds, PvInv, PvTypes
  <2>4. PICK mode, world : mode = pvCall[c].mode /\ world = pvCall[c].world
    OBVIOUS
  <2>5. FreshDone(mode, world, f)'
    BY <1>2, <1>3, <2>1, NamesInSets DEF FreshDone
  <2>6. pvCall[c].alone => "dirs" \in pvThere
    <3>1. "dirs" \notin Range(pvCall[c].plan)
      BY <1>1, <1>2, <1>3, <2>1, <2>2, GoesOn
    <3>2. pvCall[c].alone => FreshDone(pvCall[c].mode, pvCall[c].world, "dirs")
      BY <1>2, <2>2, <3>1 DEF PvInv, CallsFit, CallFits, StartIsDone, FreshSteps
    <3> QED BY <3>2 DEF FreshDone
  <2>7. f \notin Sides
    BY <2>1, NamesInSets
  <2>8. pvCall[c].alone => StartIsDone(pvCall[c])' /\ FoundOrMade(pvCall[c])'
    <3> SUFFICES ASSUME pvCall[c].alone PROVE StartIsDone(pvCall[c])' /\ FoundOrMade(pvCall[c])'
      OBVIOUS
    <3>1. pvThere \subseteq pvThere' /\ pvThere' \subseteq pvThere \cup {f}
      BY <1>3, <2>6
    <3>2. \A r \in Sides \cap {f} : pvArgs'[r] = Selection(mode, world)
      BY <2>7
    <3> QED BY <1>1, <1>2, <1>3, <2>1, <2>2, <2>4, <2>5, <3>1, <3>2, FreshGoesOn
  <2>9. (\A r \in pvThere \cap PvContainers : r \in pvThere' /\ pvBy'[r] = pvBy[r]) /\ {f} \cap PvContainers = {}
    BY <1>2, <1>3, <2>1
  <2> QED BY <1>1, <1>2, <1>3, <2>1, <2>3, <2>8, <2>9, StartGoesOn
<1>4. CASE PvRollBack(c, {}) /\ UNCHANGED pvThere
  BY <1>2, <1>4, StartTurnsBack
<1> QED BY <1>1, <1>3, <1>4 DEF StageFile

LEMMA MakeThingStep == ASSUME PvInv, NEW c \in PvCallers, MakeThing(c) PROVE PvInv'
<1>1. PICK r : r = PvStep(c)
  OBVIOUS
<1>2. /\ pvCall[c].at = "start" /\ r \in PvVolumes \cup {"dirs", "net"} /\ UNCHANGED <<pvUp, pvBox, pvArgs, pvBy, pvScene>>
  BY <1>1 DEF MakeThing, PvStarting, PvFrame
<1>3. CASE PvGoOn(c, {r} \ pvThere) /\ pvThere' = pvThere \cup {r}
  <2>1. r \in PvResources /\ r \notin PvContainers /\ r \notin PvPhases
    BY <1>2, NamesInSets, NamesDiffer DEF PvPhases
  <2>2. r # "answer" /\ r # "preflight" /\ r # "seed" /\ r \notin ExistingSteps
    BY <2>1, NamesInSets DEF ExistingSteps, PvPhases
  <2>3. PICK made \in SUBSET PvResources : made = {r} \ pvThere
    BY <2>1
  <2>4. pvCall[c].fresh
    <3>1. PvStep(c) \in IF pvCall[c].fresh THEN FreshSteps ELSE ExistingSteps
      BY <1>1, <1>2, <1>3, <2>2, <2>3, GoesOn
    <3> QED BY <1>1, <2>2, <3>1
  <2>5. DockerIn' /\ DockerHolds'
    BY <1>2, <1>3, <2>1 DEF DockerIn, DockerHolds, PvInv, PvTypes
  <2>6. PICK mode, world : mode = pvCall[c].mode /\ world = pvCall[c].world
    OBVIOUS
  <2>7. FreshDone(mode, world, r)'
    BY <1>2, <1>3, <2>1, <2>2, NamesInSets DEF FreshDone
  <2>8. r \notin Sides /\ made \subseteq {r} /\ made \cap PvContainers = {}
    BY <2>1, <2>3, NamesInSets
  <2>9. pvThere \subseteq pvThere' /\ pvThere' \subseteq pvThere \cup made
    BY <1>3, <2>3
  <2>10. pvCall[c].alone => StartIsDone(pvCall[c])' /\ FoundOrMade(pvCall[c])'
    <3> SUFFICES ASSUME pvCall[c].alone PROVE StartIsDone(pvCall[c])' /\ FoundOrMade(pvCall[c])'
      OBVIOUS
    <3>1. \A x \in Sides \cap made : pvArgs'[x] = Selection(mode, world)
      BY <2>8
    <3> QED BY <1>1, <1>2, <1>3, <2>2, <2>3, <2>4, <2>6, <2>7, <2>9, <3>1, FreshGoesOn
  <2>11. \A x \in pvThere \cap PvContainers : x \in pvThere' /\ pvBy'[x] = pvBy[x]
    BY <1>2, <1>3
  <2> QED BY <1>1, <1>2, <1>3, <2>2, <2>3, <2>5, <2>8, <2>10, <2>11, StartGoesOn
<1>4. CASE PvRollBack(c, {}) /\ UNCHANGED pvThere
  BY <1>2, <1>4, StartTurnsBack
<1> QED BY <1>1, <1>3, <1>4 DEF MakeThing

\* docker run, of a new start and of one that is there.
LEMMA RunContainerStep ==
  ASSUME PvInv, NEW c \in PvCallers, pvCall[c].at = "start", NEW r \in PvContainers, r = PvStep(c),
         NEW selection \in Selections, RunContainer(c, r, selection), pvScene' = pvScene,
         pvCall[c].fresh => selection = Selection(pvCall[c].mode, pvCall[c].world),
         ~pvCall[c].fresh => r \in Sides /\ selection = Selection(pvBox.mode, pvBox.world)
  PROVE  PvInv'
<1>1. PvMounts[r] \subseteq PvVolumes /\ PvVolumes \subseteq PvResources /\ r \in PvResources /\ r \notin PvPhases
  BY BoxMountsAll, NamesInSets
<1>2. r # "answer" /\ r # "preflight" /\ r # "seed" /\ r # "wake"
  BY <1>1 DEF PvPhases
<1>3. CASE UNCHANGED <<pvThere, pvUp, pvBy, pvBox, pvArgs>> /\ PvRollBack(c, {})
  BY <1>3, StartTurnsBack
<1>4. ASSUME r \notin pvThere, "net" \in pvThere, pvThere' = pvThere \cup {r} \cup PvMounts[r],
             pvUp' = pvUp \/ pvUp' = pvUp \cup {r},
             pvBy' = [pvBy EXCEPT ![r] = "none"] \/ pvBy' = [pvBy EXCEPT ![r] = c], Set(r, selection)
      PROVE  /\ DockerIn' /\ DockerHolds'
             /\ \A x \in pvThere \cap PvContainers : x \in pvThere' /\ pvBy'[x] = pvBy[x]
             /\ r # "box" => pvBox' = pvBox
  <2>1. pvBox' \in PvBoxes /\ (r # "box" => pvBox' = pvBox)
    <3>1. selection.mode \in PvModes /\ selection.world \in PvWorlds
      BY DEF Selections
    <3>2. NoBox \in PvBoxes
      BY <3>1, SelectionIn
    <3> QED BY <1>4, <3>1, <3>2 DEF Set, PvBoxes, PvInv, PvTypes
  <2>2. pvArgs' \in [Sides -> Selections]
    BY <1>4 DEF Set, PvInv, PvTypes
  <2>3. pvBy' \in [PvContainers -> PvCallers \cup {"none"}] /\ \A x \in PvContainers \ {r} : pvBy'[x] = pvBy[x]
    BY <1>4 DEF PvInv, PvTypes
  <2>4. pvThere' \subseteq PvResources /\ pvUp' \subseteq PvContainers
    BY <1>1, <1>4 DEF PvInv, PvTypes
  <2>5. DockerHolds'
    <3>1. PvMounts[r] \cap PvContainers = {}
      BY <1>1, NamesInSets
    <3> QED BY <1>4, <3>1 DEF DockerHolds, PvInv
  <2>6. \A x \in pvThere \cap PvContainers : x \in pvThere' /\ pvBy'[x] = pvBy[x]
    BY <1>4, <2>3
  <2> QED BY <2>1, <2>2, <2>3, <2>4, <2>5, <2>6 DEF DockerIn
<1>5. CASE /\ r \notin pvThere /\ "net" \in pvThere /\ PvRollBack(c, {r})
           /\ pvThere' = pvThere \cup {r} \cup PvMounts[r] /\ pvUp' = pvUp
           /\ pvBy' = [pvBy EXCEPT ![r] = "none"] /\ Set(r, selection)
  <2>1. {r} \in SUBSET PvContainers /\ {r} # {}
    OBVIOUS
  <2> QED BY <1>4, <1>5, <2>1, StartRollsBack
<1>6. CASE /\ r \notin pvThere /\ "net" \in pvThere /\ PvGoOn(c, {r})
           /\ pvThere' = pvThere \cup {r} \cup PvMounts[r] /\ pvUp' = pvUp \cup {r}
           /\ pvBy' = [pvBy EXCEPT ![r] = c] /\ Set(r, selection)
  <2>1. /\ DockerIn' /\ DockerHolds' /\ (r # "box" => pvBox' = pvBox)
        /\ \A x \in pvThere \cap PvContainers : x \in pvThere' /\ pvBy'[x] = pvBy[x]
    BY <1>4, <1>6
  <2>2. pvBy'[r] = c /\ r \in pvThere'
    BY <1>6 DEF PvInv, PvTypes
  <2>3. PICK made \in SUBSET PvResources : made = {r}
    BY <1>1
  <2>4. /\ \A x \in Sides \ made : pvArgs'[x] = pvArgs[x]
        /\ \A x \in Sides \cap made : pvArgs'[x] = selection
    BY <1>6, <2>3, NamesInSets DEF Set, PvInv, PvTypes
  <2>5. "box" \in pvUp => r # "box"
    BY <1>6 DEF PvInv, DockerHolds
  <2>6. PICK mode, world : mode = pvCall[c].mode /\ world = pvCall[c].world
    OBVIOUS
  <2>7. pvCall[c].fresh /\ pvCall[c].alone => StartIsDone(pvCall[c])' /\ FoundOrMade(pvCall[c])'
    <3> SUFFICES ASSUME pvCall[c].fresh, pvCall[c].alone PROVE StartIsDone(pvCall[c])' /\ FoundOrMade(pvCall[c])'
      OBVIOUS
    <3>1. PvVolumes \subseteq pvThere
      <4>1. Range(pvCall[c].plan) \cap PvVolumes = {}
        BY <1>2, <1>6, <2>3, GoesOn
      <4>2. \A v \in PvVolumes : FreshDone(pvCall[c].mode, pvCall[c].world, v)
        BY <4>1 DEF PvInv, CallsFit, CallFits, StartIsDone, FreshSteps
      <4> QED BY <4>2 DEF FreshDone
    <3>2. pvThere \subseteq pvThere' /\ pvThere' \subseteq pvThere \cup made /\ pvUp \subseteq pvUp' /\ pvUp' \subseteq pvUp \cup made
      BY <1>1, <1>6, <2>3, <3>1
    <3>3. selection = Selection(mode, world)
      BY <2>6
    <3>4. FreshDone(mode, world, r)'
      <4>1. r = "box" => pvBox'.mode = mode /\ pvBox'.world = world
        <5>1. NoBox = [mode |-> NoBox.mode, world |-> NoBox.world, seed |-> NoBox.seed]
          BY DEF NoBox
        <5>2. selection.mode = mode /\ selection.world = world
          BY <3>3 DEF Selection
        <5> QED BY <1>6, <5>1, <5>2 DEF Set
      <4>2. r \in pvUp' /\ r \notin PvVolumes \cup {"net", "dirs", "config"}
        BY <1>6, NamesInSets
      <4> QED BY <1>2, <4>1, <4>2 DEF FreshDone
    <3>5. "box" \in pvUp => pvBox' = pvBox
      BY <2>1, <2>5
    <3>6. \A x \in Sides \cap made : pvArgs'[x] = Selection(mode, world)
      BY <2>4, <3>3
    <3> QED BY <1>2, <1>6, <2>3, <2>4, <2>6, <3>2, <3>4, <3>5, <3>6, FreshGoesOn
  <2>8. ~pvCall[c].fresh /\ pvCall[c].alone => StartIsDone(pvCall[c])' /\ FoundOrMade(pvCall[c])'
    <3> SUFFICES ASSUME ~pvCall[c].fresh, pvCall[c].alone PROVE StartIsDone(pvCall[c])' /\ FoundOrMade(pvCall[c])'
      OBVIOUS
    <3>1. PvVolumes \subseteq pvThere
      <4>1. "box" \in pvThere
        BY DEF PvInv, CallsFit, CallFits, StartIsDone, ExistingDone
      <4> QED BY <4>1, BoxMountsAll, NamesInSets DEF PvInv, DockerHolds
    <3>2. pvThere \subseteq pvThere' /\ pvThere' \subseteq pvThere \cup made /\ pvUp \subseteq pvUp' /\ r \in pvUp'
      BY <1>1, <1>6, <2>3, <3>1
    <3>3. made \in SUBSET Sides /\ r # "box" /\ pvBox' = pvBox
      BY <2>1, <2>3, NamesInSets
    <3>4. \A x \in made : pvArgs'[x] = Selection(pvBox.mode, pvBox.world)
      BY <2>4, <3>3
    <3> QED BY <1>2, <1>6, <2>3, <2>4, <3>2, <3>3, <3>4, ExistingGoesOn
  <2>9. \A x \in made \cap PvContainers : x \in pvThere' /\ pvBy'[x] = c
    BY <2>2, <2>3
  <2> QED BY <1>2, <1>6, <2>1, <2>3, <2>7, <2>8, <2>9, StartGoesOn
<1> QED BY <1>3, <1>5, <1>6 DEF RunContainer

LEMMA CreateContainerStep == ASSUME PvInv, NEW c \in PvCallers, CreateContainer(c) PROVE PvInv'
<1>1. PICK selection : selection = Selection(pvCall[c].mode, pvCall[c].world)
  OBVIOUS
<1>2. PICK r : r = PvStep(c)
  OBVIOUS
<1>3. pvCall[c].mode \in PvModes /\ pvCall[c].world \in PvWorlds
  BY DEF PvInv, PvTypes, PvCallSet
<1>4. selection \in Selections
  BY <1>1, <1>3, SelectionIn
<1>5. pvCall[c].at = "start" /\ pvCall[c].fresh /\ r \in PvContainers /\ RunContainer(c, r, selection) /\ pvScene' = pvScene
  BY <1>1, <1>2 DEF CreateContainer, PvStarting, PvFrame
<1> QED BY <1>1, <1>2, <1>4, <1>5, RunContainerStep

\* A failed start of one that is there answers with an error and leaves it.
LEMMA ExistingFails ==
  ASSUME PvInv, NEW c \in PvCallers, pvCall[c].at = "start", ~pvCall[c].fresh,
         Range(pvCall[c].plan) \cap {"wake", "health"} # {}, PvEnd(c, "error"),
         UNCHANGED <<pvThere, pvUp, pvBox, pvArgs, pvBy, pvScene>>
  PROVE  PvInv'
<1>1. PICK call \in PvCallSet : call = pvCall[c]
  BY DEF PvInv, PvTypes
<1>2. CallFits(call) /\ call.at = "start" /\ ~call.fresh /\ Range(call.plan) \cap {"wake", "health"} # {}
  BY <1>1 DEF PvInv, CallsFit
<1>3. call.op = "start" /\ ~call.torn /\ call.half = {}
  BY <1>2 DEF CallFits, PlanFits
<1>4. call.alone => call.made = {}
  BY <1>2 DEF CallFits, StartIsDone, ExistingDone
<1>5. call.alone => pvThere \subseteq call.found
  BY <1>2, <1>3, <1>4 DEF CallFits, FoundOrMade
<1>6. call.alone => AnswerFits([call EXCEPT !.plan = <<>>, !.at = "done", !.res = "error"])
  BY <1>3, <1>5 DEF AnswerFits, PvCallSet
<1>7. PvBusy(c)
  BY DEF PvBusy
<1> QED BY <1>1, <1>6, <1>7, CallEnds

\* docker start of a stopped container.
LEMMA WokenStep ==
  ASSUME PvInv, NEW c \in PvCallers, pvCall[c].at = "start", NEW r \in PvContainers,
         pvUp' = pvUp \cup {r}, r \in pvThere, "net" \in pvThere,
         pvBox' = IF r = "box" /\ r \notin pvUp THEN [pvBox EXCEPT !.seed = NoBox.seed] ELSE pvBox,
         UNCHANGED <<pvThere, pvArgs, pvBy>>
  PROVE  /\ DockerIn' /\ DockerHolds' /\ pvBox'.mode = pvBox.mode /\ pvBox'.world = pvBox.world
         /\ \A x \in pvThere \cap PvContainers : x \in pvThere' /\ pvBy'[x] = pvBy[x]
<1>1. pvBox \in PvBoxes /\ NoBox.seed \in Selections
  <2>1. "self" \in PvModes /\ NoWorld \in PvWorlds
    BY DEF PvModes, PvWorlds
  <2> QED BY <2>1, SelectionIn DEF PvInv, PvTypes
<1>2. pvBox' \in PvBoxes /\ pvBox'.mode = pvBox.mode /\ pvBox'.world = pvBox.world
  BY <1>1 DEF PvBoxes
<1>3. DockerIn'
  BY <1>2 DEF DockerIn, PvInv, PvTypes
<1>4. DockerHolds'
  BY DEF DockerHolds, PvInv
<1> QED BY <1>2, <1>3, <1>4

LEMMA WakeBoxStep == ASSUME PvInv, NEW c \in PvCallers, WakeBox(c) PROVE PvInv'
<1>1. PICK step : step = PvStep(c)
  OBVIOUS
<1>2. /\ pvCall[c].at = "start" /\ step = "wake" /\ UNCHANGED <<pvThere, pvArgs, pvBy, pvScene>> /\ "box" \in PvContainers
      /\ step # "answer" /\ step \notin Sides
  BY <1>1, NamesInSets DEF WakeBox, PvStarting, PvFrame, PvPhases
<1>3. ~pvCall[c].fresh /\ "wake" \in Range(pvCall[c].plan)
  <2>1. "wake" \in Range(pvCall[c].plan)
    BY <1>1, <1>2, StepOfPlan
  <2>2. "wake" \notin FreshSteps
    BY NamesInSets, NamesDiffer DEF FreshSteps, PvPhases
  <2>3. pvCall[c].fresh => Range(pvCall[c].plan) \subseteq FreshSteps
    BY <1>2 DEF PvInv, CallsFit, CallFits, PlanFits
  <2> QED BY <2>1, <2>2, <2>3
<1>4. CASE /\ {"box", "net"} \subseteq pvThere /\ pvUp' = pvUp \cup {"box"} /\ PvGoOn(c, {})
           /\ pvBox' = IF "box" = "box" /\ "box" \notin pvUp THEN [pvBox EXCEPT !.seed = NoBox.seed] ELSE pvBox
  <2>1. /\ DockerIn' /\ DockerHolds' /\ pvBox'.mode = pvBox.mode /\ pvBox'.world = pvBox.world
        /\ \A x \in pvThere \cap PvContainers : x \in pvThere' /\ pvBy'[x] = pvBy[x]
    BY <1>2, <1>4, WokenStep
  <2>2. PICK made \in SUBSET Sides : made = {}
    OBVIOUS
  <2>3. made \in SUBSET PvResources /\ PvGoOn(c, made)
    BY <1>4, <2>2
  <2>4. pvThere \subseteq pvThere' /\ pvThere' \subseteq pvThere \cup made /\ pvUp \subseteq pvUp' /\ "box" \in pvUp'
    BY <1>2, <1>4
  <2>5. pvCall[c].alone => StartIsDone(pvCall[c])' /\ FoundOrMade(pvCall[c])'
    BY <1>1, <1>2, <1>3, <2>1, <2>2, <2>3, <2>4, ExistingGoesOn
  <2> QED BY <1>1, <1>2, <2>1, <2>2, <2>3, <2>5, StartGoesOn
<1>5. CASE PvEnd(c, "error") /\ UNCHANGED <<pvUp, pvBox>>
  <2>1. Range(pvCall[c].plan) \cap {"wake", "health"} # {}
    BY <1>3
  <2> QED BY <1>2, <1>3, <1>5, <2>1, ExistingFails
<1> QED BY <1>1, <1>2, <1>4, <1>5 DEF WakeBox, Woken

LEMMA EnsureSidecarStep == ASSUME PvInv, NEW c \in PvCallers, EnsureSidecar(c) PROVE PvInv'
<1>1. PICK r : r = PvStep(c)
  OBVIOUS
<1>2. /\ pvCall[c].at = "start" /\ ~pvCall[c].fresh /\ r \in Sides /\ r \in PvContainers /\ r # "box" /\ pvScene' = pvScene
  BY <1>1, NamesInSets DEF EnsureSidecar, PvStarting, PvFrame
<1>3. r # "answer" /\ r # "wake"
  BY <1>2, NamesInSets DEF PvPhases
<1>4. CASE r \in pvUp /\ PvGoOn(c, {}) /\ UNCHANGED <<pvThere, pvUp, pvBy, pvBox, pvArgs>>
  <2>1. PICK mode, world : mode = pvCall[c].mode /\ world = pvCall[c].world
    OBVIOUS
  <2> QED BY <1>1, <1>2, <1>3, <1>4, <2>1, StartStays
<1>5. CASE /\ r \in pvThere /\ "net" \in pvThere /\ pvUp' = pvUp \cup {r} /\ PvGoOn(c, {}) /\ pvBox' = pvBox
           /\ UNCHANGED <<pvThere, pvArgs, pvBy>>
  <2>1. /\ DockerIn' /\ DockerHolds' /\ pvBox'.mode = pvBox.mode /\ pvBox'.world = pvBox.world
        /\ \A x \in pvThere \cap PvContainers : x \in pvThere' /\ pvBy'[x] = pvBy[x]
    BY <1>2, <1>5, WokenStep
  <2>2. PICK made \in SUBSET Sides : made = {}
    OBVIOUS
  <2>3. made \in SUBSET PvResources /\ PvGoOn(c, made)
    BY <1>5, <2>2
  <2>4. pvThere \subseteq pvThere' /\ pvThere' \subseteq pvThere \cup made /\ pvUp \subseteq pvUp' /\ r \in pvUp'
    BY <1>2, <1>5
  <2>5. pvCall[c].alone => StartIsDone(pvCall[c])' /\ FoundOrMade(pvCall[c])'
    BY <1>1, <1>2, <1>3, <1>5, <2>1, <2>2, <2>3, <2>4, ExistingGoesOn
  <2> QED BY <1>1, <1>2, <1>3, <2>1, <2>2, <2>3, <2>5, StartGoesOn
<1>6. CASE PvRollBack(c, {}) /\ UNCHANGED <<pvThere, pvUp, pvBy, pvBox, pvArgs>>
  BY <1>2, <1>6, StartTurnsBack
<1>7. ASSUME NEW selection, selection = Selection(pvBox.mode, pvBox.world), RunContainer(c, r, selection) PROVE PvInv'
  <2>1. pvBox.mode \in PvModes /\ pvBox.world \in PvWorlds
    BY DEF PvInv, PvTypes, PvBoxes
  <2>2. selection \in Selections
    BY <1>7, <2>1, SelectionIn
  <2> QED BY <1>1, <1>2, <1>7, <2>2, RunContainerStep
<1>8. CASE r \in pvThere \ pvUp /\ UNCHANGED <<pvThere, pvArgs, pvBy>> /\ Woken(c, r, "net" \in pvThere)
  <2>1. CASE "net" \in pvThere
    BY <1>2, <1>5, <1>8, <2>1 DEF Woken
  <2>2. CASE "net" \notin pvThere
    BY <1>2, <1>6, <1>8, <2>2 DEF Woken
  <2> QED BY <2>1, <2>2
<1>9. CASE UNCHANGED <<pvThere, pvArgs, pvBy>> /\ Woken(c, r, FALSE)
  BY <1>2, <1>6, <1>9 DEF Woken
<1> QED BY <1>1, <1>4, <1>7, <1>8, <1>9 DEF EnsureSidecar

LEMMA WaitHealthyStep == ASSUME PvInv, NEW c \in PvCallers, WaitHealthy(c) PROVE PvInv'
<1>1. PICK step : step = PvStep(c)
  OBVIOUS
<1>2. /\ pvCall[c].at = "start" /\ step = "health" /\ UNCHANGED <<pvThere, pvUp, pvBox, pvArgs, pvBy, pvScene>>
      /\ step # "answer" /\ step # "wake" /\ step \notin Sides
  BY <1>1, NamesInSets DEF WaitHealthy, PvStarting, PvFrame, PvPhases
<1>3. CASE PvGoOn(c, {})
  <2>1. PICK mode, world : mode = pvCall[c].mode /\ world = pvCall[c].world
    OBVIOUS
  <2>2. FreshDone(mode, world, step)
    BY <1>2, NamesInSets DEF FreshDone, PvPhases
  <2> QED BY <1>1, <1>2, <1>3, <2>1, <2>2, StartStays
<1>4. CASE PvRollBack(c, {})
  BY <1>2, <1>4, StartTurnsBack
<1>5. CASE ~pvCall[c].fresh /\ PvEnd(c, "error")
  <2>1. Range(pvCall[c].plan) \cap {"wake", "health"} # {}
    BY <1>1, <1>2, StepOfPlan
  <2> QED BY <1>2, <1>5, <2>1, ExistingFails
<1> QED BY <1>3, <1>4, <1>5 DEF WaitHealthy

LEMMA SeedBridgeStep == ASSUME PvInv, NEW c \in PvCallers, SeedBridge(c) PROVE PvInv'
<1>1. PICK step : step = PvStep(c)
  OBVIOUS
<1>2. /\ pvCall[c].at = "start" /\ step = "seed" /\ UNCHANGED <<pvThere, pvUp, pvArgs, pvBy, pvScene>>
      /\ step # "answer" /\ step # "preflight" /\ step \notin PvContainers \cup PvVolumes \cup {"net", "dirs", "config"}
  BY <1>1, NamesInSets DEF SeedBridge, PvStarting, PvFrame, PvPhases
<1>3. pvCall[c].fresh
  <2>1. "seed" \in Range(pvCall[c].plan)
    BY <1>1, <1>2, StepOfPlan
  <2>2. "seed" \notin ExistingSteps
    BY NamesInSets DEF ExistingSteps, PvPhases
  <2>3. ~pvCall[c].fresh => Range(pvCall[c].plan) \subseteq ExistingSteps
    BY <1>2 DEF PvInv, CallsFit, CallFits, PlanFits
  <2> QED BY <2>1, <2>2, <2>3
<1>4. PICK mode, world : mode = pvCall[c].mode /\ world = pvCall[c].world
  OBVIOUS
<1>5. PICK seed : seed = Selection(mode, world)
  OBVIOUS
<1>6. CASE "box" \in pvUp /\ PvGoOn(c, {}) /\ pvBox' = [pvBox EXCEPT !.seed = seed]
  <2>1. mode \in PvModes /\ world \in PvWorlds
    BY <1>4 DEF PvInv, PvTypes, PvCallSet
  <2>2. seed \in Selections
    BY <1>5, <2>1, SelectionIn
  <2>3. pvBox' \in PvBoxes /\ pvBox'.mode = pvBox.mode /\ pvBox'.world = pvBox.world /\ pvBox'.seed = seed
    BY <1>6, <2>2 DEF PvBoxes, PvInv, PvTypes
  <2>4. DockerIn' /\ DockerHolds' /\ \A x \in pvThere \cap PvContainers : x \in pvThere' /\ pvBy'[x] = pvBy[x]
    BY <1>2, <2>3 DEF DockerIn, DockerHolds, PvInv, PvTypes
  <2>5. FreshDone(mode, world, step)'
    <3>1. "box" \in pvUp' /\ pvBox'.seed = Selection(mode, world)
      BY <1>2, <1>5, <1>6, <2>3
    <3> HIDE DEF Selection
    <3> QED BY <1>2, <3>1, NamesInSets DEF FreshDone
  <2>6. PICK made \in SUBSET PvResources : made = {}
    OBVIOUS
  <2>7. PvGoOn(c, made)
    BY <1>6, <2>6
  <2>8. pvCall[c].alone => StartIsDone(pvCall[c])' /\ FoundOrMade(pvCall[c])'
    BY <1>1, <1>2, <1>3, <1>4, <2>3, <2>5, <2>6, <2>7, FreshGoesOn
  <2> QED BY <1>1, <1>2, <2>4, <2>6, <2>7, <2>8, StartGoesOn
<1>7. CASE PvRollBack(c, {}) /\ UNCHANGED pvBox
  BY <1>2, <1>7, StartTurnsBack
<1> QED BY <1>1, <1>4, <1>5, <1>6, <1>7 DEF SeedBridge

\* The answer comes when all of the plan is done.
LEMMA AnswerStep == ASSUME PvInv, NEW c \in PvCallers, PvAnswer(c) PROVE PvInv'
<1>1. PICK call \in PvCallSet : call = pvCall[c]
  BY DEF PvInv, PvTypes
<1>2. /\ call.at = "start" /\ PvBusy(c) /\ UNCHANGED <<pvThere, pvUp, pvBox, pvArgs, pvBy, pvScene>>
      /\ Range(call.plan) = {"answer"} /\ CallFits(call)
  BY <1>1, StepOfPlan DEF PvAnswer, PvStarting, PvFrame, PvBusy, PvInv, CallsFit
<1>3. call.op = "start" /\ ~call.torn /\ call.half = {}
  BY <1>2 DEF CallFits, PlanFits
<1>4. "answer" \notin PvContainers \cup PvVolumes \cup {"wake", "health", "net", "config", "seed", "box"}
  BY NamesInSets DEF PvPhases
<1>5. ASSUME call.alone, call.fresh
      PROVE  /\ pvUp = PvContainers /\ "net" \in pvThere /\ pvBox.mode = call.mode /\ pvBox.world = call.world
             /\ \A r \in Sides \cap call.made : pvArgs[r] = Selection(pvBox.mode, pvBox.world)
             /\ pvBox.seed = Selection(call.mode, call.world) /\ {"config"} \cup PvVolumes \subseteq pvThere
  <2>1. /\ \A r \in FreshSteps \ {"answer"} : FreshDone(call.mode, call.world, r)
        /\ \A r \in Sides \cap call.made : pvArgs[r] = Selection(call.mode, call.world)
    BY <1>2, <1>5 DEF CallFits, StartIsDone
  <2>2. PvContainers \cup PvVolumes \cup {"net", "config", "seed", "box"} \subseteq FreshSteps \ {"answer"}
    BY <1>4, NamesInSets DEF FreshSteps, PvContainers
  <2>3. pvUp = PvContainers
    BY <2>1, <2>2 DEF FreshDone, PvInv, PvTypes
  <2>4. pvBox.mode = call.mode /\ pvBox.world = call.world
    BY <2>1, <2>2 DEF FreshDone
  <2>5. "net" \in pvThere /\ {"config"} \cup PvVolumes \subseteq pvThere
    BY <2>1, <2>2 DEF FreshDone
  <2>6. pvBox.seed = Selection(call.mode, call.world)
    <3>1. FreshDone(call.mode, call.world, "seed")
      BY <2>1, <2>2
    <3> QED BY <3>1 DEF FreshDone
  <2> QED BY <2>1, <2>3, <2>4, <2>5, <2>6
<1>6. ASSUME call.alone, ~call.fresh
      PROVE  /\ pvUp = PvContainers /\ "net" \in pvThere /\ pvBox.mode = call.mode /\ pvBox.world \in {call.world, NoWorld}
             /\ \A r \in Sides \cap call.made : pvArgs[r] = Selection(pvBox.mode, pvBox.world)
  <2>1. ExistingDone(call)
    BY <1>2, <1>6 DEF CallFits, StartIsDone
  <2>2. pvUp = PvContainers
    BY <1>2, <1>4, <2>1 DEF ExistingDone, PvInv, PvTypes, PvContainers
  <2>3. "net" \in pvThere
    BY <2>2, NamesInSets DEF PvInv, DockerHolds
  <2> QED BY <2>1, <2>2, <2>3 DEF ExistingDone
<1>7. ASSUME NEW res \in {"ok", "error"}, call.alone
      PROVE  AnswerFits([call EXCEPT !.plan = <<>>, !.at = "done", !.res = res])
  <2>1. PICK told : told = [call EXCEPT !.plan = <<>>, !.at = "done", !.res = res]
    OBVIOUS
  <2>2. /\ told.op = "start" /\ told.mode = call.mode /\ told.world = call.world /\ told.made = call.made
        /\ told.fresh = call.fresh
    BY <1>3, <2>1 DEF PvCallSet
  <2>3. AnswerFits(told)
    <3>1. CASE call.fresh
      BY <1>5, <1>7, <2>2, <3>1 DEF AnswerFits
    <3>2. CASE ~call.fresh
      BY <1>6, <1>7, <2>2, <3>2 DEF AnswerFits
    <3> QED BY <3>1, <3>2
  <2> QED BY <2>1, <2>3
<1>8. PvEnd(c, "ok") \/ PvEnd(c, "error")
  BY DEF PvAnswer
<1> QED BY <1>1, <1>2, <1>7, <1>8, CallEnds

\* What docker takes away, and what it keeps.
LEMMA RemovedIs ==
  ASSUME NEW r \in PvResources
  PROVE  /\ PvRemoved(r) \subseteq PvResources /\ PvRemoved(r) \cap PvContainers \subseteq {r}
         /\ r \in PvContainers \cup {"config", "personas"} => PvRemoved(r) = {r}
         /\ r = "dirs" => PvRemoved(r) = {"dirs", "config", "personas"}
         /\ "net" \in PvRemoved(r) => pvUp = {}
         /\ \A x \in pvThere \cap PvContainers : PvRemoved(r) \cap PvVolumes \cap PvMounts[x] = {}
         /\ r \in PvVolumes /\ r \notin PvRemoved(r) => \E x \in pvThere \cap PvContainers : r \in PvMounts[x]
         /\ r = "net" /\ r \notin PvRemoved(r) => pvUp # {}
<1>1. CASE r \in PvVolumes
  <2>1. PvRemoved(r) = IF \E x \in pvThere \cap PvContainers : r \in PvMounts[x] THEN {} ELSE {r}
    BY <1>1, NamesInSets DEF PvRemoved
  <2> QED BY <1>1, <2>1, NamesInSets
<1>2. CASE r = "net"
  <2>1. r \notin PvVolumes
    BY <1>2, NamesInSets
  <2>2. PvRemoved(r) = IF pvUp = {} THEN {r} ELSE {}
    BY <1>2, <2>1 DEF PvRemoved
  <2> QED BY <1>2, <2>1, <2>2, NamesInSets
<1>3. CASE r = "dirs"
  <2>1. r \notin PvVolumes /\ r # "net"
    BY <1>3, NamesInSets
  <2>2. PvRemoved(r) = {"dirs", "config", "personas"}
    BY <1>3, <2>1 DEF PvRemoved
  <2> QED BY <1>3, <2>1, <2>2, NamesInSets
<1>4. CASE r \in PvContainers \cup {"config", "personas"}
  <2>1. r \notin PvVolumes /\ r # "net" /\ r # "dirs"
    BY <1>4, NamesInSets
  <2>2. PvRemoved(r) = {r}
    BY <1>4, <2>1 DEF PvRemoved
  <2> QED BY <1>4, <2>1, <2>2, NamesInSets
<1> QED BY <1>1, <1>2, <1>3, <1>4, NamesInSets

LEMMA RemoveHolds ==
  ASSUME PvInv, NEW gone, gone = {} \/ (\E r \in PvResources : gone = PvRemoved(r)), PvRemove(gone)
  PROVE  /\ DockerIn' /\ DockerHolds' /\ pvThere' = pvThere \ gone /\ pvUp' = pvUp \ gone
         /\ \A x \in PvContainers \ gone : pvBy'[x] = pvBy[x]
         /\ gone = {} => UNCHANGED <<pvThere, pvUp, pvBox, pvArgs, pvBy>>
<1>1. gone \subseteq PvResources /\ ("net" \in gone => pvUp = {})
      /\ \A x \in pvThere \cap PvContainers : gone \cap PvVolumes \cap PvMounts[x] = {}
  BY RemovedIs
<1>2. pvThere' = pvThere \ gone /\ pvUp' = pvUp \ gone
  BY DEF PvRemove
<1>3. NoBox \in PvBoxes /\ NoBox.seed \in Selections
  <2>1. "self" \in PvModes /\ NoWorld \in PvWorlds
    BY DEF PvModes, PvWorlds
  <2> QED BY <2>1, SelectionIn
<1>4. pvBox' \in PvBoxes
  BY <1>3 DEF PvRemove, PvInv, PvTypes
<1>5. pvArgs' \in [Sides -> Selections]
  BY <1>3 DEF PvRemove, PvInv, PvTypes
<1>6. pvBy' \in [PvContainers -> PvCallers \cup {"none"}] /\ \A x \in PvContainers \ gone : pvBy'[x] = pvBy[x]
  BY DEF PvRemove, PvInv, PvTypes
<1>7. DockerIn'
  BY <1>2, <1>4, <1>5, <1>6 DEF DockerIn, PvInv, PvTypes
<1>8. DockerHolds'
  <2>1. \A x \in PvContainers : PvMounts[x] \subseteq PvVolumes
    BY BoxMountsAll
  <2> QED BY <1>1, <1>2, <2>1 DEF DockerHolds, PvInv
<1>9. gone = {} => UNCHANGED <<pvThere, pvUp, pvBox, pvArgs, pvBy>>
  <2> SUFFICES ASSUME gone = {} PROVE UNCHANGED <<pvThere, pvUp, pvBox, pvArgs, pvBy>>
    OBVIOUS
  <2>1. pvArgs' = pvArgs
    BY DEF PvRemove, PvInv, PvTypes
  <2>2. pvBy' = pvBy
    BY DEF PvRemove, PvInv, PvTypes
  <2>3. pvBox' = pvBox
    BY DEF PvRemove
  <2> QED BY <1>2, <2>1, <2>2, <2>3
<1> QED BY <1>2, <1>6, <1>7, <1>8, <1>9

\* The rollback of a start takes away what it made: containers, then volumes,
\* files and network.
LEMMA UndoStep == ASSUME PvInv, NEW c \in PvCallers, PvUndo(c) PROVE PvInv'
<1>1. PICK call \in PvCallSet : call = pvCall[c]
  BY DEF PvInv, PvTypes
<1>2. /\ call.at = "rollback" /\ call.op = "start" /\ pvScene' = pvScene /\ PvBusy(c) /\ FoundOrMade(call)
      /\ call.made \subseteq PvResources
  BY <1>1 DEF PvUndo, PvFrame, PvBusy, PvInv, CallsFit, CallFits, PlanFits, PvCallSet
<1>3. CASE call.made = {} /\ PvEnd(c, "error") /\ PvRemove({})
  <2>1. UNCHANGED <<pvThere, pvUp, pvBox, pvArgs, pvBy>>
    BY <1>3, RemoveHolds
  <2>2. call.alone => AnswerFits([call EXCEPT !.plan = <<>>, !.at = "done", !.res = "error"])
    BY <1>2, <1>3 DEF AnswerFits, FoundOrMade, PvCallSet
  <2> QED BY <1>1, <1>2, <1>3, <2>1, <2>2, CallEnds
<1>4. CASE \E r \in call.made :
             /\ PvTurn(r, call.made)
             /\ \/ PvRemove(PvRemoved(r)) /\ pvCall' = [pvCall EXCEPT ![c].made = @ \ {r}]
                \/ PvRemove({}) /\ pvCall' = [pvCall EXCEPT ![c].made = @ \ {r}, ![c].torn = TRUE]
  <2>1. PICK r \in call.made :
             /\ PvTurn(r, call.made)
             /\ \/ PvRemove(PvRemoved(r)) /\ pvCall' = [pvCall EXCEPT ![c].made = @ \ {r}]
                \/ PvRemove({}) /\ pvCall' = [pvCall EXCEPT ![c].made = @ \ {r}, ![c].torn = TRUE]
    BY <1>4
  <2>2. r \in PvResources /\ (r \in PvVolumes \cup {"net"} => call.made \cap PvContainers = {})
    BY <1>2, <2>1, TurnIsRight
  <2>0. PICK torn \in BOOLEAN :
          /\ PvRemove(IF torn THEN {} ELSE PvRemoved(r))
          /\ pvCall' = [pvCall EXCEPT ![c] = [call EXCEPT !.made = call.made \ {r}, !.torn = torn \/ call.torn]]
    <3>1. CASE PvRemove(PvRemoved(r)) /\ pvCall' = [pvCall EXCEPT ![c].made = @ \ {r}]
      <4>1. pvCall' = [pvCall EXCEPT ![c] = [call EXCEPT !.made = call.made \ {r}]]
        BY <1>1, <3>1
      <4>2. [call EXCEPT !.made = call.made \ {r}] = [call EXCEPT !.made = call.made \ {r}, !.torn = FALSE \/ call.torn]
        BY DEF PvCallSet
      <4>3. pvCall' = [pvCall EXCEPT ![c] = [call EXCEPT !.made = call.made \ {r}, !.torn = FALSE \/ call.torn]]
        BY <4>1, <4>2
      <4> QED BY <3>1, <4>3
    <3>2. CASE PvRemove({}) /\ pvCall' = [pvCall EXCEPT ![c].made = @ \ {r}, ![c].torn = TRUE]
      <4>1. pvCall' = [pvCall EXCEPT ![c] = [call EXCEPT !.made = call.made \ {r}, !.torn = TRUE \/ call.torn]]
        BY <1>1, <3>2
      <4> QED BY <3>2, <4>1
    <3> QED BY <2>1, <3>1, <3>2
  <2>3. PICK gone : /\ gone = IF torn THEN {} ELSE PvRemoved(r)
                    /\ PvRemove(gone)
                    /\ pvCall' = [pvCall EXCEPT ![c] = [call EXCEPT !.made = call.made \ {r}, !.torn = torn \/ call.torn]]
    BY <2>0
  <2>4. PICK new \in PvCallSet : new = [call EXCEPT !.made = call.made \ {r}, !.torn = torn \/ call.torn]
    BY <1>2 DEF PvCallSet
  <2>5. pvCall' \in [PvCallers -> PvCallSet] /\ pvCall'[c] = new /\ \A d \in PvCallers \ {c} : pvCall'[d] = pvCall[d]
    BY <2>3, <2>4 DEF PvInv, PvTypes
  <2>6. /\ new.at = "rollback" /\ new.op = "start" /\ new.made = call.made \ {r} /\ new.torn = (torn \/ call.torn)
        /\ new.half = call.half /\ new.found = call.found /\ new.fresh = call.fresh /\ new.alone = call.alone
        /\ new.stopped = call.stopped
    BY <1>2, <2>4 DEF PvCallSet
  <2>7. gone \cap PvContainers \subseteq {r} /\ (r \in PvContainers /\ ~torn => gone = {r})
    BY <2>2, <2>3, RemovedIs
  <2>8. /\ DockerIn' /\ DockerHolds' /\ pvThere' = pvThere \ gone /\ pvUp' = pvUp \ gone
        /\ \A x \in PvContainers \ gone : pvBy'[x] = pvBy[x]
    BY <2>2, <2>3, RemoveHolds
  <2>9. PlanFits(new)
    BY <2>6 DEF PlanFits
  <2>10. call.alone => FoundOrMade(new)'
    <3> SUFFICES ASSUME call.alone, ~torn, ~call.torn, call.half = {}
                 PROVE  /\ pvThere' \subseteq call.found \cup new.made
                        /\ call.fresh /\ pvUp' \ new.made # {} => "net" \in call.found
      BY <1>2, <2>6 DEF FoundOrMade
    <3>1. /\ \A x \in call.found \cap PvContainers : PvMounts[x] \subseteq call.found
          /\ pvThere \subseteq call.found \cup call.made /\ (~call.fresh => call.made \subseteq Sides)
          /\ call.fresh /\ pvUp \ call.made # {} => "net" \in call.found
      BY <1>2 DEF FoundOrMade
    <3>2. gone = PvRemoved(r)
      BY <2>3
    <3>3. pvUp' \ new.made = pvUp \ call.made
      BY <2>6, <2>7, <2>8 DEF PvInv, PvTypes
    <3>4. r \in gone \/ r \in call.found
      <4>1. CASE r \in PvVolumes
        BY <4>1, <2>2, <3>1, <3>2, RemovedIs
      <4>2. CASE r = "net"
        <5>1. call.fresh
          BY <4>2, <3>1, NamesInSets
        <5>2. CASE r \notin gone
          <6>1. pvUp # {} /\ pvUp \cap call.made = {}
            BY <5>2, <4>2, <2>2, <3>2, RemovedIs DEF PvInv, PvTypes
          <6> QED BY <6>1, <5>1, <4>2, <3>1
        <5> QED BY <5>2
      <4>3. CASE r = "dirs"
        BY <4>3, <2>2, <3>2, RemovedIs
      <4>4. CASE r \in PvContainers \cup {"config", "personas"}
        BY <4>4, <2>2, <3>2, RemovedIs
      <4> QED BY <2>2, <4>1, <4>2, <4>3, <4>4, NamesInSets
    <3> QED BY <2>6, <2>8, <3>1, <3>3, <3>4
  <2>11. pvCall[c].alone => CallFits(pvCall[c])'
    BY <1>1, <2>5, <2>6, <2>9, <2>10 DEF CallFits, StartIsDone, StopIsDone, AnswerFits
  <2>12. ASSUME NEW d \in PvCallers \ {c}, Unstopped(d), NEW x \in pvCall[d].made \cap PvContainers
         PROVE  x \in pvThere' /\ pvBy'[x] = d
    <3>1. x \in pvThere /\ pvBy[x] = d
      BY <2>12 DEF PvInv, OwnersHold
    <3>2. x # r
      <4>1. Unstopped(c)
        BY <1>2, <2>12 DEF PvInv, StopsSpread
      <4> QED BY <1>1, <3>1, <4>1 DEF PvInv, OwnersHold
    <3> QED BY <2>7, <2>8, <3>1, <3>2
  <2>13. ASSUME Unstopped(c)', NEW x \in pvCall'[c].made \cap PvContainers
         PROVE  x \in pvThere' /\ pvBy'[x] = c
    <3>1. Unstopped(c) /\ x \in pvCall[c].made /\ x # r
      BY <1>1, <1>2, <2>5, <2>6, <2>13 DEF Unstopped
    <3>2. x \in pvThere /\ pvBy[x] = c
      BY <3>1, <2>13 DEF PvInv, OwnersHold
    <3> QED BY <2>7, <2>8, <3>1, <3>2
  <2>14. PlanFits(pvCall'[c]) /\ (pvCall'[c].alone => pvCall[c].alone)
         /\ pvCall'[c].op = pvCall[c].op /\ pvCall'[c].stopped = pvCall[c].stopped
    BY <1>1, <1>2, <2>5, <2>6, <2>9
  <2> QED BY <1>2, <2>5, <2>8, <2>11, <2>12, <2>13, <2>14, OneWorks
<1> QED BY <1>1, <1>3, <1>4 DEF PvUndo

\* A stop removes by name: containers before the network and the volumes.
LEMMA StopStep == ASSUME PvInv, NEW c \in PvCallers, PvStop(c) PROVE PvInv'
<1>1. PICK call \in PvCallSet : call = pvCall[c]
  BY DEF PvInv, PvTypes
<1>2. /\ call.at = "stop" /\ call.op = "stop" /\ pvScene' = pvScene /\ PvBusy(c) /\ CallFits(call)
      /\ call.plan \in Seq(PvSteps) /\ Range(call.plan) \subseteq StopSteps
      /\ Ahead(call.plan, PvContainers, PvVolumes \cup {"net"})
  BY <1>1 DEF PvStop, PvFrame, PvBusy, PvInv, CallsFit, CallFits, PlanFits, PvCallSet
<1>3. \A d \in PvCallers : ~Unstopped(d)
  BY <1>1, <1>2 DEF PvInv, StopsSpread, Unstopped
<1>4. ASSUME NEW res \in {"ok", "error"}, PvEnd(c, res), PvRemove({}), res = "ok" => call.plan = <<>> PROVE PvInv'
  <2>1. UNCHANGED <<pvThere, pvUp, pvBox, pvArgs, pvBy>>
    BY <1>4, RemoveHolds
  <2>2. PICK told : told = [call EXCEPT !.plan = <<>>, !.at = "done", !.res = res]
    OBVIOUS
  <2>3. told.op = "stop" /\ told.torn = call.torn /\ told.res = res
    BY <1>2, <2>2 DEF PvCallSet
  <2>4. call.alone /\ res = "ok" /\ ~call.torn => pvThere = {}
    <3>1. call.plan = <<>> => Range(call.plan) = {}
      BY DEF Range
    <3> QED BY <1>2, <1>4, <3>1 DEF CallFits, StopIsDone
  <2>5. call.alone => AnswerFits(told)
    BY <2>3, <2>4 DEF AnswerFits
  <2> QED BY <1>1, <1>2, <1>4, <2>1, <2>2, <2>5, CallEnds
<1>5. ASSUME call.plan # <<>>, NEW torn \in BOOLEAN, NEW gone, gone = IF torn THEN {} ELSE PvRemoved(Head(call.plan)),
             PvRemove(gone),
             pvCall' = [pvCall EXCEPT ![c] = [call EXCEPT !.plan = Tail(call.plan), !.torn = torn \/ call.torn]]
      PROVE  PvInv'
  <2>1. PICK rest \in Seq(PvSteps), r \in StopSteps : /\ rest = Tail(call.plan) /\ r = Head(call.plan)
                                                     /\ Range(call.plan) = {r} \cup Range(rest)
    <3>1. Tail(call.plan) \in Seq(PvSteps) /\ Range(call.plan) = {Head(call.plan)} \cup Range(Tail(call.plan))
      BY <1>2, <1>5, RangeOfTail
    <3>2. Head(call.plan) \in StopSteps
      BY <3>1, <1>2
    <3> QED BY <3>1, <3>2
  <2>2. /\ Ahead(rest, PvContainers, PvVolumes \cup {"net"})
        /\ r \in PvVolumes \cup {"net"} => Range(call.plan) \cap PvContainers = {}
    BY <1>2, <1>5, <2>1, AheadOfTail
  <2>3. PICK new \in PvCallSet : new = [call EXCEPT !.plan = rest, !.torn = torn \/ call.torn]
    BY <1>2 DEF PvCallSet
  <2>4. pvCall' \in [PvCallers -> PvCallSet] /\ pvCall'[c] = new /\ \A d \in PvCallers \ {c} : pvCall'[d] = pvCall[d]
    BY <1>5, <2>1, <2>3 DEF PvInv, PvTypes
  <2>5. /\ new.at = "stop" /\ new.op = "stop" /\ new.plan = rest /\ new.torn = (torn \/ call.torn)
        /\ new.alone = call.alone /\ new.stopped = call.stopped
    BY <1>2, <2>3 DEF PvCallSet
  <2>6. r \in PvResources
    BY <2>1, NamesInSets DEF StopSteps
  <2>7. DockerIn' /\ DockerHolds' /\ pvThere' = pvThere \ gone
    BY <1>5, <2>1, <2>6, RemoveHolds
  <2>8. PlanFits(new)
    BY <1>2, <2>1, <2>2, <2>5 DEF PlanFits
  <2>9. call.alone => StopIsDone(new)'
    <3> SUFFICES ASSUME call.alone, ~torn, ~call.torn
                 PROVE  pvThere' \subseteq Range(rest) \cup IF "dirs" \in Range(rest) THEN {"config", "personas"} ELSE {}
      BY <2>5 DEF StopIsDone
    <3>1. pvThere \subseteq Range(call.plan) \cup IF "dirs" \in Range(call.plan) THEN {"config", "personas"} ELSE {}
      BY <1>2 DEF CallFits, StopIsDone
    <3>2. gone = PvRemoved(r)
      BY <1>5, <2>1
    <3>3. CASE r = "dirs"
      <4>1. gone = {"dirs", "config", "personas"}
        BY <2>6, <3>2, <3>3, RemovedIs
      <4>2. pvThere \subseteq Range(rest) \cup {"dirs", "config", "personas"}
        BY <2>1, <3>1, <3>3
      <4> QED BY <2>7, <4>1, <4>2
    <3>4. CASE r # "dirs"
      <4>1. r \in gone
        <5>1. CASE r \in PvContainers
          BY <5>1, <2>6, <3>2, RemovedIs
        <5>2. CASE r \in PvVolumes \cup {"net"}
          <6>1. pvThere \cap PvContainers = {}
            BY <5>2, <2>2, <3>1, NamesInSets
          <6>2. pvUp = {}
            BY <6>1 DEF PvInv, PvTypes, DockerHolds
          <6> QED BY <5>2, <6>1, <6>2, <2>6, <3>2, RemovedIs
        <5> QED BY <5>1, <5>2, <2>1, <3>4 DEF StopSteps
      <4> QED BY <4>1, <2>1, <2>7, <3>1, <3>4
    <3> QED BY <3>3, <3>4
  <2>10. pvCall[c].alone => CallFits(pvCall[c])'
    BY <1>1, <2>4, <2>5, <2>8, <2>9 DEF CallFits, StartIsDone, FoundOrMade, AnswerFits
  <2>11. PlanFits(pvCall'[c]) /\ (pvCall'[c].alone => pvCall[c].alone)
         /\ pvCall'[c].op = pvCall[c].op /\ pvCall'[c].stopped = pvCall[c].stopped /\ ~Unstopped(c)'
    BY <1>1, <1>2, <2>4, <2>5, <2>8 DEF Unstopped
  <2> QED BY <1>2, <1>3, <2>4, <2>7, <2>10, <2>11, OneWorks
<1>6. CASE call.plan = <<>> /\ PvEnd(c, "ok") /\ PvRemove({})
  BY <1>4, <1>6
<1>7. CASE PvEnd(c, "error") /\ PvRemove({})
  BY <1>4, <1>7
<1>8. CASE call.plan # <<>> /\ PvGoOn(c, {}) /\ PvRemove(PvRemoved(Head(call.plan)))
  <2>1. pvCall' = [pvCall EXCEPT ![c] = [call EXCEPT !.plan = Tail(call.plan), !.made = call.made \cup {}]]
    BY <1>1, <1>8 DEF PvGoOn
  <2>2. [call EXCEPT !.plan = Tail(call.plan), !.made = call.made \cup {}]
          = [call EXCEPT !.plan = Tail(call.plan), !.torn = FALSE \/ call.torn]
    BY DEF PvCallSet
  <2>3. pvCall' = [pvCall EXCEPT ![c] = [call EXCEPT !.plan = Tail(call.plan), !.torn = FALSE \/ call.torn]]
    BY <2>1, <2>2
  <2> QED BY <1>5, <1>8, <2>3
<1>9. CASE call.plan # <<>> /\ PvRemove({}) /\ pvCall' = [pvCall EXCEPT ![c].plan = Tail(@), ![c].torn = TRUE]
  <2>1. pvCall' = [pvCall EXCEPT ![c] = [call EXCEPT !.plan = Tail(call.plan), !.torn = TRUE \/ call.torn]]
    BY <1>1, <1>9
  <2> QED BY <1>5, <1>9, <2>1
<1> QED BY <1>1, <1>6, <1>7, <1>8, <1>9 DEF PvStop

\* What happens beside a call leaves it its plan, and it is alone no more.
LEMMA DisturbedFits ==
  ASSUME NEW call \in PvCallSet, PlanFits(call), NEW new, NEW stopped \in BOOLEAN,
         new \in {PvIdle, PvDisturb(call), [PvDisturb(call) EXCEPT !.stopped = stopped]}
  PROVE  /\ new \in PvCallSet /\ ~new.alone /\ PlanFits(new)
         /\ new.at \notin {"idle", "done"} => new.at = call.at /\ new.op = call.op /\ new.made = call.made
         /\ new # PvIdle /\ call.at \notin {"idle", "done"} => new.at = call.at /\ new.op = call.op
<1>1. PvLoner(call) \in PvCallSet /\ [PvLoner(call) EXCEPT !.stopped = stopped] \in PvCallSet
  BY DEF PvLoner, PvCallSet
<1>2. PvIdle \in PvCallSet /\ ~PvIdle.alone /\ PvIdle.at = "idle" /\ PlanFits(PvIdle)
  BY IdleFits DEF CallFits
<1>3. [PvIdle EXCEPT !.stopped = stopped] \in PvCallSet
  BY <1>2 DEF PvCallSet
<1>4. CASE new = PvIdle
  BY <1>2, <1>4
<1>5. CASE new \in {PvLoner(call), [PvLoner(call) EXCEPT !.stopped = stopped]}
  <2>1. /\ new.at = call.at /\ new.op = call.op /\ new.made = call.made /\ new.plan = call.plan /\ new.fresh = call.fresh
        /\ ~new.alone /\ new.torn = call.torn /\ new.half = {}
    BY <1>5 DEF PvLoner, PvCallSet
  <2>2. PlanFits(new)
    BY <2>1 DEF PlanFits
  <2> QED BY <1>1, <1>5, <2>1, <2>2
<1>6. CASE call.at = "done" /\ new = [PvIdle EXCEPT !.stopped = stopped]
  <2>1. new.at = "idle" /\ ~new.alone
    BY <1>2, <1>6 DEF PvCallSet
  <2>2. PlanFits(new)
    BY <2>1 DEF PlanFits
  <2> QED BY <1>3, <1>6, <2>1, <2>2
<1> QED BY <1>4, <1>5, <1>6 DEF PvDisturb

\* Something happens to docker or to the service.
LEMMA EventStep ==
  ASSUME PvInv, NEW up \in SUBSET pvUp, NEW seed \in Selections, NEW calls,
         calls = PvDisturbed \/ calls = [c \in PvCallers |-> PvIdle], PvEvent(up, seed, calls)
  PROVE  PvInv'
<1>1. pvUp' = up /\ pvBox' = [pvBox EXCEPT !.seed = seed] /\ pvCall' = calls /\ UNCHANGED <<pvThere, pvArgs, pvBy, pvScene>>
  BY DEF PvEvent
<1>2. ASSUME NEW c \in PvCallers
      PROVE  /\ pvCall'[c] \in PvCallSet /\ ~pvCall'[c].alone /\ PlanFits(pvCall'[c])
             /\ Unstopped(c)' => Unstopped(c) /\ pvCall'[c].made = pvCall[c].made
             /\ PvBusy(c)' => PvBusy(c)
             /\ PvBusy(c)' /\ Unstopped(c) => Unstopped(c)'
  <2>1. PICK call \in PvCallSet : call = pvCall[c] /\ PlanFits(call)
    BY DEF PvInv, PvTypes, CallsFit, CallFits
  <2>2. PICK new : new = pvCall'[c] /\ new \in {PvIdle, PvDisturb(call)}
    BY <1>1, <2>1 DEF PvDisturbed
  <2>3. /\ new \in PvCallSet /\ ~new.alone /\ PlanFits(new)
        /\ new.at \notin {"idle", "done"} => new.at = call.at /\ new.op = call.op /\ new.made = call.made
    BY <2>1, <2>2, DisturbedFits
  <2>4. new.at \notin {"idle", "done"} => new.stopped = call.stopped
    BY <2>2, IdleFits DEF PvDisturb, PvLoner, PvCallSet
  <2> QED BY <2>1, <2>2, <2>3, <2>4 DEF Unstopped, PvBusy
<1>3. PvTypes'
  <2>1. pvCall' \in [PvCallers -> PvCallSet]
    BY <1>1, <1>2 DEF PvDisturbed
  <2> QED BY <1>1, <2>1 DEF PvInv, PvTypes, PvBoxes
<1>4. DockerHolds'
  BY <1>1 DEF DockerHolds, PvInv
<1>5. CallsFit'
  BY <1>2, OthersFit DEF CallsFit
<1>6. LonersAreAlone'
  BY <1>2 DEF LonersAreAlone
<1>7. StopsSpread'
  BY <1>2 DEF StopsSpread, PvInv
<1>8. OwnersHold'
  BY <1>1, <1>2 DEF OwnersHold, PvInv
<1> QED BY <1>3, <1>4, <1>5, <1>6, <1>7, <1>8 DEF PvInv

\* A thread takes a call.
LEMMA RequestStep ==
  ASSUME PvInv, NEW c \in PvCallers, NEW op \in {"start", "stop"}, NEW mode \in PvModes, NEW world \in PvWorlds,
         PvRequest(c, op, mode, world)
  PROVE  PvInv'
<1>1. /\ ~PvBusy(c) /\ UNCHANGED <<pvThere, pvUp, pvBox, pvArgs, pvBy, pvScene>>
  BY DEF PvRequest
<1>2. PICK alone \in BOOLEAN : alone = \A e \in PvCallers \ {c} : ~PvBusy(e)
  OBVIOUS
<1>3. PICK stopped \in BOOLEAN :
        stopped = \E e \in PvCallers \ {c} : PvBusy(e) /\ (pvCall[e].op = "stop" \/ pvCall[e].stopped)
  OBVIOUS
<1>4. PICK new : new = [PvIdle EXCEPT !.op = op, !.mode = mode, !.world = world,
                        !.at = IF op = "start" THEN "inspect" ELSE "stop",
                        !.plan = IF op = "start" THEN <<>> ELSE StopPlan,
                        !.found = IF alone THEN pvThere ELSE {}, !.alone = alone, !.stopped = stopped]
  OBVIOUS
<1>5. pvCall' = [d \in PvCallers |->
        IF d = c THEN new ELSE [PvDisturb(pvCall[d]) EXCEPT !.stopped = PvBusy(d) /\ (@ \/ op = "stop")]]
  BY <1>2, <1>3, <1>4 DEF PvRequest
<1>6. new \in PvCallSet
  <2>1. <<>> \in Seq(PvSteps) /\ StopPlan \in Seq(PvSteps) /\ pvThere \subseteq PvResources
    BY StopPlanFits DEF PvInv, PvTypes
  <2> QED BY <1>4, <2>1, IdleFits DEF PvCallSet
<1>7. /\ new.op = op /\ new.at = (IF op = "start" THEN "inspect" ELSE "stop") /\ new.alone = alone
      /\ new.plan = (IF op = "start" THEN <<>> ELSE StopPlan) /\ new.made = {} /\ new.half = {} /\ ~new.torn
      /\ new.found = (IF alone THEN pvThere ELSE {}) /\ new.stopped = stopped
  BY <1>4 DEF PvIdle
<1>8. PlanFits(new)
  BY <1>7, StopPlanFits DEF PlanFits
<1>9. CallFits(new)'
  <2>1. FoundOrMade(new)'
    BY <1>1, <1>7 DEF FoundOrMade, PvInv, DockerHolds
  <2>2. StopIsDone(new)'
    <3>1. "dirs" \in StopSteps /\ PvResources \subseteq StopSteps \cup {"config", "personas"}
      BY NamesInSets DEF StopSteps
    <3>2. pvThere \subseteq StopSteps \cup {"config", "personas"}
      BY <3>1 DEF PvInv, PvTypes
    <3>3. new.at = "stop" => Range(new.plan) = StopSteps
      BY <1>7, StopPlanFits
    <3> QED BY <1>1, <3>1, <3>2, <3>3 DEF StopIsDone
  <2>3. new.at # "start" /\ new.at # "done"
    BY <1>7
  <2> QED BY <1>8, <2>1, <2>2, <2>3 DEF CallFits, StartIsDone, AnswerFits
<1>10. ASSUME NEW d \in PvCallers \ {c}
       PROVE  /\ pvCall'[d] \in PvCallSet /\ ~pvCall'[d].alone /\ PlanFits(pvCall'[d])
              /\ Unstopped(d)' => Unstopped(d) /\ pvCall'[d].made = pvCall[d].made /\ op = "start"
              /\ PvBusy(d)' <=> PvBusy(d)
              /\ Unstopped(d) /\ op = "start" => Unstopped(d)'
  <2>1. PICK call \in PvCallSet : call = pvCall[d] /\ PlanFits(call)
    BY DEF PvInv, PvTypes, CallsFit, CallFits
  <2>2. PICK by \in BOOLEAN : by = (PvBusy(d) /\ (PvDisturb(call).stopped \/ op = "stop"))
    OBVIOUS
  <2>3. PICK told : told = pvCall'[d] /\ told = [PvDisturb(call) EXCEPT !.stopped = by]
    BY <1>5, <2>1, <2>2
  <2>4. /\ told \in PvCallSet /\ ~told.alone /\ PlanFits(told)
        /\ told.at \notin {"idle", "done"} => told.at = call.at /\ told.op = call.op /\ told.made = call.made
    BY <2>1, <2>3, DisturbedFits
  <2>5. /\ call.at = "done" => told.at = "idle"
        /\ call.at # "done" => told.at = call.at /\ PvDisturb(call).stopped = call.stopped
        /\ told.stopped = by
    BY <2>3 DEF PvDisturb, PvLoner, PvCallSet, PvIdle
  <2>6. PvBusy(d)' <=> PvBusy(d)
    BY <2>1, <2>3, <2>5 DEF PvBusy
  <2>7. PvBusy(d) => (told.stopped <=> (call.stopped \/ op = "stop"))
    BY <2>1, <2>2, <2>5 DEF PvBusy
  <2>8. PvBusy(d) => told.op = call.op /\ told.made = call.made
    BY <2>1, <2>4, <2>5 DEF PvBusy
  <2> QED BY <2>1, <2>3, <2>4, <2>6, <2>7, <2>8 DEF Unstopped
<1>11. pvCall'[c] = new /\ PvBusy(c)' /\ (Unstopped(c)' <=> op = "start" /\ ~stopped)
  BY <1>5, <1>7 DEF Unstopped, PvBusy
<1>12. PvTypes'
  <2>1. pvCall' \in [PvCallers -> PvCallSet]
    <3>1. \A d \in PvCallers : pvCall'[d] \in PvCallSet
      BY <1>6, <1>10, <1>11
    <3> QED BY <1>5, <3>1
  <2> QED BY <1>1, <2>1 DEF PvInv, PvTypes
<1>13. DockerHolds'
  BY <1>1 DEF DockerHolds, PvInv
<1>14. CallsFit'
  BY <1>9, <1>10, <1>11, OthersFit DEF CallsFit
<1>15. LonersAreAlone'
  <2> SUFFICES ASSUME NEW d \in PvCallers, NEW e \in PvCallers, d # e, pvCall'[d].alone PROVE ~PvBusy(e)'
    BY DEF LonersAreAlone
  <2>1. d = c /\ alone
    BY <1>7, <1>10, <1>11
  <2> QED BY <1>2, <1>10, <2>1
<1>16. ASSUME NEW d \in PvCallers \ {c}, PvBusy(d) PROVE stopped \/ Unstopped(d)
  <2>1. PICK call \in PvCallSet : call = pvCall[d] /\ PlanFits(call)
    BY DEF PvInv, PvTypes, CallsFit, CallFits
  <2>2. call.op \in {"start", "stop"}
    BY <1>16, <2>1 DEF PvCallSet, PlanFits, PvBusy
  <2> QED BY <1>3, <1>16, <2>1, <2>2 DEF Unstopped
<1>17. StopsSpread'
  <2> SUFFICES ASSUME NEW d \in PvCallers, NEW e \in PvCallers, d # e, Unstopped(d)', PvBusy(e)' PROVE Unstopped(e)'
    BY DEF StopsSpread
  <2>1. CASE d = c
    BY <1>10, <1>11, <1>16, <2>1
  <2>2. CASE d # c /\ e # c
    BY <1>10, <2>2 DEF PvInv, StopsSpread
  <2>3. CASE d # c /\ e = c
    <3>1. Unstopped(d) /\ op = "start"
      BY <1>10, <2>3
    <3>2. \A x \in PvCallers \ {c} : PvBusy(x) => pvCall[x].op # "stop" /\ ~pvCall[x].stopped
      BY <3>1, <2>3 DEF PvInv, StopsSpread, Unstopped
    <3>3. ~stopped
      BY <1>3, <3>2
    <3> QED BY <1>11, <2>3, <3>1, <3>3
  <2> QED BY <2>1, <2>2, <2>3
<1>18. OwnersHold'
  BY <1>1, <1>7, <1>10, <1>11 DEF OwnersHold, PvInv
<1> QED BY <1>12, <1>13, <1>14, <1>15, <1>17, <1>18 DEF PvInv

LEMMA PvInvStart == PvInit => PvInv
<1> SUFFICES ASSUME PvInit PROVE PvInv
  OBVIOUS
<1>1. NoBox \in PvBoxes /\ NoBox.seed \in Selections
  <2>1. "self" \in PvModes /\ NoWorld \in PvWorlds
    BY DEF PvModes, PvWorlds
  <2> QED BY <2>1, SelectionIn
<1>2. PvTypes
  BY <1>1, IdleFits DEF PvInit, PvTypes
<1>3. DockerHolds
  BY DEF PvInit, DockerHolds
<1>4. \A c \in PvCallers : CallFits(pvCall[c]) /\ ~pvCall[c].alone /\ ~PvBusy(c)
  BY IdleFits DEF PvInit, PvBusy
<1>5. CallsFit /\ LonersAreAlone /\ StopsSpread /\ OwnersHold
  BY <1>4 DEF CallsFit, LonersAreAlone, StopsSpread, OwnersHold, Unstopped
<1> QED BY <1>2, <1>3, <1>5 DEF PvInv

LEMMA PvInvStep == PvInv /\ [PvNext]_pvVars => PvInv'
<1> SUFFICES ASSUME PvInv, [PvNext]_pvVars PROVE PvInv'
  OBVIOUS
<1>1. pvScene.callers \subseteq PvCallers /\ pvScene.modes \subseteq PvModes /\ pvScene.worlds \subseteq PvWorlds
      /\ "self" \in PvModes /\ NoWorld \in PvWorlds
  BY ScenesHaveCallers DEF PvInv, PvTypes, PvModes, PvWorlds
<1>2. CASE \E c \in pvScene.callers : \E m \in pvScene.modes, w \in pvScene.worlds : PvRequest(c, "start", m, w)
  BY <1>1, <1>2, RequestStep
<1>3. CASE \E c \in pvScene.callers : PvRequest(c, "stop", "self", NoWorld)
  BY <1>1, <1>3, RequestStep
<1>4. ASSUME NEW c \in pvScene.callers, PvWork(c) PROVE PvInv'
  <2>1. c \in PvCallers
    BY <1>1
  <2> QED BY <1>4, <2>1, InspectStep, PreflightStep, StageFileStep, MakeThingStep, CreateContainerStep, WakeBoxStep,
             EnsureSidecarStep, WaitHealthyStep, SeedBridgeStep, AnswerStep, UndoStep, StopStep DEF PvWork
<1>5. NoBox.seed \in Selections /\ pvBox.seed \in Selections
  BY <1>1, SelectionIn DEF PvInv, PvTypes, PvBoxes
<1>6. CASE PvRestarts
  BY <1>5, <1>6, EventStep DEF PvRestarts
<1>7. ASSUME NEW r \in PvContainers, StoppedByHand(r) PROVE PvInv'
  <2>1. PICK up \in SUBSET pvUp, seed \in Selections : PvEvent(up, seed, PvDisturbed)
    BY <1>5, <1>7 DEF StoppedByHand
  <2> QED BY <2>1, EventStep
<1>8. CASE ServiceDies
  BY <1>5, <1>8, EventStep DEF ServiceDies
<1>9. CASE UNCHANGED pvVars
  <2>1. UNCHANGED <<pvThere, pvUp, pvBox, pvArgs, pvBy, pvCall, pvScene>>
    BY <1>9 DEF pvVars
  <2>2. PvTypes' /\ DockerHolds' /\ LonersAreAlone' /\ StopsSpread' /\ OwnersHold'
    BY <2>1 DEF PvInv, PvTypes, DockerHolds, LonersAreAlone, StopsSpread, OwnersHold, Unstopped, PvBusy
  <2>3. CallsFit'
    BY <2>1 DEF PvInv, CallsFit, CallFits, StartIsDone, FreshDone, ExistingDone, FoundOrMade, StopIsDone, AnswerFits
  <2> QED BY <2>2, <2>3 DEF PvInv
<1> QED BY <1>2, <1>3, <1>4, <1>6, <1>7, <1>8, <1>9 DEF PvNext

LEMMA PvInvAlways == PvSpec => []PvInv
BY PvInvStart, PvInvStep, PTL DEF PvSpec

\* What an answer of the provisioner says is there, whatever the sidecars, the
\* threads, the faults of docker and the calls beside it (AnswersAreTrue).
THEOREM AnswersAlwaysTrue == PvSpec => []AnswersAreTrue
<1>1. PvInv => AnswersAreTrue
  <2> SUFFICES ASSUME PvInv PROVE AnswersAreTrue
    OBVIOUS
  <2>1. \A c \in PvCallers : AnswerFits(pvCall[c])
    BY DEF PvInv, CallsFit, CallFits
  <2>2. OkIsWhole
    BY <2>1 DEF AnswerFits, OkIsWhole, PvSettled
  <2>3. FailedIsGone
    BY <2>1 DEF AnswerFits, FailedIsGone, PvSettled
  <2>4. StopLeavesNothing
    BY <2>1 DEF AnswerFits, StopLeavesNothing, PvSettled
  <2> QED BY <2>2, <2>3, <2>4 DEF AnswersAreTrue
<1> QED BY <1>1, PvInvAlways, PTL

\* A rollback takes away no container another call made, unless a stop ran at
\* the same time, or beside a call it ran beside (RollbackSparesOthers).
LEMMA SparesOthers ==
  ASSUME PvInv, [PvNext]_pvVars, NEW c \in PvCallers, NEW r \in PvContainers,
         pvCall[c].at = "rollback", pvCall'[c] # pvCall[c], pvCall'[c].at \in {"rollback", "done"},
         r \in pvThere, r \notin pvThere', ~pvCall[c].stopped
  PROVE  pvBy[r] = c
<1>1. pvScene.callers \subseteq PvCallers
  BY ScenesHaveCallers DEF PvInv, PvTypes
<1>2. Unstopped(c)
  BY DEF PvInv, CallsFit, CallFits, PlanFits, Unstopped, PvBusy
<1>3. ASSUME NEW d \in PvCallers, PvWork(d) PROVE pvBy[r] = c
  <2>1. CASE PvUndo(d)
    <3>1. d = c
      <4>1. CASE d # c
        <5>1. pvCall'[c] = pvCall[c]
          BY <2>1, <4>1 DEF PvUndo, PvEnd, PvInv, PvTypes
        <5> QED BY <5>1
      <4> QED BY <4>1
    <3>2. PICK x \in pvCall[c].made : PvTurn(x, pvCall[c].made) /\ (PvRemove(PvRemoved(x)) \/ PvRemove({}))
      <4>1. ~PvRemove({})
        BY DEF PvRemove
      <4> QED BY <2>1, <3>1, <4>1 DEF PvUndo
    <3>3. x \in PvResources
      BY <3>2 DEF PvInv, PvTypes, PvCallSet
    <3>4. r \in PvRemoved(x)
      BY <3>2 DEF PvRemove
    <3>5. r = x
      BY <3>3, <3>4, RemovedIs
    <3> QED BY <1>2, <3>2, <3>5 DEF PvInv, OwnersHold
  <2>2. CASE PvStop(d)
    <3>1. pvCall[d].at = "stop" /\ pvCall[d].op = "stop" /\ d # c
      BY <2>2 DEF PvStop, PvInv, CallsFit, CallFits, PlanFits
    <3> QED BY <1>2, <3>1 DEF PvInv, StopsSpread, Unstopped, PvBusy
  <2>3. CASE /\ ~PvUndo(d) /\ ~PvStop(d)
    <3>1. pvThere \subseteq pvThere'
      BY <1>3, <2>3 DEF PvWork, Inspect, Preflight, StageFile, MakeThing, CreateContainer, RunContainer, WakeBox, EnsureSidecar,
         WaitHealthy, SeedBridge, PvAnswer
    <3> QED BY <3>1
  <2> QED BY <2>1, <2>2, <2>3
<1>4. CASE PvRestarts \/ (\E x \in PvContainers : StoppedByHand(x)) \/ ServiceDies
  BY <1>4 DEF PvRestarts, StoppedByHand, ServiceDies, PvEvent
<1>5. ASSUME NEW d \in PvCallers, NEW op, NEW mode, NEW world, PvRequest(d, op, mode, world) PROVE pvBy[r] = c
  BY <1>5 DEF PvRequest
<1>6. CASE UNCHANGED pvVars
  BY <1>6 DEF pvVars
<1> QED BY <1>1, <1>3, <1>4, <1>5, <1>6 DEF PvNext

THEOREM RollbackAlwaysSparesOthers == PvSpec => RollbackSparesOthers
<1>1. PvInv /\ [PvNext]_pvVars =>
        [\A c \in PvCallers, r \in PvContainers :
           pvCall[c].at = "rollback" /\ pvCall'[c] # pvCall[c] /\ pvCall'[c].at \in {"rollback", "done"}
             /\ r \in pvThere /\ r \notin pvThere' /\ ~pvCall[c].stopped => pvBy[r] = c]_pvVars
  BY SparesOthers
<1> QED BY <1>1, PvInvAlways, PTL DEF PvSpec, RollbackSparesOthers
=============================================================================
