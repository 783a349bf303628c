-------------------------- MODULE RefereeApiProofs --------------------------
(***************************************************************************)
(* Machine-checked proofs about the match state (RefereeMatch) and what    *)
(* RefereeApi's handlers do around it, for every set of players and match  *)
(* ids, every HQ start value, every number of concurrent handlers and      *)
(* every bound: the round, the records they store, the waves they push and *)
(* the requests they fan out.                                              *)
(***************************************************************************)
EXTENDS RefereeApi, SequenceTheorems, TLAPS

-----------------------------------------------------------------------------
(* Type correctness.                                                       *)

LEMMA OpponentType ==
  ASSUME NEW w \in Worlds
  PROVE  Opponent(w) \in Worlds /\ Opponent(w) # w
BY DEF Worlds, Opponent

\* A batch made by an accepted send is a batch.
LEMMA RoutedType ==
  ASSUME TypeOK, NEW w \in Worlds, NEW level \in BOOLEAN
  PROVE  Routed(w, level) \subseteq Batch
BY OpponentType DEF Routed, NewBatch, Batch, TypeOK, Worlds

\* The empty queues and the absent reveal are well typed, and so is what every
\* start and reset leaves behind.
LEMMA FreshTypes ==
  /\ NoIncoming \in [Worlds -> SUBSET Batch]
  /\ NoReveal \in Reveals
  /\ HqStart \in 0 .. HqStart
BY HqStartPositive DEF NoIncoming, NoReveal, Reveals

LEMMA ForgetTypes ==
  ASSUME ForgetSends
  PROVE  /\ pending' \in [Worlds -> SUBSET Batch]
         /\ reveal' \in Reveals
         /\ nextId' \in Nat
         /\ sent' \subseteq Batch
         /\ revealed' \subseteq Batch \X Nat
BY FreshTypes DEF ForgetSends

LEMMA TypeInit == Init => TypeOK
<1> SUFFICES ASSUME Init PROVE TypeOK
  OBVIOUS
<1>1. /\ ready \in [Worlds -> BOOLEAN]
      /\ hq \in [Worlds -> 0 .. HqStart]
      /\ player \in [Worlds -> Players \union {Mirror, None}]
      /\ matchId \in [Worlds -> MatchIds \union {None}]
  BY FreshTypes DEF Init, AllWorlds
<1> QED BY <1>1, FreshTypes DEF Init, TypeOK, Modes, Phases

\* Every action keeps the types (type correctness of the match state).
LEMMA TypeStep == TypeOK /\ [Next]_vars => TypeOK'
<1> SUFFICES ASSUME TypeOK, [Next]_vars PROVE TypeOK'
  OBVIOUS
<1> USE DEF TypeOK, Modes, Phases
<1>1. ASSUME NEW w \in Worlds, NEW p \in Players, NEW m \in MatchIds \union {None},
             LobbyRegister(w, p, m)
      PROVE  TypeOK'
  BY <1>1 DEF LobbyRegister, flowVars, sendVars
<1>2. ASSUME NEW w \in Worlds, Ready(w) PROVE TypeOK'
  <2>1. ready' \in [Worlds -> BOOLEAN]
    BY <1>2 DEF Ready
  <2>2. CASE Start
    BY <1>2, <2>1, <2>2, ForgetTypes DEF Start
  <2>3. CASE ~Start
    BY <1>2, <2>1, <2>3 DEF Ready, flowVars, sendVars
  <2> QED BY <2>2, <2>3
<1>3. CASE Go
  BY <1>3, ForgetTypes DEF Go, Start
<1>4. ASSUME NEW p \in Players, StartSp(p) PROVE TypeOK'
  <2>1. /\ ready' \in [Worlds -> BOOLEAN]
        /\ hq' \in [Worlds -> 0 .. HqStart]
        /\ player' \in [Worlds -> Players \union {Mirror, None}]
        /\ matchId' \in [Worlds -> MatchIds \union {None}]
    BY <1>4, FreshTypes DEF StartSp, ClearEcho, AllWorlds
  <2>2. /\ mode' \in Modes /\ phase' \in Phases
        /\ round' \in Nat /\ roundsDone' \in Nat /\ rematches' \in Nat
        /\ winner' \in Worlds \union {None} /\ paused' \in BOOLEAN
        /\ ForgetSends
    BY <1>4 DEF StartSp, ClearEcho
  <2> QED BY <2>1, <2>2, ForgetTypes
<1>5. CASE Rematch
  <2>1. /\ ready' \in [Worlds -> BOOLEAN]
        /\ hq' \in [Worlds -> 0 .. HqStart]
        /\ matchId' \in [Worlds -> MatchIds \union {None}]
    BY <1>5, FreshTypes DEF Rematch, Unready, ClearEcho, AllWorlds
  <2>2. /\ phase' \in Phases /\ round' \in Nat /\ roundsDone' \in Nat
        /\ winner' \in Worlds \union {None} /\ paused' \in BOOLEAN
    BY <1>5 DEF Rematch, Unready, ClearEcho
  <2>3. rematches' \in Nat
    BY <1>5 DEF Rematch, Unready, ClearEcho
  <2>4. ForgetSends /\ mode' = mode /\ player' = player
    BY <1>5 DEF Rematch, Unready, ClearEcho
  <2> QED BY <2>1, <2>2, <2>3, <2>4, ForgetTypes
<1>6. ASSUME NEW w \in Worlds, NEW level \in BOOLEAN, RouteSend(w, level)
      PROVE  TypeOK'
  BY <1>6, RoutedType DEF RouteSend, teamVars, flowVars
<1>7. ASSUME NEW w \in Worlds, WaveStart(w) PROVE TypeOK'
  <2>1. /\ OpenReveal \in Reveals
        /\ Locks(w) \subseteq Worlds
        /\ \A v \in Worlds : Due(v) \subseteq Batch
    BY DEF OpenReveal, NoIncoming, Locks, Due, Reveals
  <2>2. /\ pending' \in [Worlds -> SUBSET Batch]
        /\ reveal' \in Reveals
    BY <1>7, <2>1 DEF WaveStart, Reveals
  <2>3. revealed' \subseteq Batch \X Nat
    <3>1. UNION {Due(v) : v \in Locks(w)} \subseteq Batch
      BY <2>1
    <3>2. {<<b, round>> : b \in UNION {Due(v) : v \in Locks(w)}} \subseteq Batch \X Nat
      BY <3>1
    <3> QED BY <1>7, <3>2 DEF WaveStart
  <2>4. round' \in Nat /\ roundsDone' \in Nat
    BY <1>7 DEF WaveStart
  <2> QED BY <1>7, <2>2, <2>3, <2>4 DEF WaveStart, teamVars
<1>8. ASSUME NEW w \in Worlds, NEW hp \in 0 .. HqStart + 1, ReportHq(w, hp)
      PROVE  TypeOK'
  <2>1. hq' \in [Worlds -> 0 .. HqStart]
    BY <1>8, HqStartPositive DEF ReportHq, Clamped, Destroyed, Running
  <2> QED BY <1>8, <2>1, OpponentType DEF ReportHq, Clamped, Destroyed, Running, sendVars
<1>9. CASE Pause \/ Resume
  BY <1>9 DEF Pause, Resume, SetPaused, teamVars, sendVars
<1>10. CASE UNCHANGED vars
  BY <1>10 DEF vars, flowVars, teamVars, sendVars
<1> QED BY <1>1, <1>2, <1>3, <1>4, <1>5, <1>6, <1>7, <1>8, <1>9, <1>10 DEF Next

\* Type correctness: every reachable match state is well typed.
THEOREM TypeCorrect == Spec => []TypeOK
<1> QED BY TypeInit, TypeStep, PTL DEF Spec
-----------------------------------------------------------------------------
(* The round loop: the inductive invariant.                                *)

SendsInv ==
  /\ StampsAreCurrent
  /\ SendsConserved
  /\ SendsHitNextWave
  /\ NothingRevealedBeforeLock
  /\ RevealIsWhatWasDrained

IInv == TypeOK /\ RoundsInLockstep /\ SendsInv

\* A start or a reset satisfies the invariant of the sends vacuously.
LEMMA SendsForgotten ==
  ASSUME ForgetSends, TypeOK', RoundsInLockstep'
  PROVE  SendsInv'
<1>1. /\ reveal'.round = 0
      /\ \A w \in Worlds : pending'[w] = {} /\ reveal'.incoming[w] = {}
  BY DEF ForgetSends, NoReveal, NoIncoming
<1>2. InMatch' => round' # 0
  <2>1. roundsDone' \in Nat
    BY DEF TypeOK
  <2>2. InMatch' => round' = roundsDone' + 1
    BY DEF RoundsInLockstep, InMatch
  <2> QED BY <2>1, <2>2 DEF InMatch
<1> QED
  BY <1>1, <1>2 DEF SendsInv, StampsAreCurrent, SendsConserved, SendsHitNextWave,
     NothingRevealedBeforeLock, RevealIsWhatWasDrained, ForgetSends

\* So does a step that touches neither the sends nor the round.
LEMMA SendsUntouched ==
  ASSUME SendsInv, UNCHANGED <<sendVars, round, mode>>, InMatch' => InMatch
  PROVE  SendsInv'
<1> USE DEF SendsInv, sendVars
<1>1. StampsAreCurrent'
  BY DEF StampsAreCurrent, Locked
<1>2. SendsConserved'
  BY DEF SendsConserved
<1>3. SendsHitNextWave'
  BY DEF SendsHitNextWave
<1>4. NothingRevealedBeforeLock'
  BY DEF NothingRevealedBeforeLock, Locked
<1>5. RevealIsWhatWasDrained'
  BY DEF RevealIsWhatWasDrained
<1> QED BY <1>1, <1>2, <1>3, <1>4, <1>5

\* In a running match a wave start drains everything that is queued, and the
\* world it locks has no reveal in this round yet.
LEMMA DueIsPending ==
  ASSUME IInv, NEW w \in Worlds
  PROVE  Due(w) = pending[w]
BY DEF IInv, SendsInv, StampsAreCurrent, Due, TypeOK

\* An accepted send keeps the invariant: its batches are new, carry the current
\* round and are queued once.
LEMMA RouteSendKeeps ==
  ASSUME IInv, NEW w \in Worlds, NEW level \in BOOLEAN, RouteSend(w, level)
  PROVE  RoundsInLockstep' /\ SendsInv'
<1> DEFINE R == Routed(w, level)
<1> USE DEF IInv, SendsInv
<1>1. /\ InMatch /\ InMatch'
      /\ UNCHANGED <<round, roundsDone, mode, reveal, revealed, phase>>
      /\ sent' = sent \union R /\ nextId' = nextId + 2
      /\ \A v \in Worlds : pending'[v] = pending[v] \union {b \in R : b.to = v}
  BY DEF RouteSend, Running, InMatch, flowVars
<1>2. \A b \in R : /\ b \in Batch /\ b.round = round /\ b.id \in {nextId, nextId + 1}
                   /\ b \notin sent
  <2>1. R \subseteq Batch
    BY RoutedType
  <2>2. \A b \in R : b.round = round /\ b.id \in {nextId, nextId + 1}
    BY DEF Routed, NewBatch
  <2>3. \A b \in sent : b.id < nextId
    BY DEF NothingRevealedBeforeLock
  <2> QED BY <2>1, <2>2, <2>3 DEF TypeOK, Batch
<1>3. round \in Nat /\ round # 0
  BY <1>1 DEF RoundsInLockstep, TypeOK
<1>4. RoundsInLockstep'
  BY <1>1 DEF RoundsInLockstep
<1>5. StampsAreCurrent'
  BY <1>1, <1>2, <1>3 DEF StampsAreCurrent, Locked
<1>6. SendsConserved'
  <2>1. \A v \in Worlds : pending'[v] \subseteq sent'
    BY <1>1 DEF SendsConserved
  <2>2. \A x \in revealed' : x[1] \in sent' /\ x[1] \notin pending'[x[1].to]
    BY <1>1, <1>2 DEF SendsConserved, TypeOK, Batch
  <2>3. \A b \in sent' : b \in pending'[b.to] \/ \E x \in revealed' : x[1] = b
    BY <1>1, <1>2 DEF SendsConserved, TypeOK, Batch
  <2> QED BY <1>1, <2>1, <2>2, <2>3 DEF SendsConserved
<1>7. SendsHitNextWave'
  BY <1>1 DEF SendsHitNextWave
<1>8. NothingRevealedBeforeLock'
  BY <1>1, <1>2 DEF NothingRevealedBeforeLock, Locked, TypeOK, Batch
<1>9. RevealIsWhatWasDrained'
  <2>1. \A b \in R, r \in Nat : <<b, r>> \notin revealed
    BY <1>2 DEF SendsConserved
  <2> QED BY <1>1, <2>1 DEF RevealIsWhatWasDrained, TypeOK, Reveals
<1> QED BY <1>4, <1>5, <1>6, <1>7, <1>8, <1>9

\* A wave start keeps the invariant.  In a duel it locks one world of the open
\* round and may complete the reveal; in a solo match it locks both at once.
LEMMA WaveStartKeeps ==
  ASSUME IInv, NEW w \in Worlds, WaveStart(w)
  PROVE  RoundsInLockstep' /\ SendsInv'
<1> DEFINE L == Locks(w)
<1> USE DEF IInv, SendsInv
<1>1. /\ InMatch /\ InMatch' /\ UNCHANGED <<mode, phase, sent, nextId>>
      /\ w \in L /\ L \subseteq Worlds /\ (L = {w} \/ (L = Worlds /\ mode = "sp"))
      /\ reveal'.round = round
      /\ reveal'.locked = OpenReveal.locked \union L
      /\ \A v \in Worlds : /\ pending'[v] = IF v \in L THEN {} ELSE pending[v]
                           /\ reveal'.incoming[v] = IF v \in L THEN pending[v]
                                                    ELSE OpenReveal.incoming[v]
      /\ revealed' = revealed \union {<<b, round>> : b \in UNION {pending[v] : v \in L}}
  <2>1. /\ InMatch /\ InMatch' /\ UNCHANGED <<mode, phase, sent, nextId>>
        /\ w \in L /\ L \subseteq Worlds /\ (L = {w} \/ (L = Worlds /\ mode = "sp"))
    BY DEF WaveStart, Running, InMatch, Locks
  <2>2. \A v \in Worlds : Due(v) = pending[v]
    BY DueIsPending
  <2>3. /\ reveal'.round = round
        /\ reveal'.locked = OpenReveal.locked \union L
        /\ \A v \in Worlds : reveal'.incoming[v] = IF v \in L THEN pending[v]
                                                   ELSE OpenReveal.incoming[v]
    BY <2>2 DEF WaveStart
  <2>4. \A v \in Worlds : pending'[v] = IF v \in L THEN {} ELSE pending[v]
    BY <2>2 DEF WaveStart
  <2>5. UNION {Due(v) : v \in L} = UNION {pending[v] : v \in L}
    BY <2>1, <2>2
  <2>6. revealed' = revealed \union {<<b, round>> : b \in UNION {pending[v] : v \in L}}
    BY <2>5 DEF WaveStart
  <2> QED BY <2>1, <2>3, <2>4, <2>6
<1>2. /\ round \in Nat /\ round # 0 /\ round = roundsDone + 1 /\ roundsDone \in Nat
      /\ OpenReveal.locked # Worlds /\ OpenReveal.locked \subseteq Worlds
      /\ \A v \in L : ~Locked(v)
      /\ \A v \in Worlds : Locked(v) <=> v \in OpenReveal.locked
  <2>1. /\ round \in Nat /\ round = roundsDone + 1 /\ roundsDone \in Nat
    BY <1>1 DEF RoundsInLockstep, TypeOK
  <2>2. /\ OpenReveal.locked # Worlds /\ OpenReveal.locked \subseteq Worlds
        /\ \A v \in Worlds : Locked(v) <=> v \in OpenReveal.locked
    BY <1>1, <2>1 DEF RoundsInLockstep, TypeOK, OpenReveal, Reveals, Locked, NoReveal, Worlds
  <2>3. \A v \in L : ~Locked(v)
    BY <1>1 DEF WaveStart, Running, NothingRevealedBeforeLock, Locked
  <2> QED BY <2>1, <2>2, <2>3
<1>3. \/ reveal'.locked = Worlds /\ roundsDone' = round /\ round' = round + 1
      \/ reveal'.locked # Worlds /\ roundsDone' = roundsDone /\ round' = round
  BY DEF WaveStart
<1>4. RoundsInLockstep'
  BY <1>1, <1>2, <1>3 DEF RoundsInLockstep
<1>5. \A v \in Worlds : Locked(v)' => round' = round /\ (v \in L \/ Locked(v))
  BY <1>1, <1>2, <1>3 DEF Locked
<1>6. StampsAreCurrent'
  <2> SUFFICES ASSUME NEW v \in Worlds, NEW b \in pending'[v]
               PROVE  /\ b.to = v /\ b.round \in {round' - 1, round'} \ {0}
                      /\ Locked(v)' => b.round = round'
    BY DEF StampsAreCurrent
  <2>1. v \notin L /\ b \in pending[v]
    BY <1>1
  <2>2. b.to = v /\ b.round \in {round - 1, round} \ {0} /\ (Locked(v) => b.round = round)
    BY <2>1 DEF StampsAreCurrent
  <2>3. CASE round' = round
    BY <1>5, <2>1, <2>2, <2>3
  <2>4. CASE reveal'.locked = Worlds /\ round' = round + 1
    BY <1>1, <1>2, <1>5, <2>1, <2>2, <2>4
  <2> QED BY <1>3, <2>3, <2>4
<1>7. SendsConserved'
  <2>1. \A v \in Worlds : pending'[v] \subseteq pending[v]
    BY <1>1
  <2>2. ASSUME NEW x \in revealed'
        PROVE  \/ x \in revealed
               \/ x[2] = round /\ x[1].to \in L /\ x[1] \in pending[x[1].to] /\ x = <<x[1], round>>
    BY <1>1 DEF StampsAreCurrent
  <2>3. \A x \in revealed' : x[1] \in sent' /\ x[1] \notin pending'[x[1].to]
    BY <1>1, <2>1, <2>2 DEF SendsConserved, TypeOK, Batch
  <2>4. \A b \in sent' : b \in pending'[b.to] \/ \E x \in revealed' : x[1] = b
    <3> SUFFICES ASSUME NEW b \in sent, b \notin pending'[b.to]
                 PROVE  \E x \in revealed' : x[1] = b
      BY <1>1
    <3>1. b.to \in Worlds
      BY DEF TypeOK, Batch
    <3>2. CASE b \in pending[b.to]
      <4>1. <<b, round>> \in revealed'
        BY <1>1, <3>1, <3>2
      <4> QED BY <4>1
    <3>3. CASE b \notin pending[b.to]
      BY <1>1, <3>3 DEF SendsConserved
    <3> QED BY <3>2, <3>3
  <2>5. \A x, y \in revealed' : x[1] = y[1] => x = y
    BY <2>2 DEF SendsConserved
  <2> QED BY <1>1, <2>1, <2>3, <2>4, <2>5 DEF SendsConserved
<1>8. SendsHitNextWave'
  BY <1>1, <1>2 DEF SendsHitNextWave, StampsAreCurrent, TypeOK, Batch
<1>9. NothingRevealedBeforeLock'
  <2>1. \A x \in revealed' : \/ x \in revealed /\ x[2] \in 1 .. round
                             \/ x[2] = round /\ x[1].to \in L
    BY <1>1 DEF StampsAreCurrent, NothingRevealedBeforeLock
  <2>2. \A x \in revealed' : x[2] \in 1 .. round'
    BY <1>2, <1>3, <2>1
  <2>3. \A x \in revealed' : x[2] = round' => Locked(x[1].to)'
    <3> SUFFICES ASSUME NEW x \in revealed', x[2] = round' PROVE Locked(x[1].to)'
      OBVIOUS
    <3>1. round' = round
      BY <1>2, <1>3, <2>1
    <3>2. x[1].to \in L \/ Locked(x[1].to)
      BY <2>1, <3>1 DEF NothingRevealedBeforeLock
    <3> QED BY <1>1, <3>1, <3>2 DEF Locked, OpenReveal
  <2>4. mode' = "sp" /\ InMatch' => reveal'.round # round'
    BY <1>1, <1>2, <1>3 DEF NothingRevealedBeforeLock, WaveStart, Running, Locks
  <2> QED BY <1>1, <2>2, <2>3, <2>4 DEF NothingRevealedBeforeLock
<1>10. RevealIsWhatWasDrained'
  <2> SUFFICES ASSUME NEW v \in Worlds
               PROVE  reveal'.incoming[v] = {b \in sent : b.to = v /\ <<b, round>> \in revealed'}
    BY <1>1 DEF RevealIsWhatWasDrained
  <2>1. CASE v \in L
    <3>1. \A b \in sent : b.to = v => <<b, round>> \notin revealed
      BY <1>2, <2>1 DEF NothingRevealedBeforeLock
    <3> QED BY <1>1, <2>1, <3>1 DEF StampsAreCurrent, SendsConserved
  <2>2. CASE v \notin L
    <3>1. \A b \in sent : b.to = v => (<<b, round>> \in revealed' <=> <<b, round>> \in revealed)
      BY <1>1, <2>2 DEF StampsAreCurrent
    <3>2. CASE reveal.round = round
      BY <1>1, <2>2, <3>1, <3>2 DEF OpenReveal, RevealIsWhatWasDrained
    <3>3. CASE reveal.round # round
      <4>1. \A b \in sent : <<b, round>> \notin revealed
        BY <3>3 DEF NothingRevealedBeforeLock, Locked
      <4> QED BY <1>1, <2>2, <3>1, <3>3, <4>1 DEF OpenReveal, NoIncoming
    <3> QED BY <3>2, <3>3
  <2> QED BY <2>1, <2>2
<1> QED BY <1>4, <1>6, <1>7, <1>8, <1>9, <1>10

LEMMA IInvInit == Init => IInv
<1> SUFFICES ASSUME Init PROVE IInv
  OBVIOUS
<1>1. TypeOK
  BY TypeInit
<1>2. RoundsInLockstep
  BY DEF Init, RoundsInLockstep, InMatch
<1>3. SendsInv
  BY DEF Init, SendsInv, StampsAreCurrent, SendsConserved, SendsHitNextWave, InMatch,
     NothingRevealedBeforeLock, RevealIsWhatWasDrained, NoIncoming, NoReveal
<1> QED BY <1>1, <1>2, <1>3 DEF IInv

\* Every action keeps the inductive invariant of the round loop.
LEMMA IInvStep == IInv /\ [Next]_vars => IInv'
<1> SUFFICES ASSUME IInv, [Next]_vars PROVE RoundsInLockstep' /\ SendsInv'
  BY TypeStep DEF IInv
<1> USE DEF IInv
<1>1. TypeOK'
  BY TypeStep
<1>2. CASE UNCHANGED <<mode, round, roundsDone, sendVars>> /\ (InMatch' <=> InMatch)
  BY <1>2, SendsUntouched DEF RoundsInLockstep, sendVars
<1>3. CASE ForgetSends /\ InMatch' /\ round' = 1 /\ roundsDone' = 0
  <2>1. RoundsInLockstep'
    BY <1>3 DEF RoundsInLockstep, ForgetSends
  <2> QED BY <1>1, <1>3, <2>1, SendsForgotten
<1>4. CASE ForgetSends /\ ~InMatch' /\ round' = 0 /\ roundsDone' = 0
  <2>1. RoundsInLockstep'
    BY <1>4 DEF RoundsInLockstep, ForgetSends
  <2> QED BY <1>1, <1>4, <2>1, SendsForgotten
<1>5. ASSUME NEW w \in Worlds, NEW p \in Players, NEW m \in MatchIds \union {None},
             LobbyRegister(w, p, m)
      PROVE  RoundsInLockstep' /\ SendsInv'
  BY <1>2, <1>5 DEF LobbyRegister, flowVars, InMatch
<1>6. ASSUME Start, ~InMatch PROVE RoundsInLockstep' /\ SendsInv'
  <2>1. InMatch' /\ round' = 1 /\ roundsDone' = 0 /\ ForgetSends
    BY <1>6 DEF Start, InMatch, RoundsInLockstep
  <2> QED BY <1>3, <2>1
<1>7. ASSUME NEW w \in Worlds, Ready(w) PROVE RoundsInLockstep' /\ SendsInv'
  <2>1. ~InMatch
    BY <1>7 DEF Ready, InMatch
  <2>2. CASE Start
    BY <1>6, <2>1, <2>2
  <2>3. CASE ~Start
    <3>1. UNCHANGED <<mode, round, roundsDone, sendVars>> /\ ~InMatch'
      BY <1>7, <2>3 DEF Ready, flowVars, InMatch
    <3> QED BY <1>2, <2>1, <3>1
  <2> QED BY <2>2, <2>3
<1>8. CASE Go
  <2>1. Start /\ ~InMatch
    BY <1>8 DEF Go, InMatch
  <2> QED BY <1>6, <2>1
<1>9. ASSUME NEW p \in Players, StartSp(p) PROVE RoundsInLockstep' /\ SendsInv'
  BY <1>3, <1>9 DEF StartSp, ClearEcho, InMatch
<1>10. CASE Rematch
  BY <1>4, <1>10 DEF Rematch, Unready, ClearEcho, InMatch
<1>11. ASSUME NEW w \in Worlds, NEW hp \in 0 .. HqStart + 1, ReportHq(w, hp)
       PROVE  RoundsInLockstep' /\ SendsInv'
  BY <1>2, <1>11 DEF ReportHq, Clamped, Destroyed, Running, InMatch
<1>12. CASE Pause \/ Resume
  BY <1>2, <1>12 DEF Pause, Resume, SetPaused, InMatch
<1>13. CASE UNCHANGED vars
  BY <1>2, <1>13 DEF vars, flowVars, InMatch
<1> QED
  BY <1>5, <1>7, <1>8, <1>9, <1>10, <1>11, <1>12, <1>13, RouteSendKeeps,
     WaveStartKeeps DEF Next

LEMMA IInvAlways == Spec => []IInv
<1> QED BY IInvInit, IInvStep, PTL DEF Spec

\* The two worlds stay in lockstep: never a reveal of a later round, never a
\* world two waves ahead, for every number of rounds.
THEOREM LockstepAlways == Spec => []RoundsInLockstep
<1>1. IInv => RoundsInLockstep
  BY DEF IInv
<1> QED BY IInvAlways, <1>1, PTL

\* No accepted send is lost or revealed twice, however sends, wave starts, HQ
\* reports and resets interleave.
THEOREM SendsConservedAlways == Spec => []SendsConserved
<1>1. IInv => SendsConserved
  BY DEF IInv, SendsInv
<1> QED BY IInvAlways, <1>1, PTL

\* Every revealed send came out with the next wave of the world it went to.
THEOREM SendsHitNextWaveAlways == Spec => []SendsHitNextWave
<1>1. IInv => SendsHitNextWave
  BY DEF IInv, SendsInv
<1> QED BY IInvAlways, <1>1, PTL

\* What a reveal shows for a world is what that world's wave start drained.
THEOREM RevealAlways == Spec => []RevealIsWhatWasDrained
<1>1. IInv => RevealIsWhatWasDrained
  BY DEF IInv, SendsInv
<1> QED BY IInvAlways, <1>1, PTL

\* The round loop as a whole: the worlds keep in step, and each accepted send comes
\* out with the next wave of its world, once, however requests interleave.
THEOREM RoundsAlways == Spec => []RoundsCarrySends
<1>1. IInv => RoundsCarrySends
  BY DEF IInv, SendsInv, RoundsCarrySends
<1> QED BY IInvAlways, <1>1, PTL

-----------------------------------------------------------------------------
(* The verdict and the ready check.                                        *)

VerdictInv == TypeOK /\ VerdictMatchesHq /\ ReadyCheckNotForgotten

LEMMA VerdictInit == Init => VerdictInv
<1> SUFFICES ASSUME Init PROVE VerdictInv
  OBVIOUS
<1>1. VerdictMatchesHq
  BY HqStartPositive DEF Init, VerdictMatchesHq, AllWorlds
<1>2. ReadyCheckNotForgotten
  BY DEF Init, ReadyCheckNotForgotten, AllWorlds, InMatch, Worlds
<1> QED BY <1>1, <1>2, TypeInit DEF VerdictInv

\* Every action keeps verdict and ready check consistent.
LEMMA VerdictStep == VerdictInv /\ [Next]_vars => VerdictInv'
<1> SUFFICES ASSUME VerdictInv, [Next]_vars
             PROVE  VerdictMatchesHq' /\ ReadyCheckNotForgotten'
  BY TypeStep DEF VerdictInv
<1> USE NoneIsNoName DEF VerdictInv
<1>1. CASE UNCHANGED <<mode, phase, winner, hq, player, ready>>
  <2>1. VerdictMatchesHq'
    BY <1>1 DEF VerdictMatchesHq
  <2>2. ReadyCheckNotForgotten'
    BY <1>1 DEF ReadyCheckNotForgotten, BothRegistered, InMatch
  <2> QED BY <2>1, <2>2
<1>2. ASSUME UNCHANGED <<mode, hq, winner>>, phase # "finished", phase' # "finished"
      PROVE  VerdictMatchesHq'
  BY <1>2 DEF VerdictMatchesHq
<1>3. ASSUME winner' = None, phase' # "finished", hq' = AllWorlds(HqStart)
      PROVE  VerdictMatchesHq'
  BY <1>3, HqStartPositive DEF VerdictMatchesHq, AllWorlds
<1>4. ASSUME NEW w \in Worlds, NEW p \in Players, NEW m \in MatchIds \union {None},
             LobbyRegister(w, p, m)
      PROVE  VerdictMatchesHq' /\ ReadyCheckNotForgotten'
  <2>1. VerdictMatchesHq'
    BY <1>4 DEF LobbyRegister, flowVars, VerdictMatchesHq
  <2>2. ReadyCheckNotForgotten'
    BY <1>4 DEF LobbyRegister, flowVars, ReadyCheckNotForgotten, InMatch, TypeOK, Worlds
  <2> QED BY <2>1, <2>2
<1>5. ASSUME Start, BothRegistered, phase \in {"lobby", "ready"},
             \A w \in Worlds : ready'[w] => player[w] # None
      PROVE  VerdictMatchesHq' /\ ReadyCheckNotForgotten'
  <2>1. VerdictMatchesHq'
    BY <1>5 DEF Start, VerdictMatchesHq
  <2>2. ReadyCheckNotForgotten'
    BY <1>5 DEF Start, ReadyCheckNotForgotten, BothRegistered, InMatch
  <2> QED BY <2>1, <2>2
<1>6. ASSUME NEW w \in Worlds, Ready(w)
      PROVE  VerdictMatchesHq' /\ ReadyCheckNotForgotten'
  <2>1. /\ \A v \in Worlds : ready'[v] <=> v = w \/ ready[v]
        /\ \A v \in Worlds : ready'[v] => player[v] # None
        /\ phase = "lobby"
    BY <1>6 DEF Ready, ReadyCheckNotForgotten, TypeOK, Worlds
  <2>2. CASE Start /\ BothRegistered
    BY <1>5, <2>1, <2>2
  <2>3. CASE ~(Start /\ BothRegistered)
    <3>1. /\ UNCHANGED <<mode, hq, winner, player>>
          /\ \/ phase' = "lobby" /\ ~ready[Opponent(w)]
             \/ phase' = "ready" /\ ready[Opponent(w)]
      BY <1>6, <2>1, <2>3 DEF Ready, flowVars
    <3>2. ReadyCheckNotForgotten'
      BY <2>1, <3>1 DEF ReadyCheckNotForgotten, InMatch, Opponent, Worlds
    <3> QED BY <1>2, <2>1, <3>1, <3>2
  <2> QED BY <2>2, <2>3
<1>7. CASE Go
  BY <1>5, <1>7 DEF Go, ReadyCheckNotForgotten
<1>8. ASSUME NEW p \in Players, StartSp(p)
      PROVE  VerdictMatchesHq' /\ ReadyCheckNotForgotten'
  <2>1. ReadyCheckNotForgotten'
    BY <1>8 DEF StartSp, ClearEcho, ReadyCheckNotForgotten, BothRegistered, AllWorlds
  <2> QED BY <1>3, <1>8, <2>1 DEF StartSp, ClearEcho
<1>9. CASE Rematch
  <2>1. ReadyCheckNotForgotten'
    BY <1>9 DEF Rematch, Unready, ClearEcho, ReadyCheckNotForgotten, InMatch, AllWorlds, Worlds
  <2> QED BY <1>3, <1>9, <2>1 DEF Rematch, Unready, ClearEcho
<1>10. ASSUME NEW w \in Worlds, NEW level \in BOOLEAN, RouteSend(w, level)
       PROVE  VerdictMatchesHq' /\ ReadyCheckNotForgotten'
  BY <1>1, <1>10 DEF RouteSend, teamVars, flowVars
<1>11. ASSUME NEW w \in Worlds, WaveStart(w)
       PROVE  VerdictMatchesHq' /\ ReadyCheckNotForgotten'
  BY <1>1, <1>11 DEF WaveStart, teamVars
<1>12. ASSUME NEW w \in Worlds, NEW hp \in 0 .. HqStart + 1, ReportHq(w, hp)
       PROVE  VerdictMatchesHq' /\ ReadyCheckNotForgotten'
  <2>1. ReadyCheckNotForgotten'
    BY <1>12 DEF ReportHq, Clamped, Destroyed, Running, ReadyCheckNotForgotten, InMatch, BothRegistered
  <2>2. /\ phase = "running" /\ winner = None /\ \A v \in Worlds : hq[v] > 0
        /\ mode' = mode
    BY <1>12 DEF ReportHq, Clamped, Destroyed, Running, VerdictMatchesHq
  <2>3. PICK h \in 0 .. HqStart :
          /\ hq' = [v \in Worlds |-> IF v = w \/ (mode = "sp" /\ w = "A") THEN h ELSE hq[v]]
          /\ \/ h = 0 /\ winner' = Opponent(w) /\ phase' = "finished"
             \/ h > 0 /\ UNCHANGED <<winner, phase>>
    BY <1>12, HqStartPositive DEF ReportHq, Clamped, Destroyed, Running
  <2>4. VerdictMatchesHq'
    <3>1. CASE h = 0
      BY <2>2, <2>3, <3>1, OpponentType DEF VerdictMatchesHq, Opponent, Worlds
    <3>2. CASE h > 0
      BY <2>2, <2>3, <3>2 DEF VerdictMatchesHq
    <3> QED BY <2>3, <3>1, <3>2
  <2> QED BY <2>1, <2>4
<1>13. CASE Pause \/ Resume
  BY <1>1, <1>13 DEF Pause, Resume, SetPaused, teamVars
<1>14. CASE UNCHANGED vars
  BY <1>1, <1>14 DEF vars, flowVars, teamVars
<1> QED
  BY <1>4, <1>6, <1>7, <1>8, <1>9, <1>10, <1>11, <1>12, <1>13, <1>14 DEF Next

\* A match has a winner exactly when it is over, the loser's HQ is gone and, in
\* a duel, the winner's is not.
THEOREM VerdictAlways == Spec => []VerdictMatchesHq
<1>1. VerdictInv => VerdictMatchesHq
  BY DEF VerdictInv
<1> QED BY VerdictInit, VerdictStep, <1>1, PTL DEF Spec

\* No lobby ever holds two ready worlds that nothing will start.
THEOREM ReadyCheckAlways == Spec => []ReadyCheckNotForgotten
<1>1. VerdictInv => ReadyCheckNotForgotten
  BY DEF VerdictInv
<1> QED BY VerdictInit, VerdictStep, <1>1, PTL DEF Spec

\* A lobby leads to a match, and a match to the winner the HQs tell.
THEOREM DecidedAlways == Spec => []MatchIsDecided
<1>1. VerdictInv => MatchIsDecided
  BY DEF VerdictInv, MatchIsDecided
<1> QED BY VerdictInit, VerdictStep, <1>1, PTL DEF Spec

\* A delayed request never changes the result of a finished match.
THEOREM ResultFinal == Spec => ResultIsFinal
<1>1. [Next]_vars =>
        [phase = "finished" /\ phase' = "finished" =>
           UNCHANGED <<winner, hq, round, roundsDone, reveal, sent>>]_vars
  BY DEF Next, LobbyRegister, Ready, Go, Start, StartSp, Rematch, RouteSend, Running, WaveStart,
     ReportHq, Clamped, Destroyed, Running, Pause, Resume, SetPaused, vars
<1> QED BY <1>1, PTL DEF Spec, ResultIsFinal

-----------------------------------------------------------------------------
(* Refinement of WaveExchange.                                             *)

Waves == [w \in Worlds |-> WavesStarted(w)]
TakenAway == [w \in Worlds |-> {x \in revealed : x[1].to = w}]

\* Starting and resetting a match starts a new exchange.
LEMMA ForgetIsNewMatch ==
  ASSUME ForgetSends, roundsDone' = 0
  PROVE  Exchange!NewMatch
<1>1. \A w \in Worlds : ~Locked(w)'
  BY DEF Locked, ForgetSends, NoReveal
<1>2. Waves' = [w \in Worlds |-> 0]
  BY <1>1 DEF Waves, WavesStarted
<1>3. pending' = Exchange!Empty /\ TakenAway' = Exchange!Empty
  BY DEF ForgetSends, NoIncoming, Exchange!Empty, TakenAway
<1> QED BY <1>2, <1>3 DEF Exchange!NewMatch, Waves, TakenAway

\* An accepted send is a Post.
LEMMA RouteSendIsPost ==
  ASSUME IInv, IInv', NEW w \in Worlds, NEW level \in BOOLEAN, RouteSend(w, level)
  PROVE  Exchange!Post
<1>1. UNCHANGED <<reveal, revealed, round, roundsDone>>
  BY DEF RouteSend, flowVars
<1>2. Waves' = Waves /\ TakenAway' = TakenAway
  BY <1>1 DEF Waves, TakenAway, WavesStarted, Locked
<1>3. pending' \in [Worlds -> SUBSET Batch]
  BY DEF IInv, TypeOK
<1>4. \A v \in Worlds : pending[v] \subseteq pending'[v]
  BY DEF RouteSend
<1>5. ASSUME NEW v \in Worlds, NEW b \in pending'[v] \ pending[v]
      PROVE  ~Exchange!Known(b)
  <2>1. b \in Routed(w, level)
    BY DEF RouteSend
  <2>2. b.id >= nextId
    BY <2>1 DEF Routed, NewBatch, IInv, TypeOK
  <2>3. b \notin sent
    BY <2>2 DEF IInv, SendsInv, NothingRevealedBeforeLock, TypeOK, Batch
  <2> QED BY <2>3 DEF Exchange!Known, IInv, SendsInv, SendsConserved, TakenAway
<1> QED BY <1>2, <1>3, <1>4, <1>5 DEF Exchange!Post, Waves, TakenAway

\* A wave start of the code is a wave start of the exchange.
LEMMA WaveStartIsStartWaves ==
  ASSUME IInv, IInv', NEW w \in Worlds, WaveStart(w)
  PROVE  Exchange!StartWaves(Locks(w))
<1> DEFINE L == Locks(w)
<1>1. /\ L # {} /\ L \subseteq Worlds
      /\ \A v \in L : ~Locked(v)
  BY DEF WaveStart, Running, Locks, IInv, SendsInv, NothingRevealedBeforeLock, InMatch, Locked
<1>2. /\ round \in Nat /\ roundsDone \in Nat /\ round = roundsDone + 1
      /\ \A v \in Worlds : Waves[v] = IF Locked(v) THEN round ELSE roundsDone
  BY DEF IInv, TypeOK, RoundsInLockstep, WaveStart, Running, InMatch, Waves, WavesStarted
<1>3. \A v \in L, u \in Worlds : Waves[v] <= Waves[u]
  BY <1>1, <1>2
<1>4. \A v \in Worlds : Locked(v) <=> v \in OpenReveal.locked
  BY DEF Locked, OpenReveal
<1>5. Waves' = [v \in Worlds |-> IF v \in L THEN Waves[v] + 1 ELSE Waves[v]]
  <2> SUFFICES ASSUME NEW v \in Worlds
               PROVE  Waves'[v] = IF v \in L THEN Waves[v] + 1 ELSE Waves[v]
    BY DEF Waves
  <2>1. reveal'.round = round /\ reveal'.locked = OpenReveal.locked \union L
    BY DEF WaveStart
  <2>2. CASE reveal'.locked = Worlds /\ roundsDone' = round /\ round' = round + 1
    <3>1. Waves'[v] = round
      BY <1>2, <2>1, <2>2 DEF Waves, WavesStarted, Locked
    <3>2. v \in L \/ Locked(v)
      BY <1>4, <2>1, <2>2
    <3> QED BY <1>1, <1>2, <3>1, <3>2
  <2>3. CASE UNCHANGED <<roundsDone, round>>
    <3>1. Locked(v)' <=> v \in L \/ Locked(v)
      BY <1>4, <2>1, <2>3 DEF Locked
    <3>2. Waves'[v] = IF v \in L \/ Locked(v) THEN round ELSE roundsDone
      BY <1>2, <2>3, <3>1 DEF Waves, WavesStarted
    <3> QED BY <1>1, <1>2, <3>2
  <2> QED BY <2>2, <2>3 DEF WaveStart
<1>6. pending' = [v \in Worlds |-> IF v \in L THEN {} ELSE pending[v]]
  BY DueIsPending DEF WaveStart
<1>7. TakenAway' = [v \in Worlds |-> IF v \in L
                 THEN TakenAway[v] \union {<<b, Waves[v] + 1>> : b \in pending[v]}
                 ELSE TakenAway[v]]
  <2> SUFFICES ASSUME NEW v \in Worlds
               PROVE  TakenAway'[v] = IF v \in L
                        THEN TakenAway[v] \union {<<b, Waves[v] + 1>> : b \in pending[v]}
                        ELSE TakenAway[v]
    BY DEF TakenAway
  <2>1. v \in L => Waves[v] + 1 = round
    BY <1>1, <1>2
  <2>2. revealed' = revealed \union {<<b, round>> : b \in UNION {pending[u] : u \in L}}
    <3>1. UNION {Due(u) : u \in L} = UNION {pending[u] : u \in L}
      BY <1>1, DueIsPending
    <3> QED BY <3>1 DEF WaveStart
  <2>3. \A u \in Worlds : \A b \in pending[u] : b.to = u
    BY DEF IInv, SendsInv, StampsAreCurrent
  <2>4. TakenAway'[v] = {x \in revealed' : x[1].to = v} /\ TakenAway[v] = {x \in revealed : x[1].to = v}
    BY DEF TakenAway
  <2>5. CASE v \in L
    <3>1. {<<b, Waves[v] + 1>> : b \in pending[v]} = {<<b, round>> : b \in pending[v]}
      BY <2>1, <2>5
    <3> QED BY <1>1, <2>2, <2>3, <2>4, <2>5, <3>1
  <2>6. CASE v \notin L
    BY <1>1, <2>2, <2>3, <2>4, <2>6
  <2> QED BY <2>5, <2>6
<1> QED BY <1>1, <1>3, <1>5, <1>6, <1>7 DEF Exchange!StartWaves, Waves, TakenAway

\* Every step of the match state is a step of the exchange or leaves it alone.
LEMMA ExchangeStep ==
  ASSUME IInv, IInv', [Next]_vars
  PROVE  [Exchange!Next]_<<Waves, pending, TakenAway>>
<1> DEFINE Goal == [Exchange!Next]_<<Waves, pending, TakenAway>>
<1>1. CASE UNCHANGED <<round, roundsDone, reveal, pending, revealed>>
  BY <1>1 DEF Waves, TakenAway, WavesStarted, Locked
<1>2. ASSUME ForgetSends, roundsDone' = 0 PROVE Goal
  BY <1>2, ForgetIsNewMatch DEF Exchange!Next
<1>3. ~InMatch => roundsDone = 0
  BY DEF IInv, RoundsInLockstep
<1>4. ASSUME NEW w \in Worlds, NEW p \in Players, NEW m \in MatchIds \union {None},
             LobbyRegister(w, p, m)
      PROVE  Goal
  BY <1>1, <1>4 DEF LobbyRegister, flowVars, sendVars
<1>5. ASSUME NEW w \in Worlds, Ready(w) PROVE Goal
  <2>1. roundsDone = 0
    BY <1>3, <1>5 DEF Ready, InMatch
  <2>2. CASE Start
    BY <1>2, <2>1, <2>2 DEF Start
  <2>3. CASE ~Start
    <3>1. UNCHANGED <<round, roundsDone, sendVars>>
      BY <1>5, <2>3 DEF Ready, flowVars
    <3> QED BY <1>1, <3>1 DEF sendVars
  <2> QED BY <2>2, <2>3
<1>6. CASE Go
  BY <1>2, <1>3, <1>6 DEF Go, Start, InMatch
<1>7. ASSUME NEW p \in Players, StartSp(p) PROVE Goal
  BY <1>2, <1>7 DEF StartSp, ClearEcho
<1>8. CASE Rematch
  BY <1>2, <1>8 DEF Rematch, Unready, ClearEcho
<1>9. ASSUME NEW w \in Worlds, NEW level \in BOOLEAN, RouteSend(w, level) PROVE Goal
  BY <1>9, RouteSendIsPost DEF Exchange!Next
<1>10. ASSUME NEW w \in Worlds, WaveStart(w) PROVE Goal
  <2>1. Locks(w) \in SUBSET Worlds
    BY <1>10 DEF Locks
  <2>2. Exchange!StartWaves(Locks(w))
    BY <1>10, WaveStartIsStartWaves
  <2>3. \E W \in SUBSET Worlds : Exchange!StartWaves(W)
    BY <2>1, <2>2 DEF Exchange!StartWaves
  <2> QED BY <2>3 DEF Exchange!Next
<1>11. ASSUME NEW w \in Worlds, NEW hp \in 0 .. HqStart + 1, ReportHq(w, hp) PROVE Goal
  BY <1>1, <1>11 DEF ReportHq, sendVars
<1>12. CASE Pause \/ Resume
  BY <1>1, <1>12 DEF Pause, Resume, SetPaused, sendVars
<1>13. CASE UNCHANGED vars
  BY <1>1, <1>13 DEF vars, flowVars, sendVars
<1> QED
  BY <1>4, <1>5, <1>6, <1>7, <1>8, <1>9, <1>10, <1>11, <1>12, <1>13 DEF Next

\* The match state implements the wave exchange: for any number of rounds and
\* sends, in duels and solo matches, across starts, rematches and finished
\* matches.
THEOREM RefinesExchange == Spec => ExchangesWaves
<1>1. Init => Exchange!Init
  BY DEF Init, Exchange!Init, Exchange!Empty, WavesStarted, Locked, NoReveal, NoIncoming
<1>2. IInv /\ IInv' /\ [Next]_vars => [Exchange!Next]_<<Waves, pending, TakenAway>>
  BY ExchangeStep
<1>3. [Exchange!Next]_<<Waves, pending, TakenAway>> => [Exchange!Next]_(Exchange!avars)
  BY DEF Waves, TakenAway, Exchange!avars
<1> QED BY IInvAlways, <1>1, <1>2, <1>3, PTL DEF Spec, ExchangesWaves, Exchange!Spec

-----------------------------------------------------------------------------
(* The records the handlers store.                                         *)

\* The history is a sequence of records whose winner is who they say won.
Indices == 1 .. Len(finished)
HistoryTypes ==
  /\ finished \in Seq({finished[i] : i \in Indices})
  /\ unwritten \subseteq Indices /\ lost \subseteq Indices
WinnersAreNamed == \A i \in Indices, w \in Worlds :
  finished[i].participants[w].result = "win" => finished[i].winner = finished[i].participants[w].player

\* Every row is one of a match that finished, and no two have the same key.
RowsAreOfMatches == \A x \in rows : x.of \in Indices /\ \E w \in Worlds : x = Row(x.of, w)
KeysAreUnique(table) == \A x, y \in table : x.rematch = y.rematch /\ x.player = y.player => x = y

RecordsInv ==
  /\ HistoryTypes /\ WinnersAreNamed
  /\ RowsAreOfMatches /\ KeysAreUnique(rows)
  /\ ResultsOnRecord

-----------------------------------------------------------------------------
(* The records' table.                                                     *)

\* INSERT OR IGNORE keeps what there is, keeps keys unique and leaves the row's
\* key taken; what it adds is the row.
LEMMA InsertKeepsKeys ==
  ASSUME NEW table, NEW row, KeysAreUnique(table)
  PROVE  /\ KeysAreUnique(Insert(table, row)) /\ Taken(Insert(table, row), row)
         /\ table \subseteq Insert(table, row) /\ Insert(table, row) \subseteq table \union {row}
  BY DEF Insert, Taken, KeysAreUnique

\* Writing both rows of a match keeps the keys unique and leaves both taken.
LEMMA WrittenKeepsKeys ==
  ASSUME KeysAreUnique(rows), NEW i \in Indices
  PROVE  /\ KeysAreUnique(Written(i)) /\ rows \subseteq Written(i)
         /\ \A w \in Worlds : Taken(Written(i), Row(i, w))
         /\ Written(i) \subseteq rows \union {Row(i, w) : w \in Worlds}
<1> DEFINE once == Insert(rows, Row(i, "A"))
<1>1. /\ KeysAreUnique(once) /\ Taken(once, Row(i, "A"))
      /\ rows \subseteq once /\ once \subseteq rows \union {Row(i, "A")}
  BY InsertKeepsKeys
<1> HIDE DEF once
<1>2. /\ KeysAreUnique(Insert(once, Row(i, "B"))) /\ Taken(Insert(once, Row(i, "B")), Row(i, "B"))
      /\ once \subseteq Insert(once, Row(i, "B")) /\ Insert(once, Row(i, "B")) \subseteq once \union {Row(i, "B")}
  BY <1>1, InsertKeepsKeys
<1>3. Written(i) = Insert(once, Row(i, "B"))
  BY DEF Written, once
<1>4. Taken(Written(i), Row(i, "A"))
  BY <1>1, <1>2, <1>3 DEF Taken
<1>5. Written(i) \subseteq rows \union {Row(i, "A"), Row(i, "B")}
  BY <1>1, <1>2, <1>3
<1>6. {Row(i, w) : w \in Worlds} = {Row(i, "A"), Row(i, "B")}
  BY DEF Worlds
<1> QED BY <1>1, <1>2, <1>3, <1>4, <1>5, <1>6 DEF Worlds

\* A sequence over a set is one over a larger set.
LEMMA SeqGrows == ASSUME NEW S, NEW T, S \subseteq T, NEW s \in Seq(S) PROVE s \in Seq(T)
  OBVIOUS

-----------------------------------------------------------------------------
(* The records' steps.                                                     *)

\* The table and the history are empty at first.
LEMMA RecordsInvAtFirst == ApiInit => RecordsInv
<1> SUFFICES ASSUME ApiInit PROVE RecordsInv
  OBVIOUS
<1>1. rows = {} /\ unwritten = {} /\ finished = <<>> /\ lost = {} /\ Len(finished) = 0
  BY DEF ApiInit, RecordsInit
<1>2. Indices = {}
  BY <1>1 DEF Indices
<1>3. HistoryTypes
  BY <1>1, <1>2 DEF HistoryTypes
<1>4. RowsAreOfMatches /\ KeysAreUnique(rows)
  BY <1>1 DEF RowsAreOfMatches, KeysAreUnique
<1>5. ResultsOnRecord
  BY <1>1 DEF ResultsOnRecord
<1>6. WinnersAreNamed
  BY <1>2 DEF WinnersAreNamed
<1> QED BY <1>3, <1>4, <1>5, <1>6 DEF RecordsInv

\* A match finishes: the history grows by its record, and its handler has a row
\* to write.
LEMMA FinishMatchStep == ASSUME RecordsInv, FinishMatch PROVE RecordsInv'
<1> DEFINE n == Len(finished) + 1
           S == {finished[i] : i \in Indices} \union {Record}
<1>1. /\ finished' = Append(finished, Record) /\ unwritten' = unwritten \union {Len(finished')}
      /\ UNCHANGED <<rows, lost>>
  BY DEF FinishMatch
<1>2. finished \in Seq(S) /\ Len(finished) \in Nat
  <2>1. {finished[i] : i \in Indices} \subseteq S
    OBVIOUS
  <2> HIDE DEF S
  <2> QED BY <2>1, SeqGrows DEF RecordsInv, HistoryTypes
<1>3. /\ Len(finished') = n /\ finished'[n] = Record /\ finished' \in Seq(S)
      /\ \A i \in Indices : finished'[i] = finished[i]
  <2>1. Record \in S
    OBVIOUS
  <2> HIDE DEF S
  <2> QED BY <1>1, <1>2, <2>1 DEF Indices
<1>4. Indices' = Indices \union {n} /\ n \notin Indices
  BY <1>2, <1>3 DEF Indices
<1>5. HistoryTypes'
  <2>1. S = {finished'[i] : i \in Indices'}
    BY <1>3, <1>4
  <2> QED BY <1>1, <1>3, <1>4, <2>1 DEF RecordsInv, HistoryTypes
<1>6. WinnersAreNamed'
  <2>1. \A w \in Worlds : Record.participants[w].result = "win" => Record.winner = Record.participants[w].player
    BY DEF Record, Result
  <2> QED BY <1>3, <1>4, <2>1 DEF RecordsInv, WinnersAreNamed
<1>7. \A i \in Indices, w \in Worlds : Row(i, w)' = Row(i, w)
  BY <1>3 DEF Row
<1>8. RowsAreOfMatches' /\ KeysAreUnique(rows')
  BY <1>1, <1>4, <1>7 DEF RecordsInv, RowsAreOfMatches
<1>9. ResultsOnRecord'
  <2>1. \A i \in Indices', w \in Worlds : i \notin unwritten' \union lost' => Taken(rows', Row(i, w)')
    <3> SUFFICES ASSUME NEW i \in Indices', i \notin unwritten' \union lost', NEW w \in Worlds
                 PROVE  Taken(rows', Row(i, w)')
      OBVIOUS
    <3>1. i \in Indices /\ i \notin unwritten \union lost
      BY <1>1, <1>3, <1>4
    <3>2. Taken(rows, Row(i, w))
      BY <3>1 DEF RecordsInv, ResultsOnRecord, Indices
    <3> QED BY <1>1, <1>7, <3>1, <3>2
  <2>2. \A x \in rows', w \in Worlds : Taken(rows', Row(x.of, w)')
    <3> SUFFICES ASSUME NEW x \in rows, NEW w \in Worlds PROVE Taken(rows, Row(x.of, w)')
      BY <1>1
    <3>1. x.of \in Indices /\ Taken(rows, Row(x.of, w))
      BY DEF RecordsInv, RowsAreOfMatches, ResultsOnRecord
    <3> QED BY <1>7, <3>1
  <2> QED BY <2>1, <2>2 DEF ResultsOnRecord, Indices
<1> QED BY <1>5, <1>6, <1>8, <1>9 DEF RecordsInv

\* A store adds the rows of its match and pays for it.
LEMMA StoreStep == ASSUME RecordsInv, NEW i \in unwritten, Store(i) PROVE RecordsInv'
<1>1. /\ rows' = Written(i) /\ unwritten' = unwritten \ {i} /\ UNCHANGED <<finished, lost>>
      /\ i \in Indices
  BY DEF Store, RecordsInv, HistoryTypes
<1>2. /\ KeysAreUnique(rows') /\ rows \subseteq rows' /\ \A w \in Worlds : Taken(rows', Row(i, w))
      /\ rows' \subseteq rows \union {Row(i, w) : w \in Worlds}
  BY <1>1, WrittenKeepsKeys DEF RecordsInv
<1>3. HistoryTypes' /\ WinnersAreNamed' /\ Indices' = Indices
  BY <1>1 DEF RecordsInv, HistoryTypes, WinnersAreNamed, Indices
<1>4. \A j \in Indices, w \in Worlds : Row(j, w)' = Row(j, w) /\ Row(j, w).of = j
  BY <1>1 DEF Row
<1>5. RowsAreOfMatches'
  <2> SUFFICES ASSUME NEW x \in rows' PROVE x.of \in Indices /\ \E w \in Worlds : x = Row(x.of, w)'
    BY <1>3 DEF RowsAreOfMatches
  <2>1. CASE x \in rows
    BY <1>4, <2>1 DEF RecordsInv, RowsAreOfMatches
  <2>2. CASE \E w \in Worlds : x = Row(i, w)
    BY <1>1, <1>4, <2>2
  <2> QED BY <1>2, <2>1, <2>2
<1>6. ResultsOnRecord'
  <2>1. \A j \in Indices, w \in Worlds : j \notin unwritten' \union lost' => Taken(rows', Row(j, w)')
    <3> SUFFICES ASSUME NEW j \in Indices, j \notin unwritten' \union lost, NEW w \in Worlds
                 PROVE  Taken(rows', Row(j, w)')
      BY <1>1
    <3>1. CASE j = i
      BY <1>1, <1>2, <1>4, <3>1
    <3>2. CASE j # i
      <4>1. Taken(rows, Row(j, w))
        BY <1>1, <3>2 DEF RecordsInv, ResultsOnRecord, Indices
      <4> QED BY <1>2, <1>4, <4>1 DEF Taken
    <3> QED BY <3>1, <3>2
  <2>2. \A x \in rows', w \in Worlds : Taken(rows', Row(x.of, w)')
    <3> SUFFICES ASSUME NEW x \in rows', NEW w \in Worlds PROVE Taken(rows', Row(x.of, w)')
      OBVIOUS
    <3>1. CASE x \in rows
      <4>1. x.of \in Indices /\ Taken(rows, Row(x.of, w))
        BY <3>1 DEF RecordsInv, RowsAreOfMatches, ResultsOnRecord
      <4> QED BY <1>2, <1>4, <4>1 DEF Taken
    <3>2. CASE \E v \in Worlds : x = Row(i, v)
      <4>1. x.of = i
        BY <1>1, <1>4, <3>2
      <4> QED BY <1>1, <1>2, <1>4, <4>1
    <3> QED BY <1>2, <3>1, <3>2
  <2> QED BY <1>3, <2>1, <2>2 DEF ResultsOnRecord, Indices
<1> QED BY <1>2, <1>3, <1>5, <1>6 DEF RecordsInv

\* A restart loses what was not stored, an insert that fails its record, and nothing
\* else touches the records.
LEMMA OtherSteps ==
  ASSUME RecordsInv, UNCHANGED <<rows, finished>>,
         \/ UNCHANGED <<unwritten, lost>>
         \/ unwritten' = {} /\ lost' = lost \union unwritten
         \/ \E i \in unwritten : unwritten' = unwritten \ {i} /\ lost' = lost \union {i}
  PROVE  RecordsInv'
<1>1. Indices' = Indices /\ \A i \in Indices, w \in Worlds : Row(i, w)' = Row(i, w)
  BY DEF Indices, Row
<1>2. HistoryTypes' /\ WinnersAreNamed' /\ unwritten \union lost \subseteq unwritten' \union lost'
  BY <1>1 DEF RecordsInv, HistoryTypes, WinnersAreNamed
<1>3. RowsAreOfMatches' /\ KeysAreUnique(rows')
  BY <1>1 DEF RecordsInv, RowsAreOfMatches
<1>4. ResultsOnRecord'
  BY <1>1, <1>2 DEF RecordsInv, RowsAreOfMatches, ResultsOnRecord, Indices
<1> QED BY <1>2, <1>3, <1>4 DEF RecordsInv

-----------------------------------------------------------------------------
(* The theorems on records.                                                *)

\* The invariant holds of every reachable state of handlers and records (records.rs,
\* api.rs), restarts included.
THEOREM RecordsInvAlways == ApiSpec => []RecordsInv
<1>1. RecordsInv /\ [ApiNext]_apiVars => RecordsInv'
  <2> SUFFICES ASSUME RecordsInv, [ApiNext]_apiVars PROVE RecordsInv'
    OBVIOUS
  <2>1. CASE RecordsNext
    <3>1. CASE FinishMatch
      BY <3>1, FinishMatchStep
    <3>2. CASE \E i \in unwritten : Store(i)
      BY <3>2, StoreStep
    <3>3. CASE NoMatchEnd \/ Restart
      BY <3>3, OtherSteps DEF NoMatchEnd, Restart, recordVars
    <3>4. CASE \E i \in unwritten : StoreFails(i)
      BY <3>4, OtherSteps DEF StoreFails
    <3> QED BY <2>1, <3>1, <3>2, <3>3, <3>4 DEF RecordsNext
  <2>2. CASE UNCHANGED recordVars
    BY <2>2, OtherSteps DEF recordVars
  <2> QED BY <2>1, <2>2 DEF ApiNext, apiVars
<1> QED BY RecordsInvAtFirst, <1>1, PTL DEF ApiSpec

\* No row tells what did not happen, no player has two rows for one key, and an insert
\* that went through, or failed, left both participants of its match on record, or
\* neither (records.rs: record, api.rs: report).
THEOREM RecordsAlways == ApiSpec => []RecordsTellMatches
<1>1. RecordsInv => RecordsTellMatches
  <2> SUFFICES ASSUME RecordsInv PROVE RecordsTellMatches
    OBVIOUS
  <2>1. \A x \in rows : finished[x.of].rematch = x.rematch /\ (x.result = "win" => x.winner = x.player)
    <3> SUFFICES ASSUME NEW x \in rows PROVE finished[x.of].rematch = x.rematch /\ (x.result = "win" => x.winner = x.player)
      OBVIOUS
    <3>1. PICK w \in Worlds : x = Row(x.of, w)
      BY DEF RecordsInv, RowsAreOfMatches
    <3>2. x.of \in Indices
      BY DEF RecordsInv, RowsAreOfMatches
    <3>3. /\ x.rematch = finished[x.of].rematch /\ x.winner = finished[x.of].winner
          /\ x.player = finished[x.of].participants[w].player
          /\ x.result = finished[x.of].participants[w].result
      BY <3>1 DEF Row
    <3> QED BY <3>2, <3>3 DEF RecordsInv, WinnersAreNamed
  <2> QED BY <2>1 DEF RecordsInv, KeysAreUnique, RecordsTellMatches, RowsTellAMatch
<1> QED BY RecordsInvAlways, <1>1, PTL

-----------------------------------------------------------------------------
(* The waves that the handlers of wave starts push.                        *)

\* What the match state owes the handlers: batches have one identity each, and what
\* a world was shown is older than what waits for it.
IdsAreOwn == \A b, d \in sent : b.id = d.id => b = d
RoundsAreBounded == \A x \in revealed : x[2] <= MaxRound
ShownIsOlder == \A x \in revealed : \A b \in pending[x[1].to] : x[1].id < b.id
HistoryInv == IInv /\ IdsAreOwn /\ RoundsAreBounded /\ ShownIsOlder

\* A wave for w comes from a wave start of its match.
WaveTypes == [to : Worlds, batch : Batch, match : Nat]
IngressTypes ==
  /\ match \in Nat /\ got \in [Worlds -> Seq(WaveTypes)]
  /\ calls \in [Calls -> [reading : Worlds \union {None}, todo : SUBSET WaveTypes]]
WasShown(wave) ==
  /\ wave.batch.to = wave.to /\ wave.batch.level /\ wave.match <= match
  /\ wave.match = match /\ InMatch => \E r \in 1 .. MaxRound : <<wave.batch, r>> \in revealed
WavesWereShown ==
  /\ \A w \in Worlds : \A i \in 1 .. Len(got[w]) : got[w][i].to = w /\ WasShown(got[w][i])
  /\ \A c \in Calls : \A wave \in calls[c].todo : WasShown(wave)

\* A world is served by one call at a time, which reads first and pushes then.
OneServes ==
  /\ \A c \in Calls : calls[c].reading # None => calls[c].todo = {}
  /\ OneReport => \A c, d \in Calls, w \in Worlds : Serves(c, w) /\ Serves(d, w) => c = d

\* What a call is going to read or to push is younger than what its world has got.
ReadsYounger == \A c \in Calls, w \in Worlds : calls[c].reading = w =>
  \A i \in 1 .. Len(got[w]) : got[w][i].match = match =>
    \A b \in reveal.incoming[w] : got[w][i].batch.id < b.id
PushesYounger == \A c \in Calls : \A wave \in calls[c].todo :
  /\ \A other \in calls[c].todo : other.to = wave.to /\ other.match = wave.match
                                  /\ (other.batch.id = wave.batch.id => other = wave)
  /\ \A i \in 1 .. Len(got[wave.to]) : got[wave.to][i].match = wave.match =>
       got[wave.to][i].batch.id < wave.batch.id

IngressInv == HistoryInv /\ IngressTypes /\ WavesWereShown /\ OneServes
YoungInv == IngressInv /\ ReadsYounger /\ PushesYounger /\ PushedInOrder
ServingIngress == serving = "ingress" => IngressInv /\ (OneReport => YoungInv)

\* A request that is no send and no wave start leaves the sends alone, or forgets
\* them all: at the start of a match, or on the way back to the lobby.
OtherRequest ==
  \/ \E w \in Worlds, p \in Players, m \in MatchIds \union {None} : LobbyRegister(w, p, m)
  \/ \E w \in Worlds : Ready(w)
  \/ Go
  \/ \E p \in Players : StartSp(p)
  \/ Rematch
  \/ \E w \in Worlds, hp \in 0 .. HqStart + 1 : ReportHq(w, hp)
  \/ Pause
  \/ Resume
LEMMA OtherRequestForgetsOrKeeps ==
  ASSUME OtherRequest
  PROVE  \/ UNCHANGED sendVars /\ (InMatch' <=> InMatch) /\ ~StartsMatch
         \/ ForgetSends /\ (StartsMatch \/ ~InMatch')
<1>1. ASSUME Start, phase # "running" PROVE ForgetSends /\ StartsMatch
  BY <1>1 DEF Start, StartsMatch
<1>2. ASSUME NEW w \in Worlds, NEW p \in Players, NEW m \in MatchIds \union {None}, LobbyRegister(w, p, m)
      PROVE  UNCHANGED <<sendVars, phase>>
  BY <1>2 DEF LobbyRegister, flowVars
<1>3. ASSUME NEW w \in Worlds, Ready(w), ~Start PROVE UNCHANGED sendVars /\ ~InMatch /\ ~InMatch'
  BY <1>3 DEF Ready, flowVars, InMatch
<1>4. ASSUME NEW w \in Worlds, Ready(w) PROVE phase # "running"
  BY <1>4 DEF Ready
<1>5. CASE Go
  BY <1>1, <1>5 DEF Go
<1>6. ASSUME NEW p \in Players, StartSp(p) PROVE ForgetSends /\ StartsMatch
  BY <1>6 DEF StartSp, ClearEcho, StartsMatch
<1>7. CASE Rematch
  BY <1>7 DEF Rematch, Unready, ClearEcho, InMatch
<1>8. ASSUME NEW w \in Worlds, NEW hp \in 0 .. HqStart + 1, ReportHq(w, hp)
      PROVE  UNCHANGED sendVars /\ InMatch /\ InMatch' /\ ~StartsMatch
  BY <1>8 DEF ReportHq, Clamped, Destroyed, Running, InMatch, StartsMatch
<1>9. CASE Pause \/ Resume
  BY <1>9 DEF Pause, Resume, SetPaused, InMatch, StartsMatch
<1> QED BY <1>1, <1>2, <1>3, <1>4, <1>5, <1>6, <1>7, <1>8, <1>9 DEF OtherRequest, InMatch, StartsMatch

\* The match state keeps its history: a send gets an identity above all others, and
\* a wave start shows a world all that waits for it.
LEMMA HistoryInvStep == HistoryInv /\ [Next]_vars => HistoryInv'
<1> SUFFICES ASSUME HistoryInv, [Next]_vars PROVE HistoryInv'
  OBVIOUS
<1>1. IInv'
  BY IInvStep DEF HistoryInv
<1>2. /\ \A b \in sent : b.id < nextId /\ b.id \in Nat
      /\ \A x \in revealed : x[1] \in sent
      /\ \A w \in Worlds : pending[w] \subseteq sent /\ \A b \in pending[w] : b.to = w
      /\ nextId \in Nat
  BY DEF HistoryInv, IInv, SendsInv, SendsConserved, NothingRevealedBeforeLock, StampsAreCurrent, TypeOK, Batch
<1>3. CASE UNCHANGED sendVars
  BY <1>1, <1>3 DEF HistoryInv, IdsAreOwn, RoundsAreBounded, ShownIsOlder, sendVars
<1>4. CASE ForgetSends
  BY <1>1, <1>4 DEF HistoryInv, IdsAreOwn, RoundsAreBounded, ShownIsOlder, ForgetSends
<1>5. ASSUME NEW w \in Worlds, NEW level \in BOOLEAN, RouteSend(w, level) PROVE HistoryInv'
  <2>1. \A b \in Routed(w, level) : b.id >= nextId /\ b.id \in Nat
    BY <1>2 DEF Routed, NewBatch
  <2>2. \A b, d \in Routed(w, level) : b.id = d.id => b = d
    BY <1>2 DEF Routed, NewBatch
  <2>3. /\ sent' = sent \union Routed(w, level) /\ revealed' = revealed
        /\ \A v \in Worlds : pending'[v] = pending[v] \union {b \in Routed(w, level) : b.to = v}
    BY <1>5 DEF RouteSend
  <2>4. IdsAreOwn'
    BY <1>2, <2>1, <2>2, <2>3 DEF HistoryInv, IdsAreOwn
  <2>5. ShownIsOlder'
    <3> SUFFICES ASSUME NEW x \in revealed, NEW b \in pending'[x[1].to] PROVE x[1].id < b.id
      BY <2>3 DEF ShownIsOlder
    <3>1. x[1] \in sent /\ x[1].to \in Worlds
      BY <1>2 DEF HistoryInv, IInv, TypeOK, Batch
    <3>2. CASE b \in pending[x[1].to]
      BY <3>2 DEF HistoryInv, ShownIsOlder
    <3>3. CASE b \in Routed(w, level)
      BY <3>1, <3>3, <1>2, <2>1
    <3> QED BY <3>1, <3>2, <3>3, <2>3
  <2> QED BY <1>1, <2>3, <2>4, <2>5 DEF HistoryInv, RoundsAreBounded
<1>6. ASSUME NEW w \in Worlds, WaveStart(w) PROVE HistoryInv'
  <2>1. /\ sent' = sent /\ round <= MaxRound
        /\ revealed' = revealed \union {<<b, round>> : b \in UNION {Due(v) : v \in Locks(w)}}
        /\ \A v \in Worlds : pending'[v] = IF v \in Locks(w) THEN pending[v] \ Due(v) ELSE pending[v]
    BY <1>6 DEF WaveStart
  <2>2. \A v \in Worlds : Due(v) = pending[v]
    BY DueIsPending DEF HistoryInv
  <2>3. Locks(w) \subseteq Worlds
    BY DEF Locks, Worlds
  <2>4. RoundsAreBounded'
    BY <2>1 DEF HistoryInv, RoundsAreBounded
  <2>5. ShownIsOlder'
    <3> SUFFICES ASSUME NEW x \in revealed', NEW b \in pending'[x[1].to] PROVE x[1].id < b.id
      BY DEF ShownIsOlder
    <3>1. CASE x \in revealed
      <4>1. x[1].to \in Worlds
        BY <3>1, <1>2 DEF HistoryInv, IInv, TypeOK, Batch
      <4>2. b \in pending[x[1].to]
        BY <4>1, <2>1
      <4> QED BY <3>1, <4>2 DEF HistoryInv, ShownIsOlder
    <3>2. ASSUME NEW v \in Locks(w), NEW d \in Due(v), x = <<d, round>> PROVE FALSE
      <4>1. x[1] = d /\ d.to = v /\ v \in Worlds
        BY <3>2, <2>2, <2>3, <1>2
      <4> QED BY <4>1, <2>1, <2>2
    <3> QED BY <3>1, <3>2, <2>1
  <2> QED BY <1>1, <2>1, <2>4, <2>5 DEF HistoryInv, IdsAreOwn
<1>7. CASE OtherRequest
  BY <1>7, <1>3, <1>4, OtherRequestForgetsOrKeeps
<1>8. CASE UNCHANGED vars
  BY <1>3, <1>8 DEF vars
<1> QED BY <1>5, <1>6, <1>7, <1>8 DEF Next, OtherRequest

\* What has become of the match and of what was shown in it, as a wave made before
\* the step sees it.
LEMMA ShownStays ==
  ASSUME [Next]_vars, CountMatch, match \in Nat
  PROVE  /\ match' \in Nat /\ match' >= match
         /\ match' = match /\ InMatch' => InMatch /\ revealed \subseteq revealed'
<1>1. match' \in Nat /\ match' >= match /\ (match' = match <=> ~StartsMatch)
  BY DEF CountMatch
<1>2. CASE OtherRequest
  BY <1>1, <1>2, OtherRequestForgetsOrKeeps DEF sendVars
<1>3. ASSUME NEW w \in Worlds, NEW level \in BOOLEAN, RouteSend(w, level) PROVE InMatch /\ revealed' = revealed
  BY <1>3 DEF RouteSend, Running, InMatch
<1>4. ASSUME NEW w \in Worlds, WaveStart(w) PROVE InMatch /\ revealed \subseteq revealed'
  BY <1>4 DEF WaveStart, Running, InMatch
<1>5. CASE UNCHANGED vars
  BY <1>1, <1>5 DEF vars, sendVars, flowVars, InMatch
<1> QED BY <1>1, <1>2, <1>3, <1>4, <1>5 DEF Next, OtherRequest

LEMMA WasShownStays ==
  ASSUME [Next]_vars, CountMatch, match \in Nat, NEW wave \in WaveTypes, WasShown(wave)
  PROVE  WasShown(wave)'
<1>1. wave.match \in Nat
  BY DEF WaveTypes
<1> QED BY <1>1, ShownStays DEF WasShown

\* A request of the match alone.
LEMMA RequestKeepsIngress ==
  ASSUME IngressInv, [Next]_vars, CountMatch, UNCHANGED <<calls, got>>
  PROVE  IngressInv'
<1>1. HistoryInv'
  BY HistoryInvStep DEF IngressInv
<1>2. IngressTypes'
  BY ShownStays DEF IngressInv, IngressTypes
<1>3. WavesWereShown'
  <2>1. ASSUME NEW w \in Worlds, NEW i \in 1 .. Len(got[w]) PROVE got[w][i].to = w /\ WasShown(got[w][i])'
    <3>1. got[w][i] \in WaveTypes /\ got[w][i].to = w /\ WasShown(got[w][i])
      BY DEF IngressInv, IngressTypes, WavesWereShown
    <3> QED BY <3>1, WasShownStays DEF IngressInv, IngressTypes
  <2>2. ASSUME NEW c \in Calls, NEW wave \in calls[c].todo PROVE WasShown(wave)'
    BY <2>2, WasShownStays DEF IngressInv, IngressTypes, WavesWereShown
  <2> QED BY <2>1, <2>2 DEF WavesWereShown
<1>4. OneServes'
  BY DEF IngressInv, OneServes, Serves
<1> QED BY <1>1, <1>2, <1>3, <1>4 DEF IngressInv

\* A wave start is taken up by a call of its own, where nobody serves the world.
LEMMA CallKeepsIngress ==
  ASSUME IngressInv, NEW c \in Calls, NEW w \in Worlds, WaveStartCall(c, w)
  PROVE  IngressInv'
<1>1. /\ calls[c] = Idle /\ calls' = [calls EXCEPT ![c].reading = w] /\ got' = got
      /\ [Next]_vars /\ CountMatch
      /\ OneReport => \A d \in Calls : ~Serves(d, w)
  BY DEF WaveStartCall, LocksWave, Next
<1>2. /\ calls'[c] = [reading |-> w, todo |-> {}]
      /\ \A d \in Calls \ {c} : calls'[d] = calls[d]
      /\ \A v \in Worlds, d \in Calls : Serves(d, v)' <=> (d = c /\ v = w) \/ (d # c /\ Serves(d, v))
      /\ calls' \in [Calls -> [reading : Worlds \union {None}, todo : SUBSET WaveTypes]]
  <2>1. calls'[c] = [reading |-> w, todo |-> {}] /\ \A d \in Calls \ {c} : calls'[d] = calls[d]
    <3>1. calls' = [calls EXCEPT ![c] = [Idle EXCEPT !.reading = w]]
      BY <1>1 DEF IngressInv, IngressTypes
    <3>2. [Idle EXCEPT !.reading = w] = [reading |-> w, todo |-> {}]
      BY DEF Idle
    <3> QED BY <3>1, <3>2 DEF IngressInv, IngressTypes
  <2>2. calls' \in [Calls -> [reading : Worlds \union {None}, todo : SUBSET WaveTypes]]
    BY <1>1, <2>1 DEF IngressInv, IngressTypes
  <2> QED BY <2>1, <2>2 DEF Serves
<1>3. HistoryInv'
  BY <1>1, HistoryInvStep DEF IngressInv
<1>4. IngressTypes'
  BY <1>1, <1>2, ShownStays DEF IngressInv, IngressTypes
<1>5. WavesWereShown'
  <2>1. ASSUME NEW v \in Worlds, NEW i \in 1 .. Len(got[v]) PROVE got[v][i].to = v /\ WasShown(got[v][i])'
    <3>1. got[v][i] \in WaveTypes /\ got[v][i].to = v /\ WasShown(got[v][i])
      BY DEF IngressInv, IngressTypes, WavesWereShown
    <3> QED BY <1>1, <3>1, WasShownStays DEF IngressInv, IngressTypes
  <2>2. ASSUME NEW d \in Calls, NEW wave \in calls'[d].todo PROVE WasShown(wave)'
    <3>1. d # c /\ wave \in calls[d].todo
      BY <1>2, <2>2
    <3> QED BY <1>1, <3>1, WasShownStays DEF IngressInv, IngressTypes, WavesWereShown
  <2> QED BY <1>1, <2>1, <2>2 DEF WavesWereShown
<1>6. OneServes'
  BY <1>1, <1>2 DEF IngressInv, OneServes
<1> QED BY <1>3, <1>4, <1>5, <1>6 DEF IngressInv

\* The reveal is read as it is by now: what it lists was shown in this match.
LEMMA ReadKeepsIngress ==
  ASSUME IngressInv, NEW c \in Calls, ReadReveal(c)
  PROVE  /\ IngressInv'
         /\ \A d \in Calls \ {c} : calls'[d] = calls[d]
         /\ \E w \in Worlds : /\ calls[c].reading = w /\ calls'[c].reading = None
              /\ calls'[c].todo = {[to |-> w, batch |-> b, match |-> match] : b \in Incoming(w)}
<1> DEFINE w == calls[c].reading
           todo == {[to |-> w, batch |-> b, match |-> match] : b \in Incoming(w)}
<1>1. /\ w \in Worlds /\ calls' = [calls EXCEPT ![c] = [reading |-> None, todo |-> todo]]
      /\ UNCHANGED <<vars, got, match>> /\ match \in Nat
  BY DEF ReadReveal, IngressInv, IngressTypes
<1>2. /\ \A b \in Incoming(w) : b \in Batch /\ b.level /\ b.to = w /\ b \in sent /\ <<b, reveal.round>> \in revealed
      /\ reveal.round \in Nat
  BY <1>1 DEF Incoming, IngressInv, HistoryInv, IInv, SendsInv, RevealIsWhatWasDrained, TypeOK, Reveals
<1>3. \A b \in Incoming(w) : reveal.round \in 1 .. MaxRound
  <2>1. \A x \in revealed : x[2] \in 1 .. round /\ x[2] <= MaxRound
    BY DEF IngressInv, HistoryInv, IInv, SendsInv, NothingRevealedBeforeLock, RoundsAreBounded
  <2>2. ASSUME NEW b \in Incoming(w) PROVE reveal.round \in 1 .. round /\ reveal.round <= MaxRound
    <3>1. <<b, reveal.round>>[2] = reveal.round
      OBVIOUS
    <3> QED BY <1>2, <2>1, <3>1
  <2> QED BY <1>2, <2>2, BoundsNat DEF IngressInv, HistoryInv, IInv, TypeOK
<1>4. \A wave \in todo : wave \in WaveTypes /\ WasShown(wave)
  <2> SUFFICES ASSUME NEW b \in Incoming(w)
               PROVE  [to |-> w, batch |-> b, match |-> match] \in WaveTypes /\ WasShown([to |-> w, batch |-> b, match |-> match])
    OBVIOUS
  <2>1. b \in Batch /\ b.to = w /\ b.level /\ <<b, reveal.round>> \in revealed /\ reveal.round \in 1 .. MaxRound
    BY <1>2, <1>3
  <2>2. [to |-> w, batch |-> b, match |-> match] \in WaveTypes
    BY <1>1, <2>1 DEF WaveTypes
  <2>3. match <= match
    BY <1>1
  <2> QED BY <2>1, <2>2, <2>3 DEF WasShown
<1> HIDE DEF todo
<1>5. /\ calls'[c] = [reading |-> None, todo |-> todo]
      /\ \A d \in Calls \ {c} : calls'[d] = calls[d]
      /\ calls' \in [Calls -> [reading : Worlds \union {None}, todo : SUBSET WaveTypes]]
  BY <1>1, <1>4 DEF IngressInv, IngressTypes
<1>6. HistoryInv'
  BY <1>1, HistoryInvStep DEF IngressInv
<1>7. IngressTypes'
  BY <1>1, <1>5 DEF IngressInv, IngressTypes
<1>8. \A wave : WasShown(wave)' <=> WasShown(wave)
  BY <1>1 DEF WasShown, vars, sendVars, flowVars, InMatch
<1>9. WavesWereShown'
  BY <1>1, <1>4, <1>5, <1>8 DEF IngressInv, WavesWereShown
<1>10. OneServes'
  <2>1. \A wave \in todo : wave.to = w
    BY DEF todo
  <2>2. \A d \in Calls, v \in Worlds : Serves(d, v)' => Serves(d, v)
    BY <1>5, <2>1, NoneIsNoName DEF Serves, Worlds
  <2> QED BY <1>5, <2>2 DEF IngressInv, OneServes
<1> QED BY <1>1, <1>5, <1>6, <1>7, <1>9, <1>10 DEF IngressInv, todo

\* A push takes a wave from its call; it arrives or is lost.
LEMMA PushKeepsIngress ==
  ASSUME IngressInv, NEW c \in Calls, PushNext(c)
  PROVE  /\ IngressInv' /\ UNCHANGED <<vars, match>>
         /\ \E wave \in calls[c].todo :
              /\ \A other \in calls[c].todo : wave.batch.id <= other.batch.id
              /\ wave \in WaveTypes
              /\ \A d \in Calls : calls'[d].reading = calls[d].reading
                    /\ calls'[d].todo = IF d = c THEN calls[d].todo \ {wave} ELSE calls[d].todo
              /\ \/ got' = got
                 \/ /\ \A w \in Worlds \ {wave.to} : got'[w] = got[w]
                    /\ Len(got'[wave.to]) = Len(got[wave.to]) + 1
                    /\ got'[wave.to][Len(got[wave.to]) + 1] = wave
                    /\ \A i \in 1 .. Len(got[wave.to]) : got'[wave.to][i] = got[wave.to][i]
<1>1. PICK wave \in calls[c].todo :
        /\ \A other \in calls[c].todo : wave.batch.id <= other.batch.id
        /\ calls' = [calls EXCEPT ![c].todo = @ \ {wave}]
        /\ got' = [got EXCEPT ![wave.to] = Append(@, wave)] \/ UNCHANGED got
        /\ UNCHANGED <<vars, match>>
  BY DEF PushNext
<1>2. wave \in WaveTypes /\ wave.to \in Worlds /\ WasShown(wave)
  BY DEF IngressInv, IngressTypes, WavesWereShown, WaveTypes
<1>3. /\ \A d \in Calls : calls'[d].reading = calls[d].reading
                    /\ calls'[d].todo = IF d = c THEN calls[d].todo \ {wave} ELSE calls[d].todo
      /\ calls' \in [Calls -> [reading : Worlds \union {None}, todo : SUBSET WaveTypes]]
  BY <1>1 DEF IngressInv, IngressTypes
<1>4. /\ got' \in [Worlds -> Seq(WaveTypes)]
      /\ \/ got' = got
         \/ /\ \A w \in Worlds \ {wave.to} : got'[w] = got[w]
            /\ Len(got'[wave.to]) = Len(got[wave.to]) + 1
            /\ got'[wave.to][Len(got[wave.to]) + 1] = wave
            /\ \A i \in 1 .. Len(got[wave.to]) : got'[wave.to][i] = got[wave.to][i]
  <2>1. CASE UNCHANGED got
    BY <2>1 DEF IngressInv, IngressTypes
  <2>2. CASE got' = [got EXCEPT ![wave.to] = Append(@, wave)]
    <3>1. got[wave.to] \in Seq(WaveTypes)
      BY <1>2 DEF IngressInv, IngressTypes
    <3>2. got'[wave.to] = Append(got[wave.to], wave) /\ \A w \in Worlds \ {wave.to} : got'[w] = got[w]
      BY <2>2, <1>2 DEF IngressInv, IngressTypes
    <3>3. Append(got[wave.to], wave) \in Seq(WaveTypes)
      BY <1>2, <3>1
    <3>4. got' \in [Worlds -> Seq(WaveTypes)]
      BY <2>2, <1>2, <3>3 DEF IngressInv, IngressTypes
    <3> QED BY <3>1, <3>2, <3>4
  <2> QED BY <1>1, <2>1, <2>2
<1>5. HistoryInv'
  BY <1>1, HistoryInvStep DEF IngressInv
<1>6. IngressTypes'
  BY <1>1, <1>3, <1>4 DEF IngressInv, IngressTypes
<1>7. \A x : WasShown(x)' <=> WasShown(x)
  BY <1>1 DEF WasShown, vars, sendVars, flowVars, InMatch
<1>8. WavesWereShown'
  <2>1. ASSUME NEW w \in Worlds, NEW i \in 1 .. Len(got'[w]) PROVE got'[w][i].to = w /\ WasShown(got'[w][i])
    <3>1. Len(got[w]) \in Nat
      BY DEF IngressInv, IngressTypes
    <3>2. CASE i \in 1 .. Len(got[w]) /\ got'[w][i] = got[w][i]
      BY <3>2 DEF IngressInv, WavesWereShown
    <3>3. CASE w = wave.to /\ got'[w][i] = wave
      BY <3>3, <1>2
    <3> QED BY <3>1, <3>2, <3>3, <1>4, <2>1
  <2> QED BY <1>3, <1>7, <2>1 DEF IngressInv, WavesWereShown
<1>9. OneServes'
  <2>1. \A d \in Calls : calls'[d].todo \subseteq calls[d].todo /\ calls'[d].reading = calls[d].reading
    BY <1>3
  <2>2. \A d \in Calls, w \in Worlds : Serves(d, w)' => Serves(d, w)
    BY <2>1 DEF Serves
  <2> QED BY <2>1, <2>2 DEF IngressInv, OneServes
<1> QED BY <1>1, <1>2, <1>3, <1>4, <1>5, <1>6, <1>8, <1>9 DEF IngressInv

\* What a world has got in this match is older than what waits for it.
LEMMA GotIsOlder ==
  ASSUME IngressInv, NEW w \in Worlds, NEW i \in 1 .. Len(got[w]), got[w][i].match = match, InMatch,
         NEW b \in pending[w]
  PROVE  got[w][i].batch.id < b.id
<1>1. got[w][i].to = w /\ WasShown(got[w][i])
  BY DEF IngressInv, WavesWereShown
<1>2. PICK r \in 1 .. MaxRound : <<got[w][i].batch, r>> \in revealed
  BY <1>1 DEF WasShown
<1>3. <<got[w][i].batch, r>>[1] = got[w][i].batch /\ got[w][i].batch.to = w
  BY <1>1 DEF WasShown
<1> QED BY <1>2, <1>3 DEF IngressInv, HistoryInv, ShownIsOlder

LEMMA RequestKeepsYoung ==
  ASSUME YoungInv, OtherRequest \/ (\E w \in Worlds, level \in BOOLEAN : RouteSend(w, level)), CountMatch,
         UNCHANGED <<calls, got>>
  PROVE  YoungInv'
<1>1. [Next]_vars
  BY DEF OtherRequest, Next
<1>2. IngressInv'
  BY <1>1, RequestKeepsIngress DEF YoungInv
<1>3. \A w \in Worlds : reveal'.incoming[w] \subseteq reveal.incoming[w]
  BY OtherRequestForgetsOrKeeps DEF sendVars, ForgetSends, NoReveal, NoIncoming, RouteSend
<1>4. ReadsYounger'
  <2> SUFFICES ASSUME NEW c \in Calls, NEW w \in Worlds, calls[c].reading = w, NEW i \in 1 .. Len(got[w]),
                      got[w][i].match = match', NEW b \in reveal'.incoming[w]
               PROVE  got[w][i].batch.id < b.id
    BY DEF ReadsYounger
  <2>1. got[w][i].match <= match /\ got[w][i].match \in Nat
    <3>1. got[w][i] \in WaveTypes /\ WasShown(got[w][i])
      BY DEF YoungInv, IngressInv, IngressTypes, WavesWereShown
    <3> QED BY <3>1 DEF WasShown, WaveTypes
  <2>2. match' >= match /\ match' \in Nat /\ match \in Nat
    BY <1>1, ShownStays DEF YoungInv, IngressInv, IngressTypes
  <2>3. got[w][i].match = match
    BY <2>1, <2>2
  <2> QED BY <1>3, <2>3 DEF YoungInv, ReadsYounger
<1> QED BY <1>2, <1>4 DEF YoungInv, PushesYounger, PushedInOrder

LEMMA CallKeepsYoung ==
  ASSUME OneReport, YoungInv, NEW c \in Calls, NEW w \in Worlds, WaveStartCall(c, w)
  PROVE  YoungInv'
<1>1. IngressInv'
  BY CallKeepsIngress DEF YoungInv
<1>2. /\ calls[c] = Idle /\ calls' = [calls EXCEPT ![c].reading = w] /\ got' = got /\ WaveStart(w) /\ CountMatch
      /\ \A d \in Calls : ~Serves(d, w)
  BY DEF WaveStartCall, LocksWave
<1>3. match' = match /\ match \in Nat /\ InMatch
  BY <1>2 DEF CountMatch, WaveStart, Running, StartsMatch, InMatch, YoungInv, IngressInv, IngressTypes
<1>4. /\ \A d \in Calls \ {c} : calls'[d] = calls[d]
      /\ calls'[c].todo = {} /\ calls'[c].reading = w
  BY <1>2 DEF YoungInv, IngressInv, IngressTypes, Idle
<1>5. \A v \in Worlds : reveal'.incoming[v] \subseteq IF v = w THEN pending[v] ELSE pending[v] \union reveal.incoming[v]
  <2>1. \A v \in Worlds : Due(v) = pending[v]
    BY DueIsPending DEF YoungInv, IngressInv, HistoryInv
  <2>2. \A v \in Worlds : reveal'.incoming[v] = IF v \in Locks(w) THEN Due(v) ELSE OpenReveal.incoming[v]
    BY <1>2 DEF WaveStart
  <2>3. w \in Locks(w) /\ \A v \in Worlds : OpenReveal.incoming[v] \subseteq reveal.incoming[v]
    BY DEF Locks, OpenReveal, NoIncoming
  <2> QED BY <2>1, <2>2, <2>3
<1>6. ReadsYounger'
  <2> SUFFICES ASSUME NEW d \in Calls, NEW v \in Worlds, calls'[d].reading = v, NEW i \in 1 .. Len(got[v]),
                      got[v][i].match = match, NEW b \in reveal'.incoming[v]
               PROVE  got[v][i].batch.id < b.id
    BY <1>2, <1>3 DEF ReadsYounger
  <2>1. CASE b \in pending[v]
    BY <1>3, <2>1, GotIsOlder DEF YoungInv
  <2>2. CASE b \notin pending[v]
    <3>1. v # w /\ b \in reveal.incoming[v]
      BY <1>5, <2>2
    <3>2. d # c /\ calls[d].reading = v
      BY <1>4, <3>1
    <3> QED BY <3>1, <3>2 DEF YoungInv, ReadsYounger
  <2> QED BY <2>1, <2>2
<1>7. PushesYounger'
  <2>1. \A d \in Calls : calls'[d].todo \subseteq calls[d].todo
    BY <1>4
  <2> QED BY <1>2, <2>1 DEF YoungInv, PushesYounger
<1> QED BY <1>1, <1>2, <1>6, <1>7 DEF YoungInv, PushedInOrder

LEMMA ReadKeepsYoung ==
  ASSUME YoungInv, NEW c \in Calls, ReadReveal(c)
  PROVE  YoungInv'
<1>1. IngressInv' /\ \A d \in Calls \ {c} : calls'[d] = calls[d]
  BY ReadKeepsIngress DEF YoungInv
<1>2. PICK w \in Worlds :
        /\ calls[c].reading = w /\ calls'[c].reading = None
        /\ calls'[c].todo = {[to |-> w, batch |-> b, match |-> match] : b \in Incoming(w)}
  BY ReadKeepsIngress DEF YoungInv
<1>3. UNCHANGED <<got, match, reveal, sent>>
  BY DEF ReadReveal, vars, sendVars
<1>4. ReadsYounger'
  <2>1. \A d \in Calls, v \in Worlds : calls'[d].reading = v => calls[d].reading = v
    BY <1>1, <1>2, NoneIsNoName DEF Worlds
  <2> QED BY <1>3, <2>1 DEF YoungInv, ReadsYounger
<1>5. \A b \in Incoming(w) : b \in reveal.incoming[w] /\ b \in sent
  BY DEF Incoming, YoungInv, IngressInv, HistoryInv, IInv, SendsInv, RevealIsWhatWasDrained
<1>6. PushesYounger'
  <2> SUFFICES ASSUME NEW d \in Calls, NEW wave \in calls'[d].todo
               PROVE  /\ \A other \in calls'[d].todo : other.to = wave.to /\ other.match = wave.match
                                  /\ (other.batch.id = wave.batch.id => other = wave)
                      /\ \A i \in 1 .. Len(got[wave.to]) : got[wave.to][i].match = wave.match =>
                           got[wave.to][i].batch.id < wave.batch.id
    BY <1>3 DEF PushesYounger
  <2>1. CASE d # c
    BY <1>1, <2>1 DEF YoungInv, PushesYounger
  <2>2. CASE d = c
    <3>1. PICK b \in Incoming(w) : wave = [to |-> w, batch |-> b, match |-> match]
      BY <1>2, <2>2
    <3>2. ASSUME NEW other \in calls'[d].todo
          PROVE  other.to = wave.to /\ other.match = wave.match /\ (other.batch.id = wave.batch.id => other = wave)
      <4>1. PICK e \in Incoming(w) : other = [to |-> w, batch |-> e, match |-> match]
        BY <1>2, <2>2, <3>2
      <4>2. e.id = b.id => e = b
        BY <1>5 DEF YoungInv, IngressInv, HistoryInv, IdsAreOwn
      <4> QED BY <3>1, <4>1, <4>2
    <3>3. ASSUME NEW i \in 1 .. Len(got[wave.to]), got[wave.to][i].match = wave.match
          PROVE  got[wave.to][i].batch.id < wave.batch.id
      <4>1. wave.to = w /\ wave.match = match /\ wave.batch = b /\ b \in reveal.incoming[w]
        BY <1>5, <3>1
      <4> QED BY <1>2, <3>3, <4>1 DEF YoungInv, ReadsYounger
    <3> QED BY <3>2, <3>3
  <2> QED BY <2>1, <2>2
<1> QED BY <1>1, <1>3, <1>4, <1>6 DEF YoungInv, PushedInOrder

LEMMA PushKeepsYoung ==
  ASSUME OneReport, YoungInv, NEW c \in Calls, PushNext(c)
  PROVE  YoungInv'
<1>1. IngressInv' /\ UNCHANGED <<vars, match>>
  BY PushKeepsIngress DEF YoungInv
<1>2. PICK wave \in calls[c].todo :
        /\ \A other \in calls[c].todo : wave.batch.id <= other.batch.id
        /\ wave \in WaveTypes
        /\ \A d \in Calls : calls'[d].reading = calls[d].reading
              /\ calls'[d].todo = IF d = c THEN calls[d].todo \ {wave} ELSE calls[d].todo
        /\ \/ got' = got
           \/ /\ \A w \in Worlds \ {wave.to} : got'[w] = got[w]
              /\ Len(got'[wave.to]) = Len(got[wave.to]) + 1
              /\ got'[wave.to][Len(got[wave.to]) + 1] = wave
              /\ \A i \in 1 .. Len(got[wave.to]) : got'[wave.to][i] = got[wave.to][i]
  BY PushKeepsIngress DEF YoungInv
<1>3. reveal' = reveal
  BY <1>1 DEF vars, sendVars
<1>4. /\ wave.to \in Worlds
      /\ \A d \in Calls : calls[d].reading # wave.to
      /\ \A d \in Calls \ {c} : \A other \in calls[d].todo : other.to # wave.to
  <2>1. wave.to \in Worlds /\ Serves(c, wave.to)
    BY <1>2 DEF WaveTypes, Serves
  <2>2. \A d \in Calls : Serves(d, wave.to) => d = c
    BY <2>1 DEF YoungInv, IngressInv, OneServes
  <2>3. calls[c].reading = None
    BY DEF YoungInv, IngressInv, OneServes
  <2> QED BY <2>1, <2>2, <2>3, NoneIsNoName DEF Serves, Worlds
<1>5. \A w \in Worlds : Len(got[w]) \in Nat
  BY DEF YoungInv, IngressInv, IngressTypes
<1>6. ReadsYounger'
  <2> SUFFICES ASSUME NEW d \in Calls, NEW w \in Worlds, calls'[d].reading = w, NEW i \in 1 .. Len(got'[w]),
                      got'[w][i].match = match, NEW b \in reveal.incoming[w]
               PROVE  got'[w][i].batch.id < b.id
    BY <1>1, <1>3 DEF ReadsYounger
  <2>1. calls[d].reading = w /\ w # wave.to
    BY <1>2, <1>4
  <2>2. got'[w] = got[w]
    BY <1>2, <2>1
  <2> QED BY <2>1, <2>2 DEF YoungInv, ReadsYounger
<1>7. PushesYounger'
  <2> SUFFICES ASSUME NEW d \in Calls, NEW x \in calls'[d].todo
               PROVE  /\ \A other \in calls'[d].todo : other.to = x.to /\ other.match = x.match
                                  /\ (other.batch.id = x.batch.id => other = x)
                      /\ \A i \in 1 .. Len(got'[x.to]) : got'[x.to][i].match = x.match =>
                           got'[x.to][i].batch.id < x.batch.id
    BY DEF PushesYounger
  <2>1. x \in calls[d].todo /\ calls'[d].todo \subseteq calls[d].todo
    BY <1>2
  <2>2. \A other \in calls'[d].todo : other.to = x.to /\ other.match = x.match
                                  /\ (other.batch.id = x.batch.id => other = x)
    BY <2>1 DEF YoungInv, PushesYounger
  <2>3. ASSUME NEW i \in 1 .. Len(got'[x.to]), got'[x.to][i].match = x.match PROVE got'[x.to][i].batch.id < x.batch.id
    <3>1. x \in WaveTypes /\ x.to \in Worlds
      BY <2>1 DEF YoungInv, IngressInv, IngressTypes, WaveTypes
    <3>2. CASE i \in 1 .. Len(got[x.to]) /\ got'[x.to][i] = got[x.to][i]
      BY <2>1, <2>3, <3>2 DEF YoungInv, PushesYounger
    <3>3. CASE x.to = wave.to /\ got'[x.to][i] = wave
      <4>1. d = c /\ x # wave
        BY <1>2, <1>4, <2>1, <3>3
      <4>2. wave.batch.id <= x.batch.id /\ wave.batch.id # x.batch.id
        BY <4>1, <1>2, <2>1 DEF YoungInv, PushesYounger
      <4>3. wave.batch.id \in Nat /\ x.batch.id \in Nat
        BY <3>1, <1>2 DEF WaveTypes, Batch
      <4> QED BY <4>2, <4>3, <3>3
    <3> QED BY <1>2, <1>5, <2>3, <3>1, <3>2, <3>3, SMTT(30)
  <2> QED BY <2>2, <2>3
<1>8. PushedInOrder'
  <2> SUFFICES ASSUME NEW w \in Worlds, NEW i \in 1 .. Len(got'[w]), NEW j \in 1 .. Len(got'[w]), i < j,
                      got'[w][i].match = got'[w][j].match
               PROVE  got'[w][i].batch.id < got'[w][j].batch.id
    BY DEF PushedInOrder
  <2>1. CASE got'[w] = got[w]
    BY <2>1 DEF YoungInv, PushedInOrder
  <2>2. CASE got'[w] # got[w]
    <3>1. w = wave.to /\ Len(got'[w]) = Len(got[w]) + 1 /\ got'[w][Len(got[w]) + 1] = wave
          /\ \A k \in 1 .. Len(got[w]) : got'[w][k] = got[w][k]
      BY <1>2, <2>2
    <3>2. i \in 1 .. Len(got[w]) /\ got'[w][i] = got[w][i]
      BY <3>1, <1>5
    <3>3. CASE j \in 1 .. Len(got[w])
      BY <3>1, <3>2, <3>3 DEF YoungInv, PushedInOrder
    <3>4. CASE j = Len(got[w]) + 1
      BY <3>1, <3>2, <3>4 DEF YoungInv, PushesYounger
    <3> QED BY <3>1, <3>3, <3>4, <1>5
  <2> QED BY <2>1, <2>2
<1> QED BY <1>1, <1>6, <1>7, <1>8 DEF YoungInv

-----------------------------------------------------------------------------
(* The fan-outs.                                                           *)

\* What is on its way to a world.
Routes == {"resume_game", "start", "pause_dom", "resume_dom"}
Requests == [to : Worlds, route : Routes, match : Nat]
FanoutTypes == match \in Nat /\ fanout \in [Fanouts -> Seq(Requests)] /\ frozen \in [Worlds -> BOOLEAN] /\ paused \in BOOLEAN
OnItsWay(w, route) == \E c \in Fanouts : \E i \in 1 .. Len(fanout[c]) : fanout[c][i].to = w /\ fanout[c][i].route = route

\* A match that is paused has each world frozen or its pause on the way, and nothing
\* on the way that thaws it.
PauseComes == paused => \A w \in Worlds :
  /\ frozen[w] \/ OnItsWay(w, "pause_dom")
  /\ ~OnItsWay(w, "resume_dom")
FanoutInv == FanoutTypes /\ PauseComes

\* A fan-out has its routes for both worlds and no others.
LEMMA FanOutOf ==
  ASSUME NEW routes \in Seq(Routes), match' \in Nat
  PROVE  /\ FanOut(routes) \in Seq(Requests)
         /\ \A i \in 1 .. Len(FanOut(routes)) : \E j \in 1 .. Len(routes) : FanOut(routes)[i].route = routes[j]
         /\ \A w \in Worlds, j \in 1 .. Len(routes) : \E i \in 1 .. Len(FanOut(routes)) :
              FanOut(routes)[i].to = w /\ FanOut(routes)[i].route = routes[j]
<1> DEFINE n == Len(routes)
           toA == [i \in 1 .. n |-> Request("A", routes[i])]
           toB == [i \in 1 .. n |-> Request("B", routes[i])]
<1>1. n \in Nat /\ \A i \in 1 .. n : routes[i] \in Routes
  OBVIOUS
<1>2. \A i \in 1 .. n, w \in Worlds : /\ Request(w, routes[i]) \in Requests
                                      /\ Request(w, routes[i]).route = routes[i] /\ Request(w, routes[i]).to = w
  BY <1>1 DEF Request, Requests
<1>3. toA \in Seq(Requests) /\ toB \in Seq(Requests) /\ Len(toA) = n /\ Len(toB) = n
  BY <1>1, <1>2 DEF Worlds
<1>4. /\ \A i \in 1 .. n : toA[i] = Request("A", routes[i]) /\ toB[i] = Request("B", routes[i])
      /\ FanOut(routes) = toA \o toB
  BY DEF FanOut
<1> HIDE DEF toA, toB
<1>5. /\ FanOut(routes) \in Seq(Requests) /\ Len(FanOut(routes)) = n + n
      /\ \A i \in 1 .. n + n : FanOut(routes)[i] = IF i <= n THEN toA[i] ELSE toB[i - n]
  <2>1. /\ toA \o toB \in Seq(Requests) /\ Len(toA \o toB) = Len(toA) + Len(toB)
        /\ \A i \in 1 .. Len(toA) + Len(toB) : (toA \o toB)[i] = IF i <= Len(toA) THEN toA[i] ELSE toB[i - Len(toA)]
    BY <1>3, ConcatProperties
  <2> QED BY <2>1, <1>3, <1>4
<1> HIDE DEF n
<1>6. ASSUME NEW i \in 1 .. n + n PROVE \E j \in 1 .. n : FanOut(routes)[i].route = routes[j]
  <2>1. CASE i <= n
    <3>1. i \in 1 .. n
      BY <1>1, <2>1 DEF n
    <3> QED BY <3>1, <1>2, <1>4, <1>5, <2>1, SMTT(30) DEF Worlds
  <2>2. CASE ~(i <= n)
    <3>1. i - n \in 1 .. n
      BY <1>1, <2>2
    <3>2. FanOut(routes)[i] = toB[i - n]
      BY <1>5, <2>2
    <3>3. toB[i - n] = Request("B", routes[i - n])
      BY <3>1, <1>4
    <3> QED BY <3>1, <3>2, <3>3, <1>2 DEF Worlds
  <2> QED BY <2>1, <2>2
<1>7. ASSUME NEW w \in Worlds, NEW j \in 1 .. n
      PROVE  \E i \in 1 .. n + n : FanOut(routes)[i].to = w /\ FanOut(routes)[i].route = routes[j]
  <2>1. CASE w = "A"
    <3>1. j \in 1 .. n + n /\ j <= n
      BY <1>1
    <3> QED BY <3>1, <1>2, <1>4, <1>5, <2>1, SMTT(30) DEF Worlds
  <2>2. CASE w = "B"
    <3>1. j + n \in 1 .. n + n /\ ~(j + n <= n) /\ (j + n) - n = j
      BY <1>1
    <3>2. FanOut(routes)[j + n] = toB[j]
      BY <3>1, <1>5
    <3>3. toB[j] = Request("B", routes[j])
      BY <1>4
    <3> QED BY <3>1, <3>2, <3>3, <1>2, <2>2 DEF Worlds
  <2> QED BY <2>1, <2>2 DEF Worlds
<1>8. FanOut(routes) \in Seq(Requests) /\ Len(FanOut(routes)) = n + n
  BY <1>5
<1>9. Len(routes) = n
  BY DEF n
<1>10. \A i \in 1 .. Len(FanOut(routes)) : \E j \in 1 .. Len(routes) : FanOut(routes)[i].route = routes[j]
  BY <1>6, <1>8, <1>9
<1>11. \A w \in Worlds, j \in 1 .. Len(routes) : \E i \in 1 .. Len(FanOut(routes)) :
         FanOut(routes)[i].to = w /\ FanOut(routes)[i].route = routes[j]
  BY <1>7, <1>8, <1>9
<1> QED BY <1>8, <1>10, <1>11

\* A new call adds its own requests to those on their way.
LEMMA BeginAdds ==
  ASSUME FanoutInv, NEW c \in Fanouts, NEW routes \in Seq(Routes), Begin(c, routes)
  PROVE  /\ fanout' \in [Fanouts -> Seq(Requests)] /\ match' \in Nat /\ frozen' = frozen
         /\ \A w \in Worlds, route \in Routes : OnItsWay(w, route)' <=>
              OnItsWay(w, route) \/ \E j \in 1 .. Len(routes) : routes[j] = route
<1>1. match' \in Nat /\ frozen' = frozen /\ fanout[c] = <<>> /\ fanout' = [fanout EXCEPT ![c] = FanOut(routes)]
  BY DEF Begin, CountStart, CountMatch, FanoutInv, FanoutTypes
<1>2. FanOut(routes) \in Seq(Requests) /\ fanout' \in [Fanouts -> Seq(Requests)]
      /\ fanout'[c] = FanOut(routes) /\ \A d \in Fanouts \ {c} : fanout'[d] = fanout[d]
  BY <1>1, FanOutOf DEF FanoutInv, FanoutTypes
<1>3. ASSUME NEW w \in Worlds, NEW route \in Routes, OnItsWay(w, route)'
      PROVE  OnItsWay(w, route) \/ \E j \in 1 .. Len(routes) : routes[j] = route
  <2>1. PICK d \in Fanouts : \E i \in 1 .. Len(fanout'[d]) : fanout'[d][i].to = w /\ fanout'[d][i].route = route
    BY <1>3 DEF OnItsWay
  <2>2. CASE d = c
    BY <1>1, <1>2, <2>1, <2>2, FanOutOf
  <2>3. CASE d # c
    BY <1>2, <2>1, <2>3 DEF OnItsWay
  <2> QED BY <2>2, <2>3
<1>4. ASSUME NEW w \in Worlds, NEW route \in Routes, OnItsWay(w, route) PROVE OnItsWay(w, route)'
  <2>1. PICK d \in Fanouts : \E i \in 1 .. Len(fanout[d]) : fanout[d][i].to = w /\ fanout[d][i].route = route
    BY <1>4 DEF OnItsWay
  <2>2. d # c
    BY <1>1, <2>1
  <2> QED BY <1>2, <2>1, <2>2 DEF OnItsWay
<1>5. ASSUME NEW w \in Worlds, NEW j \in 1 .. Len(routes) PROVE OnItsWay(w, routes[j])'
  BY <1>1, <1>2, FanOutOf, SMTT(30) DEF OnItsWay
<1> QED BY <1>1, <1>2, <1>3, <1>4, <1>5

\* The next request of a call arrives.
LEMMA SendNextKeeps ==
  ASSUME ~GoLosses, FanoutInv, NEW c \in Fanouts, SendNext(c)
  PROVE  FanoutInv'
<1> DEFINE r == Head(fanout[c])
<1>1. /\ fanout[c] # <<>> /\ fanout' = [fanout EXCEPT ![c] = Tail(@)] /\ Arrives(r)
      /\ match' = match /\ paused' = paused /\ fanout[c] \in Seq(Requests)
  BY DEF SendNext, vars, flowVars, FanoutInv, FanoutTypes
<1>2. /\ r \in Requests /\ r = fanout[c][1] /\ 1 \in 1 .. Len(fanout[c])
      /\ Tail(fanout[c]) \in Seq(Requests) /\ Len(Tail(fanout[c])) = Len(fanout[c]) - 1 /\ Len(fanout[c]) \in Nat
      /\ \A i \in 1 .. Len(Tail(fanout[c])) : Tail(fanout[c])[i] = fanout[c][i + 1] /\ i + 1 \in 1 .. Len(fanout[c])
  BY <1>1, HeadTailProperties
<1> HIDE DEF r
<1>3. /\ fanout' \in [Fanouts -> Seq(Requests)] /\ fanout'[c] = Tail(fanout[c])
      /\ \A d \in Fanouts \ {c} : fanout'[d] = fanout[d]
  BY <1>1, <1>2 DEF FanoutInv, FanoutTypes
<1>4. frozen' \in [Worlds -> BOOLEAN] /\ \A w \in Worlds : frozen'[w] =
        IF w # r.to THEN frozen[w] ELSE IF r.route = "pause_dom" THEN TRUE
                  ELSE IF r.route = "resume_dom" THEN FALSE ELSE frozen[w]
  BY <1>1 DEF Arrives, FanoutInv, FanoutTypes
<1>5. ASSUME NEW w, NEW route, OnItsWay(w, route)' PROVE OnItsWay(w, route)
  <2>1. PICK d \in Fanouts : \E i \in 1 .. Len(fanout'[d]) : fanout'[d][i].to = w /\ fanout'[d][i].route = route
    BY <1>5 DEF OnItsWay
  <2>2. CASE d = c
    <3>1. PICK i \in 1 .. Len(Tail(fanout[c])) : Tail(fanout[c])[i].to = w /\ Tail(fanout[c])[i].route = route
      BY <1>3, <2>1, <2>2
    <3>2. i + 1 \in 1 .. Len(fanout[c]) /\ fanout[c][i + 1].to = w /\ fanout[c][i + 1].route = route
      BY <1>2, <3>1
    <3> QED BY <2>1, <2>2, <3>2 DEF OnItsWay
  <2>3. CASE d # c
    BY <1>3, <2>1, <2>3 DEF OnItsWay
  <2> QED BY <2>2, <2>3
<1>6. ASSUME NEW w, NEW route, OnItsWay(w, route) PROVE OnItsWay(w, route)' \/ (r.to = w /\ r.route = route)
  <2>5. PICK d \in Fanouts : \E i \in 1 .. Len(fanout[d]) : fanout[d][i].to = w /\ fanout[d][i].route = route
    BY <1>6 DEF OnItsWay
  <2>1. PICK i \in 1 .. Len(fanout[d]) : fanout[d][i].to = w /\ fanout[d][i].route = route
    BY <2>5
  <2>2. CASE d = c /\ i # 1
    <3>1. i - 1 \in 1 .. Len(Tail(fanout[c])) /\ Tail(fanout[c])[i - 1] = fanout[c][i]
      <4>1. i - 1 \in 1 .. Len(Tail(fanout[c])) /\ (i - 1) + 1 = i
        BY <1>2, <2>1, <2>2
      <4> QED BY <4>1, <1>2
    <3> QED BY <1>3, <2>1, <2>2, <3>1 DEF OnItsWay
  <2>3. CASE d = c /\ i = 1
    BY <1>2, <2>1, <2>3
  <2>4. CASE d # c
    BY <1>3, <2>1, <2>4 DEF OnItsWay
  <2> QED BY <2>2, <2>3, <2>4
<1>7. OnItsWay(r.to, r.route)
  BY <1>2 DEF OnItsWay
<1>8. PauseComes'
  <2> SUFFICES ASSUME paused, NEW w \in Worlds
               PROVE  (frozen'[w] \/ OnItsWay(w, "pause_dom")') /\ ~OnItsWay(w, "resume_dom")'
    BY <1>1 DEF PauseComes
  <2>1. (frozen[w] \/ OnItsWay(w, "pause_dom")) /\ ~OnItsWay(w, "resume_dom")
    BY DEF FanoutInv, PauseComes
  <2>2. w = r.to => r.route # "resume_dom"
    BY <1>7, <2>1
  <2> QED BY <1>4, <1>5, <1>6, <2>1, <2>2
<1> QED BY <1>1, <1>3, <1>4, <1>8 DEF FanoutInv, FanoutTypes

\* A pause comes still when nothing was sent, arrived or paused anew.
LEMMA PauseStays ==
  ASSUME PauseComes, paused' => paused, frozen' = frozen, fanout' = fanout PROVE PauseComes'
<1> SUFFICES ASSUME paused', NEW w \in Worlds
             PROVE  (frozen'[w] \/ OnItsWay(w, "pause_dom")') /\ ~OnItsWay(w, "resume_dom")'
  BY DEF PauseComes
<1>1. (frozen[w] \/ OnItsWay(w, "pause_dom")) /\ ~OnItsWay(w, "resume_dom")
  BY DEF PauseComes
<1>2. /\ OnItsWay(w, "pause_dom") => OnItsWay(w, "pause_dom")'
      /\ OnItsWay(w, "resume_dom")' => OnItsWay(w, "resume_dom")
  BY Zenon DEF OnItsWay
<1>3. frozen'[w] = frozen[w]
  OBVIOUS
<1> QED BY <1>1, <1>2, <1>3, Zenon

LEMMA FanoutStep ==
  ASSUME OneOperator, ~GoLosses, FanoutInv, FanoutNext PROVE FanoutInv'
<1>1. CASE NoFanout
  <2>1. fanout' = fanout /\ frozen' = frozen /\ match' \in Nat
    BY <1>1 DEF NoFanout, CountStart, CountMatch, FanoutInv, FanoutTypes
  <2>2. UNCHANGED paused \/ ~paused'
    BY <1>1 DEF NoFanout, LobbyRegister, Ready, Start, StartSp, Rematch, RouteSend, WaveStart, ReportHq, flowVars
  <2>3. paused' => paused
    BY <2>2
  <2>4. paused' \in BOOLEAN
    BY <1>1 DEF NoFanout, LobbyRegister, Ready, Start, StartSp, Rematch, RouteSend, WaveStart, ReportHq, flowVars, FanoutInv, FanoutTypes
  <2>5. FanoutTypes'
    BY <2>1, <2>4 DEF FanoutInv, FanoutTypes
  <2>6. PauseComes'
    BY <2>1, <2>3, PauseStays DEF FanoutInv
  <2> QED BY <2>5, <2>6 DEF FanoutInv
<1>2. ASSUME NEW c \in Fanouts, AutoGoCall(c) \/ GoCall(c) PROVE FanoutInv'
  <2>1. GoRoutes \in Seq(Routes) /\ Len(GoRoutes) = 2 /\ GoRoutes[1] = "resume_game" /\ GoRoutes[2] = "start"
    BY DEF GoRoutes, Routes
  <2>2. Begin(c, GoRoutes)
    BY <1>2 DEF AutoGoCall, GoCall
  <2>3. UNCHANGED paused \/ ~paused'
    BY <1>2 DEF AutoGoCall, GoCall, Ready, Go, Start, vars, flowVars
  <2>4. \A w \in Worlds : (OnItsWay(w, "pause_dom")' <=> OnItsWay(w, "pause_dom"))
                          /\ (OnItsWay(w, "resume_dom")' <=> OnItsWay(w, "resume_dom"))
    <3>1. {"pause_dom", "resume_dom"} \subseteq Routes /\ \A j \in 1 .. Len(GoRoutes) : GoRoutes[j] \notin {"pause_dom", "resume_dom"}
      BY <2>1 DEF Routes
    <3> HIDE DEF GoRoutes
    <3> QED BY <2>1, <2>2, <3>1, BeginAdds
  <2>5. paused' => paused
    BY <2>3
  <2>7. paused' \in BOOLEAN
    BY <1>2 DEF AutoGoCall, GoCall, Ready, Go, Start, vars, flowVars, FanoutInv, FanoutTypes
  <2>6. fanout' \in [Fanouts -> Seq(Requests)] /\ match' \in Nat /\ frozen' = frozen
    BY <2>1, <2>2, BeginAdds
  <2> QED BY <2>4, <2>5, <2>6, <2>7, Zenon DEF FanoutInv, FanoutTypes, PauseComes
<1>3. ASSUME NEW c \in Fanouts, PauseCall(c) PROVE FanoutInv'
  <2>1. <<"pause_dom">> \in Seq(Routes) /\ Len(<<"pause_dom">>) = 1 /\ <<"pause_dom">>[1] = "pause_dom"
    BY DEF Routes
  <2>2. Begin(c, <<"pause_dom">>) /\ ~InFlight({"pause_dom", "resume_dom"})
    BY <1>3 DEF PauseCall, OperatorFree
  <2>3. paused' \in BOOLEAN
    BY <1>3 DEF PauseCall, Pause, SetPaused, vars, flowVars, FanoutInv, FanoutTypes
  <2>4. \A w \in Worlds : OnItsWay(w, "pause_dom")' /\ ~OnItsWay(w, "resume_dom")
    <3>1. \A w \in Worlds : ~OnItsWay(w, "resume_dom")
      BY <2>2 DEF OnItsWay, InFlight
    <3>2. \E j \in 1 .. Len(<<"pause_dom">>) : <<"pause_dom">>[j] = "pause_dom"
      BY <2>1
    <3> QED BY <2>1, <2>2, <3>1, <3>2, BeginAdds DEF Routes
  <2>5. \A w \in Worlds : ~OnItsWay(w, "resume_dom")'
    <3>1. \A j \in 1 .. Len(<<"pause_dom">>) : <<"pause_dom">>[j] # "resume_dom"
      BY <2>1
    <3> QED BY <2>1, <2>2, <2>4, <3>1, BeginAdds DEF Routes
  <2> QED BY <2>1, <2>2, <2>3, <2>4, <2>5, BeginAdds DEF FanoutInv, FanoutTypes, PauseComes
<1>4. ASSUME NEW c \in Fanouts, ResumeCall(c) PROVE FanoutInv'
  <2>1. <<"resume_dom">> \in Seq(Routes)
    BY DEF Routes
  <2>2. Begin(c, <<"resume_dom">>) /\ paused' = FALSE
    BY <1>4 DEF ResumeCall, Resume, SetPaused, vars, flowVars, FanoutInv, FanoutTypes
  <2> QED BY <2>1, <2>2, BeginAdds DEF FanoutInv, FanoutTypes, PauseComes
<1> QED BY <1>1, <1>2, <1>3, <1>4, SendNextKeeps DEF FanoutNext

-----------------------------------------------------------------------------
(* The theorems on pushes and fan-outs.                                    *)

\* At first nothing was sent, called or pushed.
LEMMA IngressInvAtFirst == ApiInit => ServingIngress
<1> SUFFICES ASSUME ApiInit PROVE ServingIngress
  OBVIOUS
<1>1. Init /\ calls = [c \in Calls |-> Idle] /\ got = [w \in Worlds |-> <<>>] /\ match = 0
  BY DEF ApiInit, IngressInit
<1>2. /\ IngressTypes /\ \A w \in Worlds : Len(got[w]) = 0
      /\ \A c \in Calls : calls[c].reading = None /\ calls[c].todo = {}
  BY <1>1 DEF IngressTypes, Idle, WaveTypes
<1>3. HistoryInv
  <2>1. sent = {} /\ revealed = {}
    BY <1>1 DEF Init
  <2> QED BY <1>1, <2>1, IInvInit DEF HistoryInv, IdsAreOwn, RoundsAreBounded, ShownIsOlder
<1>4. WavesWereShown
  BY <1>2 DEF WavesWereShown
<1>5. \A c \in Calls, w \in Worlds : ~Serves(c, w) /\ calls[c].reading # w
  BY <1>2, NoneIsNoName DEF Serves, Worlds
<1>6. OneServes
  BY <1>2, <1>5 DEF OneServes
<1>7. ReadsYounger /\ PushesYounger /\ PushedInOrder
  BY <1>2, <1>5 DEF ReadsYounger, PushesYounger, PushedInOrder
<1> QED BY <1>2, <1>3, <1>4, <1>6, <1>7 DEF ServingIngress, IngressInv, YoungInv

\* Every step of the handlers of wave starts keeps what they owe.
LEMMA IngressInvStays == ServingIngress /\ [ApiNext]_apiVars => ServingIngress'
<1> SUFFICES ASSUME ServingIngress, [ApiNext]_apiVars, serving' = "ingress" PROVE IngressInv' /\ (OneReport => YoungInv')
  BY DEF ServingIngress
<1>1. serving = "ingress" /\ IngressInv /\ (OneReport => YoungInv)
  BY DEF ApiNext, apiVars, ServingIngress
<1>2. CASE IngressNext
  <2>1. CASE NoWaveStart
    <3>1. /\ OtherRequest \/ (\E w \in Worlds, level \in BOOLEAN : RouteSend(w, level))
          /\ CountMatch /\ UNCHANGED <<calls, got>>
      BY <2>1 DEF NoWaveStart, OtherRequest
    <3>2. [Next]_vars
      BY <3>1 DEF OtherRequest, Next
    <3> QED BY <1>1, <3>1, <3>2, RequestKeepsIngress, RequestKeepsYoung
  <2>2. ASSUME NEW c \in Calls, NEW w \in Worlds, WaveStartCall(c, w) PROVE IngressInv' /\ (OneReport => YoungInv')
    BY <1>1, <2>2, CallKeepsIngress, CallKeepsYoung
  <2>3. ASSUME NEW c \in Calls, ReadReveal(c) PROVE IngressInv' /\ (OneReport => YoungInv')
    BY <1>1, <2>3, ReadKeepsIngress, ReadKeepsYoung
  <2>4. ASSUME NEW c \in Calls, PushNext(c) PROVE IngressInv' /\ (OneReport => YoungInv')
    BY <1>1, <2>4, PushKeepsIngress, PushKeepsYoung
  <2> QED BY <1>2, <2>1, <2>2, <2>3, <2>4 DEF IngressNext
<1>3. CASE UNCHANGED <<vars, match, calls, got>>
  <2>1. UNCHANGED <<sendVars, phase, mode, round, match, calls, got>> /\ [Next]_vars
    BY <1>3 DEF vars, sendVars, flowVars
  <2>2. HistoryInv'
    BY <1>1, <2>1, HistoryInvStep DEF IngressInv
  <2>3. \A c, w : Serves(c, w)' <=> Serves(c, w)
    BY <2>1 DEF Serves
  <2>4. IngressTypes' /\ WavesWereShown' /\ OneServes'
    <3>1. \A wave : WasShown(wave) => WasShown(wave)'
      BY <2>1 DEF WasShown, InMatch, sendVars
    <3> QED BY <1>1, <2>1, <2>3, <3>1 DEF IngressInv, IngressTypes, WavesWereShown, OneServes
  <2>5. OneReport => ReadsYounger' /\ PushesYounger' /\ PushedInOrder'
    BY <1>1, <2>1 DEF YoungInv, ReadsYounger, PushesYounger, PushedInOrder, sendVars
  <2> QED BY <1>1, <2>2, <2>4, <2>5 DEF IngressInv, YoungInv
<1> QED BY <1>1, <1>2, <1>3 DEF ApiNext, apiVars

\* A world is only pushed what a wave start of this match drained for it, however
\* the handlers' two lock sections and pushes interleave (api.rs: report,
\* push_incoming_sends).
THEOREM PushesAlwaysDrained == ApiSpec => [](serving = "ingress" => PushesAreDrained)
<1>1. ServingIngress => (serving = "ingress" => PushesAreDrained)
  BY DEF ServingIngress, IngressInv, WavesWereShown, WasShown, PushesAreDrained
<1> QED BY IngressInvAtFirst, IngressInvStays, <1>1, PTL DEF ApiSpec

\* Other kinds of handler push nothing.
GotNothing == serving # "ingress" => got = [w \in Worlds |-> <<>>]

\* Waves reach their world once and in the order of the sends, and only those that
\* a wave start drained for it, for every number of handlers, matches, sends and
\* rematches, as long as a world's reporter awaits its answer (match_loop.py does).
THEOREM PushesAlwaysRight == ASSUME OneReport PROVE ApiSpec => []PushesAreRight
<1>1. ApiInit => GotNothing
  BY DEF ApiInit, IngressInit, GotNothing
<1>2. GotNothing /\ [ApiNext]_apiVars => GotNothing'
  BY DEF GotNothing, ApiNext, apiVars
<1>3. ServingIngress /\ GotNothing => PushesAreRight
  <2> SUFFICES ASSUME ServingIngress, GotNothing PROVE PushesAreRight
    OBVIOUS
  <2>1. CASE serving = "ingress"
    BY <2>1 DEF ServingIngress, YoungInv, IngressInv, WavesWereShown, WasShown, PushesAreDrained, PushesAreRight
  <2>2. CASE serving # "ingress"
    <3>1. \A w \in Worlds : Len(got[w]) = 0
      BY <2>2 DEF GotNothing
    <3> QED BY <3>1 DEF PushedInOrder, PushesAreDrained, PushesAreRight
  <2> QED BY <2>1, <2>2
<1> QED BY IngressInvAtFirst, IngressInvStays, <1>1, <1>2, <1>3, PTL DEF ApiSpec

\* No operator's requests overlap and none is lost: then a match that is paused has
\* both worlds standing still once the fan-outs are through (api.rs: go, pause,
\* resume, fan_out).
ServingFanout == serving = "fanout" => FanoutInv
THEOREM PausesAlwaysFreeze ==
  ASSUME OneOperator, ~GoLosses PROVE ApiSpec => [](serving = "fanout" => PausedMeansFrozen)
<1>1. ApiInit => ServingFanout
  <2> SUFFICES ASSUME ApiInit PROVE FanoutInv
    BY DEF ServingFanout
  <2>1. match \in Nat /\ fanout \in [Fanouts -> Seq(Requests)] /\ frozen \in [Worlds -> BOOLEAN]
    BY DEF ApiInit, FanoutInit, AllWorlds
  <2>3. paused \in BOOLEAN
    BY DEF ApiInit, FanoutInit, Init
  <2>2. ~paused
    BY DEF ApiInit, FanoutInit, Init
  <2> QED BY <2>1, <2>2, <2>3 DEF FanoutInv, FanoutTypes, PauseComes
<1>2. ServingFanout /\ [ApiNext]_apiVars => ServingFanout'
  <2> SUFFICES ASSUME ServingFanout, [ApiNext]_apiVars, serving' = "fanout" PROVE FanoutInv'
    BY DEF ServingFanout
  <2>1. FanoutInv
    BY DEF ServingFanout, ApiNext, apiVars
  <2>2. CASE FanoutNext
    BY <2>1, <2>2, FanoutStep
  <2>3. CASE UNCHANGED <<paused, match, fanout, frozen>>
    <3>1. FanoutTypes'
      <4>1. match \in Nat /\ fanout \in [Fanouts -> Seq(Requests)] /\ frozen \in [Worlds -> BOOLEAN]
        BY <2>1 DEF FanoutInv, FanoutTypes
      <4>2. paused \in BOOLEAN
        BY <2>1 DEF FanoutInv, FanoutTypes
      <4> QED BY <4>1, <4>2, <2>3 DEF FanoutTypes
    <3>2. PauseComes'
      <4>1. PauseComes
        BY <2>1 DEF FanoutInv
      <4>2. paused' => paused
        BY <2>3
      <4> QED BY <4>1, <4>2, <2>3, PauseStays
    <3> QED BY <3>1, <3>2 DEF FanoutInv
  <2>4. serving = "fanout" /\ (FanoutNext \/ UNCHANGED apiVars)
    BY DEF ApiNext, apiVars
  <2>5. CASE UNCHANGED apiVars
    <3>1. vars' = vars /\ UNCHANGED <<match, fanout, frozen>>
      BY <2>5 DEF apiVars
    <3>2. paused' = paused
      BY <3>1 DEF vars, flowVars
    <3> QED BY <3>1, <3>2, <2>3
  <2> QED BY <2>2, <2>4, <2>5
<1>3. ServingFanout => (serving = "fanout" => PausedMeansFrozen)
  <2> SUFFICES ASSUME FanoutInv, paused, Settled, NEW w \in Worlds PROVE frozen[w]
    BY DEF ServingFanout, PausedMeansFrozen
  <2>1. ~OnItsWay(w, "pause_dom")
    BY DEF Settled, InFlight, OnItsWay
  <2> QED BY <2>1 DEF FanoutInv, PauseComes
<1> QED BY <1>1, <1>2, <1>3, PTL DEF ApiSpec
=============================================================================
