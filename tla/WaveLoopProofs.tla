--------------------------- MODULE WaveLoopProofs ---------------------------
(***************************************************************************)
(* Machine-checked proofs about the wave referee and the loop around it,   *)
(* for every set of worlds, every cap of the waves, every set of           *)
(* deployments and every bound.  First the referee alone, whatever is      *)
(* reported to it; then executor, relay, push, ack and poll with it.       *)
(***************************************************************************)
EXTENDS WaveLoop, TLAPS

-----------------------------------------------------------------------------
(* The referee.                                                            *)

\* What waits in the outbox was decided before: no wave of the round is beyond
\* the last one.
Decided ==
  \A w \in Worlds : \A c \in outbox[w] :
    c.round = rounds[w] => c.level <= lastWave[w]

IInv == TypeOK /\ FlagsAgree /\ CommandsAreFresh /\ Decided

LEMMA InitIInv == Init => IInv
  BY NoneIsNoLevel DEF Init, IInv, TypeOK, FlagsAgree, CommandsAreFresh, Decided

\* A command with a fresh id keeps the ids apart.
LEMMA EmitKeepsFresh ==
  ASSUME IInv, NEW w \in Worlds, NEW level \in Nat, NEW round \in Nat,
         Emit(w, level, round),
         rounds' \in [Worlds -> Nat],
         \A v \in Worlds : rounds[v] <= rounds'[v],
         round = rounds'[w],
         \A c \in outbox[w] : ~(c.round = round /\ c.level = level)
  PROVE  /\ CommandsAreFresh'
         /\ outbox' \in [Worlds -> SUBSET Command] /\ nextCmd' \in Nat
<1> DEFINE new == [id |-> nextCmd, level |-> level, round |-> round]
<1>1. /\ new \in Command /\ new.id = nextCmd /\ new.round = round /\ new.level = level
      /\ outbox' = [outbox EXCEPT ![w] = @ \union {new}]
      /\ nextCmd' = nextCmd + 1
      /\ nextCmd \in Nat /\ outbox \in [Worlds -> SUBSET Command]
  BY DEF Emit, IInv, TypeOK, Command
<1> HIDE DEF new
<1>2. outbox' \in [Worlds -> SUBSET Command] /\ nextCmd' \in Nat
  BY <1>1
<1>3. \A v \in Worlds : outbox'[v] = outbox[v] \union (IF v = w THEN {new} ELSE {})
  BY <1>1
<1>4. \A v \in Worlds : \A c \in outbox[v] :
        c \in Command /\ c.id < nextCmd /\ c.round <= rounds[v]
  BY <1>1 DEF IInv, CommandsAreFresh
<1>5. \A v \in Worlds : \A c \in outbox'[v] : c.id < nextCmd' /\ c.round <= rounds'[v]
  <2> SUFFICES ASSUME NEW v \in Worlds, NEW c \in outbox'[v]
               PROVE  c.id < nextCmd' /\ c.round <= rounds'[v]
    OBVIOUS
  <2>1. CASE c \in outbox[v]
    <3>1. c.id \in Nat /\ c.round \in Nat /\ rounds[v] \in Nat /\ rounds'[v] \in Nat
      BY <1>4, <2>1 DEF Command, IInv, TypeOK
    <3> QED BY <1>1, <1>4, <2>1, <3>1
  <2>2. CASE v = w /\ c = new
    BY <1>1, <2>2
  <2> QED BY <1>3, <2>1, <2>2
<1>6. ASSUME NEW v \in Worlds, NEW x \in Worlds, NEW c \in outbox'[v], NEW d \in outbox'[x],
             c.id = d.id
      PROVE  v = x /\ c = d
  <2>1. CASE c \in outbox[v] /\ d \in outbox[x]
    BY <1>6, <2>1 DEF IInv, CommandsAreFresh
  <2>2. CASE c \in outbox[v] /\ x = w /\ d = new
    <3>1. c.id \in Nat
      BY <1>4, <2>2 DEF Command
    <3> QED BY <1>1, <1>4, <1>6, <2>2, <3>1
  <2>3. CASE v = w /\ c = new /\ d \in outbox[x]
    <3>1. d.id \in Nat
      BY <1>4, <2>3 DEF Command
    <3> QED BY <1>1, <1>4, <1>6, <2>3, <3>1
  <2>4. CASE v = w /\ c = new /\ x = w /\ d = new
    BY <2>4
  <2> QED BY <1>3, <2>1, <2>2, <2>3, <2>4
<1>7. ASSUME NEW v \in Worlds, NEW c \in outbox'[v], NEW d \in outbox'[v],
             c.round = d.round, c.level = d.level
      PROVE  c = d
  <2>1. CASE c \in outbox[v] /\ d \in outbox[v]
    BY <1>7, <2>1 DEF IInv, CommandsAreFresh
  <2>2. CASE v = w /\ c \in outbox[v] /\ d = new
    BY <1>1, <1>7, <2>2
  <2>3. CASE v = w /\ c = new /\ d \in outbox[v]
    BY <1>1, <1>7, <2>3
  <2>4. CASE c = new /\ d = new
    BY <2>4
  <2> QED BY <1>3, <2>1, <2>2, <2>3, <2>4
<1> QED BY <1>2, <1>5, <1>6, <1>7 DEF CommandsAreFresh

\* emit_next of the level after the last one.
LEMMA EmitNextKeeps ==
  ASSUME IInv, NEW w \in Worlds, NEW level \in Nat, level = lastWave[w] + 1,
         EmitNext(w, level), ~Capped(level), UNCHANGED rounds
  PROVE  /\ CommandsAreFresh' /\ Decided'
         /\ outbox' \in [Worlds -> SUBSET Command] /\ nextCmd' \in Nat
         /\ inFlight' = [inFlight EXCEPT ![w] = level]
         /\ lastWave' = [lastWave EXCEPT ![w] = level]
<1>1. /\ Emit(w, level, rounds[w])
      /\ inFlight' = [inFlight EXCEPT ![w] = level]
      /\ lastWave' = [lastWave EXCEPT ![w] = level]
  BY DEF EmitNext
<1>2. rounds \in [Worlds -> Nat] /\ lastWave \in [Worlds -> Nat]
  BY DEF IInv, TypeOK
<1>3. \A c \in outbox[w] : ~(c.round = rounds[w] /\ c.level = level)
  <2> SUFFICES ASSUME NEW c \in outbox[w], c.round = rounds[w], c.level = level
               PROVE  FALSE
    OBVIOUS
  <2>1. c.level <= lastWave[w]
    BY DEF IInv, Decided
  <2> QED BY <1>2, <2>1
<1>4. /\ CommandsAreFresh'
      /\ outbox' \in [Worlds -> SUBSET Command] /\ nextCmd' \in Nat
  <2>1. rounds' \in [Worlds -> Nat] /\ rounds[w] \in Nat /\ rounds[w] = rounds'[w]
    BY <1>2
  <2>2. \A v \in Worlds : rounds[v] <= rounds'[v]
    BY <1>2
  <2> QED BY <1>1, <1>3, <2>1, <2>2, EmitKeepsFresh
<1>5. Decided'
  <2> SUFFICES ASSUME NEW v \in Worlds, NEW c \in outbox'[v], c.round = rounds[v]
               PROVE  c.level <= lastWave'[v]
    BY DEF Decided
  <2>1. \/ c \in outbox[v]
        \/ v = w /\ c = [id |-> nextCmd, level |-> level, round |-> rounds[w]]
    BY <1>1 DEF Emit, IInv, TypeOK
  <2>2. CASE c \in outbox[v]
    <3>1. c.level <= lastWave[v] /\ c.level \in Nat
      BY <2>2 DEF IInv, Decided, TypeOK, Command
    <3>2. lastWave[v] <= lastWave'[v] /\ lastWave[v] \in Nat /\ lastWave'[v] \in Nat
      BY <1>1, <1>2
    <3> QED BY <3>1, <3>2
  <2>3. CASE v = w /\ c = [id |-> nextCmd, level |-> level, round |-> rounds[w]]
    BY <1>1, <1>2, <2>3
  <2> QED BY <2>1, <2>2, <2>3
<1> QED BY <1>1, <1>4, <1>5

LEMMA ReadyKeeps ==
  ASSUME IInv, NEW w \in Worlds, OnReady(w)
  PROVE  IInv'
<1>1. /\ ~running[w]
      /\ nextLevel[w] = 1 /\ lastWave[w] = 0 /\ inFlight[w] = None
  BY DEF OnReady, ReadyCounts, IInv, FlagsAgree
<1>2. /\ running' = [running EXCEPT ![w] = TRUE]
      /\ restartPending' = [restartPending EXCEPT ![w] = FALSE]
      /\ EmitNext(w, 1) /\ UNCHANGED <<nextLevel, rounds>>
  BY <1>1 DEF OnReady
<1>3. CASE Capped(1)
  <2>1. UNCHANGED <<inFlight, outbox, nextCmd, lastWave>>
    BY <1>2, <1>3 DEF EmitNext
  <2>2. TypeOK'
    BY <1>2, <2>1 DEF IInv, TypeOK
  <2>3. FlagsAgree'
    BY <1>1, <1>2, <1>3, <2>1 DEF IInv, TypeOK, FlagsAgree, Capped
  <2>4. CommandsAreFresh'
    BY <1>2, <2>1 DEF IInv, CommandsAreFresh
  <2>5. Decided'
    BY <1>2, <2>1 DEF IInv, Decided
  <2> QED BY <2>2, <2>3, <2>4, <2>5 DEF IInv
<1>4. CASE ~Capped(1)
  <2>1. /\ CommandsAreFresh' /\ Decided'
        /\ outbox' \in [Worlds -> SUBSET Command] /\ nextCmd' \in Nat
        /\ inFlight' = [inFlight EXCEPT ![w] = 1]
        /\ lastWave' = [lastWave EXCEPT ![w] = 1]
    <3>1. 1 \in Nat /\ 1 = lastWave[w] + 1
      BY <1>1
    <3> QED BY <1>2, <1>4, <3>1, EmitNextKeeps
  <2>2. TypeOK'
    BY <1>2, <2>1 DEF IInv, TypeOK
  <2>3. FlagsAgree'
    BY <1>1, <1>2, <1>4, <2>1, NoneIsNoLevel DEF IInv, TypeOK, FlagsAgree, Capped
  <2> QED BY <2>1, <2>2, <2>3 DEF IInv
<1> QED BY <1>3, <1>4

LEMMA WaveDoneKeeps ==
  ASSUME IInv, NEW w \in Worlds, NEW level \in Nat, OnWaveDone(w, level)
  PROVE  IInv'
<1>1. /\ running[w] /\ inFlight[w] = level /\ lastWave[w] = level
      /\ level \in Nat /\ level + 1 \in Nat
      /\ nextLevel' = [nextLevel EXCEPT ![w] = level + 1]
      /\ UNCHANGED <<running, restartPending, rounds>>
  BY NoneIsNoLevel DEF OnWaveDone, WaveCounts, IInv, FlagsAgree
<1>2. CASE Capped(level + 1)
  <2>1. /\ inFlight' = [inFlight EXCEPT ![w] = None]
        /\ UNCHANGED <<outbox, nextCmd, lastWave>>
    BY <1>2 DEF OnWaveDone
  <2>2. TypeOK'
    BY <1>1, <2>1 DEF IInv, TypeOK
  <2>3. FlagsAgree'
    BY <1>1, <1>2, <2>1, NoneIsNoLevel DEF IInv, TypeOK, FlagsAgree, Capped
  <2>4. CommandsAreFresh'
    BY <1>1, <2>1 DEF IInv, CommandsAreFresh
  <2>5. Decided'
    BY <1>1, <2>1 DEF IInv, Decided
  <2> QED BY <2>2, <2>3, <2>4, <2>5 DEF IInv
<1>3. CASE ~Capped(level + 1)
  <2>1. EmitNext(w, level + 1)
    BY <1>3 DEF OnWaveDone
  <2>2. /\ CommandsAreFresh' /\ Decided'
        /\ outbox' \in [Worlds -> SUBSET Command] /\ nextCmd' \in Nat
        /\ inFlight' = [inFlight EXCEPT ![w] = level + 1]
        /\ lastWave' = [lastWave EXCEPT ![w] = level + 1]
    BY <1>1, <1>3, <2>1, EmitNextKeeps
  <2>3. TypeOK'
    BY <1>1, <2>2 DEF IInv, TypeOK
  <2>4. FlagsAgree'
    BY <1>1, <1>3, <2>2, NoneIsNoLevel DEF IInv, TypeOK, FlagsAgree, Capped
  <2> QED BY <2>2, <2>3, <2>4 DEF IInv
<1> QED BY <1>2, <1>3

LEMMA HqDestroyedKeeps ==
  ASSUME IInv, NEW w \in Worlds, OnHqDestroyed(w)
  PROVE  IInv'
<1>1. /\ running[w]
      /\ running' = [running EXCEPT ![w] = FALSE]
      /\ restartPending' = [restartPending EXCEPT ![w] = TRUE]
      /\ inFlight' = [inFlight EXCEPT ![w] = None]
      /\ nextLevel' = [nextLevel EXCEPT ![w] = 1]
      /\ rounds' = [rounds EXCEPT ![w] = @ + 1]
      /\ lastWave' = [lastWave EXCEPT ![w] = 0]
      /\ Emit(w, 0, rounds[w] + 1)
  BY DEF OnHqDestroyed, DeathCounts, ResetLevel
<1>2. rounds \in [Worlds -> Nat] /\ rounds' \in [Worlds -> Nat]
      /\ rounds'[w] = rounds[w] + 1 /\ \A v \in Worlds : rounds[v] <= rounds'[v]
  BY <1>1 DEF IInv, TypeOK
<1>3. \A v \in Worlds : \A c \in outbox[v] :
        c.round \in Nat /\ c.level \in Nat /\ c.round <= rounds[v]
  BY DEF IInv, TypeOK, CommandsAreFresh, Command
<1>4. /\ CommandsAreFresh'
      /\ outbox' \in [Worlds -> SUBSET Command] /\ nextCmd' \in Nat
  <2>1. \A c \in outbox[w] : ~(c.round = rounds[w] + 1 /\ c.level = 0)
    BY <1>2, <1>3
  <2>2. rounds[w] + 1 \in Nat /\ rounds[w] + 1 = rounds'[w] /\ 0 \in Nat
    BY <1>2
  <2> QED BY <1>1, <1>2, <2>1, <2>2, EmitKeepsFresh
<1>5. TypeOK'
  BY <1>1, <1>2, <1>4 DEF IInv, TypeOK
<1>6. FlagsAgree'
  BY <1>1, <1>2, NoneIsNoLevel DEF IInv, TypeOK, FlagsAgree, Capped
<1>7. Decided'
  <2> SUFFICES ASSUME NEW v \in Worlds, NEW c \in outbox'[v], c.round = rounds'[v]
               PROVE  c.level <= lastWave'[v]
    BY DEF Decided
  <2>1. \/ c \in outbox[v]
        \/ v = w /\ c = [id |-> nextCmd, level |-> 0, round |-> rounds[w] + 1]
    BY <1>1 DEF Emit, IInv, TypeOK
  <2>2. CASE v = w /\ c \in outbox[v]
    BY <1>2, <1>3, <2>2
  <2>3. CASE v # w /\ c \in outbox[v]
    BY <1>1, <1>2, <2>3 DEF IInv, Decided, TypeOK
  <2>4. CASE v = w /\ c = [id |-> nextCmd, level |-> 0, round |-> rounds[w] + 1]
    BY <1>1, <2>4 DEF IInv, TypeOK
  <2> QED BY <2>1, <2>2, <2>3, <2>4
<1> QED BY <1>4, <1>5, <1>6, <1>7 DEF IInv

LEMMA TakeKeeps ==
  ASSUME IInv, NEW w \in Worlds, NEW commands, Take(w, commands)
  PROVE  IInv'
<1>1. /\ UNCHANGED <<running, restartPending, inFlight, nextLevel, rounds, nextCmd, lastWave>>
      /\ outbox' = [outbox EXCEPT ![w] = @ \ commands]
  BY DEF Take
<1>2. outbox' \in [Worlds -> SUBSET Command] /\ \A v \in Worlds : outbox'[v] \subseteq outbox[v]
  BY <1>1 DEF IInv, TypeOK
<1>3. TypeOK'
  BY <1>1, <1>2 DEF IInv, TypeOK
<1>4. FlagsAgree'
  BY <1>1 DEF IInv, FlagsAgree, Capped
<1>5. CommandsAreFresh'
  BY <1>1, <1>2 DEF IInv, CommandsAreFresh
<1>6. Decided'
  BY <1>1, <1>2 DEF IInv, Decided
<1> QED BY <1>3, <1>4, <1>5, <1>6 DEF IInv

LEMMA StepIInv == IInv /\ [Next]_vars => IInv'
<1> SUFFICES ASSUME IInv, [Next]_vars PROVE IInv'
  OBVIOUS
<1>1. CASE UNCHANGED vars
  BY <1>1 DEF vars, IInv, TypeOK, FlagsAgree, CommandsAreFresh, Decided, Capped
<1>2. ASSUME NEW w \in Worlds, OnReady(w) PROVE IInv'
  BY <1>2, ReadyKeeps
<1>3. ASSUME NEW w \in Worlds, NEW level \in Levels, OnWaveDone(w, level) PROVE IInv'
  BY <1>3, WaveDoneKeeps, LevelsNat
<1>4. ASSUME NEW w \in Worlds, OnHqDestroyed(w) PROVE IInv'
  BY <1>4, HqDestroyedKeeps
<1>5. ASSUME NEW w \in Worlds, NEW commands \in SUBSET outbox[w], Take(w, commands) PROVE IInv'
  BY <1>5, TakeKeeps
<1> QED BY <1>1, <1>2, <1>3, <1>4, <1>5 DEF Next

LEMMA IInvAlways == Spec => []IInv
<1>1. Init => IInv
  BY InitIInv
<1>2. IInv /\ [Next]_vars => IInv'
  BY StepIInv
<1> QED BY <1>1, <1>2, PTL DEF Spec

-----------------------------------------------------------------------------
\* Every reachable state of the wave referee is well typed.
THEOREM WaveTypeCorrect == Spec => []TypeOK
<1>1. IInv => TypeOK
  BY DEF IInv
<1> QED BY <1>1, IInvAlways, PTL

\* The flags, the wave in flight and the next level of a world agree, for every
\* sequence of events (WorldReferee's fields are written by three handlers).
THEOREM FlagsAlways == Spec => []FlagsAgree
<1>1. IInv => FlagsAgree
  BY DEF IInv
<1> QED BY <1>1, IInvAlways, PTL

\* No command is decided twice, whatever is reported and however often.
THEOREM FreshAlways == Spec => []CommandsAreFresh
<1>1. IInv => CommandsAreFresh
  BY DEF IInv
<1> QED BY <1>1, IInvAlways, PTL

CountUp ==
  \A w \in Worlds : \A c \in outbox'[w] \ outbox[w] :
    /\ c.level > 0 => c.level = lastWave[w] + 1 /\ c.round = rounds[w]
    /\ c.level = 0 => c.round = rounds[w] + 1

\* A new command of world w alone.
LEMMA EmitAddsOne ==
  ASSUME IInv, NEW w \in Worlds, NEW level \in Nat, NEW round \in Nat, Emit(w, level, round)
  PROVE  \A v \in Worlds : \A c \in outbox'[v] \ outbox[v] :
           v = w /\ c.level = level /\ c.round = round
  BY DEF Emit, IInv, TypeOK

\* A step of the referee, whatever level is reported and whatever is taken.
AnyEvent ==
  \E w \in Worlds :
    \/ OnReady(w) \/ OnHqDestroyed(w)
    \/ \E level \in Nat : OnWaveDone(w, level)
    \/ \E commands : Take(w, commands)
LEMMA StepCountsUp == IInv /\ [AnyEvent]_vars => CountUp
<1> SUFFICES ASSUME IInv, [AnyEvent]_vars PROVE CountUp
  OBVIOUS
<1>1. CASE UNCHANGED outbox
  BY <1>1 DEF CountUp
<1>2. ASSUME NEW w \in Worlds, OnReady(w) PROVE CountUp
  <2>1. nextLevel[w] = 1 /\ lastWave[w] = 0 /\ rounds[w] \in Nat
    BY <1>2 DEF OnReady, ReadyCounts, IInv, FlagsAgree, TypeOK
  <2>2. UNCHANGED outbox \/ Emit(w, 1, rounds[w])
    BY <1>2, <2>1 DEF OnReady, EmitNext
  <2>3. CASE Emit(w, 1, rounds[w])
    BY <2>1, <2>3, EmitAddsOne DEF CountUp
  <2> QED BY <1>1, <2>2, <2>3
<1>3. ASSUME NEW w \in Worlds, NEW level \in Nat, OnWaveDone(w, level) PROVE CountUp
  <2>1. level \in Nat /\ lastWave[w] = level /\ rounds[w] \in Nat
    BY <1>3, NoneIsNoLevel DEF OnWaveDone, WaveCounts, IInv, FlagsAgree, TypeOK
  <2>2. UNCHANGED outbox \/ Emit(w, level + 1, rounds[w])
    BY <1>3 DEF OnWaveDone, EmitNext
  <2>3. CASE Emit(w, level + 1, rounds[w])
    <3>1. level + 1 \in Nat /\ level + 1 > 0
      BY <2>1
    <3>2. \A v \in Worlds : \A c \in outbox'[v] \ outbox[v] :
            v = w /\ c.level = level + 1 /\ c.round = rounds[w]
      BY <2>1, <2>3, <3>1, EmitAddsOne
    <3> QED BY <2>1, <3>1, <3>2 DEF CountUp
  <2> QED BY <1>1, <2>2, <2>3
<1>4. ASSUME NEW w \in Worlds, OnHqDestroyed(w) PROVE CountUp
  <2>1. rounds[w] \in Nat /\ rounds[w] + 1 \in Nat /\ Emit(w, 0, rounds[w] + 1)
    BY <1>4 DEF OnHqDestroyed, IInv, TypeOK
  <2>2. \A v \in Worlds : \A c \in outbox'[v] \ outbox[v] :
          v = w /\ c.level = 0 /\ c.round = rounds[w] + 1
    BY <2>1, EmitAddsOne
  <2> QED BY <2>1, <2>2 DEF CountUp
<1>5. ASSUME NEW w \in Worlds, NEW commands, Take(w, commands) PROVE CountUp
  BY <1>5 DEF Take, CountUp, IInv, TypeOK
<1>6. CASE UNCHANGED vars
  BY <1>1, <1>6 DEF vars
<1> QED BY <1>2, <1>3, <1>4, <1>5, <1>6 DEF AnyEvent

\* The waves of a round count up from one without gap or repetition.
THEOREM CountUpAlways == Spec => WavesCountUp
<1>1. IInv /\ [Next]_vars => [CountUp]_vars
  <2>1. Next => AnyEvent
    BY LevelsNat DEF Next, AnyEvent
  <2> QED BY <2>1, StepCountsUp
<1>2. Spec => [][CountUp]_vars
  BY <1>1, IInvAlways, PTL DEF Spec
<1> QED BY <1>2 DEF WavesCountUp, CountUp

\* The referee's books are kept for every number of worlds, levels and commands.
THEOREM BooksAlways == Spec => RefereeKeepsBooks
PROOF BY FlagsAlways, FreshAlways, CountUpAlways, PTL DEF RefereeKeepsBooks

-----------------------------------------------------------------------------
(* The loop.                                                               *)

\* What is written, handed and pushed has its type, and a command was decided.
Lines == [kind : {"ready", "wave_done", "hq_destroyed"}, level : Nat, life : Nat]
Executor == [state : {"boot", "up", "dead"}, wave : Nat, life : Nat]
Pushes == [to : Worlds, command : Command, pushed : BOOLEAN]
LoopTypes ==
  /\ exec \in [Worlds -> Executor] /\ log \in [Worlds -> Seq(Lines)]
  /\ inbox \in [Worlds -> SUBSET Command] /\ pushing \subseteq Pushes
  /\ handed \in [1 .. MaxCmd -> Nat] /\ nextCmd \in 1 .. MaxCmd + 1
  /\ \A w \in Worlds : \A c \in inbox[w] \union outbox[w] : c.id \in 1 .. nextCmd - 1
  /\ \A p \in pushing : p.command.id \in 1 .. nextCmd - 1

\* Where no poll comes between a push and its ack and pushes that arrive are answered,
\* a command is handed once: what is handed and waits in the outbox all the same was
\* pushed and will be acked.
Single == "push" \notin may \/ {"overlap", "unanswered"} \intersect may = {}
Pushed(w, c) == \E p \in pushing : p.to = w /\ p.command = c /\ p.pushed
PushAgrees ==
  /\ "push" \notin may => pushing = {}
  /\ Single => \A p \in pushing : p.command \in outbox[p.to]
  /\ Single => \A p, q \in pushing : p.command = q.command => p = q
HandedAgrees == Single =>
  /\ \A n \in 1 .. MaxCmd : handed[n] <= 1 /\ (handed[n] = 1 => n < nextCmd)
  /\ \A w \in Worlds :
       /\ \A c \in inbox[w] : handed[c.id] = 1
       /\ \A c \in outbox[w] : handed[c.id] = 1 => Pushed(w, c)

\* Where no line repeats either, the referee is at most one round ahead of the
\* world, by the one reset that is yet to run; a world that runs is in the
\* referee's round, and the line of its start is read.
Calm == Single /\ "repeat" \notin may
Waits(w) == inbox[w] \union {c \in outbox[w] : ~Pushed(w, c)}
At(w, i, kind) == i \in 1 .. Len(log[w]) /\ log[w][i].kind = kind
SameRound(w) == rounds[w] = exec[w].life
Lives(w) ==
  /\ exec[w].life <= rounds[w] /\ rounds[w] <= exec[w].life + 1
  /\ running[w] => SameRound(w) /\ exec[w].state # "boot"
  /\ exec[w].state = "boot" => SameRound(w)
  /\ \A i \in Nat : At(w, i, "ready") => SameRound(w) /\ ~running[w] /\ exec[w].state # "boot"
  /\ \A i, j \in Nat : At(w, i, "ready") /\ At(w, j, "ready") => i = j
  /\ \A c \in Waits(w) : c.level = 0 => c.round = rounds[w] /\ ~SameRound(w)
  /\ \A c, d \in Waits(w) : c.level = 0 /\ d.level = 0 => c = d

\* Where resets are polled as the waves are, one token goes round: a wave that
\* waits, the wave that spawns, or the line that it is done.  A reset waits behind
\* the waves that were decided before it.
NoWave(w) == exec[w].wave = 0 /\ \A c \in inbox[w] \union outbox[w] : c.level = 0
OneToken(w) ==
  /\ \A c, d \in inbox[w] \union outbox[w] :
       /\ c.level > 0 => c.round = exec[w].life /\ exec[w].wave = 0
       /\ c.level > 0 /\ d.level > 0 => c = d
       /\ c.level > 0 /\ d.level = 0 => c.id < d.id
  /\ \A c \in inbox[w], d \in outbox[w] : c.id < d.id
  /\ exec[w].state = "boot" => NoWave(w)
  /\ \A i \in Nat : At(w, i, "ready") \/ At(w, i, "wave_done") => NoWave(w)
  /\ \A i, j \in Nat : At(w, i, "wave_done") =>
       /\ At(w, j, "ready") => i < j
       /\ At(w, j, "wave_done") => i = j

LoopInv ==
  /\ IInv /\ LoopTypes /\ PushAgrees /\ HandedAgrees
  /\ Calm => \A w \in Worlds : Lives(w)
  /\ Queued => \A w \in Worlds : OneToken(w)

-----------------------------------------------------------------------------
(* The initial state, and what a step leaves alone.                        *)

\* Nothing is decided, written or handed at first.
LEMMA LoopInvAtFirst == LoopInit => LoopInv
<1> SUFFICES ASSUME LoopInit PROVE LoopInv
  OBVIOUS
<1>1. IInv
  BY InitIInv DEF LoopInit
<1>2. LoopTypes
  BY MaxWaveNat DEF LoopInit, Init, LoopTypes, Executor, Lines
<1>3. PushAgrees /\ HandedAgrees
  BY DEF LoopInit, Init, PushAgrees, HandedAgrees
<1>4. ASSUME NEW w \in Worlds PROVE Lives(w) /\ OneToken(w)
  <2>1. /\ exec[w].life = 0 /\ exec[w].wave = 0 /\ rounds[w] = 0 /\ ~running[w]
        /\ inbox[w] = {} /\ outbox[w] = {} /\ Len(log[w]) = 0 /\ 1 .. Len(log[w]) = {}
    BY DEF LoopInit, Init
  <2>2. Waits(w) = {} /\ SameRound(w) /\ NoWave(w) /\ \A i, k : ~At(w, i, k)
    BY <2>1 DEF Waits, SameRound, NoWave, At
  <2>3. Lives(w)
    BY <2>1, <2>2 DEF Lives
  <2>4. OneToken(w)
    BY <2>1, <2>2 DEF OneToken
  <2> QED BY <2>3, <2>4
<1> QED BY <1>1, <1>2, <1>3, <1>4 DEF LoopInv

\* A world whose own state stays keeps what is known of it.
Untouched(w) ==
  /\ exec'[w] = exec[w] /\ log'[w] = log[w] /\ inbox'[w] = inbox[w] /\ outbox'[w] = outbox[w]
  /\ running'[w] = running[w] /\ rounds'[w] = rounds[w]
\* A world that stays is known as well when fewer commands wait for it.
LEMMA FewerWait ==
  ASSUME NEW w \in Worlds, Lives(w), Waits(w)' \subseteq Waits(w),
         exec'[w] = exec[w], log'[w] = log[w], running'[w] = running[w], rounds'[w] = rounds[w]
  PROVE  Lives(w)'
<1>1. SameRound(w)' <=> SameRound(w)
  BY DEF SameRound
<1>2. \A i, k : At(w, i, k)' <=> At(w, i, k)
  BY DEF At
<1> QED BY <1>1, <1>2 DEF Lives

\* A world another world's step leaves alone is known as before.
LEMMA OtherLives ==
  ASSUME NEW w \in Worlds, Lives(w), Untouched(w), Waits(w)' = Waits(w) PROVE Lives(w)'
  BY FewerWait DEF Untouched

\* And so is where its token is.
LEMMA OtherToken == ASSUME NEW w \in Worlds, OneToken(w), Untouched(w) PROVE OneToken(w)'
<1>1. NoWave(w)' <=> NoWave(w)
  BY DEF Untouched, NoWave
<1>2. \A i, k : At(w, i, k)' <=> At(w, i, k)
  BY DEF Untouched, At
<1> QED BY <1>1, <1>2 DEF Untouched, OneToken

\* Commands are commands.
LEMMA CommandsTyped ==
  ASSUME LoopInv, NEW w \in Worlds
  PROVE  \A c \in inbox[w] \union outbox[w] : c \in Command /\ c.id \in 1 .. MaxCmd /\ c.id < nextCmd
<1>1. inbox[w] \subseteq Command /\ outbox[w] \subseteq Command
  BY DEF LoopInv, LoopTypes, IInv, TypeOK
<1>2. nextCmd \in 1 .. MaxCmd + 1 /\ \A c \in inbox[w] \union outbox[w] : c.id \in 1 .. nextCmd - 1
  BY DEF LoopInv, LoopTypes
<1> QED BY <1>1, <1>2, MaxWaveNat

\* While nothing is pushed, handed or decided, pushes and hands agree as before.
LEMMA PushesStay ==
  ASSUME PushAgrees, HandedAgrees, UNCHANGED <<pushing, handed, outbox, inbox, nextCmd, may>>
  PROVE  PushAgrees' /\ HandedAgrees' /\ \A w : Waits(w)' = Waits(w)
<1>1. \A w, c : Pushed(w, c)' <=> Pushed(w, c)
  BY DEF Pushed
<1>2. PushAgrees'
  BY DEF PushAgrees, Single
<1>3. HandedAgrees'
  BY <1>1 DEF HandedAgrees, Single
<1> QED BY <1>1, <1>2, <1>3 DEF Waits

-----------------------------------------------------------------------------
(* The executor's steps.                                                   *)

\* A line is written behind the others.
LEMMA WritesLine ==
  ASSUME LoopTypes, NEW w \in Worlds, NEW kind \in {"ready", "wave_done", "hq_destroyed"}, Writes(w, kind)
  PROVE  /\ log' \in [Worlds -> Seq(Lines)] /\ Len(log[w]) \in Nat
         /\ \A v \in Worlds \ {w} : log'[v] = log[v]
         /\ \A i \in Nat : \A k : At(w, i, k)' <=> At(w, i, k) \/ (i = Len(log[w]) + 1 /\ k = kind)
<1>1. Event(w, kind) \in Lines /\ Event(w, kind).kind = kind
  BY DEF Event, Lines, LoopTypes, Executor
<1>2. log[w] \in Seq(Lines) /\ log'[w] = Append(log[w], Event(w, kind))
  BY DEF Writes, LoopTypes
<1>3. /\ log'[w] \in Seq(Lines) /\ Len(log'[w]) = Len(log[w]) + 1 /\ Len(log[w]) \in Nat
      /\ \A i \in 1 .. Len(log[w]) : log'[w][i] = log[w][i]
      /\ log'[w][Len(log[w]) + 1] = Event(w, kind)
  BY <1>1, <1>2
<1>4. log' \in [Worlds -> Seq(Lines)] /\ \A v \in Worlds \ {w} : log'[v] = log[v]
  BY <1>1, <1>2, <1>3 DEF Writes, LoopTypes
<1>5. \A i \in Nat : \A k : At(w, i, k)' <=> At(w, i, k) \/ (i = Len(log[w]) + 1 /\ k = kind)
  <2> TAKE i \in Nat
  <2> TAKE k
  <2>1. CASE i \in 1 .. Len(log[w])
    BY <1>3, <2>1 DEF At
  <2>2. CASE i = Len(log[w]) + 1
    BY <1>1, <1>3, <2>2 DEF At
  <2>3. CASE i \notin 1 .. Len(log[w]) + 1
    BY <1>3, <2>3 DEF At
  <2> QED BY <1>3, <2>1, <2>2, <2>3
<1> QED BY <1>3, <1>4, <1>5

\* A step of the executor that touches neither commands nor the referee.
ExecutorMoves(w) ==
  /\ UNCHANGED <<vars, inbox, pushing, handed, may>>
  /\ \A v \in Worlds \ {w} : exec'[v] = exec[v] /\ log'[v] = log[v]
\* It keeps the invariant if its own world's lives and token are as they should.
LEMMA ExecutorKeeps ==
  ASSUME LoopInv, NEW w \in Worlds, ExecutorMoves(w),
         exec' \in [Worlds -> Executor], log' \in [Worlds -> Seq(Lines)],
         Calm => Lives(w)', Queued => OneToken(w)'
  PROVE  LoopInv'
<1>1. IInv'
  BY StepIInv DEF LoopInv, ExecutorMoves
<1>2. LoopTypes'
  BY DEF LoopInv, LoopTypes, ExecutorMoves, vars
<1>3. PushAgrees' /\ HandedAgrees' /\ \A v : Waits(v)' = Waits(v)
  BY PushesStay DEF LoopInv, ExecutorMoves, vars
<1>4. (Calm' <=> Calm) /\ (Queued' <=> Queued)
  BY DEF Calm, Single, Queued, ExecutorMoves
<1>5. ASSUME NEW v \in Worlds \ {w} PROVE Untouched(v)
  BY <1>5 DEF Untouched, ExecutorMoves, vars
<1>6. Calm => \A v \in Worlds : Lives(v)'
  BY <1>3, <1>5, OtherLives DEF LoopInv
<1>7. Queued => \A v \in Worlds : OneToken(v)'
  BY <1>5, OtherToken DEF LoopInv
<1> QED BY <1>1, <1>2, <1>3, <1>4, <1>6, <1>7 DEF LoopInv

\* The line of a world that came up is the only one, and behind its wave's.
LEMMA ReadyStep == ASSUME LoopInv, NEW w \in Worlds, ExecReady(w) PROVE LoopInv'
<1>1. /\ exec[w].state = "boot" /\ exec' = [exec EXCEPT ![w].state = "up"]
      /\ Writes(w, "ready") /\ UNCHANGED <<vars, inbox, pushing, handed, may>>
  BY DEF ExecReady
<1>2. /\ exec' \in [Worlds -> Executor] /\ \A v \in Worlds \ {w} : exec'[v] = exec[v]
      /\ exec'[w].state = "up" /\ exec'[w].wave = exec[w].wave /\ exec'[w].life = exec[w].life
  BY <1>1 DEF LoopInv, LoopTypes, Executor
<1>3. /\ log' \in [Worlds -> Seq(Lines)] /\ Len(log[w]) \in Nat
      /\ \A v \in Worlds \ {w} : log'[v] = log[v]
      /\ \A i \in Nat : \A k : At(w, i, k)' <=> At(w, i, k) \/ (i = Len(log[w]) + 1 /\ k = "ready")
  BY <1>1, WritesLine DEF LoopInv
<1>4. ASSUME Calm PROVE Lives(w)'
  <2>1. Lives(w) /\ SameRound(w) /\ ~running[w] /\ \A i \in Nat : ~At(w, i, "ready")
    BY <1>1, <1>4 DEF LoopInv, Lives
  <2>2. Waits(w)' = Waits(w) /\ SameRound(w)' /\ UNCHANGED <<running, rounds>>
    BY <1>1, <1>2, <2>1, PushesStay DEF LoopInv, vars, SameRound
  <2> QED BY <1>1, <1>2, <1>3, <2>1, <2>2 DEF Lives
<1>5. ASSUME Queued PROVE OneToken(w)'
  <2>1. OneToken(w) /\ NoWave(w)
    BY <1>1, <1>5 DEF LoopInv, OneToken
  <2>2. NoWave(w)' /\ UNCHANGED <<inbox, outbox>>
    BY <1>1, <1>2, <2>1 DEF NoWave, vars
  <2>3. \A i \in Nat : \A k : At(w, i, k) => i <= Len(log[w])
    BY <1>3 DEF At
  <2>4. \A i, j \in Nat : At(w, i, "wave_done")' =>
          (At(w, j, "ready")' => i < j) /\ (At(w, j, "wave_done")' => i = j)
    <3>1. \A i \in Nat : At(w, i, "wave_done")' <=> At(w, i, "wave_done")
      BY <1>3
    <3>2. \A i, j \in Nat : At(w, i, "wave_done") =>
            (At(w, j, "ready") => i < j) /\ (At(w, j, "wave_done") => i = j)
      BY <2>1 DEF OneToken
    <3>3. \A j \in Nat : At(w, j, "ready")' => At(w, j, "ready") \/ j = Len(log[w]) + 1
      BY <1>3
    <3> QED BY <1>3, <2>3, <3>1, <3>2, <3>3
  <2>5. /\ \A c \in inbox'[w] \union outbox'[w] : c.level = 0 /\ ~(c.level > 0)
        /\ \A c \in inbox'[w], d \in outbox'[w] : c.id < d.id
    BY <2>1, <2>2 DEF NoWave, OneToken
  <2> QED BY <2>2, <2>4, <2>5 DEF OneToken
<1> QED BY <1>1, <1>2, <1>3, <1>4, <1>5, ExecutorKeeps DEF ExecutorMoves

\* The token goes from the wave to its line.
LEMMA WaveDoneStep == ASSUME LoopInv, NEW w \in Worlds, ExecWaveDone(w) PROVE LoopInv'
<1>1. /\ exec[w].state = "up" /\ exec[w].wave # 0 /\ exec' = [exec EXCEPT ![w].wave = 0]
      /\ Writes(w, "wave_done") /\ UNCHANGED <<vars, inbox, pushing, handed, may>>
  BY DEF ExecWaveDone
<1>2. /\ exec' \in [Worlds -> Executor] /\ \A v \in Worlds \ {w} : exec'[v] = exec[v]
      /\ exec'[w].state = "up" /\ exec'[w].wave = 0 /\ exec'[w].life = exec[w].life
  BY <1>1 DEF LoopInv, LoopTypes, Executor
<1>3. /\ log' \in [Worlds -> Seq(Lines)] /\ Len(log[w]) \in Nat
      /\ \A v \in Worlds \ {w} : log'[v] = log[v]
      /\ \A i \in Nat : \A k : At(w, i, k)' <=> At(w, i, k) \/ (i = Len(log[w]) + 1 /\ k = "wave_done")
  BY <1>1, WritesLine DEF LoopInv
<1>4. ASSUME Calm PROVE Lives(w)'
  <2>1. Lives(w)
    BY <1>4 DEF LoopInv
  <2>2. Waits(w)' = Waits(w) /\ (SameRound(w)' <=> SameRound(w)) /\ UNCHANGED <<running, rounds>>
    BY <1>1, <1>2, PushesStay DEF LoopInv, vars, SameRound
  <2> QED BY <1>1, <1>2, <1>3, <2>1, <2>2 DEF Lives
<1>5. ASSUME Queued PROVE OneToken(w)'
  <2>1. OneToken(w) /\ ~NoWave(w)
    BY <1>1, <1>5 DEF LoopInv, NoWave
  <2>2. /\ \A c \in inbox[w] \union outbox[w] : ~(c.level > 0)
        /\ \A i \in Nat : ~At(w, i, "ready") /\ ~At(w, i, "wave_done")
    BY <1>1, <2>1 DEF OneToken
  <2>3. \A c \in inbox[w] \union outbox[w] : c.level \in Nat
    BY CommandsTyped DEF Command
  <2>4. NoWave(w)' /\ UNCHANGED <<inbox, outbox>>
    BY <1>1, <1>2, <2>2, <2>3 DEF NoWave, vars
  <2>5. \A i, j \in Nat : At(w, i, "wave_done")' =>
          (At(w, j, "ready")' => i < j) /\ (At(w, j, "wave_done")' => i = j)
    BY <1>3, <2>2
  <2>6. /\ \A c \in inbox'[w] \union outbox'[w] : c.level = 0 /\ ~(c.level > 0)
        /\ \A c \in inbox'[w], d \in outbox'[w] : c.id < d.id
    BY <2>1, <2>2, <2>3, <2>4 DEF OneToken
  <2> QED BY <2>4, <2>5, <2>6 DEF OneToken
<1> QED BY <1>1, <1>2, <1>3, <1>4, <1>5, ExecutorKeeps DEF ExecutorMoves

\* A death is a line, and moves no token.
LEMMA HqDeadStep == ASSUME LoopInv, NEW w \in Worlds, ExecHqDead(w) PROVE LoopInv'
<1>1. /\ exec[w].state \in {"up", "dead"} /\ exec' = [exec EXCEPT ![w].state = "dead"]
      /\ Writes(w, "hq_destroyed") /\ UNCHANGED <<vars, inbox, pushing, handed, may>>
  BY DEF ExecHqDead
<1>2. /\ exec' \in [Worlds -> Executor] /\ \A v \in Worlds \ {w} : exec'[v] = exec[v]
      /\ exec'[w].state = "dead" /\ exec'[w].wave = exec[w].wave /\ exec'[w].life = exec[w].life
  BY <1>1 DEF LoopInv, LoopTypes, Executor
<1>3. /\ log' \in [Worlds -> Seq(Lines)] /\ Len(log[w]) \in Nat
      /\ \A v \in Worlds \ {w} : log'[v] = log[v]
      /\ \A i \in Nat : \A k : At(w, i, k)' <=> At(w, i, k) \/ (i = Len(log[w]) + 1 /\ k = "hq_destroyed")
  BY <1>1, WritesLine DEF LoopInv
<1>4. ASSUME Calm PROVE Lives(w)'
  <2>1. Lives(w)
    BY <1>4 DEF LoopInv
  <2>2. Waits(w)' = Waits(w) /\ (SameRound(w)' <=> SameRound(w)) /\ UNCHANGED <<running, rounds>>
    BY <1>1, <1>2, PushesStay DEF LoopInv, vars, SameRound
  <2> QED BY <1>1, <1>2, <1>3, <2>1, <2>2 DEF Lives
<1>5. ASSUME Queued PROVE OneToken(w)'
  <2>1. OneToken(w) /\ UNCHANGED <<inbox, outbox>>
    BY <1>1, <1>5 DEF LoopInv, vars
  <2>2. NoWave(w)' <=> NoWave(w)
    BY <1>2, <2>1 DEF NoWave
  <2> QED BY <1>1, <1>2, <1>3, <2>1, <2>2 DEF OneToken
<1> QED BY <1>1, <1>2, <1>3, <1>4, <1>5, ExecutorKeeps DEF ExecutorMoves

\* Where the others' commands stay, what is known of them does.
LEMMA QueuedIsCalm == Queued => Calm /\ Single
  BY DEF Queued, Calm, Single

\* The command that runs leaves the queue; it waits nowhere else.
Removes(w, c) ==
  /\ c \in inbox[w] /\ \A d \in inbox[w] : c.id <= d.id
  /\ inbox' = [inbox EXCEPT ![w] = @ \ {c}]
  /\ UNCHANGED <<vars, log, pushing, handed, may>>
  /\ exec' \in [Worlds -> Executor] /\ \A v \in Worlds \ {w} : exec'[v] = exec[v]
\* It was handed once and is no more to come.
LEMMA RemovesOne ==
  ASSUME LoopInv, NEW w \in Worlds, NEW c, Removes(w, c)
  PROVE  /\ inbox' \in [Worlds -> SUBSET Command] /\ inbox'[w] = inbox[w] \ {c}
         /\ \A v \in Worlds \ {w} : inbox'[v] = inbox[v]
         /\ PushAgrees' /\ HandedAgrees' /\ \A v \in Worlds \ {w} : Waits(v)' = Waits(v)
         /\ Calm => c \in Waits(w) /\ Waits(w)' = Waits(w) \ {c}
<1>1. /\ inbox' \in [Worlds -> SUBSET Command] /\ inbox'[w] = inbox[w] \ {c}
      /\ \A v \in Worlds \ {w} : inbox'[v] = inbox[v]
  BY DEF LoopInv, LoopTypes, Removes
<1>2. UNCHANGED outbox /\ UNCHANGED nextCmd /\ \A v, d : Pushed(v, d)' <=> Pushed(v, d)
  BY DEF Removes, vars, Pushed
<1>3. PushAgrees'
  BY <1>2 DEF LoopInv, PushAgrees, Single, Removes
<1>4. HandedAgrees'
  BY <1>1, <1>2 DEF LoopInv, HandedAgrees, Single, Removes
<1>5. \A v \in Worlds \ {w} : Waits(v)' = Waits(v)
  BY <1>1, <1>2 DEF Waits
<1>6. ASSUME Calm PROVE c \in Waits(w) /\ Waits(w)' = Waits(w) \ {c}
  <2>1. c \in outbox[w] => Pushed(w, c)
    BY <1>6 DEF Calm, LoopInv, HandedAgrees, Removes
  <2> QED BY <1>1, <1>2, <2>1 DEF Waits, Removes
<1> QED BY <1>1, <1>3, <1>4, <1>5, <1>6

\* A command that runs keeps the invariant if its own world is as it should.
LEMMA RunKeeps ==
  ASSUME LoopInv, NEW w \in Worlds, NEW c, Removes(w, c), Calm => Lives(w)', Queued => OneToken(w)'
  PROVE  LoopInv'
<1>1. IInv'
  BY StepIInv DEF LoopInv, Removes
<1>2. LoopTypes'
  <2>1. \A v \in Worlds : \A d \in inbox'[v] \union outbox'[v] : d.id \in 1 .. nextCmd' - 1
    <3>1. \A v \in Worlds : inbox'[v] \subseteq inbox[v]
      BY RemovesOne
    <3> QED BY <3>1 DEF LoopInv, LoopTypes, Removes, vars
  <2> QED BY <2>1, RemovesOne DEF LoopInv, LoopTypes, Removes, vars
<1>3. PushAgrees' /\ HandedAgrees' /\ \A v \in Worlds \ {w} : Waits(v)' = Waits(v)
  BY RemovesOne
<1>4. (Calm' <=> Calm) /\ (Queued' <=> Queued)
  BY DEF Calm, Single, Queued, Removes
<1>5. ASSUME NEW v \in Worlds \ {w} PROVE Untouched(v)
  BY <1>5, RemovesOne DEF Untouched, Removes, vars
<1>6. Calm => \A v \in Worlds : Lives(v)'
  BY <1>3, <1>5, OtherLives DEF LoopInv
<1>7. Queued => \A v \in Worlds : OneToken(v)'
  BY <1>5, OtherToken DEF LoopInv
<1> QED BY <1>1, <1>2, <1>3, <1>4, <1>6, <1>7 DEF LoopInv

\* A reset is the last command of its round and ends it.
LEMMA ResetRuns ==
  ASSUME LoopInv, NEW w \in Worlds, NEW c, c.level = 0, Removes(w, c),
         exec'[w] = [state |-> "boot", wave |-> 0, life |-> exec[w].life + 1]
  PROVE  LoopInv'
<1>1. /\ exec'[w].state = "boot" /\ exec'[w].wave = 0 /\ exec'[w].life = exec[w].life + 1
      /\ exec[w].life \in Nat /\ rounds[w] \in Nat
  BY DEF LoopInv, LoopTypes, Executor, IInv, TypeOK
<1>2. UNCHANGED <<rounds, running, log, outbox>> /\ \A i, k : At(w, i, k)' <=> At(w, i, k)
  BY DEF Removes, vars, At
<1>3. ASSUME Calm PROVE Lives(w)'
  <2>1. Lives(w) /\ c \in Waits(w) /\ Waits(w)' = Waits(w) \ {c}
    BY <1>3, RemovesOne DEF LoopInv
  <2>2. ~SameRound(w) /\ rounds[w] = exec[w].life + 1 /\ SameRound(w)'
    BY <1>1, <1>2, <2>1 DEF Lives, SameRound
  <2>3. ~running[w] /\ \A i \in Nat : ~At(w, i, "ready")
    BY <2>1, <2>2 DEF Lives
  <2>4. \A d \in Waits(w)' : d.level # 0
    BY <2>1 DEF Lives
  <2> QED BY <1>1, <1>2, <2>2, <2>3, <2>4 DEF Lives, SameRound
<1>4. ASSUME Queued PROVE OneToken(w)'
  <2>1. OneToken(w) /\ inbox'[w] = inbox[w] \ {c} /\ c \in inbox[w]
    BY <1>4, RemovesOne DEF LoopInv, Removes
  <2>2. \A d \in inbox[w] \union outbox[w] : d.level \in Nat /\ d.id \in Nat /\ c.id \in Nat
    BY <2>1, CommandsTyped DEF Command
  <2>3. \A d \in inbox[w] \union outbox[w] : d.level = 0
    <3> SUFFICES ASSUME NEW d \in inbox[w] \union outbox[w], d.level > 0 PROVE FALSE
      BY <2>2
    <3>1. d.id < c.id
      BY <2>1 DEF OneToken
    <3>2. CASE d \in inbox[w]
      BY <2>2, <3>1, <3>2 DEF Removes
    <3>3. CASE d \in outbox[w]
      BY <2>1, <2>2, <3>1, <3>3 DEF OneToken
    <3> QED BY <3>2, <3>3
  <2>4. NoWave(w)' /\ inbox'[w] \union outbox'[w] \subseteq inbox[w] \union outbox[w]
    BY <1>1, <1>2, <2>1, <2>3 DEF NoWave
  <2> QED BY <1>2, <2>1, <2>2, <2>3, <2>4 DEF OneToken
<1> QED BY <1>3, <1>4, RunKeeps

\* The token goes from the command to the wave it spawns.
LEMMA WaveRuns ==
  ASSUME LoopInv, NEW w \in Worlds, NEW c, c.level # 0, Removes(w, c),
         exec'[w].state = exec[w].state, exec'[w].life = exec[w].life
  PROVE  LoopInv'
<1>1. exec'[w].state = exec[w].state /\ exec'[w].life = exec[w].life
  OBVIOUS
<1>2. UNCHANGED <<rounds, running, log, outbox>> /\ \A i, k : At(w, i, k)' <=> At(w, i, k)
  BY DEF Removes, vars, At
<1>3. ASSUME Calm PROVE Lives(w)'
  <2>1. Lives(w) /\ Waits(w)' \subseteq Waits(w) /\ (SameRound(w)' <=> SameRound(w))
    BY <1>1, <1>2, <1>3, RemovesOne DEF LoopInv, SameRound
  <2> QED BY <1>1, <1>2, <2>1 DEF Lives
<1>4. ASSUME Queued PROVE OneToken(w)'
  <2>1. OneToken(w) /\ inbox'[w] = inbox[w] \ {c} /\ c \in inbox[w]
    BY <1>4, RemovesOne DEF LoopInv, Removes
  <2>2. c.level > 0 /\ \A d \in inbox[w] \union outbox[w] : d.level \in Nat /\ d.id \in Nat
    BY <2>1, CommandsTyped DEF Command
  <2>3. \A d \in inbox'[w] \union outbox'[w] : d.level = 0
    <3> SUFFICES ASSUME NEW d \in inbox'[w] \union outbox'[w], d.level > 0 PROVE FALSE
      BY <1>2, <2>1, <2>2
    <3>1. d = c /\ d \in outbox[w]
      BY <1>2, <2>1, <2>2 DEF OneToken
    <3> QED BY <2>1, <2>2, <3>1 DEF OneToken
  <2>4. ~NoWave(w)
    BY <2>1, <2>2 DEF NoWave
  <2>5. exec[w].state # "boot" /\ \A i \in Nat : ~At(w, i, "ready") /\ ~At(w, i, "wave_done")
    BY <2>1, <2>4 DEF OneToken
  <2>6. \A a \in inbox'[w], b \in outbox'[w] : a.id < b.id
    <3>1. inbox'[w] \subseteq inbox[w] /\ outbox'[w] = outbox[w]
      BY <1>2, <2>1
    <3>2. \A a \in inbox[w], b \in outbox[w] : a.id < b.id
      BY <2>1 DEF OneToken
    <3> QED BY <3>1, <3>2
  <2>7. \A d \in inbox'[w] \union outbox'[w] : ~(d.level > 0)
    BY <2>3
  <2>8. exec'[w].state # "boot" /\ \A i \in Nat : ~At(w, i, "ready")' /\ ~At(w, i, "wave_done")'
    BY <1>1, <1>2, <2>5
  <2> QED BY <2>6, <2>7, <2>8 DEF OneToken
<1> QED BY <1>3, <1>4, RunKeeps

\* A command runs.
LEMMA RunStep == ASSUME LoopInv, NEW w \in Worlds, Run(w) PROVE LoopInv'
<1>1. PICK c \in inbox[w] :
        /\ \A d \in inbox[w] : c.id <= d.id
        /\ inbox' = [inbox EXCEPT ![w] = @ \ {c}]
        /\ exec' = [exec EXCEPT ![w] = IF c.level = 0
                      THEN [state |-> "boot", wave |-> 0, life |-> @.life + 1]
                      ELSE [state |-> @.state, wave |-> IF @.wave = 0 THEN c.level ELSE @.wave,
                            life |-> @.life]]
        /\ UNCHANGED <<vars, log, pushing, handed, may>>
  BY DEF Run
<1>2. exec \in [Worlds -> Executor] /\ c.level \in Nat
  BY CommandsTyped DEF LoopInv, LoopTypes, Command
<1>3. CASE c.level = 0
  <2>1. exec' = [exec EXCEPT ![w] = [state |-> "boot", wave |-> 0, life |-> @.life + 1]]
    BY <1>1, <1>3
  <2>2. Removes(w, c) /\ exec'[w] = [state |-> "boot", wave |-> 0, life |-> exec[w].life + 1]
    BY <1>1, <1>2, <2>1 DEF Removes, Executor
  <2> QED BY <1>3, <2>2, ResetRuns
<1>4. CASE c.level # 0
  <2>1. exec' = [exec EXCEPT ![w] = [state |-> @.state, life |-> @.life,
                                     wave |-> IF @.wave = 0 THEN c.level ELSE @.wave]]
    BY <1>1, <1>4
  <2>2. exec[w].wave \in Nat /\ exec[w].state \in {"boot", "up", "dead"} /\ exec[w].life \in Nat
    BY <1>2 DEF Executor
  <2>3. /\ exec' \in [Worlds -> Executor] /\ \A v \in Worlds \ {w} : exec'[v] = exec[v]
        /\ exec'[w].state = exec[w].state /\ exec'[w].life = exec[w].life
    BY <1>2, <2>1, <2>2 DEF Executor
  <2>4. Removes(w, c)
    BY <1>1, <2>3 DEF Removes
  <2> QED BY <1>4, <2>3, <2>4, WaveRuns
<1> QED BY <1>3, <1>4

-----------------------------------------------------------------------------
(* A line is reported.                                                     *)

\* What the referee does with a line: a new command waits behind all others.
Adds(w, c) ==
  /\ c \in Command /\ c.id = nextCmd /\ nextCmd \in 1 .. MaxCmd /\ nextCmd' = nextCmd + 1
  /\ outbox' \in [Worlds -> SUBSET Command] /\ outbox'[w] = outbox[w] \union {c}
  /\ \A v \in Worlds \ {w} : outbox'[v] = outbox[v]
AddsNone == UNCHANGED <<outbox, nextCmd>>
AddsWave(w) == \E c : Adds(w, c) /\ c.level > 0 /\ c.round = rounds[w]
AddsReset(w) == \E c : Adds(w, c) /\ c.level = 0 /\ c.round = rounds[w] + 1
Others(w) == \A v \in Worlds \ {w} : running'[v] = running[v] /\ rounds'[v] = rounds[v]
Starts(w, e) ==
  e.kind = "ready" /\ ~running[w] /\ rounds'[w] = rounds[w] /\ (AddsNone \/ AddsWave(w))
Continues(w, e) ==
  /\ e.kind = "wave_done" /\ running[w] /\ running'[w] /\ rounds'[w] = rounds[w]
  /\ AddsNone \/ AddsWave(w)
Dies(w, e) ==
  e.kind = "hq_destroyed" /\ running[w] /\ ~running'[w] /\ rounds'[w] = rounds[w] + 1 /\ AddsReset(w)

\* A command that is decided is new.
LEMMA EmitAdds ==
  ASSUME LoopInv, NEW w \in Worlds, NEW level \in Nat, NEW round \in Nat, Emit(w, level, round)
  PROVE  \E c : Adds(w, c) /\ c.level = level /\ c.round = round
<1> DEFINE c == [id |-> nextCmd, level |-> level, round |-> round]
<1>1. nextCmd \in 1 .. MaxCmd /\ outbox \in [Worlds -> SUBSET Command]
  BY MaxWaveNat DEF Emit, LoopInv, LoopTypes, IInv, TypeOK
<1>2. c \in Command /\ c.id = nextCmd /\ c.level = level /\ c.round = round
  BY <1>1 DEF Command
<1>3. outbox' = [outbox EXCEPT ![w] = @ \union {c}] /\ nextCmd' = nextCmd + 1
  BY DEF Emit
<1> HIDE DEF c
<1>4. Adds(w, c)
  BY <1>1, <1>2, <1>3 DEF Adds
<1> QED BY <1>2, <1>4

\* The next wave is one command of this round, or none.
LEMMA EmitNextAdds ==
  ASSUME LoopInv, NEW w \in Worlds, NEW level \in Nat \ {0}, EmitNext(w, level)
  PROVE  AddsNone \/ AddsWave(w)
<1>1. CASE UNCHANGED <<outbox, nextCmd>>
  BY <1>1 DEF AddsNone
<1>2. CASE Emit(w, level, rounds[w])
  <2>1. rounds[w] \in Nat
    BY DEF LoopInv, IInv, TypeOK
  <2> QED BY <1>2, <2>1, EmitAdds DEF AddsWave
<1> QED BY <1>1, <1>2 DEF EmitNext

\* The three events that count, and one that is ignored.
LEMMA DecidesIs ==
  ASSUME LoopInv, NEW w \in Worlds, NEW e \in Lines, Decides(w, e)
  PROVE  /\ IInv' /\ Others(w)
         /\ UNCHANGED vars \/ Starts(w, e) \/ Continues(w, e) \/ Dies(w, e)
<1>1. IInv /\ running \in [Worlds -> BOOLEAN] /\ rounds \in [Worlds -> Nat] /\ e.level \in Nat
      /\ nextLevel[w] \in Nat \ {0}
  BY DEF LoopInv, IInv, TypeOK, Lines
<1>2. CASE e.kind = "ready" /\ OnReady(w)
  <2>1. running' = [running EXCEPT ![w] = TRUE] /\ rounds' = rounds /\ ~running[w] /\ EmitNext(w, nextLevel[w])
    BY <1>2 DEF OnReady, ReadyCounts
  <2>2. AddsNone \/ AddsWave(w)
    BY <1>1, <2>1, EmitNextAdds
  <2> QED BY <1>1, <1>2, <2>1, <2>2, ReadyKeeps DEF Starts, Others
<1>3. CASE e.kind = "wave_done" /\ OnWaveDone(w, e.level)
  <2>1. running' = running /\ rounds' = rounds /\ running[w]
    BY <1>3 DEF OnWaveDone, WaveCounts
  <2>2. UNCHANGED <<outbox, nextCmd>> \/ EmitNext(w, e.level + 1)
    BY <1>3 DEF OnWaveDone
  <2>3. AddsNone \/ AddsWave(w)
    BY <1>1, <2>2, EmitNextAdds DEF AddsNone
  <2> QED BY <1>1, <1>3, <2>1, <2>3, WaveDoneKeeps DEF Continues, Others
<1>4. CASE e.kind = "hq_destroyed" /\ OnHqDestroyed(w)
  <2>1. /\ running' = [running EXCEPT ![w] = FALSE] /\ rounds' = [rounds EXCEPT ![w] = @ + 1]
        /\ running[w] /\ Emit(w, 0, rounds[w] + 1)
    BY <1>4 DEF OnHqDestroyed, DeathCounts
  <2>2. AddsReset(w)
    BY <1>1, <2>1, EmitAdds DEF AddsReset
  <2> QED BY <1>1, <1>4, <2>1, <2>2, HqDestroyedKeeps DEF Dies, Others
<1>5. CASE UNCHANGED vars
  <2>1. IInv'
    BY <1>1, <1>5, StepIInv
  <2> QED BY <1>5, <2>1 DEF Others, vars
<1> QED BY <1>2, <1>3, <1>4, <1>5 DEF Decides

\* The pushes a reported line gives: the reset of a death, if deaths are pushed.
Relays(w, e) ==
  /\ AddsNone \/ (\E c : Adds(w, c))
  /\ \/ pushing' = pushing
     \/ /\ "push" \in may
        /\ pushing' = pushing \union {[to |-> w, command |-> c, pushed |-> FALSE] :
                                        c \in outbox'[w] \ outbox[w]}
  /\ UNCHANGED <<exec, inbox, handed, may>>
\* A reset is pushed by one handler, and no push was made yet.
LEMMA NewPush ==
  ASSUME LoopInv, NEW w \in Worlds, NEW e \in Lines, Relays(w, e)
  PROVE  /\ pushing \subseteq pushing'
         /\ \A p \in pushing' \ pushing :
              "push" \in may /\ p.to = w /\ ~p.pushed /\ p \in Pushes
              /\ p.command \in outbox'[w] \ outbox[w]
         /\ \A p, q \in pushing' \ pushing : p = q
         /\ \A v, c : Pushed(v, c)' <=> Pushed(v, c)
<1>1. CASE pushing' = pushing
  BY <1>1 DEF Pushed
<1>2. CASE "push" \in may
           /\ pushing' = pushing \union {[to |-> w, command |-> c, pushed |-> FALSE] :
                                           c \in outbox'[w] \ outbox[w]}
  <2>1. \A p \in pushing' \ pushing :
          \E c \in outbox'[w] \ outbox[w] : p = [to |-> w, command |-> c, pushed |-> FALSE]
    BY <1>2
  <2>2. \A c \in outbox'[w] \ outbox[w] : c \in Command
    BY DEF Relays, Adds, AddsNone
  <2>3. \A c, d \in outbox'[w] \ outbox[w] : c = d
    BY DEF Relays, Adds, AddsNone
  <2>4. \A p \in pushing' \ pushing :
          /\ p.to = w /\ p.pushed = FALSE /\ p.command \in outbox'[w] \ outbox[w]
          /\ p \in Pushes
    <3> TAKE p \in pushing' \ pushing
    <3>1. PICK c \in outbox'[w] \ outbox[w] : p = [to |-> w, command |-> c, pushed |-> FALSE]
      BY <2>1
    <3>2. p.to = w /\ p.pushed = FALSE /\ p.command = c
      BY <3>1
    <3>3. p \in Pushes
      BY <2>2, <3>1 DEF Pushes
    <3> QED BY <3>2, <3>3
  <2>5. \A p, q \in pushing' \ pushing : p = q
    BY <2>1, <2>3
  <2>6. \A v, c : Pushed(v, c)' <=> Pushed(v, c)
    BY <1>2, <2>4 DEF Pushed
  <2> QED BY <1>2, <2>4, <2>5, <2>6
<1> QED BY <1>1, <1>2 DEF Relays

\* A new command was neither handed nor pushed before.
LEMMA RelayAgrees ==
  ASSUME LoopInv, NEW w \in Worlds, NEW e \in Lines, Relays(w, e)
  PROVE  PushAgrees' /\ HandedAgrees'
<1>1. /\ pushing \subseteq pushing' /\ \A v, c : Pushed(v, c)' <=> Pushed(v, c)
      /\ \A p \in pushing' \ pushing :
           "push" \in may /\ p.to = w /\ p.command \in outbox'[w] \ outbox[w]
      /\ \A p, q \in pushing' \ pushing : p = q
  BY NewPush
<1>2. \A v \in Worlds : outbox[v] \subseteq outbox'[v]
  BY DEF Relays, Adds, AddsNone
<1>3. \A v \in Worlds : \A c \in outbox'[v] \ outbox[v] : c.id = nextCmd /\ nextCmd \in 1 .. MaxCmd
  BY DEF Relays, Adds, AddsNone
<1>4. nextCmd' \in {nextCmd, nextCmd + 1} /\ nextCmd \in Nat
  BY DEF Relays, Adds, AddsNone, LoopInv, LoopTypes
<1>5. (Single' <=> Single) /\ may' = may /\ handed' = handed /\ inbox' = inbox
  BY DEF Single, Relays
<1>6. \A p \in pushing : p.to \in Worlds
  BY DEF LoopInv, LoopTypes, Pushes
<1>7. PushAgrees'
  <2>1. ASSUME Single PROVE \A p \in pushing' : p.command \in outbox'[p.to]
    BY <1>1, <1>2, <1>6, <2>1 DEF LoopInv, PushAgrees
  <2>2. ASSUME Single, NEW p \in pushing, NEW q \in pushing' \ pushing PROVE p.command # q.command
    <3>1. p.command \in outbox[p.to] /\ p.to \in Worlds
      BY <1>6, <2>2 DEF LoopInv, PushAgrees
    <3>2. p.command.id < nextCmd
      BY <3>1, CommandsTyped
    <3>3. q.command.id = nextCmd
      BY <1>1, <1>3
    <3> QED BY <1>4, <3>2, <3>3
  <2>3. ASSUME Single PROVE \A p, q \in pushing' : p.command = q.command => p = q
    BY <1>1, <2>2, <2>3 DEF LoopInv, PushAgrees
  <2>4. "push" \notin may => pushing' = {}
    BY <1>1 DEF LoopInv, PushAgrees
  <2> QED BY <1>5, <2>1, <2>3, <2>4 DEF PushAgrees
<1>8. HandedAgrees'
  <2> SUFFICES ASSUME Single PROVE
        /\ \A n \in 1 .. MaxCmd : handed[n] <= 1 /\ (handed[n] = 1 => n < nextCmd')
        /\ \A v \in Worlds :
             /\ \A c \in inbox[v] : handed[c.id] = 1
             /\ \A c \in outbox'[v] : handed[c.id] = 1 => Pushed(v, c)'
    BY <1>5 DEF HandedAgrees
  <2>1. \A n \in 1 .. MaxCmd : handed[n] <= 1 /\ (handed[n] = 1 => n < nextCmd)
    BY DEF LoopInv, HandedAgrees
  <2>2. \A n \in 1 .. MaxCmd : handed[n] <= 1 /\ (handed[n] = 1 => n < nextCmd')
    BY <1>4, <2>1
  <2>3. ASSUME NEW v \in Worlds, NEW c \in outbox'[v], handed[c.id] = 1 PROVE Pushed(v, c)'
    <3>1. CASE c \in outbox[v]
      BY <1>1, <2>3, <3>1 DEF LoopInv, HandedAgrees
    <3>2. CASE c \notin outbox[v]
      BY <1>3, <1>4, <2>1, <2>3, <3>2
    <3> QED BY <3>1, <3>2
  <2> QED BY <2>2, <2>3 DEF LoopInv, HandedAgrees
<1> QED BY <1>7, <1>8

\* The reported line leaves the log; the others move up.
Reads(w, e) ==
  /\ log[w] # <<>> /\ e = Head(log[w]) /\ log' = [log EXCEPT ![w] = Tail(@)]
\* The line that is read was the first.
LEMMA LinesMoveUp ==
  ASSUME LoopTypes, NEW w \in Worlds, NEW e, Reads(w, e)
  PROVE  /\ At(w, 1, e.kind)
         /\ \A i \in Nat : \A k : At(w, i, k)' => i >= 1 /\ At(w, i + 1, k)
<1>1. log[w] \in Seq(Lines) /\ log'[w] = Tail(log[w])
  BY DEF Reads, LoopTypes
<1>2. Len(log[w]) \in Nat \ {0} /\ e = log[w][1]
  BY <1>1 DEF Reads
<1>3. /\ Len(log'[w]) = Len(log[w]) - 1
      /\ \A i \in 1 .. Len(log'[w]) : log'[w][i] = log[w][i + 1]
  BY <1>1, <1>2
<1> QED BY <1>2, <1>3 DEF At

\* A death puts the referee one round ahead, by the reset it decides.
LEMMA RelayLives ==
  ASSUME LoopInv, NEW w \in Worlds, NEW e \in Lines, Decides(w, e), Relays(w, e), Reads(w, e), Calm
  PROVE  Lives(w)'
<1>1. Lives(w) /\ exec' = exec /\ inbox' = inbox /\ exec[w].life \in Nat /\ rounds[w] \in Nat
  BY DEF LoopInv, Relays, LoopTypes, Executor, IInv, TypeOK
<1>2. /\ At(w, 1, e.kind)
      /\ \A i \in Nat : \A k : At(w, i, k)' => i >= 1 /\ At(w, i + 1, k)
  BY LinesMoveUp DEF LoopInv
<1>3. \A i, j \in Nat : At(w, i, "ready")' /\ At(w, j, "ready")' => i = j
  <2> SUFFICES ASSUME NEW i \in Nat, NEW j \in Nat, At(w, i, "ready")', At(w, j, "ready")' PROVE i = j
    OBVIOUS
  <2>1. At(w, i + 1, "ready") /\ At(w, j + 1, "ready") /\ i + 1 \in Nat /\ j + 1 \in Nat
    BY <1>2
  <2>2. i + 1 = j + 1
    BY <1>1, <2>1 DEF Lives
  <2> QED BY <2>2
<1>4. ASSUME AddsNone PROVE Waits(w)' = Waits(w)
  <2>1. outbox' = outbox /\ \A v, c : Pushed(v, c)' <=> Pushed(v, c)
    BY <1>4, NewPush DEF AddsNone
  <2> QED BY <1>1, <2>1 DEF Waits
<1>5. ASSUME NEW c, Adds(w, c) PROVE Waits(w)' \subseteq Waits(w) \union {c}
  <2>1. outbox'[w] = outbox[w] \union {c} /\ \A v, d : Pushed(v, d)' <=> Pushed(v, d)
    BY <1>5, NewPush DEF Adds
  <2> QED BY <1>1, <2>1 DEF Waits
<1>6. ASSUME AddsNone \/ AddsWave(w)
      PROVE  /\ \A c \in Waits(w)' : c.level = 0 => c \in Waits(w)
  BY <1>4, <1>5, <1>6 DEF AddsWave
<1>7. CASE UNCHANGED vars
  <2>1. rounds' = rounds /\ running' = running /\ Waits(w)' = Waits(w)
    BY <1>4, <1>7 DEF vars, AddsNone
  <2>2. \A i \in Nat : At(w, i, "ready")' => SameRound(w) /\ ~running[w] /\ exec[w].state # "boot"
    BY <1>1, <1>2 DEF Lives
  <2> QED BY <1>1, <1>3, <2>1, <2>2 DEF Lives, SameRound
<1>8. CASE Starts(w, e)
  <2>1. SameRound(w) /\ exec[w].state # "boot" /\ rounds'[w] = rounds[w]
    BY <1>1, <1>2, <1>8 DEF Starts, Lives
  <2>2. \A i \in Nat : ~At(w, i, "ready")'
    <3> SUFFICES ASSUME NEW i \in Nat, At(w, i, "ready")' PROVE FALSE
      OBVIOUS
    <3>1. At(w, i + 1, "ready") /\ At(w, 1, "ready") /\ i >= 1
      BY <1>2, <1>8 DEF Starts
    <3>2. i + 1 = 1
      BY <1>1, <3>1 DEF Lives
    <3> QED BY <3>1, <3>2
  <2>3. \A c \in Waits(w)' : c.level # 0
    BY <1>1, <1>6, <1>8, <2>1 DEF Starts, Lives
  <2> QED BY <1>1, <2>1, <2>2, <2>3 DEF Lives, SameRound
<1>9. CASE Continues(w, e)
  <2>1. SameRound(w) /\ exec[w].state # "boot" /\ rounds'[w] = rounds[w]
    BY <1>1, <1>9 DEF Continues, Lives
  <2>2. \A i \in Nat : ~At(w, i, "ready")'
    BY <1>1, <1>2, <1>9 DEF Continues, Lives
  <2>3. \A c \in Waits(w)' : c.level # 0
    BY <1>1, <1>6, <1>9, <2>1 DEF Continues, Lives
  <2> QED BY <1>1, <2>1, <2>2, <2>3 DEF Lives, SameRound
<1>10. CASE Dies(w, e)
  <2>1. SameRound(w) /\ exec[w].state # "boot" /\ rounds'[w] = rounds[w] + 1 /\ ~running'[w]
    BY <1>1, <1>10 DEF Dies, Lives
  <2>2. \A i \in Nat : ~At(w, i, "ready")'
    BY <1>1, <1>2, <1>10 DEF Dies, Lives
  <2>3. PICK c : Adds(w, c) /\ c.level = 0 /\ c.round = rounds[w] + 1
    BY <1>10 DEF Dies, AddsReset
  <2>4. \A d \in Waits(w)' : d.level = 0 => d = c
    BY <1>1, <1>5, <2>1, <2>3 DEF Lives
  <2> QED BY <1>1, <2>1, <2>2, <2>3, <2>4 DEF Lives, SameRound
<1> QED BY <1>7, <1>8, <1>9, <1>10, DecidesIs

\* Nothing is on its way to a world whose token is in the log or in the world.
LEMMA NothingWaits ==
  ASSUME LoopInv, NEW w \in Worlds, Queued, SameRound(w), NoWave(w)
  PROVE  inbox[w] = {} /\ outbox[w] = {}
<1>1. Lives(w) /\ pushing = {}
  BY QueuedIsCalm DEF LoopInv, PushAgrees, Queued
<1>2. Waits(w) = inbox[w] \union outbox[w]
  BY <1>1 DEF Waits, Pushed
<1> QED BY <1>1, <1>2 DEF Lives, NoWave

\* The token goes from the line to the command it gives.
LEMMA RelayToken ==
  ASSUME LoopInv, NEW w \in Worlds, NEW e \in Lines, Decides(w, e), Relays(w, e), Reads(w, e), Queued
  PROVE  OneToken(w)'
<1>1. OneToken(w) /\ Lives(w) /\ exec' = exec /\ inbox' = inbox /\ rounds[w] \in Nat
  BY QueuedIsCalm DEF LoopInv, Relays, IInv, TypeOK
<1>2. /\ At(w, 1, e.kind)
      /\ \A i \in Nat : \A k : At(w, i, k)' => i >= 1 /\ i + 1 \in Nat /\ At(w, i + 1, k)
  BY LinesMoveUp DEF LoopInv
<1>3. \A i, j \in Nat : At(w, i, "wave_done")' =>
        /\ At(w, j, "ready")' => i < j
        /\ At(w, j, "wave_done")' => i = j
  <2> SUFFICES ASSUME NEW i \in Nat, NEW j \in Nat, At(w, i, "wave_done")'
               PROVE  (At(w, j, "ready")' => i < j) /\ (At(w, j, "wave_done")' => i = j)
    OBVIOUS
  <2>1. At(w, i + 1, "wave_done") /\ i + 1 \in Nat /\ j + 1 \in Nat
    BY <1>2
  <2>2. (At(w, j + 1, "ready") => i + 1 < j + 1) /\ (At(w, j + 1, "wave_done") => i + 1 = j + 1)
    BY <1>1, <2>1 DEF OneToken
  <2> QED BY <1>2, <2>2
<1>4. ASSUME AddsNone PROVE OneToken(w)'
  <2>1. outbox' = outbox /\ (NoWave(w)' <=> NoWave(w))
    BY <1>1, <1>4 DEF AddsNone, NoWave
  <2>2. \A i \in Nat : At(w, i, "ready")' \/ At(w, i, "wave_done")' => NoWave(w)
    BY <1>1, <1>2 DEF OneToken
  <2> QED BY <1>1, <1>3, <2>1, <2>2 DEF OneToken
<1>5. ASSUME e.kind \in {"ready", "wave_done"}, SameRound(w), exec[w].state # "boot",
             rounds'[w] = rounds[w], \A i \in Nat : ~At(w, i, "ready")', AddsWave(w)
      PROVE  OneToken(w)'
  <2>1. NoWave(w)
    BY <1>1, <1>2, <1>5 DEF OneToken
  <2>2. inbox[w] = {} /\ outbox[w] = {}
    BY <1>5, <2>1, NothingWaits
  <2>3. PICK c : Adds(w, c) /\ c.level > 0 /\ c.round = rounds[w]
    BY <1>5 DEF AddsWave
  <2>4. inbox'[w] = {} /\ outbox'[w] = {c} /\ ~(c.level = 0)
    BY <1>1, <2>2, <2>3 DEF Adds, Command
  <2>5. c.round = exec'[w].life /\ exec'[w].wave = 0 /\ exec'[w].state # "boot"
    BY <1>1, <1>5, <2>1, <2>3 DEF SameRound, NoWave
  <2>6. \A i \in Nat : ~At(w, i, "wave_done")'
    <3> SUFFICES ASSUME NEW i \in Nat, At(w, i, "wave_done")' PROVE FALSE
      OBVIOUS
    <3>1. At(w, i + 1, "wave_done") /\ i + 1 \in Nat /\ i + 1 > 1
      BY <1>2
    <3>2. (At(w, 1, "ready") => i + 1 < 1) /\ (At(w, 1, "wave_done") => i + 1 = 1)
      BY <1>1, <3>1 DEF OneToken
    <3> QED BY <1>2, <1>5, <3>1, <3>2
  <2> QED BY <1>5, <2>4, <2>5, <2>6 DEF OneToken
<1>6. CASE Starts(w, e)
  <2>1. SameRound(w) /\ exec[w].state # "boot" /\ rounds'[w] = rounds[w]
    BY <1>1, <1>2, <1>6 DEF Starts, Lives
  <2>2. \A i \in Nat : ~At(w, i, "ready")'
    <3> SUFFICES ASSUME NEW i \in Nat, At(w, i, "ready")' PROVE FALSE
      OBVIOUS
    <3>1. At(w, i + 1, "ready") /\ At(w, 1, "ready") /\ i >= 1
      BY <1>2, <1>6 DEF Starts
    <3>2. i + 1 = 1
      BY <1>1, <3>1 DEF Lives
    <3> QED BY <3>1, <3>2
  <2> QED BY <1>4, <1>5, <1>6, <2>1, <2>2 DEF Starts
<1>7. CASE Continues(w, e)
  <2>1. SameRound(w) /\ exec[w].state # "boot" /\ rounds'[w] = rounds[w]
    BY <1>1, <1>7 DEF Continues, Lives
  <2>2. \A i \in Nat : ~At(w, i, "ready")'
    BY <1>1, <1>2, <1>7 DEF Continues, Lives
  <2> QED BY <1>4, <1>5, <1>7, <2>1, <2>2 DEF Continues
<1>8. CASE Dies(w, e)
  <2>1. PICK c : Adds(w, c) /\ c.level = 0 /\ c.round = rounds[w] + 1
    BY <1>8 DEF Dies, AddsReset
  <2>2. \A d \in inbox[w] \union outbox[w] : d.id < c.id
    BY <2>1, CommandsTyped DEF Adds
  <2>3. inbox'[w] = inbox[w] /\ outbox'[w] = outbox[w] \union {c} /\ ~(c.level > 0)
    BY <1>1, <2>1 DEF Adds
  <2>4. NoWave(w) => NoWave(w)'
    BY <1>1, <2>1, <2>3 DEF NoWave
  <2>5. \A i \in Nat : At(w, i, "ready")' \/ At(w, i, "wave_done")' => NoWave(w)
    BY <1>1, <1>2 DEF OneToken
  <2>6. \A a, b \in inbox'[w] \union outbox'[w] :
          /\ a.level > 0 => a.round = exec'[w].life /\ exec'[w].wave = 0
          /\ a.level > 0 /\ b.level > 0 => a = b
          /\ a.level > 0 /\ b.level = 0 => a.id < b.id
    BY <1>1, <2>2, <2>3 DEF OneToken
  <2>7. \A a \in inbox'[w], b \in outbox'[w] : a.id < b.id
    BY <1>1, <2>2, <2>3 DEF OneToken
  <2>8. exec'[w].state = "boot" => NoWave(w)
    BY <1>1 DEF OneToken
  <2> QED BY <1>3, <2>4, <2>5, <2>6, <2>7, <2>8 DEF OneToken
<1>9. UNCHANGED vars => AddsNone
  BY DEF vars, AddsNone
<1> QED BY <1>4, <1>6, <1>7, <1>8, <1>9, DecidesIs

\* A reported line keeps the invariant; one that comes again leaves nothing of lives and tokens.
LEMMA RelayStep == ASSUME LoopInv, NEW w \in Worlds, Relay(w) PROVE LoopInv'
<1> DEFINE e == Head(log[w])
<1>1. /\ log[w] # <<>> /\ Decides(w, e) /\ UNCHANGED <<exec, inbox, handed, may>>
      /\ pushing' = IF "push" \in may /\ e.kind = "hq_destroyed"
                    THEN pushing \union {[to |-> w, command |-> c, pushed |-> FALSE] :
                                           c \in outbox'[w] \ outbox[w]}
                    ELSE pushing
      /\ \/ log' = [log EXCEPT ![w] = Tail(@)]
         \/ "repeat" \in may /\ log' = [log EXCEPT ![w] = Append(Tail(@), e)]
  BY DEF Relay
<1>2. log[w] \in Seq(Lines) /\ e \in Lines /\ Tail(log[w]) \in Seq(Lines)
  BY <1>1 DEF LoopInv, LoopTypes
<1>3. log' \in [Worlds -> Seq(Lines)] /\ \A v \in Worlds \ {w} : log'[v] = log[v]
  <2>1. Append(Tail(log[w]), e) \in Seq(Lines)
    BY <1>2
  <2>2. log \in [Worlds -> Seq(Lines)]
    BY DEF LoopInv, LoopTypes
  <2> HIDE DEF e
  <2> QED BY <1>1, <1>2, <2>1, <2>2
<1>4. Calm \/ Queued => Reads(w, e)
  BY <1>1 DEF Calm, Queued, Reads
<1> HIDE DEF e
<1>5. /\ IInv' /\ Others(w)
      /\ UNCHANGED vars \/ Starts(w, e) \/ Continues(w, e) \/ Dies(w, e)
  BY <1>1, <1>2, DecidesIs
<1>6. AddsNone \/ \E c : Adds(w, c)
  BY <1>5 DEF Starts, Continues, Dies, AddsWave, AddsReset, vars, AddsNone
<1>7. Relays(w, e)
  BY <1>1, <1>6 DEF Relays
<1>8. /\ \A v \in Worlds : outbox[v] \subseteq outbox'[v]
      /\ \A v \in Worlds : \A c \in outbox'[v] \ outbox[v] : c.id = nextCmd
      /\ \A v \in Worlds \ {w} : outbox'[v] = outbox[v]
      /\ nextCmd' = nextCmd \/ (nextCmd' = nextCmd + 1 /\ nextCmd <= MaxCmd)
  BY <1>6 DEF Adds, AddsNone
<1>9. LoopTypes'
  <2>1. nextCmd \in 1 .. MaxCmd + 1 /\ nextCmd' \in 1 .. MaxCmd + 1
    BY <1>8, MaxWaveNat DEF LoopInv, LoopTypes
  <2>2. \A v \in Worlds : \A c \in inbox[v] \union outbox'[v] : c.id \in 1 .. nextCmd' - 1
    <3> SUFFICES ASSUME NEW v \in Worlds, NEW c \in inbox[v] \union outbox'[v] PROVE c.id \in 1 .. nextCmd' - 1
      OBVIOUS
    <3>1. CASE c \in inbox[v] \union outbox[v]
      <4>1. c.id \in 1 .. nextCmd - 1
        BY <3>1 DEF LoopInv, LoopTypes
      <4> QED BY <1>8, <2>1, <4>1
    <3>2. CASE c \in outbox'[v] \ outbox[v]
      <4>1. c.id = nextCmd /\ nextCmd' = nextCmd + 1
        BY <1>6, <3>2 DEF Adds, AddsNone
      <4> QED BY <2>1, <4>1
    <3> QED BY <3>1, <3>2
  <2>3. pushing' \subseteq Pushes
    BY <1>2, <1>7, NewPush DEF LoopInv, LoopTypes
  <2>4. \A p \in pushing' : p.command.id \in 1 .. nextCmd' - 1
    <3>1. \A p \in pushing' \ pushing : p.command \in outbox'[w]
      BY <1>2, <1>7, NewPush
    <3>2. \A p \in pushing : p.command.id \in 1 .. nextCmd - 1
      BY DEF LoopInv, LoopTypes
    <3> QED BY <1>8, <2>1, <2>2, <3>1, <3>2
  <2> QED BY <1>1, <1>3, <2>1, <2>2, <2>3, <2>4 DEF LoopInv, LoopTypes
<1>10. PushAgrees' /\ HandedAgrees'
  BY <1>2, <1>7, RelayAgrees
<1>11. (Calm' <=> Calm) /\ (Queued' <=> Queued)
  BY <1>1 DEF Calm, Single, Queued
<1>12. ASSUME NEW v \in Worlds \ {w} PROVE Untouched(v) /\ Waits(v)' = Waits(v)
  <2>1. Untouched(v)
    BY <1>1, <1>3, <1>5, <1>8, <1>12 DEF Untouched, Others
  <2>2. \A c : Pushed(v, c)' <=> Pushed(v, c)
    BY <1>2, <1>7, NewPush
  <2> QED BY <2>1, <2>2 DEF Waits, Untouched
<1>13. ASSUME Calm, NEW v \in Worlds PROVE Lives(v)'
  <2>1. CASE v = w
    BY <1>1, <1>2, <1>4, <1>7, <1>13, <2>1, RelayLives
  <2>2. CASE v # w
    BY <1>12, <1>13, <2>2, OtherLives DEF LoopInv
  <2> QED BY <2>1, <2>2
<1>14. ASSUME Queued, NEW v \in Worlds PROVE OneToken(v)'
  <2>1. CASE v = w
    BY <1>1, <1>2, <1>4, <1>7, <1>14, <2>1, RelayToken
  <2>2. CASE v # w
    BY <1>12, <1>14, <2>2, OtherToken DEF LoopInv
  <2> QED BY <2>1, <2>2
<1> QED BY <1>5, <1>9, <1>10, <1>11, <1>13, <1>14 DEF LoopInv

-----------------------------------------------------------------------------
(* Commands are delivered.                                                 *)

\* A step of poll, push or ack moves commands, and nothing else of a world.
LEMMA CommandsMove ==
  ASSUME LoopInv, IInv', LoopTypes', PushAgrees', HandedAgrees',
         UNCHANGED <<exec, log, running, rounds, may>>,
         Calm => \A w \in Worlds : Waits(w)' \subseteq Waits(w),
         Queued => \A w \in Worlds : OneToken(w)'
  PROVE  LoopInv'
<1>1. (Calm' <=> Calm) /\ (Queued' <=> Queued)
  BY DEF Calm, Single, Queued
<1>2. ASSUME Calm, NEW w \in Worlds PROVE Lives(w)'
  BY <1>2, FewerWait DEF LoopInv
<1> QED BY <1>1, <1>2 DEF LoopInv

\* A push that fails leaves the reset to the poll.
LEMMA PushLost ==
  ASSUME LoopInv, NEW p \in pushing, ~p.pushed, pushing' = pushing \ {p},
         UNCHANGED <<vars, exec, log, inbox, handed, may>>
  PROVE  LoopInv'
<1>1. \A v, c : Pushed(v, c)' <=> Pushed(v, c)
  BY DEF Pushed
<1>2. IInv'
  BY StepIInv DEF LoopInv
<1>3. LoopTypes'
  BY DEF LoopInv, LoopTypes, vars
<1>4. PushAgrees'
  BY DEF LoopInv, PushAgrees, Single, vars
<1>5. HandedAgrees'
  BY <1>1 DEF LoopInv, HandedAgrees, Single, vars
<1>6. \A v \in Worlds : Waits(v)' = Waits(v)
  BY <1>1 DEF Waits, vars
<1>7. ASSUME Queued, NEW v \in Worlds PROVE OneToken(v)'
  BY <1>7, OtherToken DEF LoopInv, Untouched, vars
<1> QED BY <1>2, <1>3, <1>4, <1>5, <1>6, <1>7, CommandsMove DEF vars

\* A push that arrives was not handed before; the poll will not hand it.
LEMMA PushArrives ==
  ASSUME LoopInv, NEW p \in pushing, ~p.pushed, Hand(p.to, {p.command}),
         pushing' = (pushing \ {p}) \union {[p EXCEPT !.pushed = TRUE]},
         UNCHANGED <<vars, exec, log, may>>
  PROVE  LoopInv'
<1> DEFINE w == p.to
           c == p.command
           q == [p EXCEPT !.pushed = TRUE]
<1>1. p \in Pushes /\ w \in Worlds /\ c \in Command
  BY DEF LoopInv, LoopTypes, Pushes
<1>2. q \in Pushes /\ q.to = w /\ q.command = c /\ q.pushed
  BY <1>1 DEF Pushes
<1>3. pushing' = (pushing \ {p}) \union {q}
  OBVIOUS
<1>4. /\ inbox' \in [Worlds -> SUBSET Command] /\ inbox'[w] = inbox[w] \union {c}
      /\ \A v \in Worlds \ {w} : inbox'[v] = inbox[v]
  BY <1>1 DEF Hand, LoopInv, LoopTypes
<1>5. /\ handed' \in [1 .. MaxCmd -> Nat]
      /\ \A n \in 1 .. MaxCmd : handed'[n] = IF n = c.id THEN handed[n] + 1 ELSE handed[n]
  BY <1>1 DEF Hand, LoopInv, LoopTypes, Command
<1>6. c.id \in 1 .. nextCmd - 1 /\ c.id \in 1 .. MaxCmd /\ c.id < nextCmd
  BY MaxWaveNat DEF LoopInv, LoopTypes
<1>7. /\ "push" \in may /\ (Single' <=> Single) /\ outbox' = outbox /\ nextCmd' = nextCmd
  BY DEF LoopInv, PushAgrees, Single, vars
<1>8. IInv'
  BY StepIInv DEF LoopInv
<1> HIDE DEF w, c, q
<1>9. LoopTypes'
  <2>1. pushing' \subseteq Pushes /\ \A r \in pushing' : r.command.id \in 1 .. nextCmd' - 1
    BY <1>2, <1>3, <1>6, <1>7 DEF LoopInv, LoopTypes
  <2>2. \A v \in Worlds : \A d \in inbox'[v] \union outbox'[v] : d.id \in 1 .. nextCmd' - 1
    BY <1>4, <1>6, <1>7 DEF LoopInv, LoopTypes
  <2> QED BY <1>4, <1>5, <1>7, <2>1, <2>2 DEF LoopInv, LoopTypes
<1>10. ASSUME Single
       PROVE  /\ c \in outbox[w] /\ ~Pushed(w, c) /\ handed[c.id] = 0
              /\ \A r \in pushing : r.command = c => r = p
  <2>1. c \in outbox[w] /\ \A r \in pushing : r.command = c => r = p
    BY <1>10 DEF LoopInv, PushAgrees, w, c
  <2>2. ~Pushed(w, c)
    BY <2>1 DEF Pushed
  <2>3. handed[c.id] # 1 /\ handed[c.id] <= 1 /\ handed[c.id] \in Nat
    BY <1>1, <1>6, <1>10, <2>1, <2>2 DEF LoopInv, HandedAgrees, LoopTypes
  <2> QED BY <2>1, <2>2, <2>3
<1>11. PushAgrees'
  <2>1. ASSUME Single PROVE \A r \in pushing' : r.command \in outbox'[r.to]
    BY <1>2, <1>3, <1>7, <1>10, <2>1 DEF LoopInv, PushAgrees
  <2>2. ASSUME Single PROVE \A r, s \in pushing' : r.command = s.command => r = s
    BY <1>2, <1>3, <1>10, <2>2 DEF LoopInv, PushAgrees
  <2>3. may' = may
    OBVIOUS
  <2> QED BY <1>7, <2>1, <2>2, <2>3 DEF PushAgrees
<1>12. \A v, d : Pushed(v, d)' <=> Pushed(v, d) \/ (v = w /\ d = c)
  BY <1>2, <1>3 DEF Pushed
<1>13. HandedAgrees'
  <2> SUFFICES ASSUME Single PROVE
        /\ \A n \in 1 .. MaxCmd : handed'[n] <= 1 /\ (handed'[n] = 1 => n < nextCmd)
        /\ \A v \in Worlds :
             /\ \A d \in inbox'[v] : handed'[d.id] = 1
             /\ \A d \in outbox[v] : handed'[d.id] = 1 => Pushed(v, d)'
    BY <1>7 DEF HandedAgrees
  <2>1. \A n \in 1 .. MaxCmd : handed'[n] <= 1 /\ (handed'[n] = 1 => n < nextCmd)
    BY <1>5, <1>6, <1>10 DEF LoopInv, HandedAgrees
  <2>2. handed'[c.id] = 1
    BY <1>5, <1>6, <1>10
  <2>3. ASSUME NEW v \in Worlds, NEW d \in inbox'[v] PROVE handed'[d.id] = 1
    <3>1. CASE d = c
      BY <2>2, <3>1
    <3>2. CASE d # c
      <4>1. d \in inbox[v]
        BY <1>4, <2>3, <3>2
      <4>2. handed[d.id] = 1 /\ d.id \in 1 .. MaxCmd
        BY <4>1, CommandsTyped DEF LoopInv, HandedAgrees
      <4>3. d.id # c.id
        BY <1>10, <4>2
      <4> QED BY <1>5, <4>2, <4>3
    <3> QED BY <3>1, <3>2
  <2>4. ASSUME NEW v \in Worlds, NEW d \in outbox[v], handed'[d.id] = 1 PROVE Pushed(v, d)'
    <3>1. CASE d.id = c.id
      <4>1. v = w /\ d = c
        BY <1>1, <1>10, <2>4, <3>1 DEF LoopInv, IInv, CommandsAreFresh
      <4> QED BY <1>12, <4>1
    <3>2. CASE d.id # c.id
      <4>1. d.id \in 1 .. MaxCmd
        BY <2>4, CommandsTyped
      <4>2. handed[d.id] = 1
        BY <1>5, <2>4, <3>2, <4>1
      <4>3. Pushed(v, d)
        BY <2>4, <4>2 DEF LoopInv, HandedAgrees
      <4> QED BY <1>12, <4>3
    <3> QED BY <3>1, <3>2
  <2> QED BY <2>1, <2>3, <2>4
<1>14. ASSUME Calm, NEW v \in Worlds PROVE Waits(v)' \subseteq Waits(v)
  <2>1. CASE v = w
    BY <1>4, <1>7, <1>10, <1>12, <1>14, <2>1 DEF Waits, Calm
  <2>2. CASE v # w
    BY <1>4, <1>7, <1>12, <2>2 DEF Waits
  <2> QED BY <2>1, <2>2
<1>15. ~Queued
  BY <1>7 DEF Queued
<1> QED BY <1>8, <1>9, <1>11, <1>13, <1>14, <1>15, CommandsMove DEF vars

\* A push that arrives and gets no answer leaves the reset to the poll as well; this is
\* not a deployment that hands each command once.
LEMMA PushUnanswered ==
  ASSUME LoopInv, NEW p \in pushing, ~p.pushed, "unanswered" \in may,
         Hand(p.to, {p.command}), pushing' = pushing \ {p},
         UNCHANGED <<vars, exec, log, may>>
  PROVE  LoopInv'
<1> DEFINE w == p.to
           c == p.command
<1>1. w \in Worlds /\ c \in Command /\ c.id \in 1 .. nextCmd - 1
  BY DEF LoopInv, LoopTypes, Pushes
<1>2. inbox' = [inbox EXCEPT ![w] = @ \union {c}] /\ handed' \in [1 .. MaxCmd -> Nat]
  BY DEF Hand, LoopInv, LoopTypes
<1>3. "push" \in may /\ ~Single /\ ~Single'
  BY DEF LoopInv, PushAgrees, Single
<1>4. IInv'
  BY StepIInv DEF LoopInv
<1> HIDE DEF w, c
<1>5. LoopTypes'
  BY <1>1, <1>2 DEF LoopInv, LoopTypes, vars
<1>6. PushAgrees' /\ HandedAgrees'
  BY <1>3 DEF PushAgrees, HandedAgrees
<1>7. ~Calm /\ ~Queued
  BY <1>3 DEF Calm, Queued
<1> QED BY <1>4, <1>5, <1>6, <1>7, CommandsMove DEF vars

\* A push arrives or fails.
LEMMA PushStep == ASSUME LoopInv, Push PROVE LoopInv'
<1>1. PICK p \in pushing :
        /\ ~p.pushed
        /\ \/ /\ Hand(p.to, {p.command})
              /\ pushing' = (pushing \ {p}) \union {[p EXCEPT !.pushed = TRUE]}
           \/ /\ pushing' = pushing \ {p}
              /\ UNCHANGED <<inbox, handed>>
           \/ /\ "unanswered" \in may
              /\ Hand(p.to, {p.command})
              /\ pushing' = pushing \ {p}
        /\ UNCHANGED <<vars, exec, log, may>>
  BY DEF Push
<1>2. CASE pushing' = pushing \ {p} /\ UNCHANGED <<inbox, handed>>
  BY <1>1, <1>2, PushLost
<1>3. CASE /\ Hand(p.to, {p.command})
           /\ pushing' = (pushing \ {p}) \union {[p EXCEPT !.pushed = TRUE]}
  BY <1>1, <1>3, PushArrives
<1>4. CASE "unanswered" \in may /\ Hand(p.to, {p.command}) /\ pushing' = pushing \ {p}
  BY <1>1, <1>4, PushUnanswered
<1> QED BY <1>1, <1>2, <1>3, <1>4

\* The ack takes what was pushed, so that the poll does not find it.
LEMMA AckStep == ASSUME LoopInv, Ack PROVE LoopInv'
<1>1. PICK p \in pushing :
        p.pushed /\ Take(p.to, {p.command}) /\ pushing' = pushing \ {p}
        /\ UNCHANGED <<exec, log, inbox, handed, may>>
  BY DEF Ack, Acked
<1> DEFINE w == p.to
           c == p.command
<1>2. w \in Worlds
  BY DEF LoopInv, LoopTypes, Pushes
<1>3. IInv'
  BY <1>1, <1>2, TakeKeeps DEF LoopInv
<1>4. /\ outbox'[w] = outbox[w] \ {c} /\ \A v \in Worlds \ {w} : outbox'[v] = outbox[v]
      /\ UNCHANGED <<running, rounds, nextCmd>>
  BY <1>1, <1>2 DEF Take, LoopInv, IInv, TypeOK
<1>5. Single' <=> Single
  BY <1>1 DEF Single
<1> HIDE DEF w, c
<1>6. LoopTypes'
  <2>1. \A v \in Worlds : outbox'[v] \subseteq outbox[v]
    BY <1>4
  <2> QED BY <1>1, <1>4, <2>1 DEF LoopInv, LoopTypes
<1>7. ASSUME Single
      PROVE  /\ Pushed(w, c) /\ \A q \in pushing' : q.command # c
             /\ \A v, d : Pushed(v, d)' <=> Pushed(v, d) /\ d # c
  <2>1. Pushed(w, c)
    BY <1>1 DEF Pushed, w, c
  <2>2. \A q \in pushing : q.command = c => q = p
    BY <1>7 DEF LoopInv, PushAgrees, c
  <2> QED BY <1>1, <2>1, <2>2 DEF Pushed
<1>8. PushAgrees'
  <2>1. ASSUME Single, NEW q \in pushing' PROVE q.command \in outbox'[q.to]
    <3>1. q \in pushing /\ q.command # c /\ q.to \in Worlds /\ q.command \in outbox[q.to]
      BY <1>1, <1>7, <2>1 DEF LoopInv, PushAgrees, LoopTypes, Pushes
    <3> QED BY <1>4, <3>1
  <2>2. ASSUME Single PROVE \A q, r \in pushing' : q.command = r.command => q = r
    BY <1>1, <2>2 DEF LoopInv, PushAgrees
  <2>3. "push" \notin may => pushing' = {}
    BY <1>1 DEF LoopInv, PushAgrees
  <2> QED BY <1>1, <1>5, <2>1, <2>2, <2>3 DEF PushAgrees
<1>9. HandedAgrees'
  <2> SUFFICES ASSUME Single PROVE
        /\ \A n \in 1 .. MaxCmd : handed[n] <= 1 /\ (handed[n] = 1 => n < nextCmd)
        /\ \A v \in Worlds :
             /\ \A d \in inbox[v] : handed[d.id] = 1
             /\ \A d \in outbox'[v] : handed[d.id] = 1 => Pushed(v, d)'
    BY <1>1, <1>4, <1>5 DEF HandedAgrees
  <2>1. ASSUME NEW v \in Worlds, NEW d \in outbox'[v], handed[d.id] = 1 PROVE Pushed(v, d)'
    <3>1. d \in outbox[v] /\ ~(v = w /\ d = c)
      BY <1>4, <2>1
    <3>2. Pushed(v, d)
      BY <2>1, <3>1 DEF LoopInv, HandedAgrees
    <3>3. d # c
      <4>1. c \in outbox[w]
        BY <1>1 DEF LoopInv, PushAgrees, w, c
      <4> QED BY <1>2, <3>1, <4>1 DEF LoopInv, IInv, CommandsAreFresh
    <3> QED BY <1>7, <3>2, <3>3
  <2> QED BY <2>1 DEF LoopInv, HandedAgrees
<1>10. ASSUME Calm, NEW v \in Worlds PROVE Waits(v)' \subseteq Waits(v)
  <2>1. CASE v = w
    BY <1>1, <1>4, <1>7, <1>10, <2>1 DEF Waits, Calm
  <2>2. CASE v # w
    <3>1. c \notin outbox[v]
      <4>1. c \in outbox[w]
        BY <1>1, <1>10 DEF LoopInv, PushAgrees, Calm, w, c
      <4> QED BY <1>2, <2>2, <4>1 DEF LoopInv, IInv, CommandsAreFresh
    <3> QED BY <1>1, <1>4, <1>7, <1>10, <2>2, <3>1 DEF Waits, Calm
  <2> QED BY <2>1, <2>2
<1>11. ~Queued
  BY DEF LoopInv, PushAgrees, Queued
<1> QED BY <1>1, <1>3, <1>4, <1>6, <1>8, <1>9, <1>10, <1>11, CommandsMove

\* The poll empties the outbox; nothing of it was handed before.
LEMMA PollStep == ASSUME LoopInv, NEW w \in Worlds, Poll(w) PROVE LoopInv'
<1>1. /\ "overlap" \notin may => pushing = {}
      /\ Take(w, outbox[w]) /\ UNCHANGED <<exec, log, pushing, may>>
      /\ Hand(w, outbox[w]) \/ UNCHANGED <<inbox, handed>>
  BY DEF Poll
<1>2. IInv'
  BY <1>1, TakeKeeps DEF LoopInv
<1>3. /\ outbox'[w] = {} /\ \A v \in Worlds \ {w} : outbox'[v] = outbox[v]
      /\ UNCHANGED <<running, rounds, nextCmd>>
  BY <1>1 DEF Take, LoopInv, IInv, TypeOK
<1>4. Single' <=> Single
  BY <1>1 DEF Single
<1>5. /\ inbox' \in [Worlds -> SUBSET Command]
      /\ inbox'[w] = inbox[w] \union outbox[w] \/ inbox'[w] = inbox[w]
      /\ \A v \in Worlds \ {w} : inbox'[v] = inbox[v]
  <2>1. outbox[w] \subseteq Command
    BY DEF LoopInv, IInv, TypeOK
  <2> QED BY <1>1, <2>1 DEF Hand, LoopInv, LoopTypes
<1>6. \A n \in 1 .. MaxCmd : handed[n] \in Nat /\ handed[n] + 1 \in Nat
  BY DEF LoopInv, LoopTypes
<1>7. handed' \in [1 .. MaxCmd -> Nat]
  BY <1>1, <1>6 DEF Hand, LoopInv, LoopTypes
<1>8. LoopTypes'
  <2>1. \A v \in Worlds : inbox'[v] \union outbox'[v] \subseteq inbox[v] \union outbox[v]
    BY <1>3, <1>5
  <2> QED BY <1>1, <1>3, <1>5, <1>7, <2>1 DEF LoopInv, LoopTypes
<1>9. Single => pushing = {} /\ \A v, d : ~Pushed(v, d) /\ ~Pushed(v, d)'
  BY <1>1 DEF LoopInv, PushAgrees, Single, Pushed
<1>10. PushAgrees'
  BY <1>1, <1>4, <1>9 DEF LoopInv, PushAgrees
<1>11. ASSUME Single
       PROVE  \A v \in Worlds : \A d \in outbox[v] : d.id \in 1 .. MaxCmd /\ handed[d.id] = 0
  <2> TAKE v \in Worlds
  <2> TAKE d \in outbox[v]
  <2>1. d.id \in 1 .. MaxCmd /\ handed[d.id] # 1
    BY <1>9, <1>11, CommandsTyped DEF LoopInv, HandedAgrees
  <2>2. handed[d.id] <= 1
    BY <1>11, <2>1 DEF LoopInv, HandedAgrees
  <2> QED BY <1>6, <2>1, <2>2
<1>12. CASE UNCHANGED <<inbox, handed>>
  <2>1. HandedAgrees'
    <3>1. \A v \in Worlds : outbox'[v] \subseteq outbox[v]
      BY <1>3
    <3>2. Single => \A v \in Worlds : \A d \in outbox'[v] : handed'[d.id] # 1
      BY <1>11, <1>12, <3>1
    <3> QED BY <1>3, <1>4, <1>12, <3>2 DEF LoopInv, HandedAgrees
  <2>2. ASSUME Calm, NEW v \in Worlds PROVE Waits(v)' \subseteq Waits(v)
    BY <1>3, <1>9, <1>12, <2>2 DEF Waits, Calm
  <2>3. ASSUME Queued PROVE OneToken(w)'
    <3>1. OneToken(w) /\ (NoWave(w) => NoWave(w)')
      BY <1>1, <1>3, <1>12, <2>3 DEF LoopInv, NoWave
    <3>2. \A i, k : At(w, i, k)' <=> At(w, i, k)
      BY <1>1 DEF At
    <3> QED BY <1>1, <1>3, <1>12, <3>1, <3>2 DEF OneToken
  <2>4. ASSUME Queued, NEW v \in Worlds PROVE OneToken(v)'
    BY <1>1, <1>3, <1>12, <2>3, <2>4, OtherToken DEF LoopInv, Untouched
  <2> QED BY <1>1, <1>2, <1>3, <1>8, <1>10, <2>1, <2>2, <2>4, CommandsMove
<1>13. CASE Hand(w, outbox[w])
  <2>1. inbox'[w] = inbox[w] \union outbox[w]
    BY <1>13 DEF Hand, LoopInv, LoopTypes
  <2>2. \A n \in 1 .. MaxCmd :
          handed'[n] = IF \E c \in outbox[w] : c.id = n THEN handed[n] + 1 ELSE handed[n]
    BY <1>13 DEF Hand
  <2>3. HandedAgrees'
    <3> SUFFICES ASSUME Single PROVE
          /\ \A n \in 1 .. MaxCmd : handed'[n] <= 1 /\ (handed'[n] = 1 => n < nextCmd)
          /\ \A v \in Worlds :
               /\ \A d \in inbox'[v] : handed'[d.id] = 1
               /\ \A d \in outbox'[v] : handed'[d.id] # 1
      BY <1>3, <1>4 DEF HandedAgrees
    <3>1. \A n \in 1 .. MaxCmd : handed'[n] <= 1 /\ (handed'[n] = 1 => n < nextCmd)
      <4> TAKE n \in 1 .. MaxCmd
      <4>1. CASE \E c \in outbox[w] : c.id = n
        <5>1. handed[n] = 0 /\ n < nextCmd
          BY <1>11, <4>1, CommandsTyped
        <5> QED BY <2>2, <4>1, <5>1
      <4>2. CASE ~\E c \in outbox[w] : c.id = n
        BY <2>2, <4>2 DEF LoopInv, HandedAgrees
      <4> QED BY <4>1, <4>2
    <3>2. ASSUME NEW v \in Worlds, NEW d \in inbox'[v] PROVE handed'[d.id] = 1
      <4>1. CASE d \in inbox[v]
        <5>1. handed[d.id] = 1 /\ d.id \in 1 .. MaxCmd
          BY <4>1, CommandsTyped DEF LoopInv, HandedAgrees
        <5>2. ~\E c \in outbox[w] : c.id = d.id
          BY <1>11, <5>1
        <5> QED BY <2>2, <5>1, <5>2
      <4>2. CASE d \notin inbox[v]
        <5>1. d \in outbox[w]
          BY <1>5, <2>1, <3>2, <4>2
        <5>2. d.id \in 1 .. MaxCmd /\ handed[d.id] = 0
          BY <1>11, <5>1
        <5> QED BY <2>2, <5>1, <5>2
      <4> QED BY <4>1, <4>2
    <3>3. ASSUME NEW v \in Worlds, NEW d \in outbox'[v] PROVE handed'[d.id] # 1
      <4>1. v # w /\ d \in outbox[v]
        BY <1>3, <3>3
      <4>2. ~\E c \in outbox[w] : c.id = d.id
        BY <4>1 DEF LoopInv, IInv, CommandsAreFresh
      <4>3. d.id \in 1 .. MaxCmd /\ handed[d.id] = 0
        BY <1>11, <4>1
      <4> QED BY <2>2, <4>2, <4>3
    <3> QED BY <3>1, <3>2, <3>3
  <2>4. ASSUME Calm, NEW v \in Worlds PROVE Waits(v)' \subseteq Waits(v)
    <3>1. CASE v = w
      BY <1>3, <1>9, <2>1, <2>4, <3>1 DEF Waits, Calm
    <3>2. CASE v # w
      BY <1>3, <1>5, <1>9, <2>4, <3>2 DEF Waits, Calm
    <3> QED BY <3>1, <3>2
  <2>5. ASSUME Queued PROVE OneToken(w)'
    <3>1. OneToken(w) /\ (NoWave(w) => NoWave(w)')
      BY <1>1, <1>3, <2>1, <2>5 DEF LoopInv, NoWave
    <3>2. \A i, k : At(w, i, k)' <=> At(w, i, k)
      BY <1>1 DEF At
    <3> QED BY <1>1, <1>3, <2>1, <3>1, <3>2 DEF OneToken
  <2>6. ASSUME Queued, NEW v \in Worlds PROVE OneToken(v)'
    BY <1>1, <1>3, <1>5, <2>5, <2>6, OtherToken DEF LoopInv, Untouched
  <2> QED BY <1>1, <1>2, <1>3, <1>8, <1>10, <2>3, <2>4, <2>6, CommandsMove
<1> QED BY <1>1, <1>12, <1>13

-----------------------------------------------------------------------------
\* Every step of executor, relay, handlers and poller keeps the invariant.
LEMMA LoopStep == LoopInv /\ [LoopNext]_allVars => LoopInv'
<1> SUFFICES ASSUME LoopInv, [LoopNext]_allVars PROVE LoopInv'
  OBVIOUS
<1>1. CASE UNCHANGED allVars
  <2>1. UNCHANGED <<vars, exec, log, inbox, pushing, handed, may>>
    BY <1>1 DEF allVars, loopVars
  <2>2. IInv'
    BY <2>1, StepIInv DEF LoopInv
  <2>3. LoopTypes'
    BY <2>1 DEF LoopInv, LoopTypes, vars
  <2>4. PushAgrees' /\ HandedAgrees' /\ \A v \in Worlds : Waits(v)' = Waits(v)
    BY <2>1, PushesStay DEF LoopInv, vars
  <2>5. ASSUME Queued, NEW v \in Worlds PROVE OneToken(v)'
    BY <2>1, <2>5, OtherToken DEF LoopInv, Untouched, vars
  <2> QED BY <2>1, <2>2, <2>3, <2>4, <2>5, CommandsMove DEF vars
<1>2. ASSUME NEW w \in Worlds, ExecReady(w) PROVE LoopInv'
  BY <1>2, ReadyStep
<1>3. ASSUME NEW w \in Worlds, ExecWaveDone(w) PROVE LoopInv'
  BY <1>3, WaveDoneStep
<1>4. ASSUME NEW w \in Worlds, ExecHqDead(w) PROVE LoopInv'
  BY <1>4, HqDeadStep
<1>5. ASSUME NEW w \in Worlds, Run(w) PROVE LoopInv'
  BY <1>5, RunStep
<1>6. ASSUME NEW w \in Worlds, Relay(w) PROVE LoopInv'
  BY <1>6, RelayStep
<1>7. ASSUME NEW w \in Worlds, Poll(w) PROVE LoopInv'
  BY <1>7, PollStep
<1>8. ASSUME Push PROVE LoopInv'
  BY <1>8, PushStep
<1>9. ASSUME Ack PROVE LoopInv'
  BY <1>9, AckStep
<1> QED BY <1>1, <1>2, <1>3, <1>4, <1>5, <1>6, <1>7, <1>8, <1>9 DEF LoopNext

\* The invariant holds in every reachable state.
LEMMA LoopInvAlways == LoopSpec => []LoopInv
  BY LoopInvAtFirst, LoopStep, PTL DEF LoopSpec

-----------------------------------------------------------------------------
(* Twice at most.                                                          *)

\* What a handler still pushes, and what still waits for the poll.
Coming(n) == \E p \in pushing : p.command.id = n /\ ~p.pushed
Waiting(n) == \E w \in Worlds : \E c \in outbox[w] : c.id = n

\* A command is handed at most once by each of the two ways it may still go: what has
\* been handed, a push to come and a place in the outbox are two together.
HandedTwice ==
  /\ \A p, q \in pushing : p.command.id = q.command.id => p = q
  /\ \A n \in 1 .. MaxCmd :
       /\ handed[n] <= 2
       /\ Coming(n) \/ Waiting(n) => handed[n] <= 1
       /\ Coming(n) /\ Waiting(n) => handed[n] = 0
       /\ n >= nextCmd => handed[n] = 0

\* A step that hands nothing and pushes or queues only what is new.
LEMMA NothingHanded ==
  ASSUME HandedTwice, handed' = handed, nextCmd \in Nat, nextCmd' \in {nextCmd, nextCmd + 1},
         \A p, q \in pushing' : p.command.id = q.command.id => p = q,
         \A n \in 1 .. MaxCmd : (Coming(n)' => Coming(n) \/ n = nextCmd) /\ (Waiting(n)' => Waiting(n) \/ n = nextCmd)
  PROVE  HandedTwice'
<1> SUFFICES ASSUME NEW n \in 1 .. MaxCmd
             PROVE  /\ handed[n] <= 2
                    /\ Coming(n)' \/ Waiting(n)' => handed[n] <= 1
                    /\ Coming(n)' /\ Waiting(n)' => handed[n] = 0
                    /\ n >= nextCmd' => handed[n] = 0
  BY DEF HandedTwice
<1> HIDE DEF Coming, Waiting
<1>1. CASE n = nextCmd
  BY <1>1 DEF HandedTwice
<1>2. CASE n # nextCmd
  BY <1>2 DEF HandedTwice
<1> QED BY <1>1, <1>2

\* A push that arrives, answered or not, is no more to come.
LEMMA PushHands ==
  ASSUME LoopInv, HandedTwice, NEW p \in pushing, ~p.pushed, Hand(p.to, {p.command}),
         pushing' = pushing \ {p} \/ pushing' = (pushing \ {p}) \union {[p EXCEPT !.pushed = TRUE]},
         UNCHANGED vars
  PROVE  HandedTwice'
<1> DEFINE m == p.command.id
           q == [p EXCEPT !.pushed = TRUE]
<1>1. p \in Pushes /\ m \in 1 .. nextCmd - 1 /\ nextCmd \in 1 .. MaxCmd + 1 /\ handed \in [1 .. MaxCmd -> Nat]
  BY DEF LoopInv, LoopTypes
<1>2. q.command = p.command /\ q.pushed
  BY <1>1 DEF Pushes
<1>3. \A n \in 1 .. MaxCmd : handed'[n] = IF n = m THEN handed[n] + 1 ELSE handed[n]
  BY <1>1 DEF Hand
<1>4. Coming(m)
  BY DEF Coming
<1> HIDE DEF q, m
<1>5. \A r, s \in pushing' : r.command.id = s.command.id => r = s
  <2>1. \A r \in pushing \ {p} : r.command.id # m
    BY DEF HandedTwice, m
  <2>2. \A r, s \in pushing : r.command.id = s.command.id => r = s
    BY DEF HandedTwice
  <2>3. q.command.id = m
    BY <1>2 DEF m
  <2>4. pushing' \subseteq (pushing \ {p}) \union {q}
    BY DEF q
  <2> QED BY <2>1, <2>2, <2>3, <2>4
<1>6. ~Coming(m)'
  <2>1. \A r \in pushing \ {p} : r.command.id # m
    BY DEF HandedTwice, m
  <2> QED BY <1>2, <2>1 DEF Coming, q
<1>7. \A n : (Coming(n)' => Coming(n)) /\ (Waiting(n)' <=> Waiting(n))
  BY <1>2 DEF Coming, Waiting, vars, q
<1>8. nextCmd' = nextCmd
  BY DEF vars
<1> SUFFICES ASSUME NEW n \in 1 .. MaxCmd
             PROVE  /\ handed'[n] <= 2
                    /\ Coming(n)' \/ Waiting(n)' => handed'[n] <= 1
                    /\ Coming(n)' /\ Waiting(n)' => handed'[n] = 0
                    /\ n >= nextCmd' => handed'[n] = 0
  BY <1>5 DEF HandedTwice
<1>9. CASE n = m
  BY <1>1, <1>3, <1>4, <1>6, <1>7, <1>8, <1>9 DEF HandedTwice
<1>10. CASE n # m
  BY <1>1, <1>3, <1>7, <1>8, <1>10 DEF HandedTwice
<1> QED BY <1>9, <1>10

\* The poll hands what waits, which is in no other outbox.
LEMMA PollHands ==
  ASSUME LoopInv, HandedTwice, NEW w \in Worlds, Take(w, outbox[w]), Hand(w, outbox[w]), UNCHANGED pushing
  PROVE  HandedTwice'
<1>1. /\ nextCmd' = nextCmd /\ nextCmd \in 1 .. MaxCmd + 1 /\ handed \in [1 .. MaxCmd -> Nat]
      /\ outbox'[w] = {} /\ \A v \in Worlds \ {w} : outbox'[v] = outbox[v]
  BY DEF Take, LoopInv, LoopTypes, IInv, TypeOK
<1>2. \A n \in 1 .. MaxCmd : handed'[n] = IF \E c \in outbox[w] : c.id = n THEN handed[n] + 1 ELSE handed[n]
  BY DEF Hand
<1>3. \A n : (Coming(n)' <=> Coming(n)) /\ (Waiting(n)' => Waiting(n))
  BY <1>1 DEF Coming, Waiting
<1> SUFFICES ASSUME NEW n \in 1 .. MaxCmd
             PROVE  /\ handed'[n] <= 2
                    /\ Coming(n)' \/ Waiting(n)' => handed'[n] <= 1
                    /\ Coming(n)' /\ Waiting(n)' => handed'[n] = 0
                    /\ n >= nextCmd' => handed'[n] = 0
  BY DEF HandedTwice
<1>4. CASE \E c \in outbox[w] : c.id = n
  <2>1. Waiting(n) /\ n < nextCmd
    BY <1>1, <1>4, CommandsTyped DEF Waiting
  <2>2. ~Waiting(n)'
    <3>1. \A v \in Worlds \ {w} : \A d \in outbox[v] : d.id # n
      BY <1>4 DEF LoopInv, IInv, CommandsAreFresh
    <3> QED BY <1>1, <3>1 DEF Waiting
  <2>3. handed'[n] = handed[n] + 1 /\ handed[n] \in Nat
    BY <1>1, <1>2, <1>4
  <2> QED BY <1>1, <1>3, <2>1, <2>2, <2>3 DEF HandedTwice
<1>5. CASE ~\E c \in outbox[w] : c.id = n
  BY <1>1, <1>2, <1>3, <1>5 DEF HandedTwice
<1> QED BY <1>4, <1>5

\* A reported line decides one new command or none, and pushes at most that.
LEMMA RelayIs ==
  ASSUME LoopInv, NEW w \in Worlds, Relay(w)
  PROVE  \E e \in Lines : Relays(w, e)
<1> DEFINE e == Head(log[w])
<1>1. /\ log[w] # <<>> /\ Decides(w, e) /\ UNCHANGED <<exec, inbox, handed, may>>
      /\ pushing' = IF "push" \in may /\ e.kind = "hq_destroyed"
                    THEN pushing \union {[to |-> w, command |-> c, pushed |-> FALSE] :
                                           c \in outbox'[w] \ outbox[w]}
                    ELSE pushing
  BY DEF Relay
<1>2. log[w] \in Seq(Lines) /\ e \in Lines
  BY <1>1 DEF LoopInv, LoopTypes
<1> HIDE DEF e
<1>3. UNCHANGED vars \/ Starts(w, e) \/ Continues(w, e) \/ Dies(w, e)
  BY <1>1, <1>2, DecidesIs
<1>4. AddsNone \/ \E c : Adds(w, c)
  BY <1>3 DEF Starts, Continues, Dies, AddsWave, AddsReset, vars, AddsNone
<1> QED BY <1>1, <1>2, <1>4 DEF Relays

\* No step hands a command a third time.
LEMMA TwiceStep == LoopInv /\ HandedTwice /\ [LoopNext]_allVars => HandedTwice'
<1> SUFFICES ASSUME LoopInv, HandedTwice, [LoopNext]_allVars PROVE HandedTwice'
  OBVIOUS
<1>0. nextCmd \in Nat
  BY DEF LoopInv, LoopTypes
<1>1. ASSUME UNCHANGED <<outbox, nextCmd, pushing, handed>> PROVE HandedTwice'
  BY <1>0, <1>1, NothingHanded DEF Coming, Waiting, HandedTwice
<1>2. CASE UNCHANGED allVars
  BY <1>1, <1>2 DEF allVars, vars, loopVars
<1>3. ASSUME NEW w \in Worlds, ExecReady(w) \/ ExecWaveDone(w) \/ ExecHqDead(w) \/ Run(w) PROVE HandedTwice'
  BY <1>1, <1>3 DEF ExecReady, ExecWaveDone, ExecHqDead, Run, vars
<1>4. ASSUME NEW w \in Worlds, Relay(w) PROVE HandedTwice'
  <2>1. PICK e \in Lines : Relays(w, e)
    BY <1>4, RelayIs
  <2>2. /\ pushing \subseteq pushing'
        /\ \A p \in pushing' \ pushing : p.to = w /\ p.command \in outbox'[w] \ outbox[w]
        /\ \A p, q \in pushing' \ pushing : p = q
    BY <2>1, NewPush
  <2>3. \A v \in Worlds : \A c \in outbox'[v] \ outbox[v] : c.id = nextCmd
    BY <2>1 DEF Relays, Adds, AddsNone
  <2>4. handed' = handed /\ nextCmd' \in {nextCmd, nextCmd + 1}
    BY <2>1 DEF Relays, Adds, AddsNone
  <2>5. \A p \in pushing : p.command.id # nextCmd
    BY <1>0 DEF LoopInv, LoopTypes
  <2>6. \A p, q \in pushing' : p.command.id = q.command.id => p = q
    BY <1>4, <2>2, <2>3, <2>5 DEF HandedTwice
  <2>7. \A n \in 1 .. MaxCmd : (Coming(n)' => Coming(n) \/ n = nextCmd) /\ (Waiting(n)' => Waiting(n) \/ n = nextCmd)
    BY <1>4, <2>2, <2>3 DEF Coming, Waiting
  <2> QED BY <1>0, <2>4, <2>6, <2>7, NothingHanded
<1>5. ASSUME NEW w \in Worlds, Poll(w) PROVE HandedTwice'
  <2>1. CASE Hand(w, outbox[w])
    BY <1>5, <2>1, PollHands DEF Poll
  <2>2. CASE UNCHANGED <<inbox, handed>>
    <3>1. nextCmd' = nextCmd /\ UNCHANGED pushing /\ \A v \in Worlds : outbox'[v] \subseteq outbox[v]
      BY <1>5 DEF Poll, Take, LoopInv, IInv, TypeOK
    <3>2. \A n \in 1 .. MaxCmd : (Coming(n)' => Coming(n)) /\ (Waiting(n)' => Waiting(n))
      BY <3>1 DEF Coming, Waiting
    <3> QED BY <1>0, <2>2, <3>1, <3>2, NothingHanded DEF HandedTwice
  <2> QED BY <1>5, <2>1, <2>2 DEF Poll
<1>6. ASSUME Push PROVE HandedTwice'
  <2>1. PICK p \in pushing :
          /\ ~p.pushed /\ UNCHANGED vars
          /\ \/ /\ Hand(p.to, {p.command})
                /\ pushing' = pushing \ {p} \/ pushing' = (pushing \ {p}) \union {[p EXCEPT !.pushed = TRUE]}
             \/ pushing' = pushing \ {p} /\ UNCHANGED <<inbox, handed>>
    BY <1>6 DEF Push
  <2>2. CASE pushing' = pushing \ {p} /\ UNCHANGED <<inbox, handed>>
    <3>1. \A n : (Coming(n)' => Coming(n)) /\ (Waiting(n)' => Waiting(n))
      BY <2>1, <2>2 DEF Coming, Waiting, vars
    <3> QED BY <1>0, <2>1, <2>2, <3>1, NothingHanded DEF HandedTwice, vars
  <2> QED BY <2>1, <2>2, PushHands
<1>7. ASSUME Ack PROVE HandedTwice'
  <2>1. PICK p \in pushing :
          Take(p.to, {p.command}) /\ pushing' = pushing \ {p} /\ UNCHANGED handed
    BY <1>7 DEF Ack, Acked
  <2>2. p.to \in Worlds
    BY DEF LoopInv, LoopTypes, Pushes
  <2>3. nextCmd' = nextCmd /\ \A v \in Worlds : outbox'[v] \subseteq outbox[v]
    BY <2>1, <2>2 DEF Take, LoopInv, IInv, TypeOK
  <2>4. \A n \in 1 .. MaxCmd : (Coming(n)' => Coming(n)) /\ (Waiting(n)' => Waiting(n))
    BY <2>1, <2>3 DEF Coming, Waiting
  <2> QED BY <1>0, <2>1, <2>3, <2>4, NothingHanded DEF HandedTwice
<1> QED BY <1>2, <1>3, <1>4, <1>5, <1>6, <1>7 DEF LoopNext

\* Nothing is handed at first, and never more than twice.
LEMMA TwiceAlways == LoopSpec => []HandedTwice
<1>1. LoopInit => HandedTwice
  BY DEF LoopInit, HandedTwice, Init, Coming, Waiting
<1> QED BY <1>1, TwiceStep, LoopInvAlways, PTL DEF LoopSpec

-----------------------------------------------------------------------------
\* To the referee, whatever comes from the loop is an event.
LEMMA LoopIsEvents == LoopInv /\ [LoopNext]_allVars => [AnyEvent]_vars
<1> SUFFICES ASSUME LoopInv, [LoopNext]_allVars PROVE AnyEvent \/ UNCHANGED vars
  OBVIOUS
<1>1. ASSUME NEW w \in Worlds, Relay(w) PROVE AnyEvent \/ UNCHANGED vars
  <2>1. Decides(w, Head(log[w])) /\ log[w] # <<>> /\ log[w] \in Seq(Lines)
    BY <1>1 DEF Relay, LoopInv, LoopTypes
  <2>2. Head(log[w]) \in Lines
    BY <2>1
  <2>3. Head(log[w]).level \in Nat
    BY <2>2 DEF Lines
  <2> QED BY <2>1, <2>3 DEF Decides, AnyEvent
<1>2. ASSUME NEW w \in Worlds, Poll(w) PROVE AnyEvent
  BY <1>2 DEF Poll, AnyEvent
<1>3. ASSUME Ack PROVE AnyEvent
  BY <1>3 DEF Ack, AnyEvent, LoopInv, LoopTypes, Pushes
<1>4. ASSUME NEW w \in Worlds, ExecReady(w) \/ ExecWaveDone(w) \/ ExecHqDead(w) \/ Run(w)
      PROVE  UNCHANGED vars
  BY <1>4 DEF ExecReady, ExecWaveDone, ExecHqDead, Run
<1>5. Push \/ UNCHANGED allVars => UNCHANGED vars
  BY DEF Push, allVars
<1> QED BY <1>1, <1>2, <1>3, <1>4, <1>5 DEF LoopNext

\* The referee's books are kept in the loop as well, whatever relay, push and poll
\* do to it (referee.rs: on_event, poll, take).
THEOREM LoopBooksAlways == LoopSpec => RefereeKeepsBooks
<1>1. LoopInv => FlagsAgree /\ CommandsAreFresh
  BY DEF LoopInv, IInv
<1>2. LoopInv /\ [LoopNext]_allVars => [CountUp]_vars
  <2>1. LoopInv /\ [LoopNext]_allVars => CountUp
    BY LoopIsEvents, StepCountsUp DEF LoopInv
  <2> QED BY <2>1
<1>3. LoopSpec => [](FlagsAgree /\ CommandsAreFresh) /\ [][CountUp]_vars
  BY <1>1, <1>2, LoopInvAlways, PTL DEF LoopSpec
<1> QED BY <1>3 DEF RefereeKeepsBooks, WavesCountUp, CountUp

\* What reaches the executor, for any number of worlds, waves and deaths: one wave at
\* a time and of its life, each command once, and one reset for a death, each in the
\* deployments in which the code brings it about, and no command more than twice in
\* any (referee.rs: "a repeated log event never makes a double wave", "delivered
\* exactly once"; api.rs: push_referee_commands, referee_poll).
THEOREM RunsOnceAlways == LoopSpec => []CommandsRunOnce
<1>1. LoopInv /\ HandedTwice => CommandsRunOnce
  <2> SUFFICES ASSUME LoopInv, HandedTwice PROVE CommandsRunOnce
    OBVIOUS
  <2>1. ASSUME Queued, NEW w \in Worlds, NEW c \in inbox[w] \union outbox[w], c.level # 0
        PROVE  c.round = exec[w].life /\ exec[w].wave = 0
    <3>1. c.level > 0
      BY <2>1, CommandsTyped DEF Command
    <3> QED BY <2>1, <3>1 DEF LoopInv, OneToken
  <2>2. OneWaveAtATime
    BY <2>1 DEF OneWaveAtATime
  <2>3. WavesOfThisLife
    <3>1. ASSUME Queued, NEW w \in Worlds, NEW c \in inbox[w], c.level > 0 PROVE c.round = exec[w].life
      BY <2>1, <3>1
    <3> QED BY <3>1 DEF WavesOfThisLife
  <2>4. OneResetPerDeath
    BY DEF OneResetPerDeath, LoopInv, Calm, Single, Lives
  <2>5. HandedOnce
    BY DEF HandedOnce, LoopInv, Single, HandedAgrees, HandedTwice
  <2> QED BY <2>2, <2>3, <2>4, <2>5 DEF CommandsRunOnce
<1> QED BY <1>1, LoopInvAlways, TwiceAlways, PTL
=============================================================================
