---------------------------- MODULE RefereeMatch ----------------------------
(***************************************************************************)
(* The tournament referee's match state (tournament/src/state.rs): lobby,  *)
(* ready check, the round loop with its sends and reveals, the HQ reports  *)
(* that decide the match, pause and rematch.                               *)
(*                                                                         *)
(* Every HTTP handler takes the state's write lock once and runs one of    *)
(* the methods of MatchState under it, so each method is one atomic        *)
(* action; what a handler does after it released the lock is the subject   *)
(* of WaveIngress, MatchFanout and MatchRecords.  A request that the code  *)
(* answers with an error or as a duplicate changes nothing and is a        *)
(* disabled action here.                                                   *)
(*                                                                         *)
(* Data left out, which no guard reads: unit lists and values of a send,   *)
(* built values, score snapshots (score_update), time stamps, broadcast    *)
(* status and the feed's lines.  A send batch keeps the world it goes to,  *)
(* the round stamped on it, whether it carries a level (only those are     *)
(* pushed to the game) and an identity, which the code does not have.      *)
(***************************************************************************)
EXTENDS Integers, FiniteSets

CONSTANTS
  Players,       \* names a client may register
  Mirror,        \* the name "MIRROR" of the solo mode's server side
  None,          \* Option::None
  MatchIds,      \* match ids the queue service may pass to POST /lobby
  HqStart,       \* hq_hp_start, in coarse steps of HQ health
  AutoGo,        \* cfg.auto_go: the second ready starts the match
  MaxRound,      \* bound: the last round that may be completed
  MaxSends,      \* bound: batch identities per match, two for each send
  MaxRematches   \* bound: resets of the match state

ASSUME HqStartPositive == HqStart \in Nat \ {0}
ASSUME AutoGoBoolean == AutoGo \in BOOLEAN
ASSUME BoundsNat == MaxRound \in Nat /\ MaxSends \in Nat /\ MaxRematches \in Nat
ASSUME NoneIsNoName == None \notin Players \union MatchIds \union {Mirror}
                       /\ None \notin {"A", "B"}

Worlds == {"A", "B"}
Opponent(w) == IF w = "A" THEN "B" ELSE "A"

Modes  == {"duel", "sp"}
Phases == {"lobby", "ready", "running", "finished"}

VARIABLES
  mode, phase,
  round,         \* current build round, 0 outside a match
  roundsDone,    \* rounds whose reveal is complete
  rematches, winner, paused,
  player,        \* player[w]: the registered name, or None
  ready, hq,
  matchId,       \* queue_match_id[w], echoed to the queue service
  pending,       \* pending[w]: batches that run into w's next wave
  reveal,        \* round, the worlds that locked it, and what each received
  nextId,        \* history: identity of the next batch
  sent,          \* history: batches accepted in this match
  revealed       \* history: <<batch, round>> for every batch drained

teamVars == <<player, ready, hq, matchId>>
sendVars == <<pending, reveal, nextId, sent, revealed>>
flowVars == <<mode, phase, round, roundsDone, rematches, winner, paused>>
vars == <<flowVars, teamVars, sendVars>>

Batch == [id : Nat, to : Worlds, level : BOOLEAN, round : Nat]
Reveals == [round : Nat, locked : SUBSET Worlds, incoming : [Worlds -> SUBSET Batch]]

NoIncoming == [w \in Worlds |-> {}]
NoReveal == [round |-> 0, locked |-> {}, incoming |-> NoIncoming]

AllWorlds(v) == [w \in Worlds |-> v]

BothRegistered == \A w \in Worlds : player[w] # None

Init ==
  /\ mode = "duel" /\ phase = "lobby"
  /\ round = 0 /\ roundsDone = 0 /\ rematches = 0
  /\ winner = None /\ paused = FALSE
  /\ player = AllWorlds(None) /\ ready = AllWorlds(FALSE)
  /\ hq = AllWorlds(HqStart)
  /\ matchId = AllWorlds(None)
  /\ pending = NoIncoming /\ reveal = NoReveal
  /\ nextId = 0 /\ sent = {} /\ revealed = {}

-----------------------------------------------------------------------------
(* Lobby and ready check.                                                  *)

\* A new match starts with empty queues and no reveal (pending.clear() for
\* both teams, reveal = None).
ForgetSends ==
  /\ pending' = NoIncoming /\ reveal' = NoReveal
  /\ nextId' = 0 /\ sent' = {} /\ revealed' = {}

\* A reset takes back the ready flags and the echoed match ids.  Bug: the
\* flags survive it.
KeepReady == UNCHANGED ready
Unready == ready' = AllWorlds(FALSE)

ClearEcho == matchId' = AllWorlds(None)

\* POST /lobby.  A different name for the world takes its ready flag away; a
\* missing match id (m = None) leaves the echo as it was.
LobbyRegister(w, p, m) ==
  /\ phase = "lobby"
  /\ player' = [player EXCEPT ![w] = p]
  /\ ready' = [ready EXCEPT ![w] = @ /\ player[w] = p]
  /\ matchId' = IF m = None THEN matchId ELSE [matchId EXCEPT ![w] = m]
  /\ UNCHANGED <<hq, flowVars, sendVars>>

\* The effect of start_match on everything but the ready flags.
Start ==
  /\ phase' = "running" /\ round' = 1
  /\ winner' = None /\ paused' = FALSE
  /\ ForgetSends
  /\ UNCHANGED <<mode, roundsDone, rematches, player, hq, matchId>>

\* POST /ready.  One lock section covers ready, arm_go and, with auto_go,
\* start_match.
Ready(w) ==
  /\ player[w] # None
  /\ phase \in {"lobby", "ready"}
  /\ ~ready[w]
  /\ ready' = [ready EXCEPT ![w] = TRUE]
  /\ \/ /\ ~ready[Opponent(w)]
        /\ UNCHANGED <<flowVars, sendVars, player, hq, matchId>>
     \/ /\ ready[Opponent(w)]
        /\ AutoGo /\ BothRegistered
        /\ Start
     \/ /\ ready[Opponent(w)]
        /\ ~(AutoGo /\ BothRegistered)
        /\ phase' = "ready"
        /\ UNCHANGED <<mode, round, roundsDone, rematches, winner, paused>>
        /\ UNCHANGED <<sendVars, player, hq, matchId>>

\* POST /go without retry: from the lobby directly, or after the ready check.
Go ==
  /\ BothRegistered
  /\ phase \in {"lobby", "ready"}
  /\ Start
  /\ UNCHANGED ready

\* POST /sp: a solo match of p against the mirror.  It may replace a lobby, a
\* ready check or a finished match, and does not count as a rematch.
StartSp(p) ==
  /\ phase # "running"
  /\ mode' = "sp" /\ phase' = "running"
  /\ round' = 1 /\ roundsDone' = 0
  /\ winner' = None /\ paused' = FALSE
  /\ player' = [w \in Worlds |-> IF w = "A" THEN p ELSE Mirror]
  /\ ready' = AllWorlds(TRUE)
  /\ hq' = AllWorlds(HqStart)
  /\ ClearEcho
  /\ ForgetSends
  /\ UNCHANGED rematches

\* POST /rematch: back to the lobby from every phase but a running match.  The
\* players stay registered and the mode stays what it was.
Rematch ==
  /\ phase # "running"
  /\ rematches < MaxRematches
  /\ phase' = "lobby"
  /\ round' = 0 /\ roundsDone' = 0
  /\ winner' = None /\ paused' = FALSE
  /\ rematches' = rematches + 1
  /\ Unready
  /\ hq' = AllWorlds(HqStart)
  /\ ClearEcho
  /\ ForgetSends
  /\ UNCHANGED <<mode, player>>

-----------------------------------------------------------------------------
(* The round loop.                                                         *)

\* Every request of the round loop needs a running match.  Bug: a finished one
\* is good enough.
Started == phase \in {"running", "finished"}
Running == phase = "running"

\* Bug: a batch stamped with the last completed round.
StampedDone(n, to, level) ==
  [id |-> n, to |-> to, level |-> level, round |-> roundsDone]

NewBatch(n, to, level) == [id |-> n, to |-> to, level |-> level, round |-> round]

\* The batches an accepted send of w queues: one for the opponent and, for a
\* send with units of the solo player, its mirror image for the player.
Routed(w, level) ==
  {NewBatch(nextId, Opponent(w), level)} \union
  (IF mode = "sp" /\ w = "A" /\ ~level THEN {NewBatch(nextId + 1, "A", level)} ELSE {})

\* POST /send, with units (route_send) or with a level (route_wave_send).
RouteSend(w, level) ==
  /\ Running
  /\ player[w] # None
  /\ nextId + 2 <= MaxSends
  /\ pending' = [v \in Worlds |->
                   pending[v] \union {b \in Routed(w, level) : b.to = v}]
  /\ sent' = sent \union Routed(w, level)
  /\ nextId' = nextId + 2
  /\ UNCHANGED <<reveal, revealed, teamVars, flowVars>>

Locked(w) == reveal.round = round /\ w \in reveal.locked

\* The worlds a wave start of w locks: the mirror goes along with the player.
Locks(w) == IF mode = "sp" THEN Worlds ELSE {w}

\* partition(|b| b.round <= round): what this wave start drains (bug: only what
\* was sent before this round).
DueLate(w) == {b \in pending[w] : b.round < round}
Due(w) == {b \in pending[w] : b.round <= round}

\* The reveal this round goes on with.
OpenReveal ==
  IF reveal.round = round THEN reveal
  ELSE [round |-> round, locked |-> {}, incoming |-> NoIncoming]

\* POST /report wave_start.
WaveStart(w) ==
  /\ Running
  /\ player[w] # None
  /\ ~Locked(w)
  /\ ~(mode = "sp" /\ w = "B")
  /\ round <= MaxRound
  /\ pending' = [v \in Worlds |-> IF v \in Locks(w) THEN pending[v] \ Due(v)
                                                    ELSE pending[v]]
  /\ reveal' = [round |-> round,
                locked |-> OpenReveal.locked \union Locks(w),
                incoming |-> [v \in Worlds |-> IF v \in Locks(w) THEN Due(v)
                                               ELSE OpenReveal.incoming[v]]]
  /\ revealed' = revealed \union
                   {<<b, round>> : b \in UNION {Due(v) : v \in Locks(w)}}
  /\ \/ /\ reveal'.locked = Worlds
        /\ roundsDone' = round /\ round' = round + 1
     \/ /\ reveal'.locked # Worlds
        /\ UNCHANGED <<roundsDone, round>>
  /\ UNCHANGED <<mode, phase, rematches, winner, paused, teamVars, nextId, sent>>

\* hp.min(hq_hp_start), and the test hp <= 0.
Clamped(hp) == IF hp > HqStart THEN HqStart ELSE hp

Destroyed(hp) == hp <= 0

\* POST /report hq_hp: absolute, never above the start value; at zero the
\* match is over.  In solo mode the mirror shares the player's HQ.
ReportHq(w, reported) ==
  LET hp == Clamped(reported) IN
  /\ Running
  /\ player[w] # None
  /\ hq' = [v \in Worlds |-> IF v = w \/ (mode = "sp" /\ w = "A") THEN hp
                             ELSE hq[v]]
  /\ \/ /\ Destroyed(hp)
        /\ winner' = Opponent(w) /\ phase' = "finished"
     \/ /\ ~Destroyed(hp)
        /\ UNCHANGED <<winner, phase>>
  /\ UNCHANGED <<mode, round, roundsDone, rematches, paused>>
  /\ UNCHANGED <<player, ready, matchId, sendVars>>

\* POST /pause and POST /resume, the calls that change something.
SetPaused(p) ==
  /\ Running
  /\ paused # p
  /\ paused' = p
  /\ UNCHANGED <<mode, phase, round, roundsDone, rematches, winner>>
  /\ UNCHANGED <<teamVars, sendVars>>

Pause == SetPaused(TRUE)
Resume == SetPaused(FALSE)

Next ==
  \/ \E w \in Worlds, p \in Players, m \in MatchIds \union {None} : LobbyRegister(w, p, m)
  \/ \E w \in Worlds : Ready(w)
  \/ Go
  \/ \E p \in Players : StartSp(p)
  \/ Rematch
  \/ \E w \in Worlds, level \in BOOLEAN : RouteSend(w, level)
  \/ \E w \in Worlds : WaveStart(w)
  \/ \E w \in Worlds, hp \in 0 .. HqStart + 1 : ReportHq(w, hp)
  \/ Pause
  \/ Resume

Spec == Init /\ [][Next]_vars

-----------------------------------------------------------------------------
(* What the state promises.                                                *)

\* Type correctness of the match state.
TypeOK ==
  /\ mode \in Modes /\ phase \in Phases
  /\ round \in Nat /\ roundsDone \in Nat /\ rematches \in Nat
  /\ winner \in Worlds \union {None} /\ paused \in BOOLEAN
  /\ player \in [Worlds -> Players \union {Mirror, None}]
  /\ ready \in [Worlds -> BOOLEAN]
  /\ hq \in [Worlds -> 0 .. HqStart]
  /\ matchId \in [Worlds -> MatchIds \union {None}]
  /\ pending \in [Worlds -> SUBSET Batch]
  /\ reveal \in Reveals
  /\ nextId \in Nat
  /\ sent \subseteq Batch
  /\ revealed \subseteq Batch \X Nat

InMatch == phase \in {"running", "finished"}

\* The round counters agree with the reveal: during a match the current round
\* is the one after the completed rounds, the last reveal is either this
\* round's and still waits for a world, or the complete one of the round
\* before.  So no world is ever a wave ahead of the other by more than one.
RoundsInLockstep ==
  /\ ~InMatch => round = 0 /\ roundsDone = 0 /\ reveal = NoReveal
  /\ InMatch =>
       /\ round = roundsDone + 1
       /\ \/ reveal = NoReveal /\ round = 1
          \/ reveal.round = round /\ reveal.locked # {} /\ reveal.locked # Worlds
          \/ reveal.round = roundsDone /\ round > 1 /\ reveal.locked = Worlds

\* The comment in wave_start calls batches with a later stamp a defensive
\* case: a queued batch carries the current round, or the round before if the
\* world that it runs into has not locked since.
StampsAreCurrent ==
  \A w \in Worlds : \A b \in pending[w] :
    /\ b.to = w
    /\ b.round \in {round - 1, round} \ {0}
    /\ Locked(w) => b.round = round

\* Every accepted send is either still queued or was drained into exactly one
\* reveal, never both and never neither.
SendsConserved ==
  /\ \A w \in Worlds : pending[w] \subseteq sent
  /\ \A x \in revealed : x[1] \in sent /\ x[1] \notin pending[x[1].to]
  /\ \A b \in sent : b \in pending[b.to] \/ \E x \in revealed : x[1] = b
  /\ \A x, y \in revealed : x[1] = y[1] => x = y

\* "Sends boost the NEXT wave": a batch stamped r comes out with the wave start
\* of round r, or of round r + 1 when the world had already locked round r.
SendsHitNextWave ==
  \A x \in revealed : x[2] \in {x[1].round, x[1].round + 1}

\* A round's sends come out at the lock and not before: what was revealed to a
\* world in the current round, it got by locking this round; batches that are
\* still to come have identities of their own; and a solo match, where one
\* report locks both worlds, never has a half-open reveal.
NothingRevealedBeforeLock ==
  /\ \A x \in revealed : x[2] \in 1 .. round
  /\ \A x \in revealed : x[2] = round => Locked(x[1].to)
  /\ \A b \in sent : b.id < nextId
  /\ mode = "sp" /\ InMatch => reveal.round # round

\* The open reveal lists for each locked world exactly what that wave start
\* drained: nothing is added, dropped or handed to the other world while the
\* reveal waits for its second half.
RevealIsWhatWasDrained ==
  \A w \in Worlds :
    reveal.incoming[w] = {b \in sent : b.to = w /\ <<b, reveal.round>> \in revealed}

\* A match is finished exactly when it has a winner, and then the loser's HQ is
\* gone; while it runs both HQs stand.  In a duel the winner's HQ stands too:
\* there is no draw.
VerdictMatchesHq ==
  /\ phase = "finished" <=> winner # None
  /\ phase # "finished" => \A w \in Worlds : hq[w] > 0
  /\ winner # None => hq[Opponent(winner)] = 0
  /\ winner # None /\ mode = "duel" => hq[winner] > 0

\* Nobody is stuck in a complete ready check: the second ready and the step to
\* "ready" or "running" are one lock section, so a lobby with two ready worlds,
\* which no later ready could start, does not exist.  A ready world has a
\* player, and outside the ready check a match never runs without two players.
ReadyCheckNotForgotten ==
  /\ \A w \in Worlds : ready[w] => player[w] # None
  /\ phase = "lobby" => ~(ready["A"] /\ ready["B"])
  /\ phase = "ready" => ready["A"] /\ ready["B"]
  /\ InMatch => BothRegistered

\* Late requests of a finished match (a delayed HQ report, send or wave start)
\* cannot change its result: winner, HQ and rounds stay until the state is
\* reset for the next match.
ResultIsFinal ==
  [][phase = "finished" /\ phase' = "finished" =>
       UNCHANGED <<winner, hq, round, roundsDone, reveal, sent>>]_vars
-----------------------------------------------------------------------------
(* The abstract specification.                                             *)

WavesStarted(w) == roundsDone + (IF Locked(w) THEN 1 ELSE 0)

Exchange == INSTANCE WaveExchange WITH
  Sends <- Batch,
  waves <- [w \in Worlds |-> WavesStarted(w)],
  waiting <- pending,
  taken <- [w \in Worlds |-> {x \in revealed : x[1].to = w}]

\* The round loop gives the two worlds the wave exchange of WaveExchange: waves
\* in lockstep, each taking along everything that waited for it.
ExchangesWaves == Exchange!Spec

\* The round loop's promise (api.rs, state.rs "Wellen-Lockstep"): the worlds play the
\* same round, and each accepted send comes out with the next wave of its world, once.
RoundsCarrySends == RoundsInLockstep /\ SendsConserved /\ SendsHitNextWave /\ RevealIsWhatWasDrained

\* The lobby leads to a match and the match to the right winner.
MatchIsDecided == TypeOK /\ VerdictMatchesHq /\ ReadyCheckNotForgotten
=============================================================================
