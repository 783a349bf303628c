# Verification of the Riftbreaker battle mod

Two players defend one world of *The Riftbreaker* each and send each other waves. This directory holds
TLA+ models of the services that make a match out of that, the configurations that check them with TLC,
and proofs that TLAPS checks.

Contents: 1 inventory, 2 modules, 3 runs and bounds, 4 fairness, 5 proofs, 6 where code and documents
disagree, 7 what is not modelled, 8 plan.

## 1. Inventory

### 1.1 Referee (`tournament/src`, Rust, one process)

| part | state | operations |
|---|---|---|
| `state.rs` match state | phase, mode, round, per world: player, ready, wave lock, HQ, pending sends; reveal, winner, paused, rematch, echo of the queue's match id, event feed | lobby_register, ready, start_match, start_sp, route_send, wave_start, report_hq, pause, resume, rematch, score_update |
| `api.rs` handlers | none of its own; `RwLock` around the match state and another around the wave referee | one lock section per handler, then requests to the bridges outside it: wave push, GO / pause / resume fan-out, push and ack of referee commands, storing a finished match |
| `referee.rs` wave referee | per world: running, restart pending, wave in flight, next level, outbox; a counter of command ids | on_event (ready, wave_done, hq_destroyed), poll, take |
| `records.rs` | SQLite table `match_record` | record (INSERT OR IGNORE, one row per participant), list |
| `broadcast.rs`, `main.rs`, `elo.rs` | none | one HTTP request with a timeout; start-up; arithmetic nobody calls |

What makes it correct: the two worlds are in the same round; a send that was accepted comes out with the next
wave of its target world, once; the verdict agrees with the HQs and stays; two ready players get a match;
waves reach the bridges once and in order; GO and pause reach both worlds; the rows of a finished match say what
happened in it. Hard: axum runs handlers concurrently, and each does its HTTP requests after it released the
lock (or between two sections of it); requests fail, time out and repeat; a restart forgets the match.

### 1.2 Queue (`deploy/queue`, Python)

`queue_core.py` keeps players, queue, matches and instance numbers, `queue_flow.py` drives provisioner and
referee with them (provision, finish, cleanup, rematch, reconcile), `queue_service.py` is the HTTP front
with the reconciler thread and the snapshot file. Correct when a player is in one place, a ready match has its own two worlds, an ended match is cleaned up, and the referee's verdict is written once. Hard: any call
or write of the snapshot may fail half done, a restart begins from the last one written, retries race new matches for
instances, and the referee takes calls of anybody.

### 1.3 Instances

| part | state | operations | hard |
|---|---|---|---|
| provisioner (`deploy/provisioner`) | docker's containers, network, volumes; files | start, stop, rollback as sequences of docker commands | a threaded service without a lock; failed commands, timeouts, docker's restart policy |
| parked pool (`deploy/parked/parked_pool.py`, `parked_service.py`) | entries in memory, claim markers in files, boxes in docker | warm-up, claim, recycle, reap, reconcile, fill | what each of the three stores knows after a failed call, a crash or a server that died |
| parked VS (`parked_vs.py`) | one session: joined, ready | warm-up, join, ready, recycle | a claim that fails behind the last ready |
| warm service (`deploy/compose/warm`) | PARKED or CLAIMED, one lock | claim, recycle, resume, pause, round end, health | waits for the lock; bridge calls under it |
| capsule (`deploy/capsule`) | phase and instance of one played round | open, ready, finish, auto | threads without a lock over the pool |
| server control (`deploy/server-control`) | config file, lifecycle lock | config, start, stop, restart | only docker calls are serialised |

Correct when an answer says what is there, a game keeps its server, a parked server stands still, orphans go and
the pool fills.

### 1.4 A game server's own services

The pipe bridge (`server/pipe-bridge`, C, a thread per request and one that reads the game's pipe) holds epochs and the
ready gate. The attack cycle (`deploy/attack-cycle`, Python: main loop, resolver thread, request threads) polls the epochs, keeps
paused / warmup / running / game_over and fires attacks of natural and bought waves by three timers. The send tailer
(`deploy/send-tailer`) turns lines of the game's log into orders at the cycle. The match loop (`deploy/match-loop`) reports HQ
health to the referee, or ends and restarts a solo round. The session recorder (`deploy/session-recorder`) files the log's
events by session; the chat announcer (`deploy/chat-announcer`) tells the players what the cycle does.
Correct when rounds start when asked and only then, every fired bought wave was paid once, a
line orders once, a fallen HQ is answered, the recorder loses no line and the chat hears everything once. Hard: signals are
counters polled by value, one after the other; threads; logs cut in the middle of a line or truncated; timers that
are moved while they run; deaths between two writes.

### 1.5 Tools and the rest

`tools/net-router` sends each client's datagrams to its player's server, by a name it learns late; `tools/mod-updater`
replaces the installed mod and rolls back, `tools/mods-guard` checks the folder; `deploy/crash-collector` unwinds a
minidump's stack into a report; `tools/wave-scheduler` fires waves by the clock. Without a model: web pages
(`tournament/web`, `cockpit`), event pollers (`tournament/bridge`), dashboards, host scripts, compose stack and images, the
native DLL and injector, the client mod, reverse engineering and review tools (section 7).

### 1.6 How they interact

    game log ── send tailer ──> attack cycle <── polls ── pipe bridge <──pipe──> DLL in the game
    game log ── session recorder ──> files       attack cycle ── chat announcer ──> chat
    game     ── match loop ───> referee ── /incoming_send, /start, /pause_dom, rb_* ──> pipe bridge
    executor ── log relay ────> referee (wave referee) ── poll or push ──> executor
    players  ── web, queue ───> queue ── provisioner (instances), referee (lobby, ready, rematch)
    games    ── parked pool ──> provisioner, pipe bridge (pause, resume, end_game, round_reset)
    capsule  ── claim, recycle ──> parked pool; start ──> attack cycle; resume, pause ──> pipe bridge
    clients  ── network router ──> game servers, by the name each sends

## 2. Modules

| module | code | builds on |
|---|---|---|
| `RefereeMatch` | `state.rs`, the write-lock part of `go` in `api.rs` | |
| `WaveExchange` | abstract: what the round loop promises | |
| `MatchCount` | matches of one process, told apart | `RefereeMatch` |
| `WaveIngress` | `report` wave_start and `push_incoming_sends` in `api.rs` | `MatchCount` |
| `MatchFanout` | `go`, `ready`, `pause`, `resume` and their broadcasts in `api.rs` | `MatchCount` |
| `MatchRecords` | `records.rs`, `to_record`, `report` hq_hp, restart | `RefereeMatch` |
| `RefereeApi` | the three above, one kind of handler at a time | `WaveIngress`, `MatchFanout`, `MatchRecords` |
| `WaveReferee` | `referee.rs` | |
| `WaveLoop` | `report` hq_dead, `referee_event`, `referee_poll`, push and ack; executor and relay around it | `WaveReferee` |
| `QueueFlow` | `queue_core.py`, `queue_flow.py`, `queue_service.py` | `RefereeMatch` as its referee |
| `ParkedPool` | `parked_pool.py`, `parked_service.py`, the provisioner as it sees it | |
| `CapsuleFlow` | `capsule_flow.py`, `capsule_service.py` | `ParkedPool` |
| `Provisioner` | `provisioner.py`, `provisioner_service.py` | |
| `WarmService` | `warm_service.py` | |
| `ServerControl` | `server_control.py` | |
| `ParkedVs` | `parked_vs.py` | |
| `MatchLoop` | `match_loop.py` | |
| `WorldServices` | the six services above, one at a time | `CapsuleFlow` to `MatchLoop` |
| `BridgeSignals` | epochs, ready gate, reader thread of `pipe_bridge.c` | |
| `AttackCycle` | `attack_cycle.py`: states, polls, orders, resolver, firing | `BridgeSignals` |
| `LogTail` | `LogTailer` of `send_tailer.py` | |
| `SendPath` | tailer, cycle and bridge together | `AttackCycle`, `LogTail` |
| `NaturalWaves` | `attack_cycle.py`: clock, levels, natural waves, events, config | |
| `SessionRecorder` | `session_recorder.py` | |
| `ChatAnnouncer` | `announcer.py` | |
| `WaveScheduler` | `wave_scheduler.py` | |
| `NetRouter` | `rbrouter.py` | |
| `ModUpdate` | `mod_update.py`, `check_mods_dir.py` | |
| `Symbolizer` | `symbolize.py`, `minidump_meta.py` | |
| `WorldTools` | the seven above, one at a time | `NaturalWaves` to `Symbolizer` |
| `*Proofs` | theorems about the module they extend (section 5); `RefereeApiProofs` also has those on `RefereeMatch`, `ToolProofs` takes its induction from `SymbolizerProofs` | that module, `TLAPS` |
| `MC*` | values of the constants | |

### 2.1 Referee

**RefereeMatch.** Every public method of `MatchState` runs under one write lock and is one action; an early
`return Err` or an effect that changes nothing is no step. A send batch is a record of the
world it goes to, the round stamped on it, whether it carries a level, and an identity the code does not have; unit
lists and values are left out, as no guard reads them. Pending batches are sets, as everything that is due is drained at
once. The history variables `nextId`, `sent` and `revealed` decide nothing (but bound the sends). `Due` is
`partition(|b| b.round <= round)` in `wave_start`, `OpenReveal` the reveal the wave start goes on with: this round's, or a new
one. `Mirror` is the mirrored opponent of solo mode.

**WaveExchange** has one queue per world and says: a send enters its target's queue, a wave of that world takes the whole
queue. `RefereeMatch` implements it with `Due` as what a wave takes (property `ExchangesWaves`).

**WaveIngress, MatchFanout, MatchRecords** add handlers to that state. A *call* is a handler past its first
lock section, with what it still has to do; the requests that are over when their lock section is come as `Next`'s actions
without those a module takes apart (`NoWaveStart`, `NoFanout`, `NoMatchEnd`). A request to a bridge is a step: it arrives, or (when
`Losses`) it does not. A handler dropped because its client disconnected behaves as one whose remaining requests are lost.
An insert of a record goes through or fails as a whole (`StoreFails`), which the handler only logs.
`RefereeApi` lets a behaviour look at one kind of handler (`serving`), within bounds of that kind.

**WaveReferee / WaveLoop.** Per world the flags, level, wave in flight and outbox of `referee.rs`; around them
the executor (external: `referee.rs:33-42` and `docs/TOURNAMENT_API.md` describe it), its log, the relay and the
delivery by poll or by push. A push has three outcomes: delivered and
answered, not delivered, or delivered without a good answer; after the last two nothing is acked, and a poll hands the command out. `Deployments` lists
what may happen together in one deployment (push, repeated lines, lost answers of polls, polls during a push, unanswered pushes); each property names
the deployments it is meant for.

### 2.2 Queue and instances

**QueueFlow.** One lock covers an operation with its calls, so the state has at most one `task`; each step of it ends with
the answer of a call. A call does its work or not, and answers or fails, independently. `Persist`
writes the snapshot, or fails: while the file is written or replaced the error is swallowed and the operation goes on, before that (no directory, no temporary
file) it is raised and ends it. A crash drops the task and restores what was last written. The referee it talks to is `RefereeMatch` itself, which takes calls of anybody:
`Stranger` is a `/lobby`, `/ready`, `/go`, `/sp`, `/rematch` or HQ report of another client, at any time. Their sends, pauses and wave starts are left
out, since they change no name, id, ready or verdict. History tells what was touched: `others` (a stranger called since the operation began), `unsaved` (matches whose start
or end was not written), `astray` (players a rematch took out of the queue or another match).

**ParkedPool.** Entries (memory), markers (files) and boxes (docker, with the world they run: fresh or used, paused
or not) are three variables; one task at a time; a step ends with a call's answer. Boxes die, and some come back by their
restart policy.

**CapsuleFlow** adds the capsule (`cap`: phase, instance) and its threads to the pool. A thread's step is one call to pool, bridge or
cycle with what it does to the phase before and after; the pool serves it as its only client. `slip` and `disturbed` are
history: an answer was lost or requests overlapped; a box died or an operator moved a world.

**Provisioner** writes each call as a plan: the sequence of docker commands and file operations of `start` (new, or of a box that is there),
`stop` and the rollback. A thread takes the head of its plan; a step may fail, after which a start rolls back what it made, one
container, the network or one volume per step (a volume stays while a container mounts it, `PvMounts`). Two threads' plans interleave freely, since the service has no lock. The docker daemon may restart a
container, an operator may remove one, and the service may die.

**WarmService**: per client the step of its request (waiting for the lock, checking the state, resuming, pausing, committing),
the service's state and lock, the server's world. **ServerControl**: threads that render the configuration, write the temporary file, replace,
and call docker under the lifecycle lock. **ParkedVs**: one call is one step, as the pool is called in line.
**MatchLoop**: a poll is a step, each post another, with HQ and game moving in between; `mlVs` tells a duel with a referee (`RBB_REFEREE_URL`) from a round without one.

`WorldServices` lets a behaviour run one of these six (`service`); they share nothing but docker.

### 2.3 Game server and tools

**BridgeSignals, AttackCycle, LogTail, SendPath.** A step is one critical section or one answer. `pc` walks the
main loop's polls in their order in `run`; the resolver takes an order, pays without the lock and
puts the wave back under it. `LogTail` writes lines in two pieces (`log` and the queue of complete lines are sequences of them) and reads a file by offset, as the class
does. `SendPath` puts both on one server: a line read becomes a request to the cycle, which may be lost.

**NaturalWaves** is the part of `step` that `AttackCycle` leaves open: with the clock read once per call, when the warm-up ends, the level rises, an event
and an attack are due and what the attack is made of, while the bridge's settings change. What a schedule's levels take together is a
recursive function (`NwTimeUntil`, and `TimeUntil` in `WaveScheduler`), of which the loop that raises the level adds up a part. The calls come late by any number of
ticks.

**NetRouter**: one datagram is one step; flows, what they hold and the name table are state, the target file changes in between. `flush_held` takes its list of flows first (`rtDue`) and
decides them one per step, in their order, so that the file may change between two. **ModUpdate**: one file copied,
removed or moved is one step, with errors and kills between any two; an error may also hit the rollback's copy (`MuRestoreFails`). `muBroken` is history: a run
was stopped while it removed or moved files. **Symbolizer** runs a machine that calls, enters and leaves
functions and may crash at each step; operators read the dump as `symbolize.py` does (codes of the prolog that ran, frame pointers, scan of the stack), and
the property compares with the functions the machine was in. **WaveScheduler**: `tick` is one step under its lock, the requests it decided
follow as others. **SessionRecorder**: each write (file, index, state) is a step; a death may come between any two, and the next run goes on from the state file. The log may end
in the head of a line, which a poll keeps and reads again (`RcHead`, `RcReadHead`); what the polls after that do is `RcReadAstray`. What must be on record is said by quantifiers over
positions (`Recorded`), not by selections.
**ChatAnnouncer**: one poll with its messages is a step beside a cycle that runs its rounds; the cycle
counts an attack in one step and writes `last_fire` in another, as it does in two lock sections with the requests between them (`CycleAttacks`, `CycleFires`). `WorldTools` takes one of them (`tool`) per behaviour.


## 3. Runs

Every bound is a constant whose comment in its module says "bound"; it limits how often something may begin, never
what a step does.

| run | distinct states | bounds | properties |
|---|---|---|---|
| `match_rounds` | 880,580 | lobby to reset, duel or solo, match ids, two rounds, two sends (four batch identities, since a solo send is two batches), two names, one rematch | `RoundsCarrySends`, `MatchIsDecided`, `ResultIsFinal`, `ExchangesWaves` |
| `referee_api` | 1,150,253 | one kind of handler per behaviour: two concurrent wave starts whose pushes may fail; GO, automatic GO, pause and resume with two concurrent handlers, two matches and one operator who waits for an answer; two finished matches stored in any order or not at all, one restart | `PushesAreRight`, `FanoutReachesBoth`, `RecordsTellMatches` |
| `wave_loop` | 299,391 | one world, two levels, two resets, seven deployments | `RefereeKeepsBooks`, `CommandsRunOnce`, `WavesGoOn` |
| `queue` | 618,411 | two players, two match records, one crash, two resets of the referee; one failed call, failed write or call of a stranger (`MaxFaults`), whose `/lobby` gives no match id or that of the first match | `RecordsHoldWorlds`, `ResultWrittenOnce`, `StartsWhole`, `MatchesComeToAnEnd` |
| `parked` | 106,217 | two instance numbers, a pool of one, two faults (failing calls, dying boxes), one crash | `ServersAreHandedOnce`, `GamesKeepServers`, `OrphansGo`, `PoolRefills` |
| `send_path` | 353,361 | nine deployments: orders with start, reset, round end, restarts, torn and truncated logs; the gate with resets and round ends | `StartsAreAsked`, `LinesBecomeWaves`, `SignalsAreHeard` |
| `services` | 159,894 | two capsule threads over a pool of one; provisioner scenes of two or three calls with one fault or one event; four requests of two clients at the warm service with one fault and one death; two threads at server control; three players of a VS that needs two; an HQ of two hit points | `AnswersAreTrue`, `RollbackSparesOthers`, `RequestsEnd`, `CapsuleHoldsServer`, `RecyclingEnds`, `WarmIsHandedOver`, `ConfigTakesEffect`, `GateOpensForTwo`, `LoopTellsTheGame`, `DeathIsAnswered` |
| `tools` | 684,589 | three clients behind two addresses, three backends; two runs of the updater, two faults; six functions to depth eight; three settings of the cycle's clock to time 6; the scheduler to level 4 and time 7; three lines with a cut and a death, four without, or two of which one comes in two pieces, with a cut; two announced rounds with one fault | `DatagramsLeadHome`, `FlowsStay`, `ModIsKept`, `CrashIsTold`, `TimersTell`, `WaitingEnds`, `ScheduleTells`, `RecorderKeepsLines`, `ChatTellsOnce` |
| `ingress_lost_wave` | stops | as `referee_api`, no lost request | `EveryDrainedWavePushed` fails (section 6) |
| `queue_stranded` | stops | as `queue`, no stranger (`Alone`) | `FailedIsNotRunning` fails |
| `pool_used_world` | stops | as `parked`, no fault | `ParkedIsFresh` fails |
| `tail_replay` | stops | as `send_path`, torn lines | `OrderedOnce` fails |

A property of a run is a claim about one part of it; its named conjuncts say what it consists of:

| property | parts |
|---|---|
| `RoundsCarrySends` | `RoundsInLockstep`, `SendsConserved`, `SendsHitNextWave`, `RevealIsWhatWasDrained` |
| `MatchIsDecided` | types, `VerdictMatchesHq`, `ReadyCheckNotForgotten` |
| `PushesAreRight` | `PushedInOrder`, `PushesAreDrained` |
| `FanoutReachesBoth` | `PausedMeansFrozen`, `DuelStartsBothWorlds` (liveness) |
| `RecordsTellMatches` | `RowsTellAMatch`, `ResultsOnRecord` |
| `RefereeKeepsBooks` | types, `FlagsAgree`, `CommandsAreFresh`, `WavesCountUp` |
| `CommandsRunOnce` | `OneWaveAtATime`, `WavesOfThisLife`, `OneResetPerDeath`, `HandedOnce` |
| `RecordsHoldWorlds` | `ReadyMatchHasWorlds`, `CleanedMeansStopped`, `OnePlaceEach` |
| `MatchesComeToAnEnd` | `EndedIsCleaned`, `VerdictArrives` (liveness) |
| `ServersAreHandedOnce` | `GamesAreMarked`, `ParkedStandsStill` |
| `LinesBecomeWaves` | `WavesArePaid`, `WholeLinesOrderOnce` |
| `SignalsAreHeard` | `GateIsHeard`, `RoundResetStarts` (liveness) |
| `AnswersAreTrue` | `OkIsWhole`, `FailedIsGone`, `StopLeavesNothing` |
| `CapsuleHoldsServer` | `JoinsPaused`, `HoldsItsServer` |
| `WarmIsHandedOver` | `WarmHandsOutOnce`, `WarmParkedStands` |
| `GateOpensForTwo` | `ReadyGate`, `SomeoneCanStart` |
| `LoopTellsTheGame` | `OneEndPerDeath`, `RefereeKnowsHp` |
| `ConfigTakesEffect` | `AnsweredConfigRuns`, `SerialConfigIsWhole` |
| `DatagramsLeadHome` | `InOrder`, `NameLeadsHome`, `NoLostSocketUnheld` |
| `ModIsKept` | `OldVersionIsKept`, `SaidIsWhole` |
| `CrashIsTold` | `UnwindTellsCallers`, `ReportTellsCrash` |
| `TimersTell` | `KeepsTheBeat`, `LevelFollowsSchedule`, `BoughtGoesOut` |
| `ScheduleTells` | `LevelByClock`, `SendsFireOnce` |
| `RecorderKeepsLines` | `NothingIsLost`, `SessionsTellMatches` |
| `ChatTellsOnce` | `SaysOnce`, `SaysAll` |

Deadlock is checked where the system never stops on its own (`match_rounds`, `parked`); the other configurations
say `CHECK_DEADLOCK FALSE`, since with the bounds used up (or no handler under way) those systems may rest.
Names are symmetric only in `match_rounds`: its two properties over steps are safety properties.

Why the bounds suffice. Two of a kind (two worlds, handlers, players, rounds) is where interleavings
and staleness begin; the bounds allow one more of what a property is about than the least that can break it.
*Rounds*: a reveal compares a round with the one before, so two rounds show every
pair; the theorems of section 5 cover all of them. *Sends*: two per target let one be drained and the next
accepted, or both drained together. *Handlers*: the lost wave and overlapping fan-outs need two. *Queue*: two records
are a match and its rematch or successor; one fault or stranger at every call and write, and a crash at every step, are explored in combination.
*Pool*: two numbers are one parked and one claimed, recycled or orphaned server. *Send path* and *provisioner*: deployments and scenes
split the combinations so that each property meets every kind of signal, pair of calls and event it is about. *Clock* (cycle, scheduler): a
time that passes every kind of due date twice, with calls late by up to the whole of it. *Stack* (collector): six functions are one with
a frame pointer, one with alloca, one with a saved register, one without unwind data, one of a module that is not given, and the first; calls nest deeper than the report shows (`MaxFrames`). *Recorder*: one line before, between and behind a cut and a death; a head with a line before and one behind it.

## 4. Fairness

- `RefereeApi` (fan-outs): a call sends its next request: a spawned task is scheduled, and each request
  ends with an answer or its timeout. Nobody has to call a handler.
- `WaveLoop`: push, ack, relay, poll and the executor's steps are weakly fair: loops with a sleep, and a game that runs.
  HQ deaths are not fair.
- `QueueFlow`: the task's next step and the reconciler (a thread with an interval). Requests of players and strangers are not. `VerdictArrives` says that a verdict does not
  wait for ever: either the reconciler takes it over, or a reset of the referee takes it away. `EndedIsCleaned` excepts a match whose end was not written and that a restart made active again (`EndForgotten`).
- `ParkedPool`: the task's next step, the end of a bounded wait, and strong fairness of a maintenance pass that runs the
  stages reconcile and fill: passes come by time, their stages when they are due, and a claim or recycling under way holds the lock
  only for a while. Faults are bounded and so end.
- `SendPath`: the main loop and the bridge's threads go on (weak); each of the three polls is answered again and again
  (strong): a poll may fail, but not for ever.
- `WorldServices`: a request that was taken goes on (weak, per thread or client: provisioner, warm service, server control), as do the match loop
  with its restart delay and the pool's task. A capsule thread gets strong fairness: it waits for a lock that the pool's passes take again and again.
- `WorldTools`: the cycle is called again and time passes; the scheduler's loop and its clock go on as long as it runs.
- `RefereeMatch`, `WaveReferee` and the rest: no fairness, only safety.

## 5. Proofs

The theorems hold for every value of the constants: any number of names, worlds, rounds, levels, instances, clients, deaths, crashes, failed calls and
writes, calls of strangers.

| module | theorem | property |
|---|---|---|
| `RefereeApiProofs` | `TypeCorrect`, `LockstepAlways`, `SendsConservedAlways`, `SendsHitNextWaveAlways`, `RevealAlways` | the parts of `RoundsCarrySends` |
| | `RoundsAlways` | `RoundsCarrySends` |
| | `VerdictAlways`, `ReadyCheckAlways`, `DecidedAlways` | `MatchIsDecided` and its parts |
| | `ResultFinal` | `ResultIsFinal` |
| | `RefinesExchange` | `ExchangesWaves`, the refinement |
| | `RecordsAlways` | `RecordsTellMatches` |
| | `PushesAlwaysDrained` | `PushesAreDrained`, of `PushesAreRight` |
| | `PushesAlwaysRight` | `PushesAreRight`, if a world's reporter awaits its answer (`OneReport`) |
| | `PausesAlwaysFreeze` | `PausedMeansFrozen`, of `FanoutReachesBoth`, for one operator and no lost request |
| `WaveLoopProofs` | `WaveTypeCorrect`, `FlagsAlways`, `FreshAlways`, `CountUpAlways`, `BooksAlways` | `RefereeKeepsBooks` and its parts, for the wave referee alone |
| | `LoopBooksAlways` | `RefereeKeepsBooks` in the whole loop |
| | `RunsOnceAlways` | `CommandsRunOnce` |
| `QueueFlowProofs` | `ResultAlwaysOnce`, `StartsAlwaysWhole` | `ResultWrittenOnce`, `StartsWhole` |
| | `RecordsAlwaysHold` | `RecordsHoldWorlds` |
| `ParkedPoolProofs` | `HandedOnceAlways`, `ServersKeptAlways` | `ServersAreHandedOnce`, `GamesKeepServers` |
| | `CapsuleAlwaysHoldsServer` | `CapsuleHoldsServer` |
| `ServiceProofs` | `AnswersAlwaysTrue`, `RollbackAlwaysSparesOthers` | `AnswersAreTrue`, `RollbackSparesOthers` of the provisioner |
| | `HandedOverAlways` | `WarmIsHandedOver` |
| | `ConfigAlwaysTakesEffect` | `ConfigTakesEffect` |
| | `GateAlways` | `GateOpensForTwo` |
| | `LoopTellsAlways` | `LoopTellsTheGame` |
| `SendPathProofs` | `StartsAlwaysAsked`, `LinesAlwaysBecomeWaves` | `StartsAreAsked`, `LinesBecomeWaves` |
| `ToolProofs` | `TimersAlwaysTell` | `TimersTell` of the attack cycle's clock |
| | `ScheduleAlwaysTells` | `ScheduleTells` |
| | `RecorderAlwaysKeeps` | `RecorderKeepsLines` |
| | `ChatAlwaysTellsOnce` | `ChatTellsOnce` |
| | `DatagramsAlwaysLeadHome`, `FlowsAlwaysStay` | `DatagramsLeadHome`, `FlowsStay` |
| | `ModAlwaysKept` | `ModIsKept` |
| `SymbolizerProofs` | `CallsAlwaysStand` | where return addresses stand, which `CrashAlwaysTold` rests on |
| | `CrashAlwaysTold` | `CrashIsTold` |

None of these properties is inductive as it stands. What each inductive invariant adds, and why:

- **Match state**: `IInv` is `TypeOK`, `RoundsInLockstep` and `SendsInv`. That a batch comes out at the latest in the round after its stamp needs to know that none
  waits with an older stamp, which needs to know that a lock drains everything. So a waiting batch carries the current round, or the round before as long as its world
  has not locked this one (`StampsAreCurrent`); a batch revealed in the current round means that its world has locked it, identities still to come are new, and a
  solo match never has a half-open reveal (`NothingRevealedBeforeLock`). Verdict and ready check are inductive together with the types (`VerdictInv`). The
  refinement uses `IInv` to know that the reveal a second world reads is the queue that a wave of that world takes.
- **Wave referee**: `Decided`: no command of this round that waits in the outbox is beyond the last wave, so the next wave is not there yet.
- **Wave loop**: `LoopInv` puts the executor beside the referee. In deployments that lose and repeat nothing there is *one token* per world (`OneToken`): a command in the
  outbox or on its way, a wave that runs, or a line in the log that reports on it, never two of them. The referee is as many resets ahead of
  the executor as resets are under way, which is at most one (`Lives`), and what was handed by a push is what waits to be acked (`PushAgrees`,
  `HandedAgrees`), unless its answer was lost: then the outbox keeps it, and of the two ways to hand it out each is taken once at most (`HandedTwice`).
- **Records**: `RecordsInv`: a finished match has a named winner, and its handler still runs, its insert failed or was cut off, or its rows are there; `INSERT OR IGNORE` keeps keys unique and old rows as they are.
- **Pushed waves**: `HistoryInv` adds to `IInv` that identities are own and that what a world was shown is older than what waits for it (`ShownIsOlder`), which needs every drain
  to be complete. `IngressInv`: all that is pushed or about to be was shown to this world by this match. Order needs more, and one reporter at a time: what a call is going to read
  or to push is younger than what its world has got (`ReadsYounger`, `PushesYounger`). The step between the two lock sections is the hard one: the reveal may have become another one.
- **Pause**: `PauseComes`: while the match is paused, each world is frozen or its freeze is on its way, and no thaw is.
- **Queue**: `QueueInv`: memory and snapshot agree on results (`DiskAgrees`); a task works on an open record, which is ready already only in the rollback after the write that should have
  said so was refused (`TaskIsOpen`); between the provisioner's answers and the second ready both worlds are up (`WorldsAreUp`), and the referee knows the names and id of this match, as long as
  no stranger called it (`NamesAreTold`).
  For `RecordsHoldWorlds` two more invariants stand beside it. `WorldsInv`: what is ready on disk is ready in memory, so its worlds run, both but for the matches whose own writes
  failed (`unsaved`); a stop is under way only for a finished match, and what it has ticked off is gone; the disk's own list of cleaned matches holds as memory's does, which is what a
  restart needs. `PlacesInv`: queue and records fit together, in memory and on disk (`Fit`), so that a restart binds each player to the one
  open match they are in; who is bound plays (`BoundAgrees`); all of it but for those whom a rematch led `astray`, which is the price of its unchecked rebind (section 6).
- **Pool**: `PoolInv`: what an entry says about its box and marker in each state (`EntryAgrees`), what a task has done so far (`TodoAgrees`), and that a paused world
  moves only by a resume or a restart (`PauseHolds`).
- **Capsule**: `CapInv`: while no answer was lost and requests did not overlap, one thread asks (`OneAsks`), and where it stands tells what the pool holds for it (`Asks`); between
  requests the phase does (`Resting`). `PoolInv` is a part of it, as the pool's own passes run in between.
- **Provisioner**: `PvInv`: each plan is a tail of a plan there is, with sidecars behind the box and volumes behind the containers that mount them (`PlansFit`); a call that is alone has done what
  its plan holds no more (`StartIsDone`, `StopIsDone`) and found or made all there is (`FoundOrMade`), hence its answer; who was alone, and whom a stop reached, is kept by `LonersAreAlone`
  and `StopsSpread`; what a start made that no stop reached is its own (`OwnersHold`), hence the spared others.
- **Server control**: `ScInv`: file and temporary file are two inodes in use (`FilesInUse`); a request nobody else had a hand in writes the temporary file alone (`KeptWriteAlone`), and its
  text stays from the replace to the answer (`KeptTextStays`); one config at a time never leaves a torn text (`SerialWrites`).
- **Warm service**: `WmInv`: who has the lock and how far it came (`LockAgrees`, `CallAgrees`) explains each mismatch between state, holder and world.
- **Parked VS**: `VsInv`: only those who joined are ready, a complete gate is open, and a session is there once somebody joined.
- **Match loop**: `MlInv`: in each mode what has been seen and reported (`ByMode`), an end for each death (`EndsArePaid`), and what the referee was told (`Told`).
- **Send path**: `StartInv`: starts are at most what the cycle has seen of epochs, and those at most what was asked; a signal that stands counts as one. `PaidInv`: sent, in sending and
  waiting waves of a kind together are at most those paid. `TailInv`, without torn lines: log and queue are whole lines in order, the cursor stands between two, and what was ordered or is
  about to be lies before where the next poll reads on (`TakenIsBehind`).
- **Attack cycle's clock**: `NwInv`: while nothing moved the beat, the next attack is due `nwIndex` intervals after the start, and the next event lies in the interval before the attack it belongs to
  (`NwBeat`); while nothing moved the schedule, the level is what it asked for at the last step (`NwCurve`).
- **Scheduler**: `WsInv`: a queued send is pending, due, fired or lost, and in one place of one of these lists (`WsOnce`); the level is the one the clock asked for at the last tick (`DueAt`).
- **Recorder**: `RcKeepInv`: until a poll ends within a line (`rcTorn`), the lines of a poll follow the log (`RcFollows`), and what is before the cursor in memory, or before the line being fed, is in a file. `RcOrderInv`: lines carry rising
  numbers, and without deaths all that is not recorded is above all that is. `RcBookInv`: a file starts with a start and has no other, only the last may be without an end, the index lists the rest.
- **Announcer**: `AnInv`: in a round it saw from the start and was told the present of, the cycle can only have gone on from the last poll (`AnFollows`); thresholds not said yet are below
  those said (`AnWarns`); start, waves and end were told as far as they were polled, but for a wave polled before its `last_fire` (`AnTells`, `anGap`).
- **Router**: `RtInv`: what a flow holds, in the table or on the flush's list, is younger than all its client's backends got and in order (`Waits`); a decided flow holds nothing; a learned name belongs
  to a client of the ip (`Homed`); a flow on the list is in the table as it was, or dropped (`DueFits`); without holds none waits between two datagrams (`Settled`), which is why a flow
  just opened cannot be dropped before its socket is registered.
- **Updater**: `MuInv`: where a run is tells what there is (`StepsAgree`): what it found (`muFound`) lies in its place until it was copied, and then in the backup. Until a run is stopped while it removes or
  moves files (`muBroken`), the folder is intact whenever no run works on it (`IntactUntilBroken`), so that the manifest tells the truth.
- **Collector**: `SyInv` and `FramesStand`. `SyInv`: return addresses stand where calls put them, outer ones deeper (`CallsStand`), because a prolog writes only above its own (`AllocStands`).
  `FramesStand`: each active function, at whatever step of its prolog or in its body, has `rsp` as far above its return address as the steps done have taken (`Depth`), what it saved of
  `rbp` lies where its codes say, and a frame pointer points where its `set` put it; a function that is called finds its caller so. The report follows in three steps. Undoing
  the codes of the steps done, from the last, gives the caller's `rsp` and `rbp` (`UnwindsFrame`). So the walk comes from each active function to the next, as far as `Reach` says
  (`UnwindGoesOn`, `UnwindTold`). And the list that `add` builds starts with the fault, keeps what it has, has no address twice and all of the walk's that lie in a module
  given, of which the report takes the first `MaxFrames` (`FramesTold`).

Folds over a prolog, the two walks of the stack and the sums of durations are recursive; what they yield for every input is an induction. The library states induction with an operator as its
parameter; here it is a lemma about sets (`ByInduction`), from the library's theorem that a set of naturals has a least element. `UndoUnfolds`, `OnceUnfolds`,
`UnwindUnfolds`, `RbpUnfolds` and `SumsThereAre` show that the recursive definitions have the values their equations say.

Assumed are only the named ASSUMEs of the modules, which TLC evaluates in the runs, and the conditions the theorems state. Bounds, levels and counts are naturals; sets of threads, players and thresholds
finite; an HQ starts above zero; a VS requires somebody; names of different kinds differ (`NoneIsNoName`, `NamesDiffer`, `SendsAreNoLevels`, ...). Those that say more:

- `SettingsFit`: durations are positive, and the event offset is a part of the interval it came with: the bridge always sends it as
  `event_offset_fraction`, which the poll of the rules multiplies by the interval. Left out is the round of the main loop in which the interval changed and that poll failed.
- `BoxMountsAll`: the game's container mounts every volume, as `docker run` is given all of them.
- `ManifestIsAFile`: a mod without a manifest has no version and is none. `NamesAreBackends`: targets and registered names are backends.
- `PrologsFit`: a function saves registers in the words it has just allocated. `FramesFit`: it saves `rbp` once at most, before it makes `rbp` its frame pointer, which it does once at most. The x64
  convention allows more, and this is left out: saves in the caller's home space, and frame registers other than `rbp`. The walk knows `rbp` alone (`symbolize.py:497`) and stops at a frame of another
  register (`:469-471`), unless a function further in saved that one; such a function counts as one without unwind data. `NtdllIsNotGiven`: the PEs given are the game's and the bridge's.
  `FramesAreTaken`: the report has room for a frame (`--max-frames` is 32 unless given).
- `OneReport` (`PushesAlwaysRight`, which says nothing of waves that are never pushed), `OneOperator` and `~GoLosses` (`PausesAlwaysFreeze`): what the runs check too; section 6 has what happens without.

Only model-checked:

- every liveness property and part (`WavesGoOn`, `MatchesComeToAnEnd`, `OrphansGo`, `PoolRefills`, `SignalsAreHeard`, `DuelStartsBothWorlds`, `RequestsEnd`, `RecyclingEnds`,
  `DeathIsAnswered`, `WaitingEnds`): liveness under fairness is out of reach of TLAPS.

Every safety and action property of a passing run is a theorem.

## 6. Where code and documents disagree

With a run:

- **A drained wave is never pushed** (`ingress_lost_wave`, `api.rs:557`). The wave-start handler reads the reveal in a second lock section. The other world's wave
  start of the next round may replace it in between. `api.rs:782-784` says each batch is delivered exactly once.
- **A failed match runs on** (`queue_stranded`, `queue_flow.py:434`). When the referee accepts the second ready and only its answer is lost, the rollback
  stops the worlds and fails the record, while the referee has started the match and refuses `/rematch` as long as it runs
  (`queue_flow.py:428-430` counts on that rematch).
- **A parked server with a used world** (`pool_used_world`, `parked_pool.py:137`). `round_reset` is posted without a body; the bridge resets only for `{"reset":1}`
  (`pipe_bridge.c:2001-2004`) and answers 200 all the same. `recycle` parks the finished game's world and the next claim hands it out.
- **A line orders twice** (`tail_replay`, `send_tailer.py:104`). A poll that ends within a line keeps the head of the line and leaves the cursor before it; the next poll counts the head
  twice, the cursor lands behind the end of the file, and the poll after takes that for a truncation and reads everything again.

Seen while modelling, without a run (the properties are stated so that they hold beside these):

Referee and queue

- `rematch` keeps `mode`, so a duel after a solo match is played by solo rules (`state.rs:866` against `:79-81`).
- Overlapping pause and resume requests fan out in any order; `FanoutReachesBoth` is checked for one operator who waits. A start clears
  `paused` without telling frozen worlds (`state.rs:478`).
- The key of the records is not unique to a match: `match_id` is a constant of the server, `/sp` starts again without counting `rematch`, a restart counts
  from 0 (`records.rs:87` against `:3-7`).
- A record that cannot be inserted is only logged (`api.rs:600-609`), so a finished match may have no row. `RecordsTellMatches` speaks of inserts that went through, and says that a failed one leaves no half.
- "Delivered exactly once, push or poll, never both" (`referee.rs`, `ack`) fails in two ways: a poll between push and ack of a reset hands it out twice; and a push that arrives but whose answer
  is lost or late is not acked (`broadcast.rs:87-117`, `api.rs:720-724`), so that a poll hands it out again and one death may reset a world twice. Also, a pushed reset overtakes waves in the outbox, and a
  repeated `wave_done` of the last round counts for the same level of this one. `CommandsRunOnce` names the deployments in which each is excluded (`overlap`, `unanswered`, `push`, `repeat`), and
  holds for all that no command is handed out more than twice; lost poll answers stop the loop for good.
- The referee takes `/lobby`, `/ready`, `/go`, `/sp` and `/rematch` from anybody, also while the queue provisions. What then starts may have other names or ids, or a world missing: `StartsWhole` speaks of operations
  no stranger called into. A `/rematch` between the verdict and the reconciler's tick takes the verdict away, and the record stays ready: `VerdictArrives` allows that way out.
- A snapshot that cannot be written or replaced is kept silent (`queue_flow.py:282-286`), and the finish goes on to stop the worlds: after a restart such a match is ready again without worlds. When no temporary
  file can be made the error is raised in the midst of an operation. `RecordsHoldWorlds` and `EndedIsCleaned` except the matches whose own start or end was not written (`unsaved`).
- `create_rematch` rebinds its two players without the checks of a first match: who waits in the queue stays there and may be paired a second time, who plays another match is bound to two. `OnePlaceEach`
  excepts these players (`astray`) and nobody else.

Instances

- A failed recycling leaves its entry RECYCLING with its marker: nobody can claim, recycle or remove it (`parked_pool.py:536` against `:26`); the capsule, which keeps its phase
  for a retry, gets 409 each time (`capsule_flow.py:478`).
- `resume_game` may succeed and its answer be lost: the entry stays PARKED, its world runs.
- The provisioner's "nie halb gestartet" (`provisioner.py:19-20`) is kept by its rollback, but not by a death of the service between creating and seeding: the next start takes the path of a box that is
  there, which never seeds (`:855`). Two calls for one id interleave; `AnswersAreTrue` speaks of calls that were alone.
- Two concurrent config requests share one temporary file, as it is named by the process id (`server_control.py:333`); "Atomar" (`:324`) then fails: a torn text may be moved into place, or one request's
  replace fails. `ConfigTakesEffect` asks for the whole text only when requests come one after the other.

Game server

- The ready gate may fire unheard: with a reset and the last `/ready` (or `POST /start`) within one turn of the main loop the start is
  undone or dropped (`attack_cycle.py:1375`), and the gate takes no further `/ready`. `SignalsAreHeard` leaves such deployments out.
- A restart of the bridge counts its epochs from 0; the change counts as a new signal, and a later equal number does not. The attack cycle's
  README says a docker restart leaves game_over. `StartsAreAsked` leaves restarts out.
- The ready timeout resets a round that was started otherwise and is running (`attack_cycle.py:1337`).
- A change of `sync_interval` moves the next attack but not the next event (`attack_cycle.py:983-984`), so an event may fall outside the window before the attack it prepares.
- The recorder keeps a torn last line and leaves the cursor before it (`session_recorder.py:361-365`, whose comment says "kein Offset-Sprung"): the next poll counts the head twice, and the
  cursor lands within or behind the lines to come, so that lines are recorded twice, mangled or not at all, without any death, as in the tailer above. It notices a truncation only if the poll that reads sees
  the file smaller; a death between the index and the saved state ends a session twice; after a death lines of an old match that are read again go into the new session. `RecorderKeepsLines` excludes these:
  `rcTorn`, `rcMissed` and deaths, each in the conjunct it can break. That a session is one match holds beside torn lines too.
- The announcer names the largest threshold that was crossed: "next attack in 60s" when it is due at once; a stale copy of the bridge's state repeats a message; a round that begins and ends between two polls is silent. The cycle counts an attack in one
  lock section (`attack_cycle.py:1021`) and sets `last_fire` in another, once the requests are through (`:1073`); a poll between them takes the index over and, without counts (`announcer.py:232`), never tells of
  this wave. That bites in a round's first attack, as later ones show the `last_fire` of the one before. `SaysAll` excepts that wave (`anGap`).

Tools

- The router's note that no socket is lost (`rbrouter.py:353-354`) fails for held datagrams across a switch of the target.
- The collector drops the codes of the chained entry's child (CHAININFO), follows only selected modules and frames of `rbp`, knows no epilogs; without an exception stream `minidump_meta.py:36-37` promises nulls, its code (`:219-220`)
  gives `_ok` false; one error in the symboliser loses the whole report.
- The manifest alone tells the updater the version: after a kill while it removed or moved files, a torn mod that has its manifest is "up-to-date" to the next run. `SaidIsWhole` excepts runs after such a stop
  (`muBroken`), until one is installed whole. Without a backup a stop there loses the mod.
- The updater's backups stand in `mods/`, where the guard takes them for a second copy (`check_mods_dir.py:103`).
- The scheduler's loop ends when an answer is no JSON.

## 7. Not modelled

- Calls that come late: a request the queue, the capsule or the match loop gave up on after its timeout either had its effect by then or never has.


- Unit lists, values, names, texts, scores: no guard reads them. Times: a timer is a step that may happen, but in `NaturalWaves` and `WaveScheduler`, whose subject they are.
- The game, the DLL and injector, the client mod: external. Where a service depends on them (executor, pipe, `/ready` in the chat) they act freely.
- The event feed and its pollers (`tournament/bridge`): a list with cursors beside the match; planned (section 8).
- The bridge's pipe protocol, command queue and SSE: a queue with one reader; it decides nothing about rounds or waves.
- The GNS proxy and the collector's shell loop: process and packet handling around what is modelled; the tailer's stored cursor (the recorder's is modelled).
- Elo, identities, pages, cockpit, installers, host scripts, compose stack and images, scripts, CI: no state of their own, or file and process I/O.
- Headless client, replay, reverse engineering and review tools: programs of a developer, run by hand, that take no part in a match.

## 8. Plan

Done, most important first: match state and its handlers; wave referee and loop; queue; pool; send path; then provisioner, capsule, warm service,
server control, parked VS, match loop; natural waves, recorder, announcer, scheduler, router, updater, collector. Next:

1. `EventFeed` with cursors (pollers, telegram feed): a cursor misses nothing it could have read.
2. An abstract provisioner (an instance is absent or whole), implemented by `Provisioner` and used by `QueueFlow` and `ParkedPool`.
3. The bridge's pipe protocol: command queue, reconnect, SSE.
4. Proofs: the refinements of 2, and the invariants of 1 and 3. Modules to be proved about use tables, quantifiers and functions, no RECURSIVE operator.

Runs that ask related questions of one module are merged (as in `wave_loop` and `send_path`, by `Deployments`) before new ones are added.
