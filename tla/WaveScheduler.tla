----------------------------- MODULE WaveScheduler -----------------------------
\* tools/wave-scheduler: fires a natural wave every so often, with a level that
\* rises by the clock, and with it the waves sent since.  tick() keeps its lock
\* for the bookkeeping only; the requests go out after it.
EXTENDS Integers, Sequences, SequencesExt

CONSTANTS
  WsSends,                  \* the waves that are queued: numbers that are no levels
  StartLevel, MaxLevel,
  WsDelay,                  \* start_delay_s
  WsInterval, TimeToNext,   \* per level, the defaults filled in
  WsEnd                     \* bound: the clock

ASSUME LevelsTakeTime ==
  /\ StartLevel \in Nat /\ MaxLevel \in Nat /\ StartLevel <= MaxLevel /\ WsDelay \in Nat
  /\ \A l \in StartLevel .. MaxLevel : WsInterval[l] \in Nat /\ TimeToNext[l] \in Nat

ASSUME SendsAreNoLevels == WsSends \cap (StartLevel .. MaxLevel) = {}

VARIABLES
  wsNow,                    \* the clock
  wsLevel, wsNextWave, wsNextLevel, wsPending,     \* of WaveScheduler
  wsDue,                    \* the sends the loop has drained and not fired yet
  wsAt,                     \* the loop: "sleep", "firing", or "dead"
  wsFired,                  \* the waves fired: natural ones, by level, and sends
  wsAsked,                  \* the sends queued so far
  wsTicked,                 \* history: when tick last looked at the clock
  wsLost                    \* history: sends whose request failed, or whose loop died
wsVars == <<wsNow, wsLevel, wsNextWave, wsNextLevel, wsPending, wsDue, wsAt, wsFired, wsAsked, wsTicked, wsLost>>

NotTicked == -1
WsInit ==
  /\ wsNow = 0 /\ wsLevel = StartLevel
  /\ wsNextWave = WsDelay /\ wsNextLevel = WsDelay + TimeToNext[StartLevel]
  /\ wsPending = <<>> /\ wsDue = <<>> /\ wsAt = "sleep" /\ wsFired = <<>>
  /\ wsAsked = {} /\ wsTicked = NotTicked /\ wsLost = {}

\* POST /queue_wave, whenever.
QueueSend(send) ==
  /\ send \notin wsAsked /\ wsAsked' = wsAsked \cup {send}
  /\ wsPending' = Append(wsPending, send)
  /\ UNCHANGED <<wsNow, wsLevel, wsNextWave, wsNextLevel, wsDue, wsAt, wsFired, wsTicked, wsLost>>

TimePasses ==
  /\ wsNow < WsEnd /\ wsNow' = wsNow + 1
  /\ UNCHANGED <<wsLevel, wsNextWave, wsNextLevel, wsPending, wsDue, wsAt, wsFired, wsAsked, wsTicked, wsLost>>

\* What the levels up to this one take together.
TimeUntil[l \in StartLevel .. MaxLevel] ==
  TimeToNext[l] + (IF l = StartLevel THEN 0 ELSE TimeUntil[l - 1])

\* A level, once it is reached from this one, with the time its own next one is due.
Rises == [l \in wsLevel .. MaxLevel |-> wsNextLevel + (TimeUntil[l] - TimeUntil[wsLevel])]
\* (bug: each tick raises by one level at most.)
OneLevel ==
  IF wsLevel < MaxLevel /\ wsNow >= wsNextLevel THEN wsLevel + 1 ELSE wsLevel
LevelNow ==
  CHOOSE l \in wsLevel .. MaxLevel :
    /\ \A k \in wsLevel .. (l - 1) : wsNow >= Rises[k]
    /\ l < MaxLevel => wsNow < Rises[l]

\* tick(): the level, and if a wave is due the pending sends are taken with it.
Drains == wsPending' = <<>>
Tick ==
  /\ wsAt = "sleep" /\ wsTicked' = wsNow
  /\ wsLevel' = LevelNow /\ wsNextLevel' = Rises[LevelNow]
  /\ \/ /\ wsNow >= wsNextWave
        /\ wsNextWave' = wsNow + WsInterval[wsLevel'] /\ Drains
        /\ wsDue' = wsPending /\ wsFired' = Append(wsFired, wsLevel') /\ wsAt' = "firing"
     \/ wsNow < wsNextWave /\ UNCHANGED <<wsNextWave, wsPending, wsDue, wsFired, wsAt>>
  /\ UNCHANGED <<wsNow, wsAsked, wsLost>>

\* fire_wave for each send: an HTTP error is logged and the send is gone; an
\* answer that is no JSON ends the whole process.
FireSend ==
  /\ wsAt = "firing" /\ wsDue # <<>> /\ wsDue' = Tail(wsDue)
  /\ \/ wsFired' = Append(wsFired, Head(wsDue)) /\ UNCHANGED wsLost
     \/ wsLost' = wsLost \cup {Head(wsDue)} /\ UNCHANGED wsFired
  /\ UNCHANGED <<wsNow, wsLevel, wsNextWave, wsNextLevel, wsPending, wsAt, wsAsked, wsTicked>>
LoopEnds ==
  /\ wsAt = "firing" /\ wsAt' = "dead" /\ wsDue' = <<>> /\ wsPending' = <<>>
  /\ wsLost' = wsLost \cup ToSet(wsDue) \cup ToSet(wsPending)
  /\ UNCHANGED <<wsNow, wsLevel, wsNextWave, wsNextLevel, wsFired, wsAsked, wsTicked>>
WsFiredAll ==
  /\ wsAt = "firing" /\ wsDue = <<>> /\ wsAt' = "sleep"
  /\ UNCHANGED <<wsNow, wsLevel, wsNextWave, wsNextLevel, wsPending, wsDue, wsFired, wsAsked, wsTicked, wsLost>>

WsRunning == Tick \/ FireSend \/ WsFiredAll
WsNext == (\E s \in WsSends : wsAt # "dead" /\ QueueSend(s)) \/ TimePasses \/ WsRunning \/ LoopEnds
WsFair == WF_wsVars(WsRunning) /\ WF_wsVars(TimePasses)
WsSpec == WsInit /\ [][WsNext]_wsVars /\ WsFair
-----------------------------------------------------------------------------
\* A queued wave is in one place: pending, drained, fired once or lost, and it
\* fires after a natural wave (wave_scheduler.py:17-21, 118-123).
Queues == [pending |-> wsPending, due |-> wsDue, fired |-> wsFired]
Places(s) == UNION {{<<q, i>> : i \in {j \in DOMAIN Queues[q] : Queues[q][j] = s}} : q \in DOMAIN Queues}
SendsFireOnce ==
  /\ \A s \in wsAsked : IF s \in wsLost THEN Places(s) = {} ELSE \E p \in Places(s) : Places(s) = {p}
  /\ wsFired # <<>> => wsFired[1] \notin WsSends

\* The level depends on the clock only, however late the ticks come: what the
\* thresholds after the start delay add up to.
Threshold(l) == WsDelay + TimeUntil[l]
LevelByClock ==
  wsLevel = CHOOSE l \in StartLevel .. MaxLevel :
    /\ \A k \in StartLevel .. (l - 1) : Threshold(k) <= wsTicked
    /\ l = MaxLevel \/ wsTicked < Threshold(l)

\* The natural waves go by the clock, the queued ones once.
ScheduleTells == LevelByClock /\ SendsFireOnce
=============================================================================
