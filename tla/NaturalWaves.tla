----------------------------- MODULE NaturalWaves -----------------------------
\* The timers of the attack cycle (deploy/attack-cycle), which AttackCycle leaves
\* open: when a warm-up ends, when the level rises, when an event and when an attack
\* is due, and what an attack is made of, while the bridge's settings change.  One
\* call of step() is a step: it reads the clock once.
EXTENDS Integers, Sequences

CONSTANTS
  NwWarmup, NwMaxLevel,
  NwSettings,       \* the settings the bridge may hold: see nwSet
  NwPersona,        \* per attack, the extra waves of the persona
  NwEventLevels,    \* the levels that have a creature event
  NwEnd, NwChanges, NwBuys, NwRounds     \* bounds: clock, new settings, bought waves, rounds

\* A list of the settings is padded with its last entry: the schedule, where
\* [first, subsequent] is a list too, and max_attack_count.
Padded(list, i) == list[IF i > Len(list) THEN Len(list) ELSE i]

\* What the polls of one round of the main loop leave behind: positive durations, and
\* an event offset that is a part of the interval.
ASSUME SettingsFit ==
  /\ NwWarmup \in Nat /\ NwMaxLevel \in Nat \ {0}
  /\ \A set \in NwSettings :
       /\ set.interval \in Nat \ {0} /\ set.offset \in 0 .. set.interval
       /\ \A l \in 1 .. NwMaxLevel : Padded(set.schedule, l) \in Nat \ {0}

VARIABLES
  nwNow,            \* the clock
  nwState, nwLevel, nwIndex,             \* state, level, attack_index
  nwTimer,          \* next_attack_at, next_difficulty_at, next_event_at, next_warmup_end
  nwSet,            \* interval, event offset, schedule, max_attack_count, boss level, toggles
  nwHq,             \* the HQ stands
  nwBought,         \* the bought queue
  nwGone,           \* sent waves of this round: fired here, tracked, sent to the enemy
  nwLast,           \* last_fire: waves by level and the boss
  nwPast            \* history: when this round's attacks began, its events, payments, changes,
                    \* and the time of the last step
nwVars == <<nwNow, nwState, nwLevel, nwIndex, nwTimer, nwSet, nwHq, nwBought, nwGone, nwLast, nwPast>>

Never == 1000       \* None: no time
Timers0 == [attack |-> Never, level |-> Never, event |-> Never, warmup |-> Never]
NothingFired == [level |-> 0, natural |-> 0, boss |-> FALSE, extra |-> 0]
Past0 == [since |-> 0, events |-> 0, paid |-> 0, pace |-> FALSE, curve |-> FALSE, stepped |-> 0,
          changes |-> 0, buys |-> 0, rounds |-> 0]

Duration(level) == Padded(nwSet.schedule, level)
\* The durations of a schedule up to a level, added up.
NwTimeUntil(schedule) ==
  LET until[l \in 1 .. NwMaxLevel] == Padded(schedule, l) + (IF l = 1 THEN 0 ELSE until[l - 1])
  IN until
DurationUntil(level) == NwTimeUntil(nwSet.schedule)[level]

NwInit ==
  /\ nwNow = 0 /\ nwState = "paused" /\ nwLevel = 1 /\ nwIndex = 0 /\ nwTimer = Timers0
  /\ nwSet \in NwSettings /\ nwHq \in BOOLEAN
  /\ nwBought = 0 /\ nwGone = [here |-> 0, tracked |-> 0, enemy |-> 0] /\ nwLast = NothingFired
  /\ nwPast = Past0

\* _clear_round.
NwClear(rounds) ==
  /\ nwLevel' = 1 /\ nwIndex' = 0 /\ nwBought' = 0 /\ nwLast' = NothingFired
  /\ nwGone' = [here |-> 0, tracked |-> 0, enemy |-> 0]
  /\ nwPast' = [Past0 EXCEPT !.changes = nwPast.changes, !.buys = nwPast.buys, !.rounds = rounds]

\* signal_start, from PAUSED, or with a round reset from any state (bug: the end of
\* the warm-up is not set).
NoWarmupTimer == Timers0
WarmupTimer == [Timers0 EXCEPT !.warmup = nwNow + NwWarmup]
NwStart ==
  /\ nwPast.rounds < NwRounds /\ NwClear(nwPast.rounds + 1)
  /\ nwState' = "warmup" /\ nwTimer' = WarmupTimer
  /\ UNCHANGED <<nwNow, nwSet, nwHq>>
NwReset ==
  /\ nwState # "paused" /\ NwClear(nwPast.rounds)
  /\ nwState' = "paused" /\ nwTimer' = Timers0
  /\ UNCHANGED <<nwNow, nwSet, nwHq>>

GameOver == nwState' = "game_over" /\ nwTimer' = Timers0

\* step() in WARMUP: at its end the HQ decides; no answer is a retry.  The first
\* attack is due at once, its event belongs to the second.
NwEndWarmup ==
  /\ nwState = "warmup" /\ nwNow >= nwTimer.warmup
  /\ IF nwHq
     THEN /\ nwState' = "running" /\ nwLevel' = 1
          /\ nwTimer' = [nwTimer EXCEPT !.attack = nwNow, !.level = nwNow + Duration(1),
                                        !.event = nwNow + nwSet.interval - nwSet.offset]
          /\ nwPast' = [nwPast EXCEPT !.since = nwNow, !.stepped = nwNow]
     ELSE GameOver /\ UNCHANGED <<nwLevel, nwPast>>
  /\ UNCHANGED <<nwNow, nwIndex, nwSet, nwHq, nwBought, nwGone, nwLast>>

\* step() in RUNNING: only a confirmed death ends the round.
NwHqDead ==
  /\ nwState = "running" /\ ~nwHq /\ GameOver
  /\ UNCHANGED <<nwNow, nwLevel, nwIndex, nwSet, nwHq, nwBought, nwGone, nwLast, nwPast>>

\* Otherwise first the level, as often as it is due.
LevelTimer(l) == nwTimer.level + (DurationUntil(l) - DurationUntil(nwLevel))
Raised ==
  CHOOSE l \in nwLevel .. NwMaxLevel :
    /\ \A k \in nwLevel .. (l - 1) : nwNow >= LevelTimer(k)
    /\ l = NwMaxLevel \/ nwNow < LevelTimer(l)

\* The event layer: one event a cycle, on its own timer.
EventDue == nwNow >= nwTimer.event
HasEvent(level) == nwSet.toggles.natural /\ level \in NwEventLevels

\* The attack: its timer goes on from when it was due (bug: from now); natural waves
\* and boss by level, the persona's extra waves by index, and what was bought.
AttackDue == nwNow >= nwTimer.attack
NextFromNow == nwNow + nwSet.interval
NextAttack == nwTimer.attack + nwSet.interval
WavePlan(level) ==
  [level |-> level,
   natural |-> IF nwSet.toggles.natural THEN Padded(nwSet.counts, level) ELSE 0,
   boss |-> nwSet.toggles.natural /\ level >= nwSet.boss,
   extra |-> IF nwSet.toggles.persona /\ nwIndex < Len(NwPersona) THEN NwPersona[nwIndex + 1] ELSE 0]
\* Bought waves are fired here or, with send_yourself off, tracked;
\* with send_enemy on they go to the enemy as well.
SentOut ==
  [nwGone EXCEPT !.here = @ + (IF nwSet.toggles.self THEN nwBought ELSE 0),
                 !.tracked = @ + (IF nwSet.toggles.self THEN 0 ELSE nwBought),
                 !.enemy = @ + (IF nwSet.toggles.enemy THEN nwBought ELSE 0)]
NwRun ==
  /\ nwState = "running" /\ nwLevel' = Raised
  /\ nwTimer' = [nwTimer EXCEPT
       !.level = LevelTimer(Raised),
       !.event = IF EventDue THEN @ + nwSet.interval ELSE @,
       !.attack = IF AttackDue THEN NextAttack ELSE @]
  /\ nwPast' = [nwPast EXCEPT !.stepped = nwNow, !.events = IF EventDue THEN @ + 1 ELSE @]
  /\ IF AttackDue
     THEN nwIndex' = nwIndex + 1 /\ nwLast' = WavePlan(Raised) /\ nwGone' = SentOut /\ nwBought' = 0
     ELSE UNCHANGED <<nwIndex, nwLast, nwGone, nwBought>>
  /\ UNCHANGED <<nwNow, nwState, nwSet, nwHq>>
NwStep == NwEndWarmup \/ NwHqDead \/ (nwHq /\ NwRun)
\* The HQ poll has no answer: what is due goes on.
NwStepBlind == ~nwHq /\ NwRun

\* A player's order, paid for.
NwBuy ==
  /\ nwState \in {"warmup", "running"} /\ nwPast.buys < NwBuys
  /\ nwBought' = nwBought + 1 /\ nwPast' = [nwPast EXCEPT !.paid = @ + 1, !.buys = @ + 1]
  /\ UNCHANGED <<nwNow, nwState, nwLevel, nwIndex, nwTimer, nwSet, nwHq, nwGone, nwLast>>

\* sync_interval, sync_difficulty_interval, sync_game_config, sync_natural_attack_rules:
\* a new interval starts the attack's countdown anew, a new schedule the level's;
\* the event's timer stays.
NwSync ==
  /\ nwPast.changes < NwChanges /\ nwSet' \in NwSettings \ {nwSet}
  /\ LET pace == nwSet'.interval # nwSet.interval
         curve == nwSet'.schedule # nwSet.schedule
         active == nwState = "running"
     IN /\ nwTimer' = [nwTimer EXCEPT
             !.attack = IF pace /\ active THEN nwNow + nwSet'.interval ELSE @,
             !.level = IF curve /\ active THEN nwNow + Padded(nwSet'.schedule, nwLevel) ELSE @]
        /\ nwPast' = [nwPast EXCEPT !.changes = @ + 1, !.pace = @ \/ (pace /\ active), !.curve = @ \/ (curve /\ active)]
  /\ UNCHANGED <<nwNow, nwState, nwLevel, nwIndex, nwHq, nwBought, nwGone, nwLast>>

\* The game, and time, which may pass in any length between two steps.
NwGame ==
  /\ nwHq' = ~nwHq
  /\ UNCHANGED <<nwNow, nwState, nwLevel, nwIndex, nwTimer, nwSet, nwBought, nwGone, nwLast, nwPast>>
NwTime ==
  /\ nwNow < NwEnd /\ nwNow' = nwNow + 1
  /\ UNCHANGED <<nwState, nwLevel, nwIndex, nwTimer, nwSet, nwHq, nwBought, nwGone, nwLast, nwPast>>

NwNext == NwStart \/ NwReset \/ NwStep \/ NwStepBlind \/ NwBuy \/ NwSync \/ NwGame \/ NwTime
NwFair == WF_nwVars(NwStep) /\ WF_nwVars(NwTime)
NwSpec == NwInit /\ [][NwNext]_nwVars /\ NwFair
-----------------------------------------------------------------------------
\* However late the steps come, the attacks of a round keep the beat its first one
\* set: none early, none skipped, and the events keep theirs ("ein Event pro
\* Attack-Zyklus, im prepare-Fenster (event_offset_s vor der naechsten Attack)",
\* attack_cycle.py:983-984): at every time one is due at most, for the attack to come.
EventPerCycle ==
  nwState = "running" /\ nwIndex > 0 => nwPast.events \in {nwIndex - 1, nwIndex}
KeepsTheBeat ==
  nwState = "running" /\ ~nwPast.pace =>
    /\ nwTimer.attack = nwPast.since + nwIndex * nwSet.interval
    /\ nwIndex > 0 => nwPast.since + (nwIndex - 1) * nwSet.interval <= nwPast.stepped
    /\ EventPerCycle

\* The level is the one of the schedule at the time of the last step, and the last
\* attack was no stronger than it allows (attack_cycle.py:971-981, 889-903).
LevelDue(l) == nwPast.since + DurationUntil(l)
LevelFollowsSchedule ==
  nwState = "running" /\ ~nwPast.curve =>
    /\ nwLevel = CHOOSE l \in 1 .. NwMaxLevel :
         /\ \A k \in 1 .. (l - 1) : LevelDue(k) <= nwPast.stepped
         /\ l = NwMaxLevel \/ nwPast.stepped < LevelDue(l)
    /\ nwLast.level <= nwLevel

\* Every bought wave of a round is waiting, was fired here or is tracked, once,
\* whatever toggles change; the enemy gets no wave that was not bought.
BoughtGoesOut ==
  /\ nwPast.paid = nwBought + nwGone.here + nwGone.tracked
  /\ nwGone.enemy <= nwGone.here + nwGone.tracked

\* What the cycle announces is what it does: attacks at their time, at the level
\* of the schedule, with every wave that was bought.
TimersTell == KeepsTheBeat /\ LevelFollowsSchedule /\ BoughtGoesOut
=============================================================================
