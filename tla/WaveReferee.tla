---------------------------- MODULE WaveReferee -----------------------------
(***************************************************************************)
(* The wave referee of a world (tournament/src/referee.rs): the executor   *)
(* in the game reports ready, a finished wave or a destroyed HQ, and the   *)
(* referee decides the next command: the next wave, or rb_reset after the  *)
(* HQ's death.  A command waits in the outbox for GET /referee/poll; an    *)
(* rb_reset decided by POST /report hq_dead is pushed to the bridge as     *)
(* well, and taken out of the outbox once the push is answered.            *)
(*                                                                         *)
(* The two worlds share nothing but the counter of command ids, and an     *)
(* executor only talks to its own world's referee.  The outbox is a queue  *)
(* ordered by id: a set of commands here.  rounds is the number of resets  *)
(* the referee decided.                                                    *)
(***************************************************************************)
EXTENDS Integers

CONSTANTS
  Worlds,
  MaxWave,       \* cfg.max_wave, 0 for no limit
  Levels,        \* levels an executor may report
  MaxCmd,        \* bound: commands decided
  None           \* no wave in flight

ASSUME MaxWaveNat == MaxWave \in Nat /\ MaxCmd \in Nat
ASSUME LevelsNat == Levels \subseteq Nat
ASSUME NoneIsNoLevel == None \notin Nat

VARIABLES
  running, restartPending,
  inFlight,      \* waves_in_flight
  nextLevel, rounds, outbox,
  nextCmd,       \* next_cmd_id
  lastWave       \* history: the last wave decided since the last reset, or 0

vars == <<running, restartPending, inFlight, nextLevel, rounds, outbox, nextCmd, lastWave>>

\* level 0 is rb_reset, level n is rb_wave n.
Command == [id : Nat, level : Nat, round : Nat]
Waves(w) == {c \in outbox[w] : c.level > 0}

Init ==
  /\ running = [w \in Worlds |-> FALSE]
  /\ restartPending = [w \in Worlds |-> FALSE]
  /\ inFlight = [w \in Worlds |-> None]
  /\ nextLevel = [w \in Worlds |-> 1]
  /\ rounds = [w \in Worlds |-> 0]
  /\ outbox = [w \in Worlds |-> {}]
  /\ nextCmd = 1
  /\ lastWave = [w \in Worlds |-> 0]

Capped(level) == MaxWave > 0 /\ level > MaxWave

\* The command decided next, queued for w.
Emit(w, level, round) ==
  /\ nextCmd <= MaxCmd
  /\ outbox' = [outbox EXCEPT ![w] = @ \union
                  {[id |-> nextCmd, level |-> level, round |-> round]}]
  /\ nextCmd' = nextCmd + 1

\* emit_next: the next wave, unless the cap is reached.
EmitNext(w, level) ==
  \/ /\ Capped(level)
     /\ UNCHANGED <<inFlight, outbox, nextCmd, lastWave>>
  \/ /\ ~Capped(level)
     /\ inFlight' = [inFlight EXCEPT ![w] = level]
     /\ lastWave' = [lastWave EXCEPT ![w] = level]
     /\ Emit(w, level, rounds[w])

\* A second ready of a running world is ignored (bug: the one after a restart,
\* too).
ReadyOnlyFirst(w) == ~running[w] /\ ~restartPending[w]
ReadyCounts(w) == ~running[w]

OnReady(w) ==
  /\ ReadyCounts(w)
  /\ running' = [running EXCEPT ![w] = TRUE]
  /\ restartPending' = [restartPending EXCEPT ![w] = FALSE]
  /\ EmitNext(w, nextLevel[w])
  /\ UNCHANGED <<nextLevel, rounds>>

\* A wave report counts for the wave in flight only.
WaveCounts(w, level) == running[w] /\ inFlight[w] = level

OnWaveDone(w, level) ==
  /\ WaveCounts(w, level)
  /\ nextLevel' = [nextLevel EXCEPT ![w] = level + 1]
  /\ \/ /\ Capped(level + 1)
        /\ inFlight' = [inFlight EXCEPT ![w] = None]
        /\ UNCHANGED <<outbox, nextCmd, lastWave>>
     \/ /\ ~Capped(level + 1)
        /\ EmitNext(w, level + 1)
  /\ UNCHANGED <<running, restartPending, rounds>>

\* Bug: the next round starts with the wave the last one ended with.
KeepLevel(w) == UNCHANGED nextLevel
ResetLevel(w) == nextLevel' = [nextLevel EXCEPT ![w] = 1]

DeathCounts(w) == running[w]

OnHqDestroyed(w) ==
  /\ DeathCounts(w)
  /\ running' = [running EXCEPT ![w] = FALSE]
  /\ restartPending' = [restartPending EXCEPT ![w] = TRUE]
  /\ inFlight' = [inFlight EXCEPT ![w] = None]
  /\ ResetLevel(w)
  /\ rounds' = [rounds EXCEPT ![w] = @ + 1]
  /\ lastWave' = [lastWave EXCEPT ![w] = 0]
  /\ Emit(w, 0, rounds[w] + 1)

\* An event without effect changes nothing.
Ignored(w, kind, level) ==
  CASE kind = "ready" -> ~ReadyCounts(w)
    [] kind = "wave_done" -> ~WaveCounts(w, level)
    [] kind = "hq_destroyed" -> ~DeathCounts(w)

\* GET /referee/poll takes everything, and ack what was pushed (bug: a copy).
Copy(w, commands) == UNCHANGED vars
Take(w, commands) ==
  /\ outbox' = [outbox EXCEPT ![w] = @ \ commands]
  /\ UNCHANGED <<running, restartPending, inFlight, nextLevel, rounds, nextCmd, lastWave>>

Next ==
  \E w \in Worlds :
    \/ OnReady(w)
    \/ \E level \in Levels : OnWaveDone(w, level)
    \/ OnHqDestroyed(w)
    \/ \E commands \in SUBSET outbox[w] : Take(w, commands)

Spec == Init /\ [][Next]_vars

-----------------------------------------------------------------------------
(* Properties.                                                             *)

TypeOK ==
  /\ running \in [Worlds -> BOOLEAN] /\ restartPending \in [Worlds -> BOOLEAN]
  /\ inFlight \in [Worlds -> Nat \union {None}]
  /\ nextLevel \in [Worlds -> Nat \ {0}]
  /\ rounds \in [Worlds -> Nat]
  /\ outbox \in [Worlds -> SUBSET Command]
  /\ nextCmd \in Nat
  /\ lastWave \in [Worlds -> Nat]

\* The flags of a world agree: it waits for a restart exactly when it ran
\* before and does not now, only a running world has a wave in flight, that wave
\* is the one decided last, and the next level continues this round.
FlagsAgree ==
  \A w \in Worlds :
    /\ restartPending[w] <=> ~running[w] /\ rounds[w] > 0
    /\ inFlight[w] # None => running[w] /\ inFlight[w] = lastWave[w]
                             /\ inFlight[w] = nextLevel[w]
    /\ ~running[w] => nextLevel[w] = 1 /\ lastWave[w] = 0
    /\ running[w] /\ inFlight[w] = None => Capped(nextLevel[w])

\* "Monotonic, per world": the waves of a round count up from one without a gap
\* or a repetition, whatever events come in whichever order; a wave follows its
\* predecessor's report or, after a reset, ready.
WavesCountUp ==
  [][\A w \in Worlds : \A c \in outbox'[w] \ outbox[w] :
       /\ c.level > 0 => c.level = lastWave[w] + 1 /\ c.round = rounds[w]
       /\ c.level = 0 => c.round = rounds[w] + 1]_vars

\* No command is decided twice: ids are fresh across both worlds, and neither a
\* wave of a round nor its reset ever waits in the outbox twice, however often
\* ready, a wave or a death is reported.
CommandsAreFresh ==
  /\ \A w \in Worlds : \A c \in outbox[w] : c.id < nextCmd /\ c.round <= rounds[w]
  /\ \A v, w \in Worlds : \A c \in outbox[v], d \in outbox[w] :
       c.id = d.id => v = w /\ c = d
  /\ \A w \in Worlds : \A c, d \in outbox[w] :
       c.round = d.round /\ c.level = d.level => c = d

\* The referee's own books, whatever events come: flags and levels agree, no command
\* is decided twice and the waves of a round count up.
RefereeKeepsBooks == [](FlagsAgree /\ CommandsAreFresh) /\ WavesCountUp
=============================================================================
