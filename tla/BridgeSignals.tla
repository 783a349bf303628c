---------------------------- MODULE BridgeSignals ----------------------------
(***************************************************************************)
(* The signals the game server's bridge (server/pipe-bridge) holds for the *)
(* attack cycle beside it: three counters, the epochs, that requests raise *)
(* and the cycle polls, and the gate that raises the start epoch itself    *)
(* once all players typed /ready.                                          *)
(*                                                                         *)
(* A step is one critical section.  Requests have threads of their own;    *)
(* one thread reads the game's pipe, with the chat and the player counts   *)
(* on it, and ticks the gate's timeout.  Everything is in memory.          *)
(***************************************************************************)
EXTENDS Integers, FiniteSets

CONSTANTS
  Players,       \* the connections that may type /ready
  MaxEpoch       \* bound: requests of each kind

ASSUME SignalBounds ==
  /\ IsFiniteSet(Players)
  /\ MaxEpoch \in [start : Nat, reset : Nat, round : Nat]

VARIABLES
  epoch,         \* g_start_epoch, g_attack_reset_epoch, g_round_reset_epoch
  gate,          \* g_ready_gate
  resetting,     \* a reset request has raised its epoch, not yet cleared the gate
  firing         \* the reader thread is about to raise the start epoch

signalVars == <<epoch, gate, resetting, firing>>

\* ready: ids; known: players; armed: a deadline is set.
ClosedGate == [ready |-> {}, known |-> 0, fired |-> FALSE, timedOut |-> FALSE, armed |-> FALSE]

SignalsInit ==
  /\ epoch = [start |-> 0, reset |-> 0, round |-> 0]
  /\ gate = ClosedGate
  /\ resetting = FALSE
  /\ firing = FALSE

MayRaise(e) == epoch[e] < MaxEpoch[e]
Raise(e) == epoch' = [epoch EXCEPT ![e] = @ + 1]

-----------------------------------------------------------------------------
(* Requests.                                                               *)

\* POST /start.
PostStart == MayRaise("start") /\ Raise("start") /\ UNCHANGED <<gate, resetting, firing>>

\* POST /attack_reset and /round_reset with reset:1 (without it they only read);
\* bound: one at a time.  The map's restart, the end of a round reset, is not here.
PostReset(e) ==
  /\ ~resetting
  /\ e \in {"reset", "round"}
  /\ MayRaise(e) /\ Raise(e)
  /\ resetting' = TRUE
  /\ UNCHANGED <<gate, firing>>

\* ready_gate_reset: players stays.
ResetGate == [ClosedGate EXCEPT !.known = gate.known]

\* The reset's second critical section.
ClearGate ==
  /\ resetting
  /\ gate' = ResetGate
  /\ resetting' = FALSE
  /\ UNCHANGED <<epoch, firing>>

-----------------------------------------------------------------------------
(* The reader thread.                                                      *)

\* get_state_result: the number of players.
CountPlayers(n) ==
  /\ ~firing
  /\ gate' = [gate EXCEPT !.known = n]
  /\ UNCHANGED <<epoch, resetting, firing>>

AllReady(ready) == gate.known >= 1 /\ Cardinality(ready) >= gate.known

\* ready_gate_on_chat: the first /ready of a player, and maybe the last one.
ChatReady(p) ==
  LET ready == gate.ready \union {p} IN
  /\ ~firing
  /\ ~gate.fired /\ p \notin gate.ready
  /\ AllReady(ready) => MayRaise("start")
  /\ gate' = [gate EXCEPT !.ready = ready, !.armed = TRUE,
                          !.timedOut = FALSE, !.fired = AllReady(ready)]
  /\ firing' = AllReady(ready)
  /\ UNCHANGED <<epoch, resetting>>

FireStart ==
  /\ firing
  /\ Raise("start")
  /\ firing' = FALSE
  /\ UNCHANGED <<gate, resetting>>

\* ready_gate_tick, after the deadline: the ready players are forgotten.
GateTimesOut ==
  /\ ~firing
  /\ gate.armed /\ gate.ready # {} /\ ~gate.fired
  /\ gate' = [gate EXCEPT !.ready = {}, !.armed = FALSE, !.timedOut = TRUE]
  /\ UNCHANGED <<epoch, resetting, firing>>

\* The bridge starts again, with the game server or alone.
BridgeRestart ==
  /\ epoch' = [start |-> 0, reset |-> 0, round |-> 0]
  /\ gate' = ClosedGate
  /\ resetting' = FALSE
  /\ firing' = FALSE
=============================================================================
