----------------------------- MODULE AttackCycle -----------------------------
(***************************************************************************)
(* The attack cycle (deploy/attack-cycle) beside a game server: its states *)
(* paused, warmup, running and game_over, the signals it polls from the    *)
(* bridge, and the waves players order: ordered, paid for and sent with    *)
(* the next attack.                                                        *)
(*                                                                         *)
(* Three threads: the main loop, one poll after the other (pc); the        *)
(* resolver, which pays orders outside the lock; and the handlers of       *)
(* requests.  A step is a critical section of the lock or the answer of a  *)
(* call.                                                                   *)
(*                                                                         *)
(* Data left out: clocks (a timer may or may not be due), levels, natural  *)
(* waves, events, personas, and where a sent wave goes, which toggles say. *)
(***************************************************************************)
EXTENDS BridgeSignals, Sequences

CONSTANT
  Waves,         \* the orders players place
  MaxStarts,     \* bound: POST /start at the cycle itself
  MaxRestarts    \* bound: restarts of the cycle or the bridge

ASSUME CycleBounds == MaxStarts \in Nat /\ MaxRestarts \in Nat

VARIABLES
  state,
  pc,            \* the main loop's next poll
  seen,          \* the epochs it has seen; the start epoch is None = -1 at first
  signaled,      \* _start_signaled
  timeoutSeen,   \* ready_timeout, as of the last poll
  orders,        \* not paid yet
  paying,        \* the orders the resolver took
  bought,        \* paid, for the next attack
  sending,       \* the sent waves of the attack that is fired
  paid, sent,    \* what happened: payments and sendings of a wave
  starts,        \* what happened: warm-ups begun
  asked,         \* POST /start at the cycle
  restarts

flowVars == <<state, pc, seen, signaled, timeoutSeen>>
waveVars == <<orders, paying, bought, sending>>
pastVars == <<paid, sent, starts>>
boundVars == <<asked, restarts>>
cycleVars == <<flowVars, waveVars, pastVars, boundVars>>
vars == <<signalVars, cycleVars>>

Unseen == [start |-> -1, reset |-> 0, round |-> 0]

CycleInit ==
  /\ state = "paused" /\ pc = "config"
  /\ seen = Unseen
  /\ signaled = FALSE /\ timeoutSeen = FALSE
  /\ orders = <<>> /\ paying = <<>> /\ bought = <<>> /\ sending = <<>>
  /\ paid = [w \in Waves |-> 0] /\ sent = [w \in Waves |-> 0]
  /\ starts = 0 /\ asked = 0 /\ restarts = 0

Init == SignalsInit /\ CycleInit

Once(w, count) == count' = [count EXCEPT ![w] = @ + 1]

-----------------------------------------------------------------------------
(* Rounds.                                                                 *)

\* _clear_round.
ClearRound == orders' = <<>> /\ bought' = <<>>

\* signal_start in PAUSED.
BeginWarmup ==
  /\ state' = "warmup"
  /\ ClearRound
  /\ starts' = starts + 1

\* signal_start: nothing in any other state.
SignalStart ==
  \/ state = "paused" /\ BeginWarmup
  \/ state # "paused" /\ UNCHANGED <<state, orders, bought, starts>>

\* reset.
ResetCycle ==
  /\ state' = "paused"
  /\ ClearRound
  /\ UNCHANGED starts

-----------------------------------------------------------------------------
(* The main loop: each poll in turn; one that fails changes nothing.       *)

Turn(from, to) == pc = from /\ pc' = to

\* _note_start_signal: a start epoch that is new (bugs: any epoch; not the first).
NewStartAny == epoch.start > 0
NewStartNotFirst == epoch.start > 1 /\ epoch.start # seen.start
NewStart == epoch.start > 0 /\ epoch.start # seen.start

\* sync_game_config.  A timeout of the gate that is new resets the cycle after
\* the lock is released.  The bridge reads the epoch, then the gate; a newer gate
\* is what the next poll would see.
PollConfig ==
  /\ seen' = IF NewStart THEN [seen EXCEPT !.start = epoch.start] ELSE seen
  /\ signaled' = (signaled \/ NewStart)
  /\ timeoutSeen' = gate.timedOut
  /\ Turn("config", IF gate.timedOut /\ ~timeoutSeen THEN "expired" ELSE "start")
  /\ UNCHANGED <<signalVars, state, waveVars, pastVars, boundVars>>

GateExpired ==
  /\ Turn("expired", "start")
  /\ ResetCycle
  /\ UNCHANGED <<signalVars, seen, signaled, timeoutSeen, paying, sending, paid, sent, boundVars>>

\* sync_start: a signal is applied or dropped.
ApplyStart ==
  /\ Turn("start", "step")
  /\ signaled' = FALSE
  /\ IF signaled THEN SignalStart ELSE UNCHANGED <<state, orders, bought, starts>>
  /\ UNCHANGED <<signalVars, seen, timeoutSeen, paying, sending, paid, sent, boundVars>>

\* step, in WARMUP: at its end the HQ decides, if get_state says.
EndWarmup ==
  /\ Turn("step", "reset")
  /\ state = "warmup"
  /\ state' \in {"running", "game_over"}
  /\ UNCHANGED <<signalVars, seen, signaled, timeoutSeen, waveVars, pastVars, boundVars>>

\* step, in RUNNING: the HQ is gone.
HqGone ==
  /\ Turn("step", "reset")
  /\ state = "running"
  /\ state' = "game_over"
  /\ UNCHANGED <<signalVars, seen, signaled, timeoutSeen, waveVars, pastVars, boundVars>>

\* step, in RUNNING: the attack is due and takes the bought waves (bug: it copies
\* them).
TakeCopies == UNCHANGED bought
TakeBought == bought' = <<>>

Attack ==
  /\ Turn("step", "fire")
  /\ state = "running"
  /\ sending' = bought
  /\ TakeBought
  /\ UNCHANGED <<signalVars, state, seen, signaled, timeoutSeen, orders, paying, pastVars, boundVars>>

\* step, otherwise: no timer is due.
NothingDue ==
  /\ Turn("step", "reset")
  /\ UNCHANGED <<signalVars, state, seen, signaled, timeoutSeen, waveVars, pastVars, boundVars>>

\* _fire: the call's answer is only logged.
FireNext ==
  /\ pc = "fire" /\ sending # <<>>
  /\ Once(Head(sending), sent)
  /\ sending' = Tail(sending)
  /\ UNCHANGED <<signalVars, flowVars, orders, paying, bought, paid, starts, boundVars>>

Fired ==
  /\ Turn("fire", "reset")
  /\ sending = <<>>
  /\ UNCHANGED <<signalVars, state, seen, signaled, timeoutSeen, waveVars, pastVars, boundVars>>

\* sync_reset.
PollReset ==
  /\ Turn("reset", "round")
  /\ epoch.reset # seen.reset
  /\ seen' = [seen EXCEPT !.reset = epoch.reset]
  /\ ResetCycle
  /\ UNCHANGED <<signalVars, signaled, timeoutSeen, paying, sending, paid, sent, boundVars>>

\* sync_round_reset: reset and signal_start.
NewRound == BeginWarmup

PollRound ==
  /\ Turn("round", "config")
  /\ epoch.round # seen.round
  /\ seen' = [seen EXCEPT !.round = epoch.round]
  /\ NewRound
  /\ UNCHANGED <<signalVars, signaled, timeoutSeen, paying, sending, paid, sent, boundVars>>

\* A poll whose call fails, or whose answer has no new epoch.
PassOver ==
  /\ \/ Turn("config", "start")
     \/ Turn("reset", "round")
     \/ Turn("round", "config")
  /\ UNCHANGED <<signalVars, state, seen, signaled, timeoutSeen, waveVars, pastVars, boundVars>>

-----------------------------------------------------------------------------
(* Orders and the resolver.                                                *)

\* buy (POST /queue_send), in any state.
Buy(w) == orders' = Append(orders, w)

\* _resolve_orders takes all orders at once.
TakeOrders ==
  /\ paying = <<>> /\ orders # <<>>
  /\ paying' = orders
  /\ orders' = <<>>
  /\ UNCHANGED <<signalVars, flowVars, bought, sending, pastVars, boundVars>>

\* try_spend answers.  A refused order is dropped, and so is one whose payment's
\* answer is lost.
PayNext ==
  LET w == Head(paying) IN
  /\ paying # <<>>
  /\ paying' = Tail(paying)
  /\ \/ Once(w, paid) /\ bought' = Append(bought, w)
     \/ UNCHANGED <<bought, paid>>
     \/ Once(w, paid) /\ UNCHANGED bought
  /\ UNCHANGED <<signalVars, flowVars, orders, sending, sent, starts, boundVars>>

-----------------------------------------------------------------------------
(* Requests, signals, restarts.                                            *)

\* POST /start at the cycle.
AskStart ==
  /\ asked < MaxStarts
  /\ asked' = asked + 1
  /\ SignalStart
  /\ UNCHANGED <<signalVars, pc, seen, signaled, timeoutSeen, paying, sending, paid, sent, restarts>>

CycleRestart ==
  /\ restarts < MaxRestarts
  /\ restarts' = restarts + 1
  /\ state' = "paused" /\ pc' = "config"
  /\ seen' = Unseen
  /\ signaled' = FALSE /\ timeoutSeen' = FALSE
  /\ orders' = <<>> /\ paying' = <<>> /\ bought' = <<>> /\ sending' = <<>>
  /\ UNCHANGED <<signalVars, pastVars, asked>>

ServerRestart ==
  /\ restarts < MaxRestarts
  /\ restarts' = restarts + 1
  /\ BridgeRestart
  /\ UNCHANGED <<flowVars, waveVars, pastVars, asked>>

\* The reader thread: chat, player counts, the gate's timeout.
GateSignal ==
  /\ \/ \E n \in 0 .. Cardinality(Players) : CountPlayers(n)
     \/ \E p \in Players : ChatReady(p)
     \/ GateTimesOut
  /\ UNCHANGED cycleVars

SignalStep == (ClearGate \/ FireStart) /\ UNCHANGED cycleVars

LoopStep ==
  \/ PollConfig \/ GateExpired \/ ApplyStart
  \/ EndWarmup \/ HqGone \/ Attack \/ NothingDue \/ FireNext \/ Fired
  \/ PollReset \/ PollRound \/ PassOver

ResolverStep == TakeOrders \/ PayNext
=============================================================================
