------------------------------ MODULE SendPath ------------------------------
(***************************************************************************)
(* The way of a wave a player buys: a line in the game server's log, the   *)
(* tailer (LogTail), an order at the attack cycle (AttackCycle), its       *)
(* payment, and the next attack; with the signals that start, reset and    *)
(* end the rounds meanwhile (BridgeSignals).                               *)
(*                                                                         *)
(* What may happen is chosen at the start, one of the sets of Deployments: *)
(* "order", "torn" (lines are written in two pieces), "cut", "start",      *)
(* "local" (POST /start at the cycle), "reset", "round", "gate", "restart". *)
(***************************************************************************)
EXTENDS AttackCycle, LogTail

CONSTANT Deployments

VARIABLES
  may,
  ordered        \* what happened: how often a line's order was placed

pathVars == <<vars, logVars, may, ordered>>

PathInit ==
  /\ Init /\ TailInit
  /\ may \in Deployments
  /\ ordered = [line \in Lines |-> 0]

Cycle(step) == step /\ UNCHANGED <<logVars, may, ordered>>
File(step) == step /\ UNCHANGED <<vars, may, ordered>>

\* SendTailer.feed: the order arrives, or the call fails, or the line is damaged
\* and no order.
Order(line) ==
  /\ Feed(line)
  /\ \/ Buy(line) /\ Once(line, ordered)
     \/ UNCHANGED <<orders, ordered>>
  /\ UNCHANGED <<signalVars, flowVars, paying, bought, sending, pastVars, boundVars, may>>

TailRestart ==
  /\ restarts < MaxRestarts
  /\ restarts' = restarts + 1
  /\ TailerRestart
  /\ UNCHANGED <<signalVars, flowVars, waveVars, pastVars, asked, may, ordered>>

TailStep == Measure \/ Read \/ Fed

PathNext ==
  \/ "start" \in may /\ Cycle(PostStart /\ UNCHANGED cycleVars)
  \/ "reset" \in may /\ Cycle(PostReset("reset") /\ UNCHANGED cycleVars)
  \/ "round" \in may /\ Cycle(PostReset("round") /\ UNCHANGED cycleVars)
  \/ "gate" \in may /\ Cycle(GateSignal)
  \/ Cycle(SignalStep)
  \/ "local" \in may /\ Cycle(AskStart)
  \/ Cycle(LoopStep)
  \/ Cycle(ResolverStep)
  \/ "restart" \in may /\ (Cycle(CycleRestart) \/ Cycle(ServerRestart) \/ TailRestart)
  \/ "order" \in may /\ (File(WriteLine) \/ File(TailStep) \/ \E line \in Lines : Order(line))
  \/ "torn" \in may /\ (File(WriteHead) \/ File(WriteTail))
  \/ "cut" \in may /\ File(BeginAnew)

\* The main loop goes on, a poll that is tried again and again is answered at
\* last, and the bridge ends what it began.
PathSpec ==
  /\ PathInit /\ [][PathNext]_pathVars
  /\ WF_pathVars(Cycle(LoopStep))
  /\ SF_pathVars(Cycle(PollConfig))
  /\ SF_pathVars(Cycle(PollReset))
  /\ SF_pathVars(Cycle(PollRound))
  /\ WF_pathVars(Cycle(SignalStep))

-----------------------------------------------------------------------------
(* Properties.                                                             *)

\* A round starts because somebody asked for it, once: a signal that is polled
\* again, a reset, and the gate's timeout start nothing.
StartsAreAsked ==
  "restart" \notin may => starts <= epoch.start + epoch.round + asked

\* No wave goes out that was not paid for, and none goes out twice.
WavesArePaid == \A w \in Waves : sent[w] <= paid[w]

\* A line of the log is one order, whatever polls, new files and restarts there are.
OrderedOnce == \A line \in Lines : ordered[line] <= 1

\* The same, of lines that are always read whole.
WholeLinesOrderOnce == "torn" \notin may => OrderedOnce

\* The gate that fired is heard: the cycle does not stay paused, with a gate that
\* takes no further /ready.
GateIsHeard ==
  may \intersect {"reset", "restart"} = {} /\ gate.fired /\ state = "paused"
    ~> state # "paused" \/ ~gate.fired

\* A round reset leads to a new round, from whatever state.
RoundResetStarts ==
  "restart" \notin may /\ epoch.round # seen.round ~> state = "warmup"

\* From a line to a wave: a whole line is one order, an order is paid once, and only
\* paid waves go out.
LinesBecomeWaves == WavesArePaid /\ WholeLinesOrderOnce

\* The signals that start a round are heard.
SignalsAreHeard == GateIsHeard /\ RoundResetStarts
=============================================================================
