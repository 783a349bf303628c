------------------------------ MODULE WorldTools ------------------------------
\* What follows a game world or stands beside it: the network router, the mod
\* updater, the crash collector, the timers of the attack cycle, the wave
\* scheduler, the session recorder and the chat announcer.  They share no state; a
\* behaviour takes one of them, the others stand in an initial state.
EXTENDS NetRouter, ModUpdate, Symbolizer, NaturalWaves, WaveScheduler, SessionRecorder, ChatAnnouncer

CONSTANT Tools       \* of those below, the ones to look at

VARIABLE tool        \* the one that runs
toolVars == <<tool, rtVars, muVars, syVars, nwVars, wsVars, rcVars, anVars>>

ToolsInit ==
  /\ tool \in Tools
  /\ RtInit /\ MuInit /\ SyInit /\ NwInit /\ WsInit /\ RcInit /\ AnInit
  /\ tool # "router" => rtScene = CHOOSE s \in RtScenes : TRUE
  /\ tool # "updater" => mod = Nowhere /\ muOptions = CHOOSE o \in MuOptions : TRUE
  /\ tool # "collector" => dump = CHOOSE d \in SyDumps : TRUE
  /\ tool # "cycle" => nwHq /\ nwSet = CHOOSE s \in NwSettings : TRUE
  /\ tool # "recorder" => rcBound = CHOOSE b \in RcBounds : TRUE

ToolsNext ==
  /\ UNCHANGED tool
  /\ \/ tool = "router" /\ RtNext /\ UNCHANGED <<muVars, syVars, nwVars, wsVars, rcVars, anVars>>
     \/ tool = "updater" /\ MuNext /\ UNCHANGED <<rtVars, syVars, nwVars, wsVars, rcVars, anVars>>
     \/ tool = "collector" /\ SyNext /\ UNCHANGED <<rtVars, muVars, nwVars, wsVars, rcVars, anVars>>
     \/ tool = "cycle" /\ NwNext /\ UNCHANGED <<rtVars, muVars, syVars, wsVars, rcVars, anVars>>
     \/ tool = "scheduler" /\ WsNext /\ UNCHANGED <<rtVars, muVars, syVars, nwVars, rcVars, anVars>>
     \/ tool = "recorder" /\ RcNext /\ UNCHANGED <<rtVars, muVars, syVars, nwVars, wsVars, anVars>>
     \/ tool = "announcer" /\ AnNext /\ UNCHANGED <<rtVars, muVars, syVars, nwVars, wsVars, rcVars>>

\* The loops that wait for the clock have their own fairness, and the clock.
ToolsFair ==
  /\ WF_nwVars(tool = "cycle" /\ NwStep) /\ WF_nwVars(tool = "cycle" /\ NwTime)
  /\ WF_wsVars(tool = "scheduler" /\ WsRunning) /\ WF_wsVars(tool = "scheduler" /\ TimePasses)
ToolsSpec == ToolsInit /\ [][ToolsNext]_toolVars /\ ToolsFair
-----------------------------------------------------------------------------
\* A warm-up whose end the clock reaches ends, with an HQ in a round and without it
\* in a game over (attack_cycle.py:912-958); a wave queued at the scheduler before a
\* wave time leaves its queue with it (wave_scheduler.py:150-166).
WaitingEnds ==
  /\ (tool = "cycle" /\ nwState = "warmup" /\ nwNow + NwWarmup <= NwEnd) ~> (nwState # "warmup")
  /\ (tool = "scheduler" /\ wsPending # <<>> /\ wsNextWave <= WsEnd) ~> (wsPending = <<>>)
=============================================================================
