---------------------------- MODULE WorldServices ----------------------------
\* The services that hold and run game worlds, one beside another.  They share no
\* state but docker's, each on worlds of its own: a behaviour takes one of them and
\* lets it run, the others stand in an initial state.
EXTENDS CapsuleFlow, Provisioner, WarmService, ServerControl, ParkedVs, MatchLoop

CONSTANT Services    \* of those below, the ones to look at

VARIABLE service     \* the one that runs
serviceVars == <<service, flowVars, pvVars, wmVars, scVars, vsVars, mlVars>>

ServicesInit ==
  /\ service \in Services
  /\ CapInit /\ PvInit /\ WmInit /\ ScInit /\ VsInit /\ MlInit
  /\ service # "provisioner" => pvScene = CHOOSE s \in PvScenes : TRUE
  /\ service # "warm" => wmPark
  /\ service # "control" => scBound = CHOOSE b \in ScBounds : TRUE
  /\ service # "match loop" => mlVs

ServicesNext ==
  /\ UNCHANGED service
  /\ \/ service = "capsule" /\ FlowNext /\ UNCHANGED <<pvVars, wmVars, scVars, vsVars, mlVars>>
     \/ service = "provisioner" /\ PvNext /\ UNCHANGED <<flowVars, wmVars, scVars, vsVars, mlVars>>
     \/ service = "warm" /\ WmNext /\ UNCHANGED <<flowVars, pvVars, scVars, vsVars, mlVars>>
     \/ service = "control" /\ ScNext /\ UNCHANGED <<flowVars, pvVars, wmVars, vsVars, mlVars>>
     \/ service = "vs" /\ VsNext /\ UNCHANGED <<flowVars, pvVars, wmVars, scVars, mlVars>>
     \/ service = "match loop" /\ MlNext /\ UNCHANGED <<flowVars, pvVars, wmVars, scVars, vsVars>>

\* Each service has the fairness of its own specification: its threads and its loop
\* are scheduled, and docker and the bridges answer or time out.  The pool's passes
\* take its lock again and again, and sleep in between: a capsule thread gets it.
Runs(s, step) == service = s /\ step
ServicesFair ==
  /\ WF_flowVars(Runs("capsule", PoolStep))
  /\ \A t \in CapThreads : SF_flowVars(Runs("capsule", CapThreadStep(t)))
  /\ \A c \in PvCallers : WF_pvVars(Runs("provisioner", PvWork(c)))
  /\ \A c \in WmClients : WF_wmVars(Runs("warm", WmWork(c)))
  /\ \A t \in ScThreads : WF_scVars(Runs("control", ScWork(t)))
  /\ WF_mlVars(Runs("match loop", MlStep)) /\ WF_mlVars(Runs("match loop", DelayOver))
ServicesSpec == ServicesInit /\ [][ServicesNext]_serviceVars /\ ServicesFair
-----------------------------------------------------------------------------
\* A client waits for the provisioner, the warm service or the control agent.
InRequest(c) ==
  CASE service = "provisioner" -> PvBusy(c)
    [] service = "warm" -> ~WmAt(c, "idle")
    [] service = "control" -> ~ScAt(c, "idle")
    [] OTHER -> FALSE

\* Every request to a threaded service ends, with an answer or an error: the
\* provisioner's deadlines, the warm service's and the agent's locks.
RequestsEnd == \A c \in PvCallers \cap WmClients \cap ScThreads : InRequest(c) ~> ~InRequest(c)
=============================================================================
