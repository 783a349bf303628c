---------------------------- MODULE Provisioner ----------------------------
\* One instance of deploy/provisioner: its containers, network, volumes, files,
\* and the calls /start and /stop of provisioner_service.py, which run in
\* threads of their own and share no lock.  One docker command is one step.
EXTENDS Naturals, Sequences, FiniteSets, Functions

CONSTANTS
  PvCallers,      \* threads of the HTTP service
  PvSidecars,     \* the sidecars, in the order they are started
  PvVolumeList,   \* the named volumes, in the order they are made
  PvMounts,       \* per container: the named volumes its docker run mounts
  NoWorld,        \* no vs world asked for
  PvScenes        \* bounds: records of the threads, modes and worlds in play and
                  \* the number of calls, docker faults and outside events

Sides == Range(PvSidecars)
PvContainers == {"box"} \cup Sides
PvVolumes == Range(PvVolumeList)
PvResources == PvContainers \cup PvVolumes \cup {"dirs", "config", "personas", "net"}
PvPhases == {"preflight", "wake", "health", "seed", "answer"}

\* The names of sidecars and volumes are lists, and a resource or a phase of a call
\* each of its own; the server's container mounts every volume.
ASSUME NamesAreLists == PvSidecars \in Seq(Sides) /\ PvVolumeList \in Seq(PvVolumes)
ASSUME NamesDiffer ==
  /\ Sides \cap PvVolumes = {}
  /\ (Sides \cup PvVolumes) \cap (PvPhases \cup {"box", "dirs", "config", "personas", "net"}) = {}
ASSUME BoxMountsAll == PvMounts \in [PvContainers -> SUBSET PvVolumes] /\ PvMounts["box"] = PvVolumes
ASSUME ScenesHaveCallers == \A s \in PvScenes : s.callers \subseteq PvCallers

\* Start of a new instance (837-939, 1104-1306): files, network, volumes, the
\* container, its health, the seed of the bridge, the sidecars, the answer.
FreshPlan(mode) ==
  <<"preflight", "dirs", "config">> \o (IF mode = "persona" THEN <<"personas">> ELSE <<>>)
    \o <<"net">> \o PvVolumeList \o <<"box", "health", "seed">> \o PvSidecars \o <<"answer">>
\* Start of one that is there: wake it, health, the sidecars it lacks.
ExistingPlan == <<"wake", "health">> \o PvSidecars \o <<"answer">>
RollbackPlan == <<"box">> \o PvSidecars \o PvVolumeList \o <<"config", "personas", "net", "dirs">>
StopPlan == <<"box">> \o PvSidecars \o <<"net">> \o PvVolumeList \o <<"dirs">>

VARIABLES
  pvThere,    \* the resources of the instance that exist
  pvUp,       \* its containers that run
  pvBox,      \* of the container: RIFTBREAKER_MODE, RBB_VS_WORLD, game_config of its bridge
  pvArgs,     \* of a sidecar: what its arguments and environment say of mode and world
  pvBy,       \* the call that made a container (history)
  pvCall,     \* per thread: the call it serves
  pvScene,    \* the bounds, chosen at the start,
  pvCalls, pvFaults, pvEvents   \* and what is counted against them
pvVars == <<pvThere, pvUp, pvBox, pvArgs, pvBy, pvCall, pvScene, pvCalls, pvFaults, pvEvents>>

PvIdle == [op |-> "none", mode |-> "self", world |-> NoWorld, plan |-> <<>>, at |-> "idle",
         made |-> {}, res |-> "none", fresh |-> FALSE,
         found |-> {}, half |-> {}, alone |-> FALSE, torn |-> FALSE, stopped |-> FALSE]

\* parse_mode and apply_world_selection: in a vs world neither send-yourself nor
\* the persona is on.
Selection(mode, world) ==
  [mode |-> mode, world |-> world, send_yourself |-> mode = "self" /\ world = NoWorld,
   persona |-> mode = "persona" /\ world = NoWorld]
NoBox == [mode |-> "none", world |-> NoWorld, seed |-> Selection("none", NoWorld)]

PvInit ==
  /\ pvThere = {} /\ pvUp = {}
  /\ pvBox = NoBox /\ pvArgs = [r \in Sides |-> NoBox.seed]
  /\ pvBy = [r \in PvContainers |-> "none"]
  /\ pvCall = [c \in PvCallers |-> PvIdle]
  /\ pvScene \in PvScenes /\ pvCalls = 0 /\ pvFaults = 0 /\ pvEvents = 0

PvBusy(c) == pvCall[c].at \notin {"idle", "done"}
PvStep(c) == Head(pvCall[c].plan)
PvFault == pvFaults < pvScene.faults /\ pvFaults' = pvFaults + 1
PvNoFault == UNCHANGED pvFaults
PvFrame == UNCHANGED <<pvCalls, pvEvents, pvScene>>

\* The call goes on with the rest of its plan, rolls back what it made (bug: all
\* there is, by name), or ends.
PvGoOn(c, made) == pvCall' = [pvCall EXCEPT ![c].plan = Tail(@), ![c].made = @ \cup made]
RollBackByName(c, half) ==
  pvCall' = [pvCall EXCEPT ![c].at = "rollback", ![c].half = half, ![c].made = Range(RollbackPlan)]
PvRollBack(c, half) ==
  pvCall' = [pvCall EXCEPT ![c].at = "rollback", ![c].half = half]
PvEnd(c, res) ==
  pvCall' = [pvCall EXCEPT ![c] = IF @.alone THEN [@ EXCEPT !.plan = <<>>, !.at = "done", !.res = res]
                                  ELSE PvIdle]
\* Something else happens: what an answer said no longer describes the instance.
PvLoner(call) == [call EXCEPT !.alone = FALSE, !.found = {}, !.half = {}]
PvDisturb(call) == IF call.at = "done" THEN PvIdle ELSE PvLoner(call)

\* POST /start and /stop (service 163-229).
PvRequest(c, op, mode, world) ==
  LET alone == \A e \in PvCallers \ {c} : ~PvBusy(e) IN
  /\ ~PvBusy(c) /\ pvCalls < pvScene.calls /\ pvCalls' = pvCalls + 1
  /\ pvCall' = [d \in PvCallers |->
       IF d = c THEN [PvIdle EXCEPT !.op = op, !.mode = mode, !.world = world,
                        !.at = IF op = "start" THEN "inspect" ELSE "stop",
                        !.plan = IF op = "start" THEN <<>> ELSE StopPlan,
                        !.found = IF alone THEN pvThere ELSE {}, !.alone = alone,
                        !.stopped = \E e \in PvCallers \ {c} : PvBusy(e) /\ (pvCall[e].op = "stop" \/ pvCall[e].stopped)]
       ELSE [PvDisturb(pvCall[d]) EXCEPT !.stopped = PvBusy(d) /\ (@ \/ op = "stop")]]
  /\ UNCHANGED <<pvThere, pvUp, pvBox, pvArgs, pvBy, pvFaults, pvEvents, pvScene>>

\* docker inspect of the container decides: refuse another mode or another
\* world, take up the one that is there, or make a new one.
Inspect(c) ==
  LET call == pvCall[c]
      fresh == "box" \notin pvThere
      refuse == ~fresh /\ \/ pvBox.mode # call.mode
                          \/ pvBox.world # NoWorld /\ pvBox.world # call.world
      rest == IF fresh THEN FreshPlan(call.mode)
              ELSE IF "box" \in pvUp THEN Tail(ExistingPlan) ELSE ExistingPlan
  IN /\ call.at = "inspect"
     /\ \/ PvNoFault /\ ~refuse /\ pvCall' = [pvCall EXCEPT ![c].at = "start", ![c].plan = rest,
                                                         ![c].fresh = fresh]
        \/ (IF refuse THEN PvNoFault ELSE PvFault) /\ PvEnd(c, "error")
     /\ PvFrame /\ UNCHANGED <<pvThere, pvUp, pvBox, pvArgs, pvBy>>

PvStarting(c) == pvCall[c].at = "start"

\* _preflight: a busy port, no room, a missing image or source ends the call.
Preflight(c) ==
  /\ PvStarting(c) /\ PvStep(c) = "preflight"
  /\ \/ PvNoFault /\ "box" \notin pvUp /\ PvGoOn(c, {})
     \/ (IF "box" \in pvUp THEN PvNoFault ELSE PvFault) /\ PvEnd(c, "error")
  /\ PvFrame /\ UNCHANGED <<pvThere, pvUp, pvBox, pvArgs, pvBy>>

\* _stage_config and _stage_personas: written over, and counted as made.
StageFile(c) ==
  LET f == PvStep(c) IN
  /\ PvStarting(c) /\ f \in {"config", "personas"}
  /\ \/ PvNoFault /\ PvGoOn(c, {f}) /\ pvThere' = pvThere \cup {f, "dirs"}
     \/ PvFault /\ PvRollBack(c, {}) /\ UNCHANGED pvThere
  /\ PvFrame /\ UNCHANGED <<pvUp, pvBox, pvArgs, pvBy>>

\* _create_dirs, _create_network, _create_volumes: made when absent.  The check
\* and the making are two commands; a call that is overtaken fails as by a fault.
MakeThing(c) ==
  LET r == PvStep(c) IN
  /\ PvStarting(c) /\ r \in PvVolumes \cup {"dirs", "net"}
  /\ \/ PvNoFault /\ PvGoOn(c, {r} \ pvThere) /\ pvThere' = pvThere \cup {r}
     \/ PvFault /\ r \notin pvThere /\ PvRollBack(c, {}) /\ UNCHANGED pvThere
  /\ PvFrame /\ UNCHANGED <<pvUp, pvBox, pvArgs, pvBy>>

\* docker run of a container, which makes the volumes it mounts: refused when the
\* name is taken or the network is gone; a failure may come before the container exists or, when it cannot be
\* started (a port is taken), after.
Set(r, selection) ==
  /\ pvBox' = IF r # "box" THEN pvBox
              ELSE [NoBox EXCEPT !.mode = selection.mode, !.world = selection.world]
  /\ pvArgs' = IF r = "box" THEN pvArgs ELSE [pvArgs EXCEPT ![r] = selection]
RunContainer(c, r, selection) ==
  LET refused == r \in pvThere \/ "net" \notin pvThere IN
  \/ /\ PvNoFault /\ ~refused /\ PvGoOn(c, {r})
     /\ pvThere' = pvThere \cup {r} \cup PvMounts[r] /\ pvUp' = pvUp \cup {r}
     /\ pvBy' = [pvBy EXCEPT ![r] = c]
     /\ Set(r, selection)
  \/ /\ IF refused THEN PvNoFault ELSE PvFault
     /\ PvRollBack(c, {}) /\ UNCHANGED <<pvThere, pvUp, pvBy, pvBox, pvArgs>>
  \/ /\ PvFault /\ ~refused /\ PvRollBack(c, {r})
     /\ pvThere' = pvThere \cup {r} \cup PvMounts[r] /\ UNCHANGED pvUp
     /\ pvBy' = [pvBy EXCEPT ![r] = "none"]
     /\ Set(r, selection)

CreateContainer(c) ==
  /\ PvStarting(c) /\ pvCall[c].fresh /\ PvStep(c) \in PvContainers
  /\ RunContainer(c, PvStep(c), Selection(pvCall[c].mode, pvCall[c].world)) /\ PvFrame

\* docker start of a stopped container: its network must be there; the bridge
\* in it starts with an empty game_config.
Woken(c, r, ok) ==
  IF ok THEN /\ pvUp' = pvUp \cup {r} /\ PvGoOn(c, {})
             /\ pvBox' = IF r = "box" /\ r \notin pvUp THEN [pvBox EXCEPT !.seed = NoBox.seed] ELSE pvBox
        ELSE /\ (IF r = "box" THEN PvEnd(c, "error") ELSE PvRollBack(c, {})) /\ UNCHANGED <<pvUp, pvBox>>

WakeBox(c) ==
  LET can == {"box", "net"} \subseteq pvThere IN
  /\ PvStarting(c) /\ PvStep(c) = "wake"
  /\ \/ PvNoFault /\ Woken(c, "box", can)
     \/ PvFault /\ can /\ Woken(c, "box", FALSE)
  /\ PvFrame /\ UNCHANGED <<pvThere, pvArgs, pvBy>>

\* _ensure_sidecars: a running sidecar is left alone, a stopped one woken, a
\* missing one made from the container's own settings (bug: one that is there is
\* taken to be running).
EnsureMissingOnly(c) ==
  LET r == PvStep(c) IN
  /\ PvStarting(c) /\ ~pvCall[c].fresh /\ r \in Sides
  /\ \/ r \in pvThere /\ PvNoFault /\ PvGoOn(c, {}) /\ UNCHANGED <<pvThere, pvUp, pvBy, pvBox, pvArgs>>
     \/ r \notin pvThere /\ RunContainer(c, r, Selection(pvBox.mode, pvBox.world))
  /\ PvFrame
EnsureSidecar(c) ==
  LET r == PvStep(c) IN
  /\ PvStarting(c) /\ ~pvCall[c].fresh /\ r \in Sides
  /\ \/ r \in pvUp /\ PvNoFault /\ PvGoOn(c, {}) /\ UNCHANGED <<pvThere, pvUp, pvBy, pvBox, pvArgs>>
     \/ /\ r \in pvThere \ pvUp /\ UNCHANGED <<pvThere, pvArgs, pvBy>>
        /\ \/ PvNoFault /\ Woken(c, r, "net" \in pvThere)
           \/ PvFault /\ "net" \in pvThere /\ Woken(c, r, FALSE)
     \/ r \notin pvThere /\ RunContainer(c, r, Selection(pvBox.mode, pvBox.world))
  /\ PvFrame

\* _wait_healthy: a running container answers in time, or the deadline passes;
\* for an instance that was there that is an error and no rollback (bug: no
\* deadline).
WaitForHealth(c) ==
  /\ PvStarting(c) /\ PvStep(c) = "health" /\ "box" \in pvUp /\ PvGoOn(c, {})
  /\ PvNoFault /\ PvFrame /\ UNCHANGED <<pvThere, pvUp, pvBox, pvArgs, pvBy>>
WaitHealthy(c) ==
  /\ PvStarting(c) /\ PvStep(c) = "health"
  /\ \/ PvNoFault /\ "box" \in pvUp /\ PvGoOn(c, {})
     \/ /\ IF "box" \in pvUp THEN PvFault ELSE PvNoFault
        /\ IF pvCall[c].fresh THEN PvRollBack(c, {}) ELSE PvEnd(c, "error")
  /\ PvFrame /\ UNCHANGED <<pvThere, pvUp, pvBox, pvArgs, pvBy>>

\* _seed_bridge: the mode into the bridge's game_config, which is memory.
SeedBridge(c) ==
  /\ PvStarting(c) /\ PvStep(c) = "seed"
  /\ \/ /\ PvNoFault /\ "box" \in pvUp /\ PvGoOn(c, {})
        /\ pvBox' = [pvBox EXCEPT !.seed = Selection(pvCall[c].mode, pvCall[c].world)]
     \/ /\ IF "box" \in pvUp THEN PvFault ELSE PvNoFault
        /\ PvRollBack(c, {}) /\ UNCHANGED pvBox
  /\ PvFrame /\ UNCHANGED <<pvThere, pvUp, pvArgs, pvBy>>

\* _status_dict comes after the rollback's try: an error there leaves all standing.
PvAnswer(c) ==
  /\ PvStarting(c) /\ PvStep(c) = "answer"
  /\ \/ PvNoFault /\ PvEnd(c, "ok")
     \/ PvFault /\ PvEnd(c, "error")
  /\ PvFrame /\ UNCHANGED <<pvThere, pvUp, pvBox, pvArgs, pvBy>>

\* What docker rm -f, volume rm, network rm and the file system take away: a
\* volume in use and a network with running containers stay.
PvRemoved(r) ==
  CASE r \in PvVolumes -> IF \E x \in pvThere \cap PvContainers : r \in PvMounts[x] THEN {} ELSE {r}
    [] r = "net"       -> IF pvUp = {} THEN {r} ELSE {}
    [] r = "dirs"      -> {"dirs", "config", "personas"}
    [] OTHER           -> {r}
PvRemove(gone) ==
  /\ pvThere' = pvThere \ gone /\ pvUp' = pvUp \ gone
  /\ pvBox' = IF "box" \in gone THEN NoBox ELSE pvBox
  /\ pvArgs' = [r \in Sides |-> IF r \in gone THEN NoBox.seed ELSE pvArgs[r]]
  /\ pvBy' = [r \in PvContainers |-> IF r \in gone THEN "none" ELSE pvBy[r]]

\* _rollback: what this call made, in the order of RollbackPlan, best effort: a
\* docker error is logged.
PvTurn(r, made) ==
  \E i \in DOMAIN RollbackPlan :
    r = RollbackPlan[i] /\ r \in made /\ \A j \in 1 .. i - 1 : RollbackPlan[j] \notin made
PvUndo(c) ==
  LET call == pvCall[c] IN
  /\ call.at = "rollback"
  /\ \/ call.made = {} /\ PvEnd(c, "error") /\ PvRemove({}) /\ PvNoFault
     \/ \E r \in call.made :
          /\ PvTurn(r, call.made)
          /\ \/ PvNoFault /\ PvRemove(PvRemoved(r)) /\ pvCall' = [pvCall EXCEPT ![c].made = @ \ {r}]
             \/ /\ PvFault /\ r \notin {"config", "personas", "dirs"} /\ PvRemove({})
                /\ pvCall' = [pvCall EXCEPT ![c].made = @ \ {r}, ![c].torn = TRUE]
  /\ PvFrame

\* stop: every resource by name; return codes are ignored, a docker error
\* (daemon, timeout) ends the call half-way.
PvStop(c) ==
  LET call == pvCall[c] IN
  /\ call.at = "stop"
  /\ IF call.plan = <<>> THEN PvEnd(c, "ok") /\ PvRemove({}) /\ PvNoFault
     ELSE \/ PvNoFault /\ PvGoOn(c, {}) /\ PvRemove(PvRemoved(Head(call.plan)))
          \/ PvFault /\ PvEnd(c, "error") /\ PvRemove({})
          \/ /\ PvFault /\ Head(call.plan) # "dirs" /\ PvRemove({})
             /\ pvCall' = [pvCall EXCEPT ![c].plan = Tail(@), ![c].torn = TRUE]
  /\ PvFrame

\* A container dies and docker restarts it (--restart unless-stopped), it is
\* stopped by hand, or the service is killed with the calls it serves.
PvEvent(up, seed, calls) ==
  /\ pvEvents < pvScene.events /\ pvEvents' = pvEvents + 1
  /\ pvUp' = up /\ pvBox' = [pvBox EXCEPT !.seed = seed] /\ pvCall' = calls
  /\ UNCHANGED <<pvThere, pvArgs, pvBy, pvCalls, pvFaults, pvScene>>
PvDisturbed == [c \in PvCallers |-> PvDisturb(pvCall[c])]
PvRestarts == "box" \in pvUp /\ PvEvent(pvUp, NoBox.seed, PvDisturbed)
StoppedByHand(r) == r \in pvUp /\ PvEvent(pvUp \ {r}, IF r = "box" THEN NoBox.seed ELSE pvBox.seed, PvDisturbed)
ServiceDies == PvEvent(pvUp, pvBox.seed, [c \in PvCallers |-> PvIdle])

PvWork(c) ==
  \/ Inspect(c) \/ Preflight(c) \/ StageFile(c) \/ MakeThing(c) \/ CreateContainer(c) \/ WakeBox(c)
  \/ EnsureSidecar(c) \/ WaitHealthy(c) \/ SeedBridge(c) \/ PvAnswer(c) \/ PvUndo(c) \/ PvStop(c)
PvNext ==
  \/ \E c \in pvScene.callers :
       \/ \E m \in pvScene.modes, w \in pvScene.worlds : PvRequest(c, "start", m, w)
       \/ PvRequest(c, "stop", "self", NoWorld)
       \/ PvWork(c)
  \/ PvRestarts \/ (\E r \in PvContainers : StoppedByHand(r)) \/ ServiceDies
PvSpec == PvInit /\ [][PvNext]_pvVars /\ \A c \in PvCallers : WF_pvVars(PvWork(c))
-----------------------------------------------------------------------------
PvSettled(c, op, res) ==
  LET call == pvCall[c] IN call.at = "done" /\ call.alone /\ call.op = op /\ call.res = res

\* A start that was alone and answered ok left a whole stack: the container and
\* every sidecar run in their network, in the mode asked for and in no other world
\* than asked for, and the sidecars it made fit the container, first made or made
\* again (provisioner.py 853-936, 1493-1553); a new one is seeded with that mode and has its files.
OkIsWhole == \A c \in PvCallers : PvSettled(c, "start", "ok") =>
  /\ pvUp = PvContainers /\ "net" \in pvThere /\ pvBox.mode = pvCall[c].mode
  /\ pvBox.world \in {pvCall[c].world, NoWorld}
  /\ \A r \in Sides \cap pvCall[c].made : pvArgs[r] = Selection(pvBox.mode, pvBox.world)
  /\ pvCall[c].fresh => pvBox.seed = Selection(pvCall[c].mode, pvCall[c].world) /\ {"config"} \cup PvVolumes \subseteq pvThere
\* A new start that was alone and failed before its answer left nothing it made,
\* but for the container whose docker run failed half-way and what docker would
\* not remove.
FailedIsGone == \A c \in PvCallers :
  PvSettled(c, "start", "error") /\ ~pvCall[c].torn /\ pvCall[c].half = {} =>
    \/ pvThere \subseteq pvCall[c].found
    \/ pvUp = PvContainers
\* A stop that was alone and met no docker error leaves nothing.
StopLeavesNothing == \A c \in PvCallers :
  PvSettled(c, "stop", "ok") /\ ~pvCall[c].torn => pvThere = {}

\* An answer of the provisioner says what is there: "running" a whole instance,
\* a failed start or a stop none.
AnswersAreTrue == OkIsWhole /\ FailedIsGone /\ StopLeavesNothing

\* Starts race without a lock: a rollback never takes a container another call
\* made, unless a stop ran at the same time, or beside a call it ran beside
\* (provisioner.py 934-938, 1614-1657).
RollbackSparesOthers == [][\A c \in PvCallers, r \in PvContainers :
  pvCall[c].at = "rollback" /\ pvCall'[c] # pvCall[c] /\ pvCall'[c].at \in {"rollback", "done"}
    /\ r \in pvThere /\ r \notin pvThere' /\ ~pvCall[c].stopped => pvBy[r] = c]_pvVars
=============================================================================
