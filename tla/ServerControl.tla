---------------------------- MODULE ServerControl ----------------------------
\* deploy/server-control: the host agent that starts, stops and restarts the
\* dedicated server's container and renders its config.cfg.  Each request has a
\* thread; only docker's lifecycle calls are serialised.
EXTENDS Naturals, FiniteSets

CONSTANTS
  ScThreads,      \* threads of the agent
  ScBodies,       \* the /server/config bodies in play: the fields each one sets
  ScBounds        \* bounds: records of requests, config requests at once, faults, deaths

ASSUME ThreadsAreFinite == IsFiniteSet(ScThreads)
ASSUME BoundsAreNumbers == ScBounds \subseteq [requests : Nat, configs : Nat, faults : Nat, deaths : Nat]

VARIABLES
  scTmp,          \* the inode at <config_path>.tmp.<pid>: one name for all threads of a life; 0: none
  scFile,         \* the inode at config_path
  scText,         \* what each inode holds
  scCall,         \* per thread: the request it serves
  scLock,         \* the thread that holds DockerCli's lock
  scRuns,         \* the text the running container was started with; NoText: it is stopped
  scCount,        \* requests, faults and deaths so far
  scBound,        \* the bounds of the run
  scKept          \* history: the requests whose file or container no one else has touched since
scVars == <<scTmp, scFile, scText, scCall, scLock, scRuns, scCount, scBound, scKept>>

ScNobody == "nobody"
\* A text is the set of what it says beyond the template's own values.
NoText == {"no text"}
DeployedText == {}             \* the config.cfg the deploy left
TornText == {"torn"}       \* empty, or made of pieces of two texts
ASSUME BodiesAreTexts == ScBodies \cap {NoText, TornText} = {}
ScIdle == [at |-> "idle", op |-> "none", body |-> {}, inode |-> 0]
Inodes == 1 .. (1 + scBound.requests)
\* config(): the template over the base values and the body's fields; what an
\* earlier request had set is not kept.
Rendered(body) == DeployedText \cup body

ScInit ==
  /\ scBound \in ScBounds
  /\ scTmp = 0 /\ scFile = 1 /\ scText = [i \in Inodes |-> IF i = 1 THEN DeployedText ELSE NoText]
  /\ scCall = [t \in ScThreads |-> ScIdle] /\ scLock = ScNobody
  /\ scRuns = DeployedText /\ scKept = {}
  /\ scCount = [requests |-> 0, faults |-> 0, deaths |-> 0]

ScAt(t, step) == scCall[t].at = step
ScGo(t, step) == scCall' = [scCall EXCEPT ![t].at = step]
ScDone(t) == scCall' = [scCall EXCEPT ![t] = ScIdle]
ScFault == scCount.faults < scBound.faults /\ scCount' = [scCount EXCEPT !.faults = @ + 1]
ScConfigs == {t \in ScThreads : scCall[t].op = "config"}

ScAsk(t, op, body, step) ==
  /\ ScAt(t, "idle") /\ scCount.requests < scBound.requests
  /\ op = "config" => Cardinality(ScConfigs) < scBound.configs
  /\ scCount' = [scCount EXCEPT !.requests = @ + 1]
  /\ scCall' = [scCall EXCEPT ![t] = [ScIdle EXCEPT !.at = step, !.op = op, !.body = body]]
  /\ scKept' = scKept \cup {t}
  /\ UNCHANGED <<scTmp, scFile, scText, scLock, scRuns, scBound>>
AskLifecycle(t) == \E op \in {"start", "stop", "restart"} : ScAsk(t, op, {}, "docker")
AskConfig(t) == \E body \in ScBodies : ScAsk(t, "config", body, "render")

\* A template or base values that are missing or broken: 503, nothing written.
ScRender(t) ==
  /\ ScAt(t, "render")
  /\ \/ ScGo(t, "open") /\ UNCHANGED scCount
     \/ ScFault /\ ScDone(t)
  /\ UNCHANGED <<scTmp, scFile, scText, scLock, scRuns, scBound, scKept>>

\* _write_config: open(tmp, "w") makes the file or empties the one another thread
\* has there; (bug: the file at config_path itself).
ScFresh == {i \in Inodes : scText[i] = NoText /\ \A j \in 1 .. i - 1 : scText[j] # NoText}
OpenInPlace(t) ==
  /\ ScAt(t, "open")
  /\ scCall' = [scCall EXCEPT ![t].at = "write", ![t].inode = scFile]
  /\ scText' = [scText EXCEPT ![scFile] = TornText] /\ scTmp' = scFile
  /\ UNCHANGED <<scFile, scLock, scRuns, scCount, scBound, scKept>>
OpenTmp(t) == \E i \in IF scTmp = 0 THEN ScFresh ELSE {scTmp} :
  /\ ScAt(t, "open")
  /\ scCall' = [scCall EXCEPT ![t].at = "write", ![t].inode = i]
  /\ scText' = [scText EXCEPT ![i] = TornText] /\ scTmp' = i
  /\ scKept' = IF scTmp = 0 THEN scKept ELSE {}
  /\ UNCHANGED <<scFile, scLock, scRuns, scCount, scBound>>

\* write and flush go to the inode that was opened, whatever its name is by now;
\* over a longer text of another thread a rest of that one stays.
WriteText(t) ==
  LET i == scCall[t].inode IN
  /\ ScAt(t, "write") /\ ScGo(t, "replace")
  /\ scText' \in {[scText EXCEPT ![i] = Rendered(scCall[t].body)]}
       \cup IF scText[i] = TornText THEN {} ELSE {[scText EXCEPT ![i] = TornText]}
  /\ scKept' = IF i = scFile THEN {} ELSE scKept
  /\ UNCHANGED <<scTmp, scFile, scLock, scRuns, scCount, scBound>>

\* chmod and replace name the file: it may be another thread's, or gone (503).
ScReplace(t) ==
  /\ ScAt(t, "replace")
  /\ \/ /\ scTmp # 0 /\ scFile' = scTmp /\ scTmp' = 0 /\ ScGo(t, "docker")
        /\ scKept' = scKept \ (ScConfigs \ {t})
     \/ scTmp = 0 /\ ScDone(t) /\ UNCHANGED <<scFile, scTmp, scKept>>
  /\ UNCHANGED <<scText, scLock, scRuns, scCount, scBound>>

\* docker restart, start, stop: in the lock.  A call that takes longer than the
\* timeout is cut off with 502; the daemon may have done it or not.
ScTakes(t) == scLock = ScNobody /\ scLock' = t
TakeDocker(t) ==
  /\ ScAt(t, "docker") /\ ScTakes(t) /\ ScGo(t, "moving")
  /\ UNCHANGED <<scTmp, scFile, scText, scRuns, scCount, scBound, scKept>>
\* What runs after it.
Moved(op) ==
  CASE op = "stop" -> NoText
    [] op = "start" -> IF scRuns = NoText THEN scText[scFile] ELSE scRuns
    [] OTHER -> scText[scFile]
Moving(t) ==
  /\ ScAt(t, "moving") /\ scLock' = ScNobody
  /\ \/ scRuns' = Moved(scCall[t].op) /\ ScGo(t, "answer") /\ UNCHANGED scCount
     \/ ScFault /\ ScDone(t) /\ scRuns' \in {scRuns, Moved(scCall[t].op)}
  /\ scKept' = IF scCall[t].op = "stop" THEN {} ELSE scKept
  /\ UNCHANGED <<scTmp, scFile, scText, scBound>>
ScAnswer(t) ==
  /\ ScAt(t, "answer") /\ ScDone(t)
  /\ UNCHANGED <<scTmp, scFile, scText, scLock, scRuns, scCount, scBound, scKept>>

\* The agent dies at any step and starts again under another pid: the old tmp
\* file stays beside the config, out of the way.
AgentDies ==
  /\ scCount.deaths < scBound.deaths /\ scCount' = [scCount EXCEPT !.deaths = @ + 1]
  /\ scCall' = [t \in ScThreads |-> ScIdle] /\ scLock' = ScNobody /\ scTmp' = 0 /\ scKept' = {}
  /\ UNCHANGED <<scFile, scText, scRuns, scBound>>

ScWork(t) ==
  ScRender(t) \/ OpenTmp(t) \/ WriteText(t) \/ ScReplace(t) \/ TakeDocker(t) \/ Moving(t) \/ ScAnswer(t)
ScNext == (\E t \in ScThreads : AskLifecycle(t) \/ AskConfig(t) \/ ScWork(t)) \/ AgentDies
ScFair == \A t \in ScThreads : WF_scVars(ScWork(t))
ScSpec == ScInit /\ [][ScNext]_scVars /\ ScFair
-----------------------------------------------------------------------------
\* "Atomar schreiben" (server_control.py:324): as long as requests to /server/config
\* come one at a time, the container never starts with a torn config.cfg, whatever
\* dies in between.
SerialConfigIsWhole == scBound.configs = 1 => scRuns # TornText

\* A config request that is about to be answered "restarted" has the server run
\* with what it asked for, unless another request had a hand in it since.
AnsweredConfigRuns ==
  \A t \in ScThreads :
    ScAt(t, "answer") /\ scCall[t].op = "config" /\ t \in scKept => scRuns = Rendered(scCall[t].body)
\* Both: a config request has its effect or none.
ConfigTakesEffect == AnsweredConfigRuns /\ SerialConfigIsWhole
=============================================================================
