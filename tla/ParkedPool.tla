----------------------------- MODULE ParkedPool -----------------------------
(***************************************************************************)
(* The pool of warm game servers (deploy/parked): servers are started,     *)
(* paused and kept until a game claims one; a game that is over gives its  *)
(* server back.  A maintenance loop reconciles the pool with the boxes     *)
(* docker has, fills it up and stops what was parked too long.             *)
(*                                                                         *)
(* The controller's lock covers a whole operation with its calls to the    *)
(* provisioner and the bridges, so at most one operation, the task, is     *)
(* under way; a step of it ends with a call's answer.  The pool's entries  *)
(* are in memory, the claim markers are files and survive a restart of the *)
(* service; docker keeps the boxes.                                        *)
(*                                                                         *)
(* Data left out: modes, endpoints, counters; the age of a parked server,  *)
(* which may or may not be due.                                            *)
(***************************************************************************)
EXTENDS Integers, FiniteSets

CONSTANTS
  MaxId,         \* bound: instance numbers
  PoolSize,      \* servers to keep parked
  MaxFaults,     \* bound: calls that fail and boxes that die
  MaxCrashes     \* bound: restarts of the service

ASSUME PoolBounds ==
  /\ MaxId \in Nat /\ PoolSize \in Nat \ {0}
  /\ MaxFaults \in Nat /\ MaxCrashes \in Nat

VARIABLES
  entry,         \* _entries: the state the pool has of an instance, or "none"
  counter,       \* _counter
  known,         \* _discovery_ok
  backoff,       \* a warm-up failed and its wait, _warm_retry_at, is not over
  marker,        \* the claim markers on disk
  task,          \* the operation that holds the lock
  box,           \* an instance's stack in docker: see BoxDies
  moving,        \* the box's world is not paused
  games,         \* the instances games were given and have not given back
  disturbed,     \* boxes that a failed claim or docker set moving
  played,        \* boxes whose world a game has used since it was begun
  faults, crashes

poolVars == <<entry, counter, known, backoff>>
boxVars == <<box, moving, disturbed, played>>
boundVars == <<faults, crashes>>
vars == <<poolVars, marker, task, boxVars, games, boundVars>>

Ids == 1 .. MaxId

\* op: the next step; id: its instance; todo: the instances of a sweep; rest:
\* the stages of a maintenance that follow; keep: keep_warm.
Idle == [op |-> "idle", id |-> 0, todo |-> {}, rest |-> {}, keep |-> FALSE]

\* start() reconciles before anything else is served.
Boot == [Idle EXCEPT !.op = "reconcile"]

Init ==
  /\ entry = [i \in Ids |-> "none"]
  /\ counter = 0 /\ known = TRUE /\ backoff = FALSE
  /\ marker = {}
  /\ task = Boot
  /\ box = [i \in Ids |-> "none"]
  /\ moving = [i \in Ids |-> FALSE]
  /\ games = {} /\ disturbed = {} /\ played = {}
  /\ faults = 0 /\ crashes = 0

Free == task = Idle
Parked == {i \in Ids : entry[i] = "parked"}
Becomes(i, state) == entry' = [entry EXCEPT ![i] = state]

Fault == faults < MaxFaults /\ faults' = faults + 1

\* The stage after this one: reconcile, fill, reap.
NextStage(rest) ==
  IF "fill" \in rest THEN [Idle EXCEPT !.op = "fill", !.rest = rest \ {"fill"}]
  ELSE IF "reap" \in rest THEN [Idle EXCEPT !.op = "reap"]
  ELSE Idle

-----------------------------------------------------------------------------
(* The calls: provisioner and bridge.                                      *)

Fresh(i) ==
  /\ box' = [box EXCEPT ![i] = "running"]
  /\ moving' = [moving EXCEPT ![i] = TRUE]
  /\ disturbed' = disturbed \ {i}
  /\ played' = played \ {i}

\* Provisioner.start: a box that runs is taken as it is.
StartBox(i) == IF box[i] = "running" THEN UNCHANGED boxVars ELSE Fresh(i)

RemoveBox(i) ==
  /\ box' = [box EXCEPT ![i] = "none"]
  /\ moving' = [moving EXCEPT ![i] = FALSE]
  /\ disturbed' = disturbed \ {i}
  /\ played' = played \ {i}

\* Provisioner.stop: its answer may say that the box is gone although docker
\* kept it, and it may fail after it removed the box.
StopAnswers(i) ==
  \/ RemoveBox(i) /\ UNCHANGED faults
  \/ Fault /\ UNCHANGED boxVars
StopFails(i) == Fault /\ (RemoveBox(i) \/ UNCHANGED boxVars)

SetMoving(i, m) ==
  /\ box[i] = "running"
  /\ moving' = [moving EXCEPT ![i] = m]
  /\ UNCHANGED box

\* A bridge call fails: its server is down, the call did not arrive, or its
\* answer was lost.
BridgeFails(i, effect) ==
  \/ box[i] # "running" /\ UNCHANGED <<boxVars, faults>>
  \/ Fault /\ (UNCHANGED boxVars \/ effect)

\* The bridge's /round_reset: without reset:1 in its body it only reads an epoch.
RoundReset(i, trigger) ==
  /\ box[i] = "running"
  /\ played' = IF trigger THEN played \ {i} ELSE played
  /\ UNCHANGED <<box, moving, disturbed>>

\* BridgeClient.round_reset posts no body.
ResetFlag == FALSE

-----------------------------------------------------------------------------
(* Claim and recycle.                                                      *)

\* ParkedPool.claim, up to its health check; the resume is optional.
Claim(i, resume) ==
  /\ Free
  /\ entry[i] = "parked"
  /\ box[i] = "running"
  /\ task' = [Idle EXCEPT !.op = IF resume THEN "resume" ELSE "take", !.id = i]
  /\ UNCHANGED <<poolVars, marker, boxVars, games, boundVars>>

\* A resume that fails leaves the entry parked, whatever it did.
Resume ==
  LET i == task.id IN
  /\ task.op = "resume"
  /\ \/ /\ SetMoving(i, TRUE) /\ played' = played \union {i}
        /\ task' = [task EXCEPT !.op = "take"]
        /\ UNCHANGED <<disturbed, faults>>
     \/ /\ BridgeFails(i, /\ SetMoving(i, TRUE) /\ UNCHANGED played
                          /\ disturbed' = disturbed \union {i})
        /\ task' = Idle
  /\ UNCHANGED <<poolVars, marker, games, crashes>>

Take ==
  LET i == task.id IN
  /\ task.op = "take"
  /\ Becomes(i, "claimed")
  /\ marker' = marker \union {i}
  /\ games' = games \union {i}
  /\ task' = Idle
  /\ UNCHANGED <<counter, known, backoff, boxVars, boundVars>>

\* ParkedPool.recycle: the game is over.
Recycle(i, keep) ==
  /\ Free
  /\ entry[i] = "claimed"
  /\ Becomes(i, "recycling")
  /\ games' = games \ {i}
  /\ task' = [Idle EXCEPT !.op = "reset", !.id = i, !.keep = keep]
  /\ UNCHANGED <<counter, known, backoff, marker, boxVars, boundVars>>

\* end_game and round_reset; an error of the bridge ends the recycling.
AfterReset == IF task.keep THEN "pause" ELSE "retire"

Reset ==
  /\ task.op = "reset"
  /\ \/ /\ RoundReset(task.id, ResetFlag)
        /\ task' = [task EXCEPT !.op = AfterReset]
        /\ UNCHANGED faults
     \/ /\ BridgeFails(task.id, RoundReset(task.id, ResetFlag))
        /\ task' = Idle
  /\ UNCHANGED <<poolVars, marker, games, crashes>>

\* pause_game, of a recycling or a warm-up.
PauseFailed(i) ==
  task' = IF entry[i] = "warming" THEN [task EXCEPT !.op = "undo"] ELSE Idle

Pause ==
  LET i == task.id IN
  /\ task.op = "pause"
  /\ \/ /\ SetMoving(i, FALSE) /\ UNCHANGED played
        /\ disturbed' = disturbed \ {i}
        /\ task' = [task EXCEPT !.op = "park"]
        /\ UNCHANGED faults
     \/ /\ BridgeFails(i, /\ SetMoving(i, FALSE) /\ UNCHANGED played
                          /\ disturbed' = disturbed \ {i})
        /\ PauseFailed(i)
  /\ UNCHANGED <<poolVars, marker, games, crashes>>

\* The entry is parked and its marker removed; fill goes on.
Park ==
  LET i == task.id IN
  /\ task.op = "park"
  /\ Becomes(i, "parked")
  /\ marker' = marker \ {i}
  /\ task' = IF entry[i] = "warming" THEN [task EXCEPT !.op = "fill", !.id = 0] ELSE Idle
  /\ UNCHANGED <<counter, known, backoff, boxVars, games, boundVars>>

\* keep_warm = FALSE: the box is stopped, then the entry.
Retire ==
  LET i == task.id IN
  /\ task.op = "retire"
  /\ \/ /\ StopAnswers(i)
        /\ Becomes(i, "stopped")
        /\ marker' = marker \ {i}
     \/ /\ StopFails(i)
        /\ UNCHANGED <<entry, marker>>
  /\ task' = Idle
  /\ UNCHANGED <<counter, known, backoff, games, crashes>>

-----------------------------------------------------------------------------
(* The maintenance: reconcile when it is due, fill, reap when it is due.   *)

Maintain(stages) ==
  /\ Free
  /\ task' = IF "reconcile" \in stages
             THEN [Idle EXCEPT !.op = "reconcile", !.rest = stages \ {"reconcile"}]
             ELSE NextStage(stages)
  /\ UNCHANGED <<poolVars, marker, boxVars, games, boundVars>>

\* ParkedPool.reconcile.  Discovery: the boxes there are.  Whatever has a marker
\* is left alone (bugs: markers are ignored; a stopped entry's box is kept).
Found == {i \in Ids : box[i] # "none"}
UnclaimedAnyway == Ids
Unclaimed == Ids \ marker
Untracked == {i \in Found : entry[i] = "none"}
Abandoned == {i \in Found : entry[i] \in {"none", "stopped"}}
Dead == {i \in Found : entry[i] \notin {"none", "stopped"} /\ box[i] = "down"}
Orphans == (Abandoned \union Dead) \intersect Unclaimed

\* _evict.
Stale == (Dead \union {i \in Ids \ Found : entry[i] # "none"}) \intersect Unclaimed

Evict(gone) == entry' = [i \in Ids |-> IF i \in gone THEN "none" ELSE entry[i]]

\* The gate of fill (bug: once closed it stays closed).
GateShutForGood(found) == known' = (known /\ found)
Gate(found) == known' = found

Discover ==
  /\ task.op = "reconcile"
  /\ \/ /\ Evict(Stale)
        /\ Gate(TRUE)
        /\ task' = [task EXCEPT !.op = "sweep", !.todo = Orphans]
        /\ UNCHANGED faults
     \/ /\ Fault
        /\ Gate(FALSE)
        /\ task' = NextStage(task.rest)
        /\ UNCHANGED entry
  /\ UNCHANGED <<counter, backoff, marker, boxVars, games, crashes>>

\* _remove_orphan, for each orphan; a stop that fails is left to the next run.
Sweep(i) ==
  /\ task.op = "sweep" /\ i \in task.todo
  /\ \/ StopAnswers(i) /\ marker' = marker \ {i}
     \/ StopFails(i) /\ UNCHANGED marker
  /\ task' = [task EXCEPT !.todo = @ \ {i}]
  /\ UNCHANGED <<poolVars, games, crashes>>

Swept ==
  /\ task.op = "sweep" /\ task.todo = {}
  /\ task' = NextStage(task.rest)
  /\ UNCHANGED <<poolVars, marker, boxVars, games, boundVars>>

\* _next_id: neither tracked nor marked (bug: tracked only).
IdFreeInPool(n) == n > counter /\ entry[n] = "none"
IdFree(n) == n > counter /\ entry[n] = "none" /\ n \notin marker
NextIds == {n \in Ids : IdFree(n) /\ \A k \in Ids : IdFree(k) => n <= k}

\* _fill: nothing while discovery failed or a failed warm-up's wait is not over.
Fills == known /\ ~backoff /\ Cardinality(Parked) < PoolSize

WarmUp(i) ==
  /\ task.op = "fill" /\ Fills
  /\ i \in NextIds
  /\ counter' = i
  /\ Becomes(i, "warming")
  /\ task' = [task EXCEPT !.op = "start", !.id = i]
  /\ UNCHANGED <<known, backoff, marker, boxVars, games, boundVars>>

Filled ==
  /\ task.op = "fill"
  /\ ~Fills \/ NextIds = {}
  /\ task' = NextStage(task.rest)
  /\ UNCHANGED <<poolVars, marker, boxVars, games, boundVars>>

WaitOver ==
  /\ backoff
  /\ backoff' = FALSE
  /\ UNCHANGED <<entry, counter, known, marker, task, boxVars, games, boundVars>>

WarmUpFailed(i) ==
  /\ Becomes(i, "stopped")
  /\ backoff' = TRUE
  /\ task' = NextStage(task.rest)
  /\ UNCHANGED <<counter, known>>

Start ==
  LET i == task.id IN
  /\ task.op = "start"
  /\ \/ /\ StartBox(i)
        /\ task' = [task EXCEPT !.op = "pause"]
        /\ UNCHANGED <<poolVars, faults>>
     \/ /\ Fault
        /\ UNCHANGED boxVars \/ StartBox(i)
        /\ WarmUpFailed(i)
  /\ UNCHANGED <<marker, games, crashes>>

\* The warm-up's rollback; its stop may fail.
Undo ==
  LET i == task.id IN
  /\ task.op = "undo"
  /\ StopAnswers(i) \/ StopFails(i)
  /\ WarmUpFailed(i)
  /\ UNCHANGED <<marker, games, crashes>>

\* reap: the parked servers that are due, one after the other.
BeginReap(due) ==
  /\ task.op = "reap"
  /\ task' = [task EXCEPT !.op = "reaping", !.todo = due]
  /\ UNCHANGED <<poolVars, marker, boxVars, games, boundVars>>

Reap(i) ==
  /\ task.op = "reaping" /\ i \in task.todo
  /\ \/ StopAnswers(i) /\ Becomes(i, "stopped") /\ marker' = marker \ {i}
     \/ StopFails(i) /\ UNCHANGED <<entry, marker>>
  /\ task' = [task EXCEPT !.todo = @ \ {i}]
  /\ UNCHANGED <<counter, known, backoff, games, crashes>>

Reaped ==
  /\ task.op = "reaping" /\ task.todo = {}
  /\ task' = Idle
  /\ UNCHANGED <<poolVars, marker, boxVars, games, boundVars>>

-----------------------------------------------------------------------------
(* Around the service.                                                     *)

\* A server dies, alone or with its sidecars, which carry its labels: for the
\* pool the stack runs while one of them does.  Docker brings the server back
\* (--restart unless-stopped), unpaused.
BoxDies(i) ==
  /\ box[i] = "running"
  /\ Fault
  /\ box' \in {[box EXCEPT ![i] = b] : b \in {"exited", "down"}}
  /\ moving' = [moving EXCEPT ![i] = FALSE]
  /\ played' = played \ {i}
  /\ UNCHANGED <<poolVars, marker, task, games, disturbed, crashes>>

BoxRestarts(i) ==
  /\ box[i] \in {"exited", "down"}
  /\ box' = [box EXCEPT ![i] = "running"]
  /\ moving' = [moving EXCEPT ![i] = TRUE]
  /\ disturbed' = disturbed \union {i}
  /\ UNCHANGED <<poolVars, marker, task, games, played, boundVars>>

\* A game that was handed a paused world lets it go on.
GameResumes(i) ==
  /\ i \in games /\ ~moving[i]
  /\ SetMoving(i, TRUE)
  /\ played' = played \union {i}
  /\ UNCHANGED <<poolVars, marker, task, games, disturbed, boundVars>>

Crash ==
  /\ crashes < MaxCrashes
  /\ crashes' = crashes + 1
  /\ entry' = [i \in Ids |-> "none"]
  /\ counter' = 0 /\ known' = TRUE /\ backoff' = FALSE
  /\ task' = Boot
  /\ UNCHANGED <<marker, boxVars, games, faults>>

\* The operation that holds the lock goes on.
TaskStep ==
  \/ Resume \/ Take \/ Reset \/ Pause \/ Park \/ Retire
  \/ Discover \/ Swept \/ Filled \/ Start \/ Undo \/ Reaped
  \/ \E due \in SUBSET Parked : BeginReap(due)
  \/ \E i \in Ids : Sweep(i) \/ WarmUp(i) \/ Reap(i)

\* POST /reconcile, POST /reap, and the loop's round.
Stages == {{"reconcile"}, {"reap"}, {"fill"}, {"fill", "reap"},
           {"reconcile", "fill"}, {"reconcile", "fill", "reap"}}

Next ==
  \/ \E i \in Ids, b \in BOOLEAN : Claim(i, b) \/ Recycle(i, b)
  \/ \E stages \in Stages : Maintain(stages)
  \/ TaskStep
  \/ WaitOver
  \/ \E i \in Ids : BoxDies(i) \/ BoxRestarts(i) \/ GameResumes(i)
  \/ Crash

\* A call ends with an answer or its timeout, a wait ends, and the loop, which
\* gets the lock in the end, reconciles every now and then and then fills.
Spec ==
  /\ Init /\ [][Next]_vars
  /\ WF_vars(TaskStep)
  /\ WF_vars(WaitOver)
  /\ SF_vars(\E stages \in Stages : {"reconcile", "fill"} \subseteq stages /\ Maintain(stages))

-----------------------------------------------------------------------------
(* Properties.                                                             *)

\* A game keeps the server it was given until it gives it back: no reconcile,
\* reap, warm-up or restart of the service stops it or pauses its world.
ServersKept ==
  \A i \in games \intersect games' :
    /\ box[i] # "none" => box'[i] # "none"
    /\ moving[i] /\ box'[i] = "running" => moving'[i]

\* As the property of every step of the service (parked_pool.py:700-860).
GamesKeepServers == [][ServersKept]_vars

\* One server, one game: what a game was given is claimed for the pool, or
\* unknown to it after a restart and then marked; it is never parked for the
\* next claim.
GamesAreMarked ==
  \A i \in games : i \in marker /\ entry[i] \in {"none", "claimed"}

\* "A parked server does not drive the simulation on" (parked_pool.py): the
\* world of a parked entry stands still unless it is just being claimed, a claim
\* failed on its resume, or docker restarted the server.
ParkedStandsStill ==
  \A i \in Parked \ disturbed : moving[i] => task.op = "take" /\ task.id = i

\* A recycled server is as good as a new one: the world of a parked server that is
\* not just being claimed is none that a game played on.
ParkedIsFresh ==
  \A i \in Parked : i \in played => task.op = "take" /\ task.id = i

\* No leak: a box that the pool does not keep and no game holds a marker for is
\* removed or taken up in the end.
OrphansGo ==
  \A i \in Ids :
    (box[i] # "none" /\ entry[i] \in {"none", "stopped"} /\ i \notin marker)
      ~> (box[i] = "none" \/ entry[i] \notin {"none", "stopped"})

\* The pool is full again and again while there are instance numbers left: no
\* failed discovery and no failed warm-up stops the filling for good.
PoolRefills == []<>(Cardinality(Parked) >= PoolSize \/ NextIds = {})

\* One server, one game, and a parked one waits for it.
ServersAreHandedOnce == GamesAreMarked /\ ParkedStandsStill
=============================================================================
