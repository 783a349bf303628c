----------------------------- MODULE QueueFlow ------------------------------
(***************************************************************************)
(* The queue service (deploy/queue): players wait in a FIFO queue, two of  *)
(* them become a match, and a match gets two freshly provisioned worlds,   *)
(* its players' places in the referee's lobby and the ready of both        *)
(* worlds, which starts it.  A reconciler reads the referee's state and    *)
(* finishes what is decided; a finished match can be played again.         *)
(*                                                                         *)
(* One lock covers a whole operation with all its calls to the provisioner *)
(* and the referee, so at most one operation, the task, is under way; a    *)
(* step of it ends with a call's answer.  The referee is RefereeMatch, the *)
(* provisioner the set of the worlds that run.  Every answer may be an     *)
(* error (a fault), and so may every write of queue-state.json; the        *)
(* service may be killed at any point, and what was written survives.  The *)
(* referee takes calls of other clients too, at any time.                  *)
(*                                                                         *)
(* Data left out: mode, team_size (only 1 is accepted), endpoints, times.  *)
(***************************************************************************)
EXTENDS RefereeMatch, SequencesExt

CONSTANTS
  Alone,         \* no other client calls the referee
  OtherIds,      \* match ids, or None, in another client's POST /lobby
  Results,       \* what an operator gives to POST /queue/finish: results, None
  MaxMatches,    \* bound: match records
  MaxFaults,     \* bound: calls and writes that fail, calls of other clients
  MaxCrashes     \* bound: restarts of the service

ASSUME QueueBounds == MaxMatches \in Nat /\ MaxFaults \in Nat /\ MaxCrashes \in Nat
ASSUME NoneIsNoId == None \notin Nat

VARIABLES
  queue,         \* the waiting players, in order
  records,       \* records[m]: the match with id m
  bound,         \* _identity_match: the player's active match, or 0
  cleaned,       \* matches whose worlds were stopped
  anchor,        \* _rematch_of: [old |-> .., new |-> ..]
  disk,          \* queue-state.json
  task,          \* the operation that holds the lock
  up,            \* the worlds that run: <<match, world>>
  faults, crashes,
  unsaved,       \* history: matches the start or end of which was not written
  astray         \* history: players a rematch took out of the queue or a match

coreVars == <<queue, records, bound, cleaned, anchor>>
queueVars == <<coreVars, disk, task>>
history == <<unsaved, astray>>
worldVars == <<up, faults, crashes, history>>
allVars == <<vars, queueVars, worldVars>>

Active == {"provisioning", "ready"}
\* op: the next step; then: what follows a finish; todo, result: the matches a
\* reconciler's tick has yet to finish, and the referee's winner it read; others
\* (history): another client's call came to the referee in between.
Idle == [op |-> "idle", match |-> 0, worlds |-> {}, then |-> "idle", todo |-> {},
         result |-> None, others |-> FALSE]

Task(op, m, worlds) == [Idle EXCEPT !.op = op, !.match = m, !.worlds = worlds]

Snapshot == [queue |-> queue, records |-> records, cleaned |-> cleaned, anchor |-> anchor]

Fault == faults < MaxFaults /\ faults' = faults + 1

\* _persist, of a change of the matches about, after which the task is next.  An
\* error while the file is written or replaced is swallowed; one before it (no
\* directory, no temporary file) is raised and leaves the task at failed.
Persist(about, next, failed) ==
  \/ disk' = Snapshot' /\ task' = next /\ UNCHANGED <<faults, unsaved>>
  \/ /\ Fault /\ UNCHANGED disk
     /\ unsaved' = unsaved \union about
     /\ task' \in {next, failed}

QueueInit ==
  /\ Init
  /\ queue = <<>> /\ records = <<>> /\ cleaned = {} /\ anchor = {}
  /\ bound = [p \in Players |-> 0]
  /\ disk = Snapshot
  /\ task = Idle
  /\ up = {}
  /\ faults = 0 /\ crashes = 0
  /\ unsaved = {} /\ astray = {}

Free == task = Idle
Matches == DOMAIN records
Members(m) == {records[m].team[w] : w \in Worlds}
Open == {m \in Matches : records[m].state \in Active}

\* The world an operation deals with next: A first.
FirstWorld == IF "A" \in task.worlds THEN "A" ELSE "B"

-----------------------------------------------------------------------------
(* Join and leave.                                                         *)

NewRecord(team, of) ==
  [team |-> team, state |-> "provisioning", result |-> None, of |-> of, side |-> {}]

\* Who waits on after a pairing of the first two.
Rest(waiting) == SubSeq(waiting, 3, Len(waiting))

\* POST /queue/join.  The queue is written before pair, the match is not: it is
\* written when its provisioning is over.
Join(p) ==
  LET waiting == IF p \in ToSet(queue) THEN queue ELSE Append(queue, p) IN
  /\ Free
  /\ bound[p] = 0
  /\ \/ disk' = [Snapshot EXCEPT !.queue = waiting] /\ UNCHANGED faults
     \/ Fault /\ UNCHANGED disk
  /\ \/ /\ Len(waiting) < 2 \/ faults' # faults
        /\ queue' = waiting
        /\ UNCHANGED <<records, bound, task>>
     \/ /\ Len(waiting) >= 2
        /\ Len(records) < MaxMatches
        /\ LET m == Len(records) + 1 IN
           /\ queue' = Rest(waiting)
           /\ records' = Append(records,
                NewRecord([w \in Worlds |-> waiting[IF w = "A" THEN 1 ELSE 2]], 0))
           /\ bound' = [q \in Players |-> IF q \in {waiting[1], waiting[2]} THEN m ELSE bound[q]]
           /\ task' = Task("start", m, Worlds)
  /\ UNCHANGED <<vars, cleaned, anchor, up, crashes, history>>

\* POST /queue/leave.
Leave(p) ==
  /\ Free
  /\ bound[p] = 0
  /\ \E i \in 1 .. Len(queue) :
       /\ queue[i] = p /\ \A j \in 1 .. i - 1 : queue[j] # p
       /\ queue' = RemoveAt(queue, i)
  /\ UNCHANGED <<records, bound, cleaned, anchor>>
  /\ Persist({}, Idle, Idle)
  /\ UNCHANGED <<vars, up, crashes, astray>>

-----------------------------------------------------------------------------
(* _provision: start both worlds, register both players, ready both        *)
(* worlds; an error rolls back what was started.                           *)

RolledTask == [task EXCEPT !.op = "rollback", !.worlds = records[task.match].side]
RollBack == task' = RolledTask

\* The task's next world is done; after the last one comes op.
NextWorld(op) ==
  LET rest == task.worlds \ {FirstWorld} IN
  task' = IF rest # {} THEN [task EXCEPT !.worlds = rest]
          ELSE [task EXCEPT !.op = op, !.worlds = Worlds]

StartWorld ==
  LET w == FirstWorld IN
  /\ task.op = "start"
  /\ \/ /\ up' = up \union {<<task.match, w>>}
        /\ records' = [records EXCEPT ![task.match].side = @ \union {w}]
        /\ NextWorld("lobby")
        /\ UNCHANGED faults
     \/ /\ Fault
        /\ up' \in {up, up \union {<<task.match, w>>}}
        /\ RollBack
        /\ UNCHANGED records
  /\ UNCHANGED <<vars, queue, bound, cleaned, anchor, disk, crashes, history>>

\* POST /lobby and POST /ready of the referee (bug: /lobby without the match id).
RegisterNameOnly(w) == LobbyRegister(w, records[task.match].team[w], None)
RegisterCall(w) == LobbyRegister(w, records[task.match].team[w], task.match)
ReadyCall(w) ==
  \/ Ready(w)
  \/ phase \in {"lobby", "ready"} /\ ready[w] /\ UNCHANGED vars

Refused(accepted) == ~accepted /\ UNCHANGED <<vars, faults>>

\* A call's answer: accepted, refused, not reached, or lost on its way back.
Calls(call, accepted, op) ==
  \/ /\ accepted /\ call
     /\ NextWorld(op)
     /\ UNCHANGED faults
  \/ /\ RollBack
     /\ \/ Refused(accepted)
        \/ Fault /\ UNCHANGED vars
        \/ accepted /\ call /\ Fault

Register ==
  /\ task.op = "lobby"
  /\ Calls(RegisterCall(FirstWorld), phase = "lobby", "ready")
  /\ UNCHANGED <<coreVars, disk, up, crashes, history>>

ReadyWorld ==
  /\ task.op = "ready"
  /\ Calls(ReadyCall(FirstWorld), phase \in {"lobby", "ready"}, "mark")
  /\ UNCHANGED <<coreVars, disk, up, crashes, history>>

\* mark_ready; a rematch then has its anchor written.
MarkReady ==
  /\ task.op = "mark"
  /\ records' = [records EXCEPT ![task.match].state = "ready"]
  /\ UNCHANGED <<queue, bound, cleaned, anchor>>
  /\ Persist({task.match},
             IF records[task.match].of = 0 THEN Idle ELSE Task("anchor", task.match, {}),
             RolledTask)
  /\ UNCHANGED <<vars, up, crashes, astray>>

Anchor ==
  /\ task.op = "anchor"
  /\ anchor' = anchor \union {[old |-> records[task.match].of, new |-> task.match]}
  /\ UNCHANGED <<queue, records, bound, cleaned>>
  /\ Persist({}, Idle, Idle)
  /\ UNCHANGED <<vars, up, crashes, astray>>

Release(m) == [p \in Players |-> IF p \in Members(m) /\ bound[p] = m THEN 0 ELSE bound[p]]

\* mark_failed.
MarkFailed(m) ==
  /\ records' = [records EXCEPT ![m].state = "failed"]
  /\ bound' = Release(m)
  /\ UNCHANGED <<queue, cleaned, anchor>>
  /\ Persist({m}, Idle, Idle)

\* A stop that fails is forgotten here; the reconciler repeats it.
StopStarted ==
  LET w == FirstWorld IN
  /\ task.op = "rollback" /\ task.worlds # {}
  /\ task' = [task EXCEPT !.worlds = @ \ {w}]
  /\ \/ up' = up \ {<<task.match, w>>} /\ UNCHANGED faults
     \/ Fault /\ UNCHANGED up
  /\ UNCHANGED <<vars, coreVars, disk, crashes, history>>

RolledBack ==
  /\ task.op = "rollback" /\ task.worlds = {}
  /\ MarkFailed(task.match)
  /\ UNCHANGED <<vars, up, crashes, astray>>

-----------------------------------------------------------------------------
(* Finish: the result is written before the worlds are stopped.            *)

\* QueueCore.finish: only the first call counts (bug: a later one overwrites
\* the result).
Ended(r, result) ==
  [r EXCEPT !.state = "finished", !.result = IF result = None THEN @ ELSE result]
Overwritten(m, result) == [records EXCEPT ![m] = Ended(@, result)]
Finished(m, result) ==
  IF records[m].state = "finished" THEN records ELSE [records EXCEPT ![m] = Ended(@, result)]

Written(m, result) ==
  /\ records' = Finished(m, result)
  /\ bound' = IF records[m].state = "finished" THEN bound ELSE Release(m)
  /\ UNCHANGED <<queue, cleaned, anchor>>

\* What task t goes on with after a finish.
Continue(t) ==
  IF t.then = "idle" \/ (t.then = "settle" /\ t.todo = {}) THEN Idle
  ELSE [t EXCEPT !.op = t.then, !.worlds = {}]

\* finish(m, result), up to its first stop; an error that is raised ends a tick.
BeginFinish(m, result, then, todo) ==
  LET t == [op |-> "stop", match |-> m, worlds |-> records[m].side, then |-> then,
            todo |-> todo, result |-> task.result, others |-> FALSE] IN
  /\ Written(m, result)
  /\ Persist({m}, IF m \in cleaned THEN Continue(t) ELSE t, Idle)

Finish(m, result) ==
  /\ Free
  /\ m \in Matches
  /\ BeginFinish(m, result, "idle", {})
  /\ UNCHANGED <<vars, up, crashes, astray>>

\* _cleanup; a stop that fails ends the finish, and with it a rematch (bug: the
\* cleanup goes on).
StopIgnored == task' = [task EXCEPT !.worlds = @ \ {FirstWorld}]
StopFailed == task' = IF task.then = "create" THEN Idle ELSE Continue(task)

StopWorld ==
  LET w == FirstWorld IN
  /\ task.op = "stop" /\ task.worlds # {}
  /\ \/ /\ up' = up \ {<<task.match, w>>}
        /\ task' = [task EXCEPT !.worlds = @ \ {w}]
        /\ UNCHANGED faults
     \/ /\ Fault
        /\ StopFailed
        /\ UNCHANGED up
  /\ UNCHANGED <<vars, coreVars, disk, crashes, history>>

Stopped ==
  /\ task.op = "stop" /\ task.worlds = {}
  /\ cleaned' = cleaned \union {task.match}
  /\ UNCHANGED <<queue, records, bound, anchor>>
  /\ Persist({}, Continue(task), Idle)
  /\ UNCHANGED <<vars, up, crashes, astray>>

-----------------------------------------------------------------------------
(* POST /queue/rematch, by match id or for the latest match of a player.   *)

Rematched(m) == \E a \in anchor : a.old = m

AskRematch(m) ==
  /\ Free
  /\ m \in Matches
  /\ records[m].state = "finished"
  /\ ~Rematched(m)
  /\ Len(records) < MaxMatches
  /\ BeginFinish(m, None, "create", {})
  /\ UNCHANGED <<vars, up, crashes, astray>>

Busy(p) == p \in ToSet(queue) \/ \E m \in Open : p \in Members(m)

\* create_rematch: the same pair in the same worlds, wherever the two are by now.
CreateRematch ==
  LET m == Len(records) + 1 IN
  /\ task.op = "create"
  /\ records' = Append(records, NewRecord(records[task.match].team, task.match))
  /\ bound' = [p \in Players |-> IF p \in Members(task.match) THEN m ELSE bound[p]]
  /\ UNCHANGED <<queue, cleaned, anchor>>
  /\ Persist({}, Task("reset", m, {}), Idle)
  /\ astray' = astray \union {p \in Members(task.match) : Busy(p)}
  /\ UNCHANGED <<vars, up, crashes>>

\* The referee's reset; without it no world starts: the rollback has none to stop.
ResetReferee ==
  /\ task.op = "reset"
  /\ \/ /\ Rematch
        /\ task' = Task("start", task.match, Worlds)
        /\ UNCHANGED faults
     \/ /\ task' = [task EXCEPT !.op = "rollback"]
        /\ \/ Refused(phase # "running")
           \/ Fault /\ UNCHANGED vars
           \/ Rematch /\ Fault
  /\ UNCHANGED <<coreVars, disk, up, crashes, history>>

-----------------------------------------------------------------------------
(* The reconciler.                                                         *)

\* pending_cleanup and pending_finish (bug: failed matches are left out).
UncleanFinished == {m \in Matches : records[m].state = "finished" /\ m \notin cleaned}
Unclean == {m \in Matches : records[m].state \notin Active /\ m \notin cleaned}
Pending == Open

Reconcile ==
  /\ Free
  /\ Pending \union Unclean # {}
  /\ task' = [Idle EXCEPT !.op = "tidy", !.todo = Unclean]
  /\ UNCHANGED <<vars, coreVars, disk, worldVars>>

\* The matches are taken in the order of their ids.
Comes(m) == \A n \in task.todo : m <= n

\* A match that ended and still has worlds: finish again, for the stops.  This
\* makes a failed match a finished one.
Tidy ==
  /\ task.op = "tidy"
  /\ \E m \in task.todo : Comes(m) /\ BeginFinish(m, None, "tidy", task.todo \ {m})
  /\ UNCHANGED <<vars, up, crashes, astray>>

\* The open matches the referee's state belongs to: by the match id it echoes,
\* or by the names of its players.
ByPlayers(m) == Members(m) = {player[w] : w \in Worlds}
Mapped(m) == (\E w \in Worlds : matchId[w] = m) \/ ByPlayers(m)

\* derive_result.
ResultOf == winner

ReadReferee ==
  /\ task.op = "tidy" /\ task.todo = {}
  /\ \/ /\ task' = IF phase = "finished" /\ \E m \in Pending : Mapped(m)
                   THEN [Idle EXCEPT !.op = "settle", !.result = ResultOf,
                                     !.todo = {m \in Pending : Mapped(m)}]
                   ELSE Idle
        /\ UNCHANGED faults
     \/ /\ Pending # {} /\ Fault
        /\ task' = Idle
  /\ UNCHANGED <<vars, coreVars, disk, up, crashes, history>>

Settle ==
  /\ task.op = "settle"
  /\ \E m \in task.todo : Comes(m) /\ BeginFinish(m, task.result, "settle", task.todo \ {m})
  /\ UNCHANGED <<vars, up, crashes, astray>>

-----------------------------------------------------------------------------
(* Around the service.                                                     *)

\* A world that runs reports the loss of its HQ, which decides the match.
Decide(w) ==
  /\ \E m \in 1 .. MaxMatches : <<m, w>> \in up
  /\ ReportHq(w, 0)
  /\ UNCHANGED <<queueVars, worldVars>>

\* Anybody's call of the referee: a player in the browser, an operator, a bridge.
OtherCall ==
  \/ \E w \in Worlds, p \in Players, m \in OtherIds : LobbyRegister(w, p, m)
  \/ \E w \in Worlds : Ready(w) \/ ReportHq(w, 0)
  \/ Go
  \/ \E p \in Players : StartSp(p)
  \/ Rematch

Stranger ==
  /\ ~Alone /\ Fault
  /\ OtherCall
  /\ task' = [task EXCEPT !.others = task # Idle]
  /\ UNCHANGED <<coreVars, disk, up, crashes, history>>

\* load_state: what was written, and the active matches' players bound, the
\* latest match last.
Crash ==
  /\ crashes < MaxCrashes
  /\ crashes' = crashes + 1
  /\ queue' = disk.queue /\ records' = disk.records
  /\ cleaned' = disk.cleaned /\ anchor' = disk.anchor
  /\ bound' = [p \in Players |->
       LET ms == {m \in DOMAIN disk.records : disk.records[m].state \in Active
                    /\ \E w \in Worlds : disk.records[m].team[w] = p}
       IN IF ms = {} THEN 0 ELSE CHOOSE m \in ms : \A n \in ms : n <= m]
  /\ task' = Idle
  /\ UNCHANGED <<vars, disk, up, faults, history>>

\* The operation that holds the lock goes on.
TaskStep ==
  \/ StartWorld \/ Register \/ ReadyWorld \/ MarkReady \/ Anchor
  \/ StopStarted \/ RolledBack \/ StopWorld \/ Stopped
  \/ CreateRematch \/ ResetReferee \/ Tidy \/ ReadReferee \/ Settle

QueueNext ==
  \/ \E p \in Players : Join(p) \/ Leave(p)
  \/ \E m \in 1 .. MaxMatches : AskRematch(m) \/ \E r \in Results : Finish(m, r)
  \/ Reconcile
  \/ TaskStep
  \/ \E w \in Worlds : Decide(w)
  \/ Stranger
  \/ Crash

\* A call ends with an answer or its timeout, and the reconciler ticks.
QueueSpec ==
  QueueInit /\ [][QueueNext]_allVars /\ WF_allVars(TaskStep) /\ WF_allVars(Reconcile)

-----------------------------------------------------------------------------
(* Properties.                                                             *)

\* The worlds of a match that its record calls ready run, also for the service
\* that comes back after a crash: its finish is written before they stop, unless
\* just that write failed.
ReadyMatchHasWorlds ==
  \A m \in DOMAIN disk.records \ unsaved : disk.records[m].state = "ready" =>
    \A w \in Worlds : <<m, w>> \in up

\* A match that counts as cleaned up has none of the worlds it knew of left,
\* whatever stop failed in between.
CleanedMeansStopped ==
  \A m \in cleaned : \A w \in records[m].side : <<m, w>> \notin up

\* A player is at one place: waiting once, or in one open match, which is the
\* one they are bound to.  Only a rematch takes them out of the queue or another
\* match without a word.
OnePlaceEach ==
  /\ \A i, j \in 1 .. Len(queue) : queue[i] = queue[j] => i = j
  /\ \A m \in Open : \A p \in Members(m) \ astray : bound[p] = m /\ p \notin ToSet(queue)
  /\ \A p \in Players : bound[p] # 0 => bound[p] \in Open /\ p \in Members(bound[p])

\* The result of a match is written once: no repeated finish, no tick of the
\* reconciler and no crash changes or forgets it.
ResultWrittenOnce ==
  [][\A m \in DOMAIN disk.records :
       /\ m \in DOMAIN disk'.records
       /\ disk.records[m].state = "finished" =>
            disk'.records[m].state = "finished"
            /\ disk'.records[m].result = disk.records[m].result]_allVars

\* The referee's match that the queue starts is one of its own, unless another
\* client called the referee meanwhile: both worlds run, and names and ids are
\* those of the match under way.
StartsWhole ==
  [][phase # "running" /\ phase' = "running" /\ task # Idle /\ ~task'.others =>
       \A w \in Worlds :
         /\ matchId'[w] = task.match
         /\ player'[w] = records[task.match].team[w]
         /\ <<task.match, w>> \in up]_allVars

\* The restart knows nothing of m's end, the write of which failed.
EndForgotten(m) == m \in unsaved /\ (m \in Matches => records[m].state \in Active)

\* Worlds come down: a match that is over, or never began, is cleaned up by
\* and by, whatever stops failed and whoever was restarted.
EndedIsCleaned ==
  \A m \in 1 .. MaxMatches :
    (m \in Matches /\ records[m].state \notin Active) ~> (m \in cleaned \/ EndForgotten(m))

\* The referee holds the verdict on a ready match, which was written as such.
VerdictWaits ==
  /\ phase = "finished" /\ matchId["A"] \in Open \ unsaved
  /\ records[matchId["A"]].state = "ready"

\* It does not wait forever: the reconciler takes it over, unless a client resets
\* the referee before.
VerdictArrives == []<>~VerdictWaits

\* A failed provisioning leaves the referee where POST /rematch resets it
\* (queue_flow.py): it does not run the match whose worlds were stopped.
FailedIsNotRunning ==
  \A m \in Matches : records[m].state = "failed" =>
    ~(phase = "running" /\ \A w \in Worlds : matchId[w] = m)

\* Players, records and worlds agree: a ready match has its two worlds, one marked
\* clean has none, and nobody is in two places.
RecordsHoldWorlds == ReadyMatchHasWorlds /\ CleanedMeansStopped /\ OnePlaceEach

\* Every match comes to its end: what ended is cleaned up and a verdict is recorded.
MatchesComeToAnEnd == EndedIsCleaned /\ VerdictArrives
=============================================================================
