-------------------------- MODULE ParkedPoolProofs --------------------------
(***************************************************************************)
(* Machine-checked proofs about ParkedPool and about CapsuleFlow, which    *)
(* plays on it, for every number of instances, every size of the pool,     *)
(* every number of the capsule service's threads and every bound.          *)
(***************************************************************************)
EXTENDS CapsuleFlow, TLAPS

Entries == {"none", "warming", "parked", "claimed", "recycling", "stopped"}
Ops == {"idle", "resume", "take", "reset", "pause", "park", "retire", "reconcile", "sweep",
        "fill", "start", "undo", "reap", "reaping"}
Tasks == [op : Ops, id : Ids \cup {0}, todo : SUBSET Ids, rest : SUBSET {"fill", "reap"}, keep : BOOLEAN]
BoxTypes == box \in [Ids -> {"none", "running", "exited", "down"}] /\ moving \in [Ids -> BOOLEAN]
PoolTypes ==
  /\ entry \in [Ids -> Entries] /\ marker \subseteq Ids /\ games \subseteq Ids
  /\ BoxTypes /\ task \in Tasks

\* The operation under way knows the state of the entry it works on, and a sweep
\* or a reap holds on to what was free when it was begun.
TaskIn(ops, states) == task.op \in ops => task.id \in Ids /\ entry[task.id] \in states
EntryAgrees ==
  /\ TaskIn({"resume", "take"}, {"parked"})
  /\ TaskIn({"reset", "retire"}, {"recycling"})
  /\ TaskIn({"pause", "park"}, {"recycling", "warming"})
  /\ TaskIn({"start", "undo"}, {"warming"})
TodoAgrees ==
  /\ task.op = "sweep" => task.todo \cap marker = {}
  /\ task.op = "reaping" => task.todo \subseteq Parked
PauseHolds == task.op = "park" => ~moving[task.id] \/ task.id \in disturbed
PoolInv ==
  PoolTypes /\ EntryAgrees /\ TodoAgrees /\ PauseHolds /\ GamesAreMarked /\ ParkedStandsStill

-----------------------------------------------------------------------------
(* What a call may do to the boxes.                                        *)

\* Only box i changes, and it does not start to move undisturbed.
OnlyBox(i) ==
  /\ BoxTypes'
  /\ \A j \in Ids \ {i} : box'[j] = box[j] /\ moving'[j] = moving[j]
  /\ \A j \in Ids \ {i} : j \in disturbed <=> j \in disturbed'
StaysStill(i) == moving'[i] => moving[i] /\ (i \in disturbed => i \in disturbed')

\* A stop, whatever it answers, changes one box and sets no world in motion.
LEMMA StopsOne ==
  ASSUME PoolTypes, NEW i \in Ids, StopAnswers(i) \/ StopFails(i)
  PROVE  OnlyBox(i) /\ StaysStill(i)
<1>1. CASE RemoveBox(i)
  BY <1>1 DEF PoolTypes, BoxTypes, RemoveBox, OnlyBox, StaysStill
<1>2. CASE UNCHANGED boxVars
  BY <1>2 DEF PoolTypes, BoxTypes, boxVars, OnlyBox, StaysStill
<1> QED BY <1>1, <1>2 DEF StopAnswers, StopFails

\* A start, whatever it answers, changes one box.
LEMMA StartsOne == ASSUME PoolTypes, NEW i \in Ids, StartBox(i) \/ UNCHANGED boxVars PROVE OnlyBox(i)
<1>1. CASE Fresh(i)
  BY <1>1 DEF PoolTypes, BoxTypes, Fresh, OnlyBox
<1>2. CASE UNCHANGED boxVars
  BY <1>2 DEF PoolTypes, BoxTypes, boxVars, OnlyBox
<1> QED BY <1>1, <1>2 DEF StartBox

\* A round reset moves and removes no box.
LEMMA ResetsNone ==
  ASSUME PoolTypes, NEW i \in Ids, RoundReset(i, ResetFlag) \/ BridgeFails(i, RoundReset(i, ResetFlag))
  PROVE  OnlyBox(i) /\ StaysStill(i)
<1>1. UNCHANGED <<box, moving, disturbed>>
  BY DEF RoundReset, BridgeFails, boxVars
<1> QED BY <1>1 DEF PoolTypes, BoxTypes, OnlyBox, StaysStill

\* No game loses the server whose box is not the one that changes.
LEMMA OthersKept ==
  ASSUME PoolTypes, NEW i \in Ids, OnlyBox(i), i \notin games \/ i \notin games'
  PROVE  ServersKept
<1> SUFFICES ASSUME NEW j \in games \cap games' PROVE box'[j] = box[j] /\ moving'[j] = moving[j]
  BY DEF ServersKept
<1> QED BY DEF PoolTypes, OnlyBox

\* A step that touches no box takes no server from a game.
LEMMA NoneLost == ASSUME UNCHANGED boxVars PROVE ServersKept
  BY DEF ServersKept, boxVars

\* Before its turn in a maintenance a stage works on nothing.
LEMMA NextStageIsIdle ==
  ASSUME NEW rest \in SUBSET {"fill", "reap"}
  PROVE  NextStage(rest) \in Tasks /\ NextStage(rest).op \in {"idle", "fill", "reap"}
  BY DEF NextStage, Idle, Tasks, Ops

\* A step that ends or begins an operation, or goes on to a stage, and takes no
\* entry into the pool.
AtRest == task'.op \in {"idle", "reconcile", "fill", "reap"}
\* What is known of an operation under way holds when none is at work.
LEMMA RestHolds ==
  ASSUME task' \in Tasks, AtRest PROVE EntryAgrees' /\ TodoAgrees' /\ PauseHolds'
  BY DEF AtRest, EntryAgrees, TaskIn, TodoAgrees, PauseHolds

\* While games keep their entries and markers, they stay marked.
LEMMA StillMarked ==
  ASSUME PoolTypes, GamesAreMarked, games' \subseteq games,
         \A i \in games' : (i \in marker => i \in marker') /\ entry'[i] = entry[i]
  PROVE  GamesAreMarked'
  BY DEF GamesAreMarked

\* While the pool parks no further entry and no parked one moves, they stand still.
LEMMA StillParked ==
  ASSUME PoolTypes, ParkedStandsStill, task.op # "take", NEW i \in Ids, OnlyBox(i),
         \A j \in Ids : entry'[j] = "parked" => entry[j] = "parked",
         StaysStill(i) \/ entry'[i] # "parked"
  PROVE  ParkedStandsStill'
<1> SUFFICES ASSUME NEW j \in Ids, entry'[j] = "parked", j \notin disturbed', moving'[j] PROVE FALSE
  BY DEF ParkedStandsStill, Parked
<1>1. moving[j] /\ j \notin disturbed
  BY DEF OnlyBox, StaysStill
<1> QED BY <1>1 DEF ParkedStandsStill, Parked
\* The same when no box changes.
LEMMA StillStands ==
  ASSUME PoolTypes, ParkedStandsStill, task.op # "take", UNCHANGED boxVars,
         \A j \in Ids : entry'[j] = "parked" => entry[j] = "parked"
  PROVE  ParkedStandsStill'
  BY DEF ParkedStandsStill, Parked, boxVars

-----------------------------------------------------------------------------
(* The steps of claim and recycle.                                         *)

\* The idle operation is one.
LEMMA IdleIsATask == Idle \in Tasks /\ Idle.op = "idle"
  BY DEF Idle, Tasks, Ops

\* The pool starts with the reconcile of its boot, which knows of no game.
LEMMA PoolInvHoldsAtFirst == Init => PoolInv
<1> SUFFICES ASSUME Init PROVE PoolInv
  OBVIOUS
<1>1. task \in Tasks /\ task.op = "reconcile"
  BY DEF Init, Boot, Idle, Tasks, Ops
<1>2. PoolTypes
  BY <1>1 DEF Init, PoolTypes, BoxTypes, Entries
<1>3. EntryAgrees /\ TodoAgrees /\ PauseHolds
  BY <1>1 DEF EntryAgrees, TaskIn, TodoAgrees, PauseHolds
<1>4. GamesAreMarked /\ ParkedStandsStill
  BY DEF Init, GamesAreMarked, ParkedStandsStill, Parked
<1> QED BY <1>2, <1>3, <1>4 DEF PoolInv

\* A claim begins at a parked server and touches no box.
LEMMA ClaimStep ==
  ASSUME PoolInv, NEW i \in Ids, NEW b \in BOOLEAN, Claim(i, b) PROVE PoolInv' /\ ServersKept
<1>1. /\ UNCHANGED <<entry, marker, games, box, moving, disturbed>> /\ entry[i] = "parked"
      /\ task' \in Tasks /\ task'.op \in {"resume", "take"} /\ task'.id = i
  BY DEF Claim, poolVars, boxVars, Idle, Tasks, Ops
<1>2. PoolTypes'
  BY <1>1 DEF PoolInv, PoolTypes, BoxTypes
<1>3. EntryAgrees' /\ TodoAgrees' /\ PauseHolds'
  BY <1>1 DEF EntryAgrees, TaskIn, TodoAgrees, PauseHolds
<1>4. GamesAreMarked'
  BY <1>1 DEF PoolInv, GamesAreMarked
<1>5. task.op # "take"
  BY DEF Claim, Free, Idle
<1>6. ParkedStandsStill'
  BY <1>1, <1>5 DEF PoolInv, ParkedStandsStill, Parked
<1>7. ServersKept
  BY NoneLost DEF Claim
<1> QED BY <1>2, <1>3, <1>4, <1>6, <1>7 DEF PoolInv

\* A resume, refused or lost, moves only the world of the claimed entry.
LEMMA ResumeStep == ASSUME PoolInv, Resume PROVE PoolInv' /\ ServersKept
<1> DEFINE i == task.id
<1>1. i \in Ids /\ entry[i] = "parked" /\ task.op = "resume"
  BY DEF PoolInv, EntryAgrees, TaskIn, Resume
<1>2. UNCHANGED <<entry, marker, games>>
  BY DEF Resume, poolVars
<1>3. task' \in Tasks /\ (task' = Idle \/ (task'.op = "take" /\ task'.id = i))
  <2>1. task' = Idle \/ task' = [task EXCEPT !.op = "take"]
    BY DEF Resume
  <2> QED BY <2>1, IdleIsATask DEF PoolInv, PoolTypes, Tasks, Ops
<1>4. OnlyBox(i) /\ (task'.op = "take" \/ StaysStill(i) \/ i \in disturbed')
  <2>1. CASE SetMoving(i, TRUE) /\ UNCHANGED disturbed /\ task' = [task EXCEPT !.op = "take"]
    <3>1. task'.op = "take"
      BY <2>1 DEF PoolInv, PoolTypes, Tasks
    <3> QED BY <1>1, <2>1, <3>1 DEF PoolInv, PoolTypes, BoxTypes, SetMoving, OnlyBox
  <2>2. CASE SetMoving(i, TRUE) /\ disturbed' = disturbed \union {i}
    BY <1>1, <2>2 DEF PoolInv, PoolTypes, BoxTypes, SetMoving, OnlyBox
  <2>3. CASE UNCHANGED boxVars
    BY <1>1, <2>3 DEF PoolInv, PoolTypes, BoxTypes, boxVars, OnlyBox, StaysStill
  <2> QED BY <2>1, <2>2, <2>3 DEF Resume, BridgeFails
<1>5. PoolTypes'
  BY <1>2, <1>3, <1>4 DEF PoolInv, PoolTypes, OnlyBox
<1>6. EntryAgrees' /\ TodoAgrees' /\ PauseHolds'
  <2>1. CASE task' = Idle
    BY <1>3, <2>1, IdleIsATask, RestHolds DEF AtRest
  <2>2. CASE task'.op = "take" /\ task'.id = i
    BY <1>1, <1>2, <2>2 DEF EntryAgrees, TaskIn, TodoAgrees, PauseHolds
  <2> QED BY <1>3, <2>1, <2>2
<1>7. GamesAreMarked'
  BY <1>2 DEF PoolInv, GamesAreMarked
<1>8. ParkedStandsStill'
  <2> SUFFICES ASSUME NEW j \in Ids, entry[j] = "parked", j \notin disturbed', moving'[j]
               PROVE  task'.op = "take" /\ task'.id = j
    BY <1>2 DEF ParkedStandsStill, Parked
  <2>1. CASE j # i
    BY <1>1, <1>4, <2>1 DEF PoolInv, ParkedStandsStill, Parked, OnlyBox
  <2>2. CASE j = i /\ StaysStill(i)
    BY <1>1, <2>2 DEF PoolInv, ParkedStandsStill, Parked, StaysStill
  <2> QED BY <1>3, <1>4, <2>1, <2>2 DEF Idle
<1>9. i \notin games
  BY <1>1 DEF PoolInv, GamesAreMarked
<1>10. ServersKept
  BY <1>1, <1>4, <1>9, OthersKept DEF PoolInv
<1> QED BY <1>5, <1>6, <1>7, <1>8, <1>10 DEF PoolInv

\* The take marks what it gives to the game.
LEMMA TakeStep == ASSUME PoolInv, Take PROVE PoolInv' /\ ServersKept
<1> DEFINE i == task.id
<1>1. i \in Ids /\ entry[i] = "parked" /\ task.op = "take"
  BY DEF PoolInv, EntryAgrees, TaskIn, Take
<1>2. /\ entry' = [entry EXCEPT ![i] = "claimed"] /\ entry \in [Ids -> Entries]
      /\ marker' = marker \union {i} /\ games' = games \union {i}
      /\ task' = Idle /\ UNCHANGED boxVars
  BY DEF PoolInv, PoolTypes, Take, Becomes
<1>3. PoolTypes'
  BY <1>1, <1>2, IdleIsATask DEF PoolInv, PoolTypes, BoxTypes, boxVars, Entries
<1>4. EntryAgrees' /\ TodoAgrees' /\ PauseHolds'
  BY <1>2, IdleIsATask, RestHolds DEF AtRest
<1>5. GamesAreMarked'
  BY <1>1, <1>2 DEF PoolInv, GamesAreMarked
<1>6. ParkedStandsStill'
  BY <1>1, <1>2 DEF PoolInv, ParkedStandsStill, Parked, boxVars
<1> QED BY <1>2, <1>3, <1>4, <1>5, <1>6, NoneLost DEF PoolInv

\* A recycle begins with an entry that a game gave back.
LEMMA RecycleStep ==
  ASSUME PoolInv, NEW i \in Ids, NEW b \in BOOLEAN, Recycle(i, b) PROVE PoolInv' /\ ServersKept
<1>1. /\ entry' = [entry EXCEPT ![i] = "recycling"] /\ entry \in [Ids -> Entries]
      /\ games' = games \ {i} /\ UNCHANGED boxVars /\ UNCHANGED marker
  BY DEF PoolInv, PoolTypes, Recycle, Becomes
<1>2. task' \in Tasks /\ task'.op = "reset" /\ task'.id = i
  BY DEF Recycle, Idle, Tasks, Ops
<1>3. PoolTypes'
  BY <1>1, <1>2 DEF PoolInv, PoolTypes, BoxTypes, boxVars, Entries
<1>4. EntryAgrees' /\ TodoAgrees' /\ PauseHolds'
  BY <1>1, <1>2 DEF EntryAgrees, TaskIn, TodoAgrees, PauseHolds
<1>5. GamesAreMarked'
  BY <1>1 DEF PoolInv, GamesAreMarked
<1>6. task.op # "take"
  BY DEF Recycle, Free, Idle
<1>7. ParkedStandsStill'
  BY <1>1, <1>6, StillStands DEF PoolInv
<1> QED BY <1>1, <1>3, <1>4, <1>5, <1>7, NoneLost DEF PoolInv

\* The two calls of the bridge that recycle a server or warm one up.
LEMMA ResetStep == ASSUME PoolInv, Reset PROVE PoolInv' /\ ServersKept
<1> DEFINE i == task.id
<1>1. i \in Ids /\ entry[i] = "recycling" /\ task.op = "reset"
  BY DEF PoolInv, EntryAgrees, TaskIn, Reset
<1>2. UNCHANGED <<entry, marker, games>>
  BY DEF Reset, poolVars
<1>3. OnlyBox(i) /\ StaysStill(i)
  BY <1>1, ResetsNone DEF PoolInv, Reset
<1>4. task' = Idle \/ task' = [task EXCEPT !.op = AfterReset]
  BY DEF Reset
<1>5. task' \in Tasks /\ (task' = Idle \/ (task'.op \in {"pause", "retire"} /\ task'.id = i))
  BY <1>4, IdleIsATask DEF PoolInv, PoolTypes, AfterReset, Tasks, Ops
<1>6. PoolTypes'
  BY <1>2, <1>3, <1>5 DEF PoolInv, PoolTypes, OnlyBox
<1>7. EntryAgrees' /\ TodoAgrees' /\ PauseHolds'
  <2>1. CASE task' = Idle
    BY <1>5, <2>1, IdleIsATask, RestHolds DEF AtRest
  <2>2. CASE task'.op \in {"pause", "retire"} /\ task'.id = i
    BY <1>1, <1>2, <2>2 DEF EntryAgrees, TaskIn, TodoAgrees, PauseHolds
  <2> QED BY <1>5, <2>1, <2>2
<1>8. GamesAreMarked'
  BY <1>2 DEF PoolInv, GamesAreMarked
<1>9. ParkedStandsStill'
  BY <1>1, <1>2, <1>3, StillParked DEF PoolInv
<1>10. i \notin games
  BY <1>1 DEF PoolInv, GamesAreMarked
<1>11. ServersKept
  BY <1>1, <1>3, <1>10, OthersKept DEF PoolInv
<1> QED BY <1>6, <1>7, <1>8, <1>9, <1>11 DEF PoolInv

\* Pausing stops the world that is about to be parked, or fails.
LEMMA PauseStep == ASSUME PoolInv, Pause PROVE PoolInv' /\ ServersKept
<1> DEFINE i == task.id
<1>1. i \in Ids /\ entry[i] \in {"recycling", "warming"} /\ task.op = "pause"
  BY DEF PoolInv, EntryAgrees, TaskIn, Pause
<1>2. UNCHANGED <<entry, marker, games>>
  BY DEF Pause, poolVars
<1>3. OnlyBox(i)
  <2>1. CASE SetMoving(i, FALSE) /\ disturbed' = disturbed \ {i}
    BY <1>1, <2>1 DEF PoolInv, PoolTypes, BoxTypes, SetMoving, OnlyBox
  <2>2. CASE UNCHANGED boxVars
    BY <1>1, <2>2 DEF PoolInv, PoolTypes, BoxTypes, boxVars, OnlyBox
  <2> QED BY <2>1, <2>2 DEF Pause, BridgeFails
<1>4. \/ task' = Idle
      \/ task' = [task EXCEPT !.op = "undo"] /\ entry[i] = "warming"
      \/ task' = [task EXCEPT !.op = "park"] /\ ~moving'[i]
  BY <1>1 DEF Pause, PauseFailed, SetMoving, PoolInv, PoolTypes, BoxTypes
<1>5. /\ task' \in Tasks
      /\ \/ task' = Idle
         \/ task'.op = "undo" /\ task'.id = i /\ entry[i] = "warming"
         \/ task'.op = "park" /\ task'.id = i /\ ~moving'[i]
  BY <1>4, IdleIsATask DEF PoolInv, PoolTypes, Tasks, Ops
<1>6. PoolTypes'
  BY <1>2, <1>3, <1>5 DEF PoolInv, PoolTypes, OnlyBox
<1>7. EntryAgrees' /\ TodoAgrees' /\ PauseHolds'
  <2>1. CASE task' = Idle
    BY <1>5, <2>1, IdleIsATask, RestHolds DEF AtRest
  <2>2. CASE task'.op = "undo" /\ task'.id = i /\ entry[i] = "warming"
    BY <1>1, <1>2, <2>2 DEF EntryAgrees, TaskIn, TodoAgrees, PauseHolds
  <2>3. CASE task'.op = "park" /\ task'.id = i /\ ~moving'[i]
    BY <1>1, <1>2, <2>3 DEF EntryAgrees, TaskIn, TodoAgrees, PauseHolds
  <2> QED BY <1>5, <2>1, <2>2, <2>3
<1>8. GamesAreMarked'
  BY <1>2 DEF PoolInv, GamesAreMarked
<1>9. ParkedStandsStill'
  BY <1>1, <1>2, <1>3, StillParked DEF PoolInv
<1>10. i \notin games
  BY <1>1 DEF PoolInv, GamesAreMarked
<1>11. ServersKept
  BY <1>1, <1>3, <1>10, OthersKept DEF PoolInv
<1> QED BY <1>6, <1>7, <1>8, <1>9, <1>11 DEF PoolInv

\* "fill" with the rest of the maintenance, or nothing.
LEMMA ParkStep == ASSUME PoolInv, Park PROVE PoolInv' /\ ServersKept
<1> DEFINE i == task.id
<1>1. i \in Ids /\ entry[i] \in {"recycling", "warming"} /\ task.op = "park"
  BY DEF PoolInv, EntryAgrees, TaskIn, Park
<1>2. /\ entry' = [entry EXCEPT ![i] = "parked"] /\ entry \in [Ids -> Entries]
      /\ marker' = marker \ {i} /\ UNCHANGED games /\ UNCHANGED boxVars
  BY DEF PoolInv, PoolTypes, Park, Becomes
<1>3. task' \in Tasks /\ task'.op \in {"fill", "idle"}
  BY IdleIsATask DEF PoolInv, PoolTypes, Park, Tasks, Ops
<1>4. PoolTypes'
  BY <1>1, <1>2, <1>3 DEF PoolInv, PoolTypes, BoxTypes, boxVars, Entries
<1>5. EntryAgrees' /\ TodoAgrees' /\ PauseHolds'
  BY <1>3, RestHolds DEF AtRest
<1>6. i \notin games
  BY <1>1 DEF PoolInv, GamesAreMarked
<1>7. GamesAreMarked'
  BY <1>1, <1>2, <1>6 DEF PoolInv, GamesAreMarked
<1>8. ~moving[i] \/ i \in disturbed
  BY <1>1 DEF PoolInv, PauseHolds
<1>9. ParkedStandsStill'
  BY <1>1, <1>2, <1>8 DEF PoolInv, ParkedStandsStill, Parked, boxVars
<1> QED BY <1>2, <1>4, <1>5, <1>7, <1>9, NoneLost DEF PoolInv

\* A recycled server is removed after its game is over.
LEMMA RetireStep == ASSUME PoolInv, Retire PROVE PoolInv' /\ ServersKept
<1> DEFINE i == task.id
<1>1. i \in Ids /\ entry[i] = "recycling" /\ task.op = "retire"
  BY DEF PoolInv, EntryAgrees, TaskIn, Retire
<1>2. i \notin games
  BY <1>1 DEF PoolInv, GamesAreMarked
<1>3. OnlyBox(i) /\ StaysStill(i)
  BY <1>1, StopsOne DEF PoolInv, Retire
<1>4. /\ entry' = [entry EXCEPT ![i] = "stopped"] \/ UNCHANGED entry
      /\ marker' = marker \ {i} \/ UNCHANGED marker
      /\ UNCHANGED games /\ task' = Idle /\ entry \in [Ids -> Entries]
  BY DEF Retire, Becomes, PoolInv, PoolTypes
<1>5. PoolTypes'
  BY <1>1, <1>3, <1>4, IdleIsATask DEF PoolInv, PoolTypes, OnlyBox, Entries
<1>6. EntryAgrees' /\ TodoAgrees' /\ PauseHolds'
  BY <1>4, IdleIsATask, RestHolds DEF AtRest
<1>7. GamesAreMarked'
  <2>1. \A j \in games : j # i /\ j \in Ids
    BY <1>2 DEF PoolInv, PoolTypes
  <2> QED BY <1>4, <2>1 DEF PoolInv, GamesAreMarked
<1>8. ParkedStandsStill'
  BY <1>1, <1>3, <1>4, StillParked DEF PoolInv
<1>9. ServersKept
  BY <1>1, <1>2, <1>3, OthersKept DEF PoolInv
<1> QED BY <1>5, <1>6, <1>7, <1>8, <1>9 DEF PoolInv
-----------------------------------------------------------------------------
(* The steps of the maintenance.                                           *)

\* A step that only says what comes next.
LEMMA NextOnly ==
  ASSUME PoolInv, UNCHANGED <<entry, marker, boxVars, games>>, task' \in Tasks, AtRest, task.op # "take"
  PROVE  PoolInv' /\ ServersKept
<1>1. PoolTypes'
  BY DEF PoolInv, PoolTypes, BoxTypes, boxVars
<1>2. EntryAgrees' /\ TodoAgrees' /\ PauseHolds'
  BY RestHolds
<1>3. GamesAreMarked'
  BY DEF PoolInv, GamesAreMarked
<1>4. ParkedStandsStill'
  BY StillStands DEF PoolInv
<1> QED BY <1>1, <1>2, <1>3, <1>4, NoneLost DEF PoolInv

\* A maintenance begins with the first of its stages.
LEMMA MaintainStep ==
  ASSUME PoolInv, NEW stages \in Stages, Maintain(stages) PROVE PoolInv' /\ ServersKept
<1>1. task.op = "idle" /\ UNCHANGED <<entry, marker, boxVars, games>>
  BY DEF Maintain, Free, Idle, poolVars
<1>2. task' \in Tasks /\ AtRest
  <2>1. CASE "reconcile" \in stages
    <3>1. stages \ {"reconcile"} \in SUBSET {"fill", "reap"}
      BY DEF Stages
    <3> QED BY <2>1, <3>1 DEF Maintain, Idle, Tasks, Ops, AtRest
  <2>2. CASE "reconcile" \notin stages
    <3>1. stages \in SUBSET {"fill", "reap"}
      BY <2>2 DEF Stages
    <3> QED BY <2>2, <3>1, NextStageIsIdle DEF Maintain, AtRest
  <2> QED BY <2>1, <2>2
<1> QED BY <1>1, <1>2, NextOnly

\* The end of a stage changes no entry.
LEMMA StageEnds ==
  ASSUME PoolInv, Swept \/ Filled \/ Reaped PROVE PoolInv' /\ ServersKept
<1>1. task.op # "take" /\ UNCHANGED <<entry, marker, boxVars, games>>
  BY DEF Swept, Filled, Reaped, poolVars
<1>2. task.rest \in SUBSET {"fill", "reap"}
  BY DEF PoolInv, PoolTypes, Tasks
<1>3. task' \in Tasks /\ AtRest
  BY <1>2, NextStageIsIdle, IdleIsATask DEF Swept, Filled, Reaped, AtRest
<1> QED BY <1>1, <1>3, NextOnly

\* Discovery evicts entries without a marker, and a game has one.
LEMMA DiscoverStep == ASSUME PoolInv, Discover PROVE PoolInv' /\ ServersKept
<1>1. task.op = "reconcile" /\ UNCHANGED <<marker, boxVars, games>>
  BY DEF Discover
<1>2. CASE UNCHANGED entry /\ task' = NextStage(task.rest)
  <2>1. task.rest \in SUBSET {"fill", "reap"}
    BY DEF PoolInv, PoolTypes, Tasks
  <2> QED BY <1>1, <1>2, <2>1, NextStageIsIdle, NextOnly DEF AtRest
<1>3. CASE Evict(Stale) /\ task' = [task EXCEPT !.op = "sweep", !.todo = Orphans]
  <2>1. \A i \in Ids : entry'[i] = "none" \/ entry'[i] = entry[i]
    BY <1>3 DEF Evict
  <2>2. \A i \in games : i \in Ids /\ i \in marker /\ entry'[i] = entry[i]
    BY <1>3 DEF Evict, Stale, Unclaimed, PoolInv, PoolTypes, GamesAreMarked
  <2>3. entry' \in [Ids -> Entries]
    BY <1>3 DEF Evict, PoolInv, PoolTypes, Entries
  <2>4. Orphans \in SUBSET Ids /\ Orphans \cap marker = {}
    BY DEF Orphans, Unclaimed, Abandoned, Dead, Found
  <2>5. task' \in Tasks /\ task'.op = "sweep" /\ task'.todo = Orphans
    BY <1>3, <2>4 DEF PoolInv, PoolTypes, Tasks, Ops
  <2>6. PoolTypes'
    BY <1>1, <2>3, <2>5 DEF PoolInv, PoolTypes, BoxTypes, boxVars
  <2>7. EntryAgrees' /\ TodoAgrees' /\ PauseHolds'
    BY <1>1, <2>4, <2>5 DEF EntryAgrees, TaskIn, TodoAgrees, PauseHolds
  <2>8. GamesAreMarked'
    BY <1>1, <2>2 DEF PoolInv, GamesAreMarked
  <2>9. ParkedStandsStill'
    BY <1>1, <2>1, StillStands DEF PoolInv
  <2> QED BY <1>1, <2>6, <2>7, <2>8, <2>9, NoneLost DEF PoolInv
<1> QED BY <1>2, <1>3 DEF Discover

\* Step of a sweep: the box has no marker, so no game has it.
LEMMA SweepStep == ASSUME PoolInv, NEW i \in Ids, Sweep(i) PROVE PoolInv' /\ ServersKept
<1>1. task.op = "sweep" /\ i \in task.todo /\ UNCHANGED <<entry, games>>
  BY DEF Sweep, poolVars
<1>2. i \notin marker /\ i \notin games
  BY <1>1 DEF PoolInv, TodoAgrees, GamesAreMarked
<1>3. marker' = marker
  BY <1>2 DEF Sweep
<1>4. OnlyBox(i) /\ StaysStill(i)
  BY StopsOne DEF PoolInv, Sweep
<1>5. task' \in Tasks /\ task'.op = "sweep" /\ task'.todo = task.todo \ {i}
  BY <1>1 DEF PoolInv, PoolTypes, Sweep, Tasks
<1>6. PoolTypes'
  BY <1>1, <1>3, <1>4, <1>5 DEF PoolInv, PoolTypes, OnlyBox
<1>7. EntryAgrees' /\ TodoAgrees' /\ PauseHolds'
  BY <1>1, <1>3, <1>5 DEF PoolInv, EntryAgrees, TaskIn, TodoAgrees, PauseHolds
<1>8. GamesAreMarked'
  BY <1>1, <1>3 DEF PoolInv, GamesAreMarked
<1>9. ParkedStandsStill'
  BY <1>1, <1>4, StillParked DEF PoolInv
<1>10. ServersKept
  BY <1>2, <1>4, OthersKept DEF PoolInv
<1> QED BY <1>6, <1>7, <1>8, <1>9, <1>10 DEF PoolInv

\* A warm-up makes a server nobody has.
LEMMA WarmUpStep == ASSUME PoolInv, NEW i \in Ids, WarmUp(i) PROVE PoolInv' /\ ServersKept
<1>1. task.op = "fill" /\ UNCHANGED <<marker, games>> /\ UNCHANGED boxVars /\ entry[i] = "none" /\ i \notin marker
  BY DEF WarmUp, NextIds, IdFree
<1>2. entry' = [entry EXCEPT ![i] = "warming"] /\ entry \in [Ids -> Entries]
  BY DEF PoolInv, PoolTypes, WarmUp, Becomes
<1>3. task' \in Tasks /\ task'.op = "start" /\ task'.id = i
  BY DEF PoolInv, PoolTypes, WarmUp, Tasks, Ops
<1>4. PoolTypes'
  BY <1>1, <1>2, <1>3 DEF PoolInv, PoolTypes, BoxTypes, boxVars, Entries
<1>5. EntryAgrees' /\ TodoAgrees' /\ PauseHolds'
  BY <1>2, <1>3 DEF EntryAgrees, TaskIn, TodoAgrees, PauseHolds
<1>6. GamesAreMarked'
  BY <1>1, <1>2 DEF PoolInv, GamesAreMarked
<1>7. ParkedStandsStill'
  BY <1>1, <1>2, StillStands DEF PoolInv
<1> QED BY <1>1, <1>4, <1>5, <1>6, <1>7, NoneLost DEF PoolInv

\* A warm-up's container is started; a failure of the start, or of the pause
\* with the rollback's stop, leaves the entry stopped.
LEMMA WarmUpGoesOn ==
  ASSUME PoolInv, Start \/ Undo PROVE PoolInv' /\ ServersKept
<1> DEFINE i == task.id
<1>1. i \in Ids /\ entry[i] = "warming" /\ task.op \in {"start", "undo"} /\ UNCHANGED <<marker, games>>
  BY DEF PoolInv, EntryAgrees, TaskIn, Start, Undo
<1>2. OnlyBox(i)
  BY <1>1, StartsOne, StopsOne DEF PoolInv, Start, Undo
<1>3. \/ task' = [task EXCEPT !.op = "pause"] /\ UNCHANGED entry
      \/ task' = NextStage(task.rest) /\ entry' = [entry EXCEPT ![i] = "stopped"]
  BY DEF Start, Undo, WarmUpFailed, Becomes, poolVars
<1>4. /\ task' \in Tasks
      /\ \/ task'.op = "pause" /\ task'.id = i /\ UNCHANGED entry
         \/ AtRest /\ entry' = [entry EXCEPT ![i] = "stopped"]
  <2>1. task.rest \in SUBSET {"fill", "reap"}
    BY DEF PoolInv, PoolTypes, Tasks
  <2>2. CASE task' = [task EXCEPT !.op = "pause"] /\ UNCHANGED entry
    BY <2>2 DEF PoolInv, PoolTypes, Tasks, Ops
  <2>3. CASE task' = NextStage(task.rest) /\ entry' = [entry EXCEPT ![i] = "stopped"]
    BY <2>1, <2>3, NextStageIsIdle DEF AtRest
  <2> QED BY <1>3, <2>2, <2>3
<1>5. entry \in [Ids -> Entries] /\ entry' \in [Ids -> Entries]
  BY <1>4 DEF PoolInv, PoolTypes, Entries
<1>6. PoolTypes'
  BY <1>1, <1>2, <1>4, <1>5 DEF PoolInv, PoolTypes, OnlyBox
<1>7. EntryAgrees' /\ TodoAgrees' /\ PauseHolds'
  <2>1. CASE task'.op = "pause" /\ task'.id = i /\ UNCHANGED entry
    BY <1>1, <2>1 DEF EntryAgrees, TaskIn, TodoAgrees, PauseHolds
  <2> QED BY <1>4, <2>1, RestHolds
<1>8. i \notin games /\ \A j \in games : j \in Ids
  BY <1>1 DEF PoolInv, PoolTypes, GamesAreMarked
<1>9. GamesAreMarked'
  BY <1>1, <1>4, <1>5, <1>8 DEF PoolInv, GamesAreMarked
<1>10. entry'[i] # "parked" /\ \A j \in Ids : entry'[j] = "parked" => entry[j] = "parked"
  BY <1>1, <1>4, <1>5
<1>11. ParkedStandsStill'
  BY <1>1, <1>2, <1>10, StillParked DEF PoolInv
<1>12. ServersKept
  BY <1>1, <1>2, <1>8, OthersKept DEF PoolInv
<1> QED BY <1>6, <1>7, <1>9, <1>11, <1>12 DEF PoolInv

\* A reap begins with parked entries.
LEMMA BeginReapStep ==
  ASSUME PoolInv, NEW due \in SUBSET Parked, BeginReap(due) PROVE PoolInv' /\ ServersKept
<1>1. task.op = "reap" /\ UNCHANGED <<entry, marker, games>> /\ UNCHANGED boxVars
  BY DEF BeginReap, poolVars
<1>2. due \in SUBSET Ids
  BY DEF Parked
<1>3. task' \in Tasks /\ task'.op = "reaping" /\ task'.todo = due
  BY <1>2 DEF PoolInv, PoolTypes, BeginReap, Tasks, Ops
<1>4. PoolTypes'
  BY <1>1, <1>3 DEF PoolInv, PoolTypes, BoxTypes, boxVars
<1>5. EntryAgrees' /\ TodoAgrees' /\ PauseHolds'
  BY <1>1, <1>3 DEF EntryAgrees, TaskIn, TodoAgrees, PauseHolds, Parked
<1>6. GamesAreMarked'
  BY <1>1 DEF PoolInv, GamesAreMarked
<1>7. ParkedStandsStill'
  BY <1>1, StillStands DEF PoolInv
<1> QED BY <1>1, <1>4, <1>5, <1>6, <1>7, NoneLost DEF PoolInv

\* A reap removes a parked server, which no game has.
LEMMA ReapStep == ASSUME PoolInv, NEW i \in Ids, Reap(i) PROVE PoolInv' /\ ServersKept
<1>1. task.op = "reaping" /\ i \in task.todo /\ UNCHANGED games /\ entry[i] = "parked"
  BY DEF PoolInv, TodoAgrees, Parked, Reap
<1>2. i \notin games
  BY <1>1 DEF PoolInv, GamesAreMarked
<1>3. OnlyBox(i) /\ StaysStill(i)
  BY StopsOne DEF PoolInv, Reap
<1>4. /\ entry' = [entry EXCEPT ![i] = "stopped"] \/ UNCHANGED entry
      /\ marker' = marker \ {i} \/ UNCHANGED marker
      /\ entry \in [Ids -> Entries]
  BY DEF Reap, Becomes, PoolInv, PoolTypes
<1>5. task' \in Tasks /\ task'.op = "reaping" /\ task'.todo = task.todo \ {i}
  BY <1>1 DEF PoolInv, PoolTypes, Reap, Tasks
<1>6. PoolTypes'
  BY <1>1, <1>3, <1>4, <1>5 DEF PoolInv, PoolTypes, OnlyBox, Entries
<1>7. EntryAgrees' /\ PauseHolds'
  BY <1>5 DEF EntryAgrees, TaskIn, PauseHolds
<1>8. TodoAgrees'
  BY <1>1, <1>4, <1>5 DEF PoolInv, TodoAgrees, Parked
<1>9. GamesAreMarked'
  <2>1. \A j \in games : j # i /\ j \in Ids
    BY <1>2 DEF PoolInv, PoolTypes
  <2> QED BY <1>1, <1>4, <2>1 DEF PoolInv, GamesAreMarked
<1>10. ParkedStandsStill'
  BY <1>1, <1>3, <1>4, StillParked DEF PoolInv
<1>11. ServersKept
  BY <1>2, <1>3, OthersKept DEF PoolInv
<1> QED BY <1>6, <1>7, <1>8, <1>9, <1>10, <1>11 DEF PoolInv
-----------------------------------------------------------------------------
(* Around the service.                                                     *)

\* The wait after a failed warm-up ends; nothing else changes.
LEMMA WaitOverStep == ASSUME PoolInv, WaitOver PROVE PoolInv' /\ ServersKept
<1>1. UNCHANGED <<entry, marker, task, boxVars, games>>
  BY DEF WaitOver
<1> QED BY <1>1, NoneLost
     DEF PoolInv, PoolTypes, BoxTypes, EntryAgrees, TaskIn, TodoAgrees, PauseHolds, GamesAreMarked,
         ParkedStandsStill, Parked, boxVars

\* A box that dies or comes back, and a game that resumes its own.
LEMMA WorldStep ==
  ASSUME PoolInv, NEW i \in Ids, BoxDies(i) \/ BoxRestarts(i) \/ GameResumes(i)
  PROVE  PoolInv' /\ ServersKept
<1>1. UNCHANGED <<entry, marker, task, games>>
  BY DEF BoxDies, BoxRestarts, GameResumes, poolVars
<1>2. OnlyBox(i)
  <2>1. CASE BoxDies(i)
    BY <2>1 DEF PoolInv, PoolTypes, BoxTypes, BoxDies, OnlyBox
  <2>2. CASE BoxRestarts(i)
    BY <2>2 DEF PoolInv, PoolTypes, BoxTypes, BoxRestarts, OnlyBox
  <2>3. CASE GameResumes(i)
    BY <2>3 DEF PoolInv, PoolTypes, BoxTypes, GameResumes, SetMoving, OnlyBox
  <2> QED BY <2>1, <2>2, <2>3
<1>3. ~moving'[i] \/ i \in disturbed' \/ i \in games
  BY DEF BoxDies, BoxRestarts, GameResumes, PoolInv, PoolTypes, BoxTypes
<1>4. i \in games => entry[i] \in {"none", "claimed"}
  BY DEF PoolInv, GamesAreMarked
<1>5. PoolTypes'
  BY <1>1, <1>2 DEF PoolInv, PoolTypes, OnlyBox
<1>6. EntryAgrees' /\ TodoAgrees' /\ GamesAreMarked'
  BY <1>1 DEF PoolInv, EntryAgrees, TaskIn, TodoAgrees, GamesAreMarked, Parked
<1>7. PauseHolds'
  <2> SUFFICES ASSUME task.op = "park" PROVE ~moving'[task.id] \/ task.id \in disturbed'
    BY <1>1 DEF PauseHolds
  <2>1. task.id \in Ids /\ entry[task.id] \in {"recycling", "warming"}
    BY DEF PoolInv, EntryAgrees, TaskIn
  <2>2. ~moving[task.id] \/ task.id \in disturbed
    BY DEF PoolInv, PauseHolds
  <2> QED BY <1>2, <1>3, <1>4, <2>1, <2>2 DEF OnlyBox
<1>8. ParkedStandsStill'
  <2> SUFFICES ASSUME NEW j \in Ids, entry[j] = "parked", j \notin disturbed', moving'[j]
               PROVE  task.op = "take" /\ task.id = j
    BY <1>1 DEF ParkedStandsStill, Parked
  <2>1. j # i
    BY <1>3, <1>4
  <2> QED BY <1>2, <2>1 DEF OnlyBox, PoolInv, ParkedStandsStill, Parked
<1>9. ServersKept
  <2> SUFFICES ASSUME NEW j \in games
               PROVE  /\ box[j] # "none" => box'[j] # "none"
                      /\ moving[j] /\ box'[j] = "running" => moving'[j]
    BY DEF ServersKept
  <2>1. CASE j # i
    BY <1>2, <2>1 DEF PoolInv, PoolTypes, OnlyBox
  <2>2. CASE j = i
    BY <2>2 DEF BoxDies, BoxRestarts, GameResumes, SetMoving, PoolInv, PoolTypes, BoxTypes
  <2> QED BY <2>1, <2>2
<1> QED BY <1>5, <1>6, <1>7, <1>8, <1>9 DEF PoolInv

\* A restart forgets the entries; the markers are files.
LEMMA CrashStep == ASSUME PoolInv, Crash PROVE PoolInv' /\ ServersKept
<1>1. UNCHANGED <<marker, games>> /\ UNCHANGED boxVars /\ entry' = [i \in Ids |-> "none"]
  BY DEF Crash
<1>2. task' \in Tasks /\ task'.op = "reconcile"
  BY DEF Crash, Boot, Idle, Tasks, Ops
<1>3. PoolTypes'
  BY <1>1, <1>2 DEF PoolInv, PoolTypes, BoxTypes, boxVars, Entries
<1>4. EntryAgrees' /\ TodoAgrees' /\ PauseHolds'
  BY <1>2, RestHolds DEF AtRest
<1>5. GamesAreMarked' /\ ParkedStandsStill'
  BY <1>1 DEF PoolInv, PoolTypes, GamesAreMarked, ParkedStandsStill, Parked
<1> QED BY <1>1, <1>3, <1>4, <1>5, NoneLost DEF PoolInv

-----------------------------------------------------------------------------
(* The theorems.                                                           *)

\* Every step keeps the invariant and the servers of the games.
LEMMA PoolInvStays == ASSUME PoolInv, [Next]_vars PROVE PoolInv' /\ ServersKept
<1>1. CASE TaskStep
  <2>1. CASE Resume \/ Take \/ Reset \/ Pause \/ Park \/ Retire
    BY <2>1, ResumeStep, TakeStep, ResetStep, PauseStep, ParkStep, RetireStep
  <2>2. CASE Discover \/ Swept \/ Filled \/ Start \/ Undo \/ Reaped
    BY <2>2, DiscoverStep, StageEnds, WarmUpGoesOn
  <2>3. CASE \E due \in SUBSET Parked : BeginReap(due)
    BY <2>3, BeginReapStep
  <2>4. CASE \E i \in Ids : Sweep(i) \/ WarmUp(i) \/ Reap(i)
    BY <2>4, SweepStep, WarmUpStep, ReapStep
  <2> QED BY <1>1, <2>1, <2>2, <2>3, <2>4 DEF TaskStep
<1>2. CASE \E i \in Ids, b \in BOOLEAN : Claim(i, b) \/ Recycle(i, b)
  BY <1>2, ClaimStep, RecycleStep
<1>3. CASE \E stages \in Stages : Maintain(stages)
  BY <1>3, MaintainStep
<1>4. CASE WaitOver \/ Crash
  BY <1>4, WaitOverStep, CrashStep
<1>5. CASE \E i \in Ids : BoxDies(i) \/ BoxRestarts(i) \/ GameResumes(i)
  BY <1>5, WorldStep
<1>6. CASE UNCHANGED vars
  <2>1. UNCHANGED <<entry, marker, task, boxVars, games>>
    BY <1>6 DEF vars, poolVars
  <2> QED BY <2>1, NoneLost
       DEF PoolInv, PoolTypes, BoxTypes, EntryAgrees, TaskIn, TodoAgrees, PauseHolds, GamesAreMarked,
           ParkedStandsStill, Parked, boxVars
<1> QED BY <1>1, <1>2, <1>3, <1>4, <1>5, <1>6 DEF Next

\* The invariant holds of every reachable state of the pool (parked_pool.py), for
\* any number of instances, crashes and failed calls.
THEOREM PoolInvAlways == Spec => []PoolInv
<1>1. PoolInv /\ [Next]_vars => PoolInv'
  BY PoolInvStays
<1> QED BY PoolInvHoldsAtFirst, <1>1, PTL DEF Spec

\* One server, one game: whatever crashes, failed calls and restarts of docker
\* come, what a game was given is marked and not parked for the next claim, and
\* a parked world stands still (parked_pool.py: claim, recycle, reconcile, reap).
THEOREM HandedOnceAlways == Spec => []ServersAreHandedOnce
<1>1. PoolInv => ServersAreHandedOnce
  BY DEF PoolInv, ServersAreHandedOnce
<1> QED BY PoolInvAlways, <1>1, PTL

\* No step of the pool removes the server of a game that goes on, or pauses it.
THEOREM ServersKeptAlways == Spec => GamesKeepServers
<1>1. PoolInv /\ [Next]_vars => ServersKept
  BY PoolInvStays
<1> QED BY PoolInvAlways, <1>1, PTL DEF Spec, GamesKeepServers

-----------------------------------------------------------------------------
(* The capsule on the pool (CapsuleFlow).                                  *)

\* The pool's operation is a recycle, which only the capsule asks for.
Recycles == task.op \in {"reset", "retire"} \/ (task.op \in {"pause", "park"} /\ entry[task.id] = "recycling")
NoOtherClient == task.op \notin {"resume", "take", "retire"}

\* The only server that is held is i, which stands still unless docker, auto or a
\* failed call set it moving.
Holds(i) == i \in Ids /\ marker = {i} /\ entry[i] \in {"claimed", "recycling"}
Stands(i) == i \in disturbed \/ ~moving[i]

\* What there is while nobody asks, and while thread t does.
CapSteps == {"idle", "claim", "opened", "resume", "cycle", "repause", "recycle", "recycling", "recycled", "failed"}
CapPhases == {"idle", "parked", "claimed", "warmup", "recycling"}
CapTypes ==
  /\ cap \in [no : Nat, phase : CapPhases, id : Ids \cup {0}]
  /\ capCall \in [CapThreads -> [at : CapSteps, no : Nat, id : Ids \cup {0}, previous : CapPhases]]
OneAsks == \A t, u \in CapThreads : At(t, "idle") \/ At(u, "idle") \/ t = u
Resting ==
  /\ ~Recycles
  /\ IF cap.phase \in Active THEN Holds(cap.id) /\ (cap.phase = "claimed" => Stands(cap.id))
     ELSE cap.phase \in {"idle", "parked"} /\ marker = {}
Asks(t) ==
  LET call == capCall[t] IN
  /\ Recycles <=> At(t, "recycling")
  /\ At(t, "claim") => cap.phase \in {"idle", "parked"} /\ marker = {}
  /\ At(t, "opened") => cap.phase \in {"idle", "parked"} /\ Holds(call.id) /\ Stands(call.id)
  /\ Between(t) => /\ cap.phase = "claimed" /\ call.no = cap.no /\ call.id = cap.id /\ Holds(cap.id)
                   /\ At(t, "resume") => Stands(cap.id)
  /\ call.at \in {"recycle", "recycling", "recycled", "failed"} =>
       cap.phase = "recycling" /\ call.no = cap.no /\ call.id = cap.id /\ call.previous \in Active
  /\ call.at \in {"recycle", "recycling", "failed"} =>
       Holds(cap.id) /\ (call.previous = "claimed" => Stands(cap.id))
  /\ At(t, "recycling") => task.id = cap.id /\ task.keep /\ entry[cap.id] = "recycling"
  /\ At(t, "recycled") => marker = {}
QuietInv ==
  /\ PoolInv /\ NoOtherClient /\ OneAsks
  /\ (\A t \in CapThreads : At(t, "idle")) => Resting
  /\ \A t \in CapThreads : ~At(t, "idle") => Asks(t)
CapInv == CapTypes /\ (~slip => QuietInv)

-----------------------------------------------------------------------------
(* The pool's own steps.                                                   *)

HeldStay == marker' = marker /\ \A j \in marker : entry'[j] = entry[j] /\ (Stands(j) => Stands(j)')

\* What happens to one box is nothing to the others.
LEMMA OthersStand ==
  ASSUME NEW i \in Ids, OnlyBox(i), NEW j \in Ids \ {i}, Stands(j) PROVE Stands(j)'
  BY DEF OnlyBox, Stands

LEMMA AllStand == ASSUME UNCHANGED boxVars, NEW j, Stands(j) PROVE Stands(j)'
  BY DEF boxVars, Stands

\* Between the stages of a maintenance there is no recycle.
LEMMA NoRecycle ==
  ASSUME task'.op \in {"idle", "reconcile", "fill", "reap", "sweep", "reaping", "start", "undo"}
  PROVE  ~Recycles' /\ NoOtherClient'
  BY DEF Recycles, NoOtherClient

\* Docker, and the end of a wait, touch neither entries nor markers; a server that
\* dies stands still, one that docker restarts is disturbed.
LEMMA WorldKeeps ==
  ASSUME PoolInv, WaitOver \/ \E i \in Ids : BoxDies(i) \/ BoxRestarts(i)
  PROVE  UNCHANGED <<entry, marker, task>> /\ \A j \in Ids : Stands(j) => Stands(j)'
<1>1. CASE WaitOver
  BY <1>1, AllStand DEF WaitOver
<1>2. ASSUME NEW i \in Ids, BoxDies(i), NEW j \in Ids, Stands(j) PROVE Stands(j)'
  BY <1>2 DEF BoxDies, Stands, PoolInv, PoolTypes, BoxTypes
<1>3. ASSUME NEW i \in Ids, BoxRestarts(i), NEW j \in Ids, Stands(j) PROVE Stands(j)'
  BY <1>3 DEF BoxRestarts, Stands, PoolInv, PoolTypes, BoxTypes
<1> QED BY <1>1, <1>2, <1>3 DEF BoxDies, BoxRestarts, poolVars

\* No maintenance touches a server that is held, and none becomes a recycle.
LEMMA OthersHold ==
  ASSUME PoolInv, NoOtherClient, ~Recycles, TaskStep, \A j \in marker : entry[j] \in {"claimed", "recycling"}
  PROVE  HeldStay /\ ~Recycles' /\ NoOtherClient'
<1>0. PICK i : i = task.id
  OBVIOUS
<1>1. /\ task.op \notin {"resume", "take", "reset", "retire"}
      /\ task.op \in {"pause", "park", "start", "undo"} => i \in Ids /\ entry[i] = "warming" /\ i \notin marker
      /\ marker \subseteq Ids /\ entry \in [Ids -> Entries] /\ task.rest \in SUBSET {"fill", "reap"} /\ PoolTypes
  BY <1>0 DEF PoolInv, EntryAgrees, TaskIn, NoOtherClient, Recycles, PoolTypes, Tasks
<1>2. CASE Pause
  <2>1. task.op = "pause" /\ UNCHANGED <<entry, marker>>
    BY <1>2 DEF Pause, poolVars
  <2>2. OnlyBox(i)
    <3>1. \/ SetMoving(i, FALSE) /\ disturbed' = disturbed \ {i}
          \/ UNCHANGED boxVars
      BY <1>0, <1>2 DEF Pause, BridgeFails
    <3> QED BY <3>1, <1>1, <2>1 DEF OnlyBox, SetMoving, boxVars, PoolTypes, BoxTypes
  <2>3. task' = [task EXCEPT !.op = "park"] \/ task' = [task EXCEPT !.op = "undo"]
    BY <1>0, <1>1, <1>2, <2>1 DEF Pause, PauseFailed
  <2>4. ~Recycles' /\ NoOtherClient'
    BY <1>0, <1>1, <2>1, <2>3 DEF Recycles, NoOtherClient, PoolTypes, Tasks
  <2> QED BY <1>1, <2>1, <2>2, <2>4, OthersStand DEF HeldStay
<1>3. CASE Park
  <2>1. task.op = "park" /\ entry' = [entry EXCEPT ![i] = "parked"] /\ marker' = marker \ {i} /\ UNCHANGED boxVars
    BY <1>0, <1>3 DEF Park, Becomes
  <2>2. task'.op = "fill"
    BY <1>0, <1>1, <1>3, <2>1 DEF Park, PoolTypes, Tasks
  <2> QED BY <1>1, <2>1, <2>2, AllStand, NoRecycle DEF HeldStay
<1>4. CASE Discover
  <2>1. UNCHANGED <<marker, boxVars>> /\ \A j \in marker : entry'[j] = entry[j]
    <3>1. UNCHANGED marker /\ UNCHANGED boxVars /\ (UNCHANGED entry \/ Evict(Stale))
      BY <1>4 DEF Discover
    <3>2. Stale \cap marker = {}
      BY DEF Stale, Unclaimed
    <3>3. Evict(Stale) => \A j \in marker : entry'[j] = entry[j]
      BY <1>1, <3>2 DEF Evict
    <3> QED BY <3>1, <3>3
  <2>2. task'.op \in {"sweep", "idle", "fill", "reap"}
    BY <1>1, <1>4, NextStageIsIdle DEF Discover, PoolTypes, Tasks
  <2> QED BY <2>1, <2>2, AllStand, NoRecycle DEF HeldStay
<1>5. CASE Swept \/ Filled \/ Reaped \/ \E due \in SUBSET Parked : BeginReap(due)
  <2>1. UNCHANGED <<entry, marker, boxVars>>
    BY <1>5 DEF Swept, Filled, Reaped, BeginReap, poolVars
  <2>2. task'.op \in {"idle", "fill", "reap", "reaping"}
    BY <1>1, <1>5, IdleIsATask, NextStageIsIdle DEF Swept, Filled, Reaped, BeginReap, PoolTypes, Tasks
  <2> QED BY <2>1, <2>2, AllStand, NoRecycle DEF HeldStay
<1>6. CASE Start \/ Undo
  <2>1. task.op \in {"start", "undo"} /\ marker' = marker /\ \A j \in Ids \ {i} : entry'[j] = entry[j]
    BY <1>0, <1>1, <1>6 DEF Start, Undo, WarmUpFailed, Becomes, poolVars
  <2>2. OnlyBox(i)
    <3>1. CASE Start
      BY <1>0, <1>1, <2>1, <3>1, StartsOne DEF Start
    <3>2. CASE Undo
      BY <1>0, <1>1, <2>1, <3>2, StopsOne DEF Undo
    <3> QED BY <1>6, <3>1, <3>2
  <2>3. \/ task' = [task EXCEPT !.op = "pause"] /\ entry' = entry
        \/ task'.op \in {"idle", "fill", "reap"}
    BY <1>1, <1>6, NextStageIsIdle DEF Start, Undo, WarmUpFailed, PoolTypes, Tasks, poolVars
  <2>4. ~Recycles' /\ NoOtherClient'
    BY <1>0, <1>1, <2>1, <2>3 DEF Recycles, NoOtherClient, PoolTypes, Tasks
  <2> QED BY <1>1, <2>1, <2>2, <2>4, OthersStand DEF HeldStay
<1>7. ASSUME NEW k \in Ids, Sweep(k) \/ WarmUp(k) \/ Reap(k) PROVE HeldStay /\ ~Recycles' /\ NoOtherClient'
  <2>1. k \notin marker
    BY <1>1, <1>7 DEF PoolInv, TodoAgrees, Sweep, WarmUp, Reap, NextIds, IdFree, Parked
  <2>2. marker' = marker /\ \A j \in Ids \ {k} : entry'[j] = entry[j]
    BY <1>1, <1>7, <2>1 DEF Sweep, WarmUp, Reap, Becomes, poolVars
  <2>3. OnlyBox(k)
    <3>1. CASE WarmUp(k)
      BY <1>1, <3>1 DEF WarmUp, boxVars, OnlyBox, PoolTypes, BoxTypes
    <3>2. CASE Sweep(k) \/ Reap(k)
      BY <1>1, <3>2, StopsOne DEF Sweep, Reap
    <3> QED BY <1>7, <3>1, <3>2
  <2>4. task'.op \in {"sweep", "start", "reaping"}
    BY <1>1, <1>7 DEF Sweep, WarmUp, Reap, PoolTypes, Tasks
  <2> QED BY <1>1, <2>1, <2>2, <2>3, <2>4, OthersStand, NoRecycle DEF HeldStay
<1>8. ~(Resume \/ Take \/ Reset \/ Retire)
  BY <1>1 DEF Resume, Take, Reset, Retire
<1> QED BY <1>2, <1>3, <1>4, <1>5, <1>6, <1>7, <1>8 DEF TaskStep

\* A recycle goes on, gives up and leaves the server held, or parks it.
LEMMA RecycleGoesOn ==
  ASSUME PoolInv, NoOtherClient, Recycles, task.keep, entry[task.id] = "recycling", marker = {task.id}, TaskStep
  PROVE  \/ /\ Recycles' /\ NoOtherClient' /\ task'.id = task.id /\ task'.keep /\ task' # Idle
            /\ HeldStay /\ UNCHANGED entry
         \/ task' = Idle /\ HeldStay /\ UNCHANGED entry
         \/ task' = Idle /\ marker' = {} /\ entry'[task.id] = "parked"
<1>0. PICK i : i = task.id
  OBVIOUS
<1>1. /\ task.op \in {"reset", "pause", "park"} /\ i \in Ids /\ PoolTypes
  BY <1>0 DEF PoolInv, EntryAgrees, TaskIn, NoOtherClient, Recycles
<1>2. CASE Reset
  <2>1. UNCHANGED <<entry, marker, moving, disturbed>> /\ task.op = "reset"
    BY <1>2 DEF Reset, RoundReset, BridgeFails, boxVars, poolVars
  <2>2. HeldStay
    BY <2>1 DEF HeldStay, Stands
  <2>3. task' = [task EXCEPT !.op = "pause"] \/ task' = Idle
    BY <1>2 DEF Reset, AfterReset
  <2> QED BY <1>1, <2>1, <2>2, <2>3 DEF PoolTypes, Tasks, Recycles, NoOtherClient, Idle
<1>3. CASE Pause
  <2>1. UNCHANGED <<entry, marker>> /\ task.op = "pause"
    BY <1>3 DEF Pause, poolVars
  <2>2. HeldStay
    <3>1. SetMoving(i, FALSE) \/ UNCHANGED boxVars
      BY <1>0, <1>3 DEF Pause, BridgeFails
    <3>2. Stands(i) => Stands(i)'
      BY <1>1, <3>1, AllStand DEF SetMoving, Stands, PoolTypes, BoxTypes
    <3> QED BY <1>0, <2>1, <3>2 DEF HeldStay
  <2>3. task' = [task EXCEPT !.op = "park"] \/ task' = Idle
    BY <1>3 DEF Pause, PauseFailed
  <2> QED BY <1>1, <2>1, <2>2, <2>3 DEF PoolTypes, Tasks, Recycles, NoOtherClient, Idle
<1>4. CASE Park
  BY <1>0, <1>1, <1>4 DEF Park, Becomes, PoolTypes
<1>5. ~(Resume \/ Take \/ Retire \/ Discover \/ Swept \/ Filled \/ Start \/ Undo \/ Reaped
        \/ (\E due \in SUBSET Parked : BeginReap(due)) \/ \E k \in Ids : Sweep(k) \/ WarmUp(k) \/ Reap(k))
  BY <1>1 DEF Resume, Take, Retire, Discover, Swept, Filled, Start, Undo, Reaped, BeginReap, Sweep, WarmUp, Reap
<1> QED BY <1>2, <1>3, <1>4, <1>5 DEF TaskStep

-----------------------------------------------------------------------------
(* The capsule's steps.                                                    *)

\* The capsule keeps its types.
LEMMA CapTypesStay == ASSUME CapTypes, [FlowNext]_flowVars PROVE CapTypes'
<1> DEFINE Caps == [no : Nat, phase : CapPhases, id : Ids \cup {0}]
           Calls == [at : CapSteps, no : Nat, id : Ids \cup {0}, previous : CapPhases]
<1>1. cap \in Caps /\ capCall \in [CapThreads -> Calls]  /\ NoRequest \in Calls
  BY DEF CapTypes, NoRequest, CapSteps, CapPhases
<1>2. ASSUME NEW t \in CapThreads, NEW call \in Calls, Goes(t, call) PROVE capCall' \in [CapThreads -> Calls]
  BY <1>1, <1>2 DEF Goes
<1>3. ASSUME NEW t \in CapThreads, NEW phase \in CapPhases, SetPhase(t, phase) PROVE cap' \in Caps
  BY <1>1, <1>3 DEF SetPhase
<1>4. /\ \A t \in CapThreads, step \in CapSteps : [capCall[t] EXCEPT !.at = step] \in Calls
      /\ \A t \in CapThreads, step \in CapSteps, i \in Ids \cup {0} : [capCall[t] EXCEPT !.at = step, !.id = i] \in Calls
  BY <1>1
<1>10. [NoCapsule EXCEPT !.no = cap.no] \in Caps
  BY <1>1 DEF NoCapsule, CapPhases
<1>5. ASSUME NEW t \in CapThreads, CapStep(t) PROVE cap' \in Caps /\ capCall' \in [CapThreads -> Calls]
  <2>1. capCall[t].previous \in CapPhases /\ cap.no \in Nat /\ cap.id \in Ids \cup {0} /\ cap.phase \in CapPhases
        /\ capCall[t].id \in Ids \cup {0}
    BY <1>1 DEF Caps, Calls
  <2>2. /\ {"idle", "claim", "opened", "resume", "cycle", "repause", "recycle", "recycling"} \subseteq CapSteps
        /\ {"claimed", "warmup", "recycling", "parked"} \subseteq CapPhases
    BY DEF CapSteps, CapPhases
  <2>3. CASE Open(t)
    <3>1. [NoRequest EXCEPT !.at = "claim"] \in Calls
      BY <1>1, <2>2 DEF Calls
    <3> QED BY <1>1, <1>2, <2>3, <3>1 DEF Open, Ask
  <2>4. CASE Ready(t) \/ Finish(t)
    <3>1. /\ [at |-> "resume", no |-> cap.no, id |-> cap.id, previous |-> "claimed"] \in Calls
          /\ [at |-> "recycle", no |-> cap.no, id |-> cap.id, previous |-> cap.phase] \in Calls
          /\ [cap EXCEPT !.phase = "recycling"] \in Caps
      BY <1>1, <2>1, <2>2 DEF Calls, Caps
    <3> QED BY <1>1, <1>2, <2>4, <3>1 DEF Ready, Finish, Ask
  <2>5. CASE HandBack(t)
    BY <1>1, <1>2, <2>5 DEF HandBack, Ask
  <2>6. CASE (\E i \in Ids : ClaimPaused(t, i)) \/ ClaimRefused(t)
    <3>1. ASSUME NEW i \in Ids, ClaimPaused(t, i) PROVE Goes(t, [capCall[t] EXCEPT !.at = "opened", !.id = i]) \/ Goes(t, NoRequest)
      BY <3>1 DEF ClaimPaused, Ends
    <3>2. ASSUME NEW i \in Ids, ClaimPaused(t, i) PROVE capCall' \in [CapThreads -> Calls]
      <4>1. [capCall[t] EXCEPT !.at = "opened", !.id = i] \in Calls
        BY <1>4, <2>2
      <4> QED BY <1>1, <1>2, <3>1, <3>2, <4>1
    <3>3. ASSUME ClaimRefused(t) PROVE capCall' \in [CapThreads -> Calls]
      BY <1>1, <1>2, <3>3 DEF ClaimRefused, Ends
    <3> QED BY <1>1, <2>6, <3>2, <3>3 DEF ClaimPaused, ClaimRefused
  <2>10. CASE ResumeWorld(t) \/ Repause(t)
    BY <1>1, <1>2, <1>4, <2>2, <2>10 DEF ResumeWorld, Repause, Ends
  <2>7. CASE Opened(t)
    <3>1. [no |-> cap.no + 1, phase |-> "claimed", id |-> capCall[t].id] \in Caps
      BY <2>1, <2>2 DEF Caps
    <3> QED BY <1>1, <1>2, <2>7, <3>1 DEF Opened, Ends
  <2>8. CASE StartCycle(t) \/ AskRecycle(t)
    BY <1>1, <1>2, <1>3, <1>4, <2>1, <2>2, <2>8 DEF StartCycle, AskRecycle, PauseAgain, Ends
  <2>9. CASE Finished(t) \/ TimesOut(t)
    <3>1. PhaseAfter(t) \in CapPhases
      BY <2>1, <2>2 DEF PhaseAfter
    <3> QED BY <1>1, <1>2, <1>3, <2>1, <2>9, <3>1 DEF Finished, TimesOut, Ends
  <2> QED BY <1>5, <2>3, <2>4, <2>5, <2>6, <2>7, <2>8, <2>9, <2>10 DEF CapStep, CapThreadStep
<1> HIDE DEF Caps, Calls
<1>6. ASSUME PoolStep \/ PoolDies PROVE cap' \in Caps /\ capCall' \in [CapThreads -> Calls]
  <2>1. cap' = cap
    BY <1>1, <1>6 DEF PoolStep, PoolDies
  <2>2. {"recycled", "failed"} \subseteq CapSteps
    BY DEF CapSteps
  <2>3. \A t \in CapThreads : capCall[t] \in Calls /\ [capCall[t] EXCEPT !.at = "recycled"] \in Calls
                               /\ [capCall[t] EXCEPT !.at = "failed"] \in Calls
    BY <1>1, <1>4, <2>2
  <2>4. CASE PoolStep
    <3>1. \A t \in CapThreads : capCall'[t] \in Calls
      BY <2>3, <2>4 DEF PoolStep
    <3>2. capCall' = [t \in CapThreads |-> capCall'[t]]
      BY <2>4 DEF PoolStep
    <3> QED BY <2>1, <3>1, <3>2, <1>1
  <2>5. CASE PoolDies
    BY <1>1, <2>1, <2>3, <2>5 DEF PoolDies
  <2> QED BY <1>6, <2>4, <2>5
<1>7. ASSUME CapsuleDies PROVE cap' \in Caps /\ capCall' \in [CapThreads -> Calls]
  BY <1>1, <1>7, <1>10 DEF CapsuleDies
<1>8. ASSUME UNCHANGED capVars PROVE cap' \in Caps /\ capCall' \in [CapThreads -> Calls]
  BY <1>1, <1>8 DEF capVars
<1>9. cap' \in Caps /\ capCall' \in [CapThreads -> Calls]
  BY <1>5, <1>6, <1>7, <1>8 DEF FlowNext, PoolMoves, flowVars
<1> QED BY <1>9 DEF CapTypes, Caps, Calls

\* While one asks the others do not.
LEMMA OthersIdle ==
  ASSUME QuietInv, NEW t \in CapThreads, ~At(t, "idle"), NEW u \in CapThreads \ {t} PROVE At(u, "idle")
  BY DEF QuietInv, OneAsks

\* What a step of the one that asks has to show.
LEMMA OneGoes ==
  ASSUME CapTypes, NEW t \in CapThreads, NEW call, Goes(t, call), \A u \in CapThreads \ {t} : At(u, "idle"),
         PoolInv', NoOtherClient', call.at = "idle" => Resting', call.at # "idle" => Asks(t)'
  PROVE  QuietInv'
<1>1. capCall'[t] = call /\ \A u \in CapThreads \ {t} : At(u, "idle")'
  BY DEF CapTypes, Goes, At
<1> QED BY <1>1 DEF QuietInv, OneAsks, At

\* A request that begins without a slip begins when nobody asks.
LEMMA AskAlone ==
  ASSUME NEW t \in CapThreads, NEW call, Ask(t, call), ~slip' PROVE \A u \in CapThreads : At(u, "idle")
  BY DEF Ask

\* A call to the bridge of a held world is nothing to the pool.
LEMMA BridgeKeepsPool ==
  ASSUME PoolInv, NoOtherClient, ~Recycles, NEW i \in Ids, entry[i] \in {"claimed", "recycling"}, OnlyBox(i),
         UNCHANGED <<entry, marker, task, games>>
  PROVE  PoolInv' /\ NoOtherClient' /\ ~Recycles'
<1>1. PoolTypes' /\ EntryAgrees' /\ TodoAgrees' /\ GamesAreMarked'
  BY DEF PoolInv, PoolTypes, OnlyBox, EntryAgrees, TaskIn, TodoAgrees, Parked, GamesAreMarked
<1>2. PauseHolds'
  <2>1. task.op = "park" => task.id \in Ids /\ task.id # i
    BY DEF PoolInv, EntryAgrees, TaskIn, Recycles
  <2> QED BY <2>1 DEF PoolInv, PauseHolds, OnlyBox
<1>3. ParkedStandsStill'
  BY DEF PoolInv, ParkedStandsStill, Parked, OnlyBox
<1> QED BY <1>1, <1>2, <1>3 DEF PoolInv, NoOtherClient, Recycles

\* A step of the capsule alone is nothing to the pool.
LEMMA PoolUntouched ==
  ASSUME PoolInv, NoOtherClient, UNCHANGED <<poolVars, marker, task, boxVars, games>>
  PROVE  /\ PoolInv' /\ NoOtherClient' /\ (Recycles' <=> Recycles) /\ marker' = marker /\ UNCHANGED <<entry, task>>
         /\ \A i : (Holds(i) => Holds(i)') /\ (Stands(i) => Stands(i)')
<1>1. UNCHANGED <<entry, marker, task, boxVars, games>>
  BY DEF poolVars
<1>2. PoolInv'
  BY <1>1 DEF PoolInv, PoolTypes, BoxTypes, EntryAgrees, TaskIn, TodoAgrees, PauseHolds, GamesAreMarked,
      ParkedStandsStill, Parked, boxVars
<1> QED BY <1>1, <1>2, AllStand DEF NoOtherClient, Recycles, Holds

\* open: nobody asks and nothing is held.
LEMMA OpenStep ==
  ASSUME CapTypes, QuietInv, NEW t \in CapThreads, Open(t), ~slip, ~slip' PROVE QuietInv'
<1> DEFINE call == [NoRequest EXCEPT !.at = "claim"]
<1>1. call.at = "claim" /\ Ask(t, call) /\ cap' = cap /\ cap.phase \in {"idle", "parked"} /\ UNCHANGED vars
  BY DEF Open, NoRequest, PoolStays
<1> HIDE DEF call
<1>2. Goes(t, call) /\ \A u \in CapThreads : At(u, "idle")
  BY <1>1, AskAlone DEF Ask
<1>3. Resting
  BY <1>2 DEF QuietInv
<1>4. PoolInv' /\ NoOtherClient' /\ ~Recycles' /\ marker' = marker
  BY <1>1, <1>3, PoolUntouched DEF QuietInv, Resting, vars
<1>5. capCall'[t] = call
  BY <1>2 DEF CapTypes, Goes
<1>6. Asks(t)'
  BY <1>1, <1>3, <1>4, <1>5 DEF Asks, At, Between, Resting, Active
<1> QED BY <1>1, <1>2, <1>4, <1>6, OneGoes

\* The pool hands out a parked server.
LEMMA ClaimPausedStep ==
  ASSUME CapTypes, QuietInv, NEW t \in CapThreads, NEW i \in Ids, ClaimPaused(t, i), ~slip, ~slip' PROVE QuietInv'
<1> DEFINE call == [capCall[t] EXCEPT !.at = "opened", !.id = i]
<1>1. /\ At(t, "claim") /\ task.op = "idle" /\ entry[i] = "parked" /\ Goes(t, call)
      /\ entry' = [entry EXCEPT ![i] = "claimed"] /\ marker' = marker \union {i} /\ games' = games \union {i}
      /\ UNCHANGED <<task, boxVars, cap>>
  BY DEF ClaimPaused, Free, Idle, Becomes
<1>2. call.at = "opened" /\ call.id = i /\ capCall'[t] = call
  BY <1>1 DEF CapTypes, Goes
<1> HIDE DEF call
<1>3. cap.phase \in {"idle", "parked"} /\ marker = {} /\ ~Recycles
  BY <1>1 DEF QuietInv, Asks, At
<1>4. PoolTypes
  BY DEF QuietInv, PoolInv
<1>5. PoolInv'
  <2>1. PoolTypes'
    BY <1>1, <1>4 DEF PoolTypes, BoxTypes, boxVars, Entries
  <2>2. EntryAgrees' /\ TodoAgrees' /\ PauseHolds'
    BY <1>1 DEF EntryAgrees, TaskIn, TodoAgrees, PauseHolds
  <2>3. GamesAreMarked'
    BY <1>1, <1>4 DEF QuietInv, PoolInv, GamesAreMarked, PoolTypes
  <2>4. ParkedStandsStill'
    BY <1>1, <1>4 DEF QuietInv, PoolInv, ParkedStandsStill, Parked, PoolTypes, boxVars
  <2> QED BY <2>1, <2>2, <2>3, <2>4 DEF PoolInv
<1>6. NoOtherClient' /\ ~Recycles'
  BY <1>1, NoRecycle
<1>7. Holds(i)'
  BY <1>1, <1>3, <1>4 DEF Holds, PoolTypes
<1>8. Stands(i)'
  <2>1. Stands(i)
    BY <1>1 DEF QuietInv, PoolInv, ParkedStandsStill, Parked, Stands
  <2> QED BY <1>1, <2>1, AllStand
<1>9. Asks(t)'
  BY <1>1, <1>2, <1>3, <1>6, <1>7, <1>8 DEF Asks, At, Between
<1>10. \A u \in CapThreads \ {t} : At(u, "idle")
  BY <1>1, OthersIdle DEF At
<1> QED BY <1>1, <1>2, <1>5, <1>6, <1>9, <1>10, OneGoes

\* The claim finds none, or its answer makes a capsule.
LEMMA ClaimedStep ==
  ASSUME CapTypes, QuietInv, NEW t \in CapThreads, ClaimRefused(t) \/ Opened(t), ~slip, ~slip' PROVE QuietInv'
<1>1. /\ At(t, "claim") \/ (At(t, "opened") /\ Goes(t, NoRequest) /\ UNCHANGED vars)
      /\ ~At(t, "idle") /\ ~Between(t) /\ Asks(t) /\ PoolInv /\ NoOtherClient
  BY DEF ClaimRefused, Opened, Ends, PoolStays, At, QuietInv, Between
<1>2. Goes(t, NoRequest) /\ NoRequest.at = "idle" /\ UNCHANGED vars
  BY DEF ClaimRefused, Opened, Ends, PoolStays, NoRequest
<1>3. /\ PoolInv' /\ NoOtherClient' /\ (Recycles' <=> Recycles) /\ marker' = marker
      /\ \A i : (Holds(i) => Holds(i)') /\ (Stands(i) => Stands(i)')
  BY <1>1, <1>2, PoolUntouched DEF vars
<1>4. ~Recycles
  BY <1>1 DEF Asks, At
<1>5. Resting'
  <2>1. CASE ClaimRefused(t)
    <3>1. cap' = cap /\ cap.phase \in {"idle", "parked"} /\ marker = {}
      BY <1>1, <2>1 DEF ClaimRefused, Asks
    <3> QED BY <1>3, <1>4, <3>1 DEF Resting, Active
  <2>2. CASE Opened(t)
    <3>1. cap'.phase = "claimed" /\ cap'.id = capCall[t].id /\ Holds(capCall[t].id) /\ Stands(capCall[t].id)
      BY <1>1, <2>2 DEF Opened, Asks
    <3>2. PICK i : i = capCall[t].id
      OBVIOUS
    <3>3. cap'.id = i /\ Holds(i)' /\ Stands(i)'
      BY <1>3, <3>1, <3>2
    <3>4. Holds(cap.id)' /\ Stands(cap.id)'
      BY <3>3 DEF Holds, Stands
    <3> QED BY <1>3, <1>4, <3>1, <3>4 DEF Resting, Active
  <2> QED BY <2>1, <2>2
<1>6. \A u \in CapThreads \ {t} : At(u, "idle")
  BY <1>1, OthersIdle
<1> QED BY <1>2, <1>3, <1>5, <1>6, OneGoes

\* ready and finish begin with a server that is held, auto leaves it disturbed.
LEMMA BeginStep ==
  ASSUME CapTypes, QuietInv, NEW t \in CapThreads, Ready(t) \/ Finish(t), ~slip, ~slip' PROVE QuietInv'
<1> DEFINE readies == [at |-> "resume", no |-> cap.no, id |-> cap.id, previous |-> "claimed"]
           finishes == [at |-> "recycle", no |-> cap.no, id |-> cap.id, previous |-> cap.phase]
<1>1. PICK call \in {readies, finishes} :
        /\ Ask(t, call) /\ cap.phase \in Active /\ UNCHANGED vars
        /\ \/ call = readies /\ cap.phase = "claimed" /\ cap' = cap
           \/ call = finishes /\ cap' = [cap EXCEPT !.phase = "recycling"]
  BY DEF Ready, Finish, Active, PoolStays
<1>2. Goes(t, call) /\ capCall'[t] = call /\ \A u \in CapThreads : At(u, "idle")
  BY <1>1, AskAlone DEF Ask, Goes, CapTypes
<1>3. ~Recycles /\ Holds(cap.id) /\ (cap.phase = "claimed" => Stands(cap.id)) /\ PoolInv /\ NoOtherClient
  BY <1>1, <1>2 DEF QuietInv, Resting
<1>4. /\ PoolInv' /\ NoOtherClient' /\ ~Recycles'
      /\ \A i : (Holds(i) => Holds(i)') /\ (Stands(i) => Stands(i)')
  BY <1>1, <1>3, PoolUntouched DEF vars
<1>5. cap'.id = cap.id /\ cap'.no = cap.no
  BY <1>1 DEF CapTypes
<1>6. Holds(cap.id)' /\ (cap.phase = "claimed" => Stands(cap.id)')
  <2>1. PICK i : i = cap.id
    OBVIOUS
  <2>2. Holds(i)' /\ (cap.phase = "claimed" => Stands(i)') /\ cap'.id = i
    BY <1>3, <1>4, <1>5, <2>1
  <2> QED BY <2>2 DEF Holds, Stands
<1>7. Asks(t)'
  BY <1>1, <1>2, <1>4, <1>5, <1>6 DEF Asks, At, Between, CapTypes
<1>8. call.at # "idle"
  BY <1>1
<1> QED BY <1>2, <1>4, <1>7, <1>8, OneGoes

\* What a bridge call may do to the world that is held.
LEMMA BridgeStep ==
  ASSUME QuietInv, NEW i \in Ids, Holds(i), ~Recycles, OnlyBox(i), UNCHANGED <<poolVars, marker, task, games>>
  PROVE  PoolInv' /\ NoOtherClient' /\ ~Recycles' /\ Holds(i)'
<1>1. PoolInv' /\ NoOtherClient' /\ ~Recycles'
  BY BridgeKeepsPool DEF QuietInv, Holds, poolVars
<1> QED BY <1>1 DEF Holds, poolVars

LEMMA HandBackStep ==
  ASSUME CapTypes, QuietInv, NEW t \in CapThreads, HandBack(t), ~slip, ~slip' PROVE QuietInv'
<1>1. /\ cap.phase \in Active /\ Ask(t, NoRequest) /\ SetMoving(cap.id, TRUE) /\ cap' = cap
      /\ disturbed' = disturbed \union {cap.id} /\ UNCHANGED <<poolVars, marker, task, games>>
  BY DEF HandBack
<1>2. Goes(t, NoRequest) /\ \A u \in CapThreads : At(u, "idle")
  BY <1>1, AskAlone DEF Ask
<1>3. PICK i : i = cap.id
  OBVIOUS
<1>4. ~Recycles /\ Holds(i) /\ i \in Ids /\ PoolTypes
  BY <1>1, <1>2, <1>3 DEF QuietInv, Resting, Holds, PoolInv
<1>5. OnlyBox(i)
  BY <1>1, <1>3, <1>4 DEF SetMoving, OnlyBox, PoolTypes, BoxTypes
<1>6. PoolInv' /\ NoOtherClient' /\ ~Recycles' /\ Holds(i)'
  BY <1>1, <1>4, <1>5, BridgeStep
<1>7. Stands(i)'
  BY <1>1, <1>3 DEF Stands
<1>8. cap'.id = i /\ Holds(cap.id)' /\ Stands(cap.id)'
  BY <1>1, <1>3, <1>6, <1>7 DEF Holds, Stands
<1>9. Resting'
  BY <1>1, <1>6, <1>8 DEF Resting
<1>10. NoRequest.at = "idle"
  BY DEF NoRequest
<1> QED BY <1>2, <1>6, <1>9, <1>10, OneGoes

\* ready resumes the world, starts the cycle, or pauses the world again.
LEMMA ResumeWorldStep ==
  ASSUME CapTypes, QuietInv, NEW t \in CapThreads, ResumeWorld(t), ~slip, ~slip' PROVE QuietInv'
<1>1. PICK i : i = capCall[t].id
  OBVIOUS
<1>2. /\ At(t, "resume") /\ UNCHANGED <<poolVars, marker, task, games, cap>>
      /\ \/ SetMoving(i, TRUE) /\ disturbed' = disturbed /\ Goes(t, [capCall[t] EXCEPT !.at = "cycle"])
         \/ Goes(t, NoRequest) /\ UNCHANGED boxVars
         \/ Goes(t, NoRequest) /\ SetMoving(i, TRUE) /\ disturbed' = disturbed \union {i}
  BY <1>1 DEF ResumeWorld, BridgeFails, BridgeOnly, Ends, boxVars
<1>3. /\ ~At(t, "idle") /\ ~At(t, "recycling") /\ cap.phase = "claimed" /\ capCall[t].no = cap.no /\ i = cap.id
      /\ Holds(i) /\ Stands(i) /\ i \in Ids /\ ~Recycles
  <2>1. ~At(t, "idle") /\ Between(t) /\ ~At(t, "recycling")
    BY <1>2 DEF At, Between
  <2> QED BY <1>1, <1>2, <2>1 DEF QuietInv, Asks, Holds
<1>4. OnlyBox(i)
  BY <1>2, <1>3 DEF OnlyBox, SetMoving, boxVars, PoolTypes, BoxTypes, QuietInv, PoolInv
<1>5. PoolInv' /\ NoOtherClient' /\ ~Recycles' /\ Holds(i)' /\ cap'.id = i /\ cap'.phase = "claimed"
  BY <1>2, <1>3, <1>4, BridgeStep
<1>6. Holds(cap.id)' /\ (Stands(i)' => Stands(cap.id)')
  BY <1>5 DEF Holds, Stands
<1>7. \A u \in CapThreads \ {t} : At(u, "idle")
  BY <1>3, OthersIdle
<1>8. CASE Goes(t, [capCall[t] EXCEPT !.at = "cycle"])
  <2> DEFINE call == [capCall[t] EXCEPT !.at = "cycle"]
  <2>1. capCall'[t] = call /\ call.at = "cycle" /\ call.no = cap.no /\ call.id = i
    BY <1>1, <1>3, <1>8 DEF CapTypes, Goes
  <2> HIDE DEF call
  <2>2. Asks(t)'
    BY <1>2, <1>3, <1>5, <1>6, <2>1 DEF Asks, At, Between
  <2>3. Goes(t, call)
    BY <1>8 DEF call
  <2> QED BY <1>5, <1>7, <2>1, <2>2, <2>3, OneGoes
<1>9. CASE Goes(t, NoRequest) /\ (UNCHANGED boxVars \/ i \in disturbed')
  <2>1. Stands(i)'
    BY <1>3, <1>9, AllStand DEF Stands
  <2>2. Resting' /\ NoRequest.at = "idle"
    BY <1>5, <1>6, <2>1 DEF Resting, Active, NoRequest
  <2> QED BY <1>5, <1>7, <1>9, <2>2, OneGoes
<1> QED BY <1>2, <1>8, <1>9

LEMMA StartCycleStep ==
  ASSUME CapTypes, QuietInv, NEW t \in CapThreads, StartCycle(t), ~slip, ~slip' PROVE QuietInv'
<1>1. /\ At(t, "cycle") /\ UNCHANGED <<poolVars, marker, task, boxVars, games>>
      /\ \/ SetPhase(t, "warmup") /\ Goes(t, NoRequest)
         \/ Goes(t, [capCall[t] EXCEPT !.at = "repause"]) /\ cap' = cap
  BY DEF StartCycle, PauseAgain, Ends
<1>2. /\ ~At(t, "idle") /\ cap.phase = "claimed" /\ capCall[t].no = cap.no /\ capCall[t].id = cap.id
      /\ Holds(cap.id) /\ ~Recycles /\ PoolInv /\ NoOtherClient
  <2>1. ~At(t, "idle") /\ Between(t) /\ ~At(t, "recycling")
    BY <1>1 DEF At, Between
  <2> QED BY <1>1, <2>1 DEF QuietInv, Asks
<1>3. PoolInv' /\ NoOtherClient' /\ ~Recycles' /\ \A i : Holds(i) => Holds(i)'
  BY <1>1, <1>2, PoolUntouched
<1>4. \A u \in CapThreads \ {t} : At(u, "idle")
  BY <1>2, OthersIdle
<1>5. CASE SetPhase(t, "warmup") /\ Goes(t, NoRequest)
  <2>1. cap'.phase = "warmup" /\ cap'.id = cap.id
    BY <1>2, <1>5 DEF SetPhase, CapTypes
  <2>2. Holds(cap.id)'
    <3>1. PICK i : i = cap.id
      OBVIOUS
    <3>2. Holds(i)' /\ cap'.id = i
      BY <1>2, <1>3, <2>1, <3>1
    <3> QED BY <3>2 DEF Holds
  <2>3. Resting' /\ NoRequest.at = "idle"
    BY <1>3, <2>1, <2>2 DEF Resting, Active, NoRequest
  <2> QED BY <1>3, <1>4, <1>5, <2>3, OneGoes
<1>6. CASE Goes(t, [capCall[t] EXCEPT !.at = "repause"]) /\ cap' = cap
  <2> DEFINE call == [capCall[t] EXCEPT !.at = "repause"]
  <2>1. capCall'[t] = call /\ call.at = "repause" /\ call.no = cap.no /\ call.id = cap.id
    BY <1>2, <1>6 DEF CapTypes, Goes
  <2> HIDE DEF call
  <2>2. Holds(cap.id)'
    <3>1. PICK i : i = cap.id
      OBVIOUS
    <3>2. Holds(i)' /\ cap'.id = i
      BY <1>2, <1>3, <1>6, <3>1
    <3> QED BY <3>2 DEF Holds
  <2>3. Asks(t)'
    BY <1>2, <1>3, <1>6, <2>1, <2>2 DEF Asks, At, Between
  <2>4. Goes(t, call)
    BY <1>6 DEF call
  <2> QED BY <1>3, <1>4, <2>1, <2>3, <2>4, OneGoes
<1> QED BY <1>1, <1>5, <1>6

LEMMA RepauseStep ==
  ASSUME CapTypes, QuietInv, NEW t \in CapThreads, Repause(t), ~slip, ~slip' PROVE QuietInv'
<1>1. PICK i : i = capCall[t].id
  OBVIOUS
<1>2. /\ At(t, "repause") /\ UNCHANGED <<poolVars, marker, task, games, cap>> /\ Goes(t, NoRequest)
      /\ \/ SetMoving(i, FALSE) /\ disturbed' = disturbed
         \/ disturbed' = disturbed \union {i} /\ UNCHANGED <<box, moving>>
  BY <1>1 DEF Repause, BridgeOnly, Ends
<1>3. /\ ~At(t, "idle") /\ cap.phase = "claimed" /\ i = cap.id /\ Holds(i) /\ i \in Ids /\ ~Recycles
  <2>1. ~At(t, "idle") /\ Between(t) /\ ~At(t, "recycling")
    BY <1>2 DEF At, Between
  <2> QED BY <1>1, <2>1 DEF QuietInv, Asks, Holds
<1>4. PoolTypes
  BY DEF QuietInv, PoolInv
<1>5. OnlyBox(i) /\ Stands(i)'
  <2>1. CASE SetMoving(i, FALSE) /\ disturbed' = disturbed
    BY <1>3, <1>4, <2>1 DEF OnlyBox, SetMoving, PoolTypes, BoxTypes, Stands
  <2>2. CASE disturbed' = disturbed \union {i} /\ UNCHANGED <<box, moving>>
    BY <1>3, <1>4, <2>2 DEF OnlyBox, PoolTypes, BoxTypes, Stands
  <2> QED BY <1>2, <2>1, <2>2
<1>6. PoolInv' /\ NoOtherClient' /\ ~Recycles' /\ Holds(i)' /\ cap'.id = i /\ cap'.phase = "claimed"
  BY <1>2, <1>3, <1>5, BridgeStep
<1>7. Holds(cap.id)' /\ Stands(cap.id)'
  BY <1>5, <1>6 DEF Holds, Stands
<1>8. Resting' /\ NoRequest.at = "idle"
  BY <1>6, <1>7 DEF Resting, Active, NoRequest
<1>9. \A u \in CapThreads \ {t} : At(u, "idle")
  BY <1>3, OthersIdle
<1> QED BY <1>2, <1>6, <1>8, <1>9, OneGoes

\* finish asks for the recycle, or is refused and gives the phase back.
LEMMA AskRecycleStep ==
  ASSUME CapTypes, QuietInv, NEW t \in CapThreads, AskRecycle(t), ~slip, ~slip' PROVE QuietInv'
<1>1. PICK i : i = capCall[t].id
  OBVIOUS
<1>2. /\ At(t, "recycle") /\ Free
      /\ \/ /\ Recycle(i, TRUE) /\ Goes(t, [capCall[t] EXCEPT !.at = "recycling"]) /\ cap' = cap
         \/ UNCHANGED vars /\ SetPhase(t, capCall[t].previous) /\ Goes(t, NoRequest)
  BY <1>1 DEF AskRecycle, PoolStays, Ends
<1>3. /\ ~At(t, "idle") /\ cap.phase = "recycling" /\ capCall[t].no = cap.no /\ i = cap.id /\ ~Recycles
      /\ capCall[t].previous \in Active /\ Holds(i) /\ i \in Ids /\ (capCall[t].previous = "claimed" => Stands(i))
      /\ PoolInv /\ NoOtherClient /\ PoolTypes
  <2>1. ~At(t, "idle") /\ ~At(t, "recycling") /\ capCall[t].at = "recycle"
    BY <1>2 DEF At
  <2> QED BY <1>1, <2>1 DEF QuietInv, Asks, Holds, PoolInv
<1>4. \A u \in CapThreads \ {t} : At(u, "idle")
  BY <1>3, OthersIdle
<1>5. CASE Recycle(i, TRUE) /\ Goes(t, [capCall[t] EXCEPT !.at = "recycling"]) /\ cap' = cap
  <2> DEFINE call == [capCall[t] EXCEPT !.at = "recycling"]
  <2>1. /\ capCall'[t] = call /\ call.at = "recycling" /\ call.no = cap.no /\ call.id = i
        /\ call.previous = capCall[t].previous
    BY <1>1, <1>3, <1>5 DEF CapTypes, Goes
  <2> HIDE DEF call
  <2>2. PoolInv'
    BY <1>3, <1>5, RecycleStep
  <2>3. /\ entry' = [entry EXCEPT ![i] = "recycling"] /\ UNCHANGED <<marker, boxVars>>
        /\ task'.op = "reset" /\ task'.id = i /\ task'.keep = TRUE
    BY <1>5 DEF Recycle, Becomes, Idle
  <2>4. Recycles' /\ NoOtherClient' /\ entry'[i] = "recycling" /\ marker' = {i} /\ (Stands(i) => Stands(i)')
    BY <1>3, <2>3, AllStand DEF Recycles, NoOtherClient, Holds, PoolTypes
  <2>5. Holds(cap.id)' /\ (Stands(i) => Stands(cap.id)') /\ cap'.id = i
    BY <1>3, <1>5, <2>4 DEF Holds, Stands
  <2>6. Asks(t)'
    BY <1>3, <1>5, <2>1, <2>3, <2>4, <2>5 DEF Asks, At, Between
  <2>7. Goes(t, call)
    BY <1>5 DEF call
  <2> QED BY <1>4, <2>1, <2>2, <2>4, <2>6, <2>7, OneGoes
<1>6. CASE UNCHANGED vars /\ SetPhase(t, capCall[t].previous) /\ Goes(t, NoRequest)
  <2>1. /\ PoolInv' /\ NoOtherClient' /\ ~Recycles'
        /\ \A j : (Holds(j) => Holds(j)') /\ (Stands(j) => Stands(j)')
    BY <1>3, <1>6, PoolUntouched DEF vars
  <2>2. cap'.phase = capCall[t].previous /\ cap'.id = i
    BY <1>3, <1>6 DEF SetPhase, CapTypes
  <2>3. Holds(cap.id)' /\ (cap'.phase = "claimed" => Stands(cap.id)')
    BY <1>3, <2>1, <2>2 DEF Holds, Stands
  <2>4. Resting' /\ NoRequest.at = "idle"
    BY <1>3, <2>1, <2>2, <2>3 DEF Resting, Active, NoRequest
  <2> QED BY <1>4, <1>6, <2>1, <2>4, OneGoes
<1> QED BY <1>2, <1>5, <1>6

\* finish ends: parked, or with the phase it had.
LEMMA FinishedStep ==
  ASSUME CapTypes, QuietInv, NEW t \in CapThreads, Finished(t), ~slip, ~slip' PROVE QuietInv'
<1>1. PICK i : i = cap.id
  OBVIOUS
<1>2. /\ capCall[t].at \in {"recycled", "failed"} /\ UNCHANGED vars /\ Goes(t, NoRequest)
      /\ SetPhase(t, IF At(t, "recycled") THEN "parked" ELSE capCall[t].previous)
  BY DEF Finished, PoolStays, Ends, PhaseAfter
<1>3. /\ ~At(t, "idle") /\ cap.phase = "recycling" /\ capCall[t].no = cap.no /\ ~Recycles
      /\ capCall[t].previous \in Active /\ PoolInv /\ NoOtherClient
      /\ At(t, "recycled") => marker = {}
      /\ ~At(t, "recycled") => Holds(i) /\ (capCall[t].previous = "claimed" => Stands(i))
  <2>1. ~At(t, "idle") /\ ~At(t, "recycling")
    BY <1>2 DEF At
  <2> QED BY <1>1, <1>2, <2>1 DEF QuietInv, Asks, At
<1>4. \A u \in CapThreads \ {t} : At(u, "idle")
  BY <1>3, OthersIdle
<1>5. /\ PoolInv' /\ NoOtherClient' /\ ~Recycles' /\ marker' = marker
      /\ \A j : (Holds(j) => Holds(j)') /\ (Stands(j) => Stands(j)')
  BY <1>2, <1>3, PoolUntouched DEF vars
<1>6. cap'.phase = (IF At(t, "recycled") THEN "parked" ELSE capCall[t].previous) /\ cap'.id = i
  BY <1>1, <1>2, <1>3 DEF SetPhase, CapTypes
<1>7. Resting'
  <2>1. CASE At(t, "recycled")
    BY <1>3, <1>5, <1>6, <2>1 DEF Resting, Active
  <2>2. CASE ~At(t, "recycled")
    <3>1. Holds(cap.id)' /\ (cap'.phase = "claimed" => Stands(cap.id)')
      BY <1>3, <1>5, <1>6, <2>2 DEF Holds, Stands
    <3> QED BY <1>3, <1>5, <1>6, <2>2, <3>1 DEF Resting, Active
  <2> QED BY <2>1, <2>2
<1>8. NoRequest.at = "idle"
  BY DEF NoRequest
<1> QED BY <1>2, <1>4, <1>5, <1>7, <1>8, OneGoes

\* While the pool does something else, whoever asks still finds what it did.
LEMMA OthersGoOn ==
  ASSUME CapTypes, QuietInv, ~slip, PoolInv', NoOtherClient', UNCHANGED capVars, HeldStay,
         Recycles' <=> Recycles, Recycles => UNCHANGED task
  PROVE  QuietInv'
<1>1. capCall' = capCall /\ cap' = cap
  BY DEF capVars
<1>2. \A i : (Holds(i) => Holds(i)') /\ (Holds(i) /\ Stands(i) => Stands(i)')
  BY DEF Holds, HeldStay
<1>3. /\ Holds(cap.id) => Holds(cap.id)'
      /\ Holds(cap.id) /\ Stands(cap.id) => Stands(cap.id)'
      /\ \A t \in CapThreads : Holds(capCall[t].id) => Holds(capCall[t].id)'
      /\ \A t \in CapThreads : Holds(capCall[t].id) /\ Stands(capCall[t].id) => Stands(capCall[t].id)'
  BY <1>1, <1>2 DEF Holds, Stands
<1>4. ASSUME \A t \in CapThreads : At(t, "idle") PROVE Resting'
  <2>1. Resting
    BY <1>4 DEF QuietInv
  <2> QED BY <1>1, <1>3, <2>1 DEF Resting, HeldStay
<1>5. ASSUME NEW t \in CapThreads, ~At(t, "idle") PROVE Asks(t)'
  <2>1. Asks(t)
    BY <1>5 DEF QuietInv
  <2>2. At(t, "recycling") => entry'[cap.id] = entry[cap.id] /\ task' = task
    BY <2>1 DEF Asks, At, Holds, HeldStay
  <2> QED BY <1>1, <1>3, <2>1, <2>2 DEF Asks, At, Between, HeldStay
<1> QED BY <1>1, <1>4, <1>5 DEF QuietInv, OneAsks, At

\* What is marked is held.
LEMMA MarkedIsHeld == ASSUME CapTypes, QuietInv, NEW j \in marker PROVE entry[j] \in {"claimed", "recycling"}
<1>1. CASE \A t \in CapThreads : At(t, "idle")
  BY <1>1 DEF QuietInv, Resting, Holds
<1>2. ASSUME NEW t \in CapThreads, ~At(t, "idle"), capCall[t].at \in CapSteps PROVE entry[j] \in {"claimed", "recycling"}
  BY <1>2 DEF QuietInv, Asks, At, Between, Holds, CapSteps
<1>3. \A t \in CapThreads : capCall[t].at \in CapSteps
  BY DEF CapTypes
<1> QED BY <1>1, <1>2, <1>3

\* The pool's operation goes on, and answers the recycle it ends.
LEMMA PoolStepStep ==
  ASSUME CapTypes, QuietInv, PoolStep, ~slip, ~slip' PROVE QuietInv'
<1>1. TaskStep /\ cap' = cap /\ PoolInv /\ NoOtherClient
  BY DEF PoolStep, QuietInv
<1>2. PoolInv'
  BY <1>1, PoolInvStays DEF Next
<1>3. CASE ~Recycles
  <2>1. HeldStay /\ ~Recycles' /\ NoOtherClient'
    BY <1>1, <1>3, MarkedIsHeld, OthersHold
  <2>2. \A t \in CapThreads : ~At(t, "recycling")
    BY <1>3 DEF QuietInv, Asks, At
  <2>3. capCall' = capCall
    <3>1. capCall' = [t \in CapThreads |-> capCall[t]]
      BY <2>2 DEF PoolStep
    <3> QED BY <3>1 DEF CapTypes
  <2>4. UNCHANGED capVars
    BY <2>3 DEF PoolStep, capVars
  <2> QED BY <1>2, <1>3, <2>1, <2>4, OthersGoOn
<1>4. CASE Recycles
  <2>1. PICK t \in CapThreads : ~At(t, "idle")
    BY <1>4 DEF QuietInv, Resting
  <2>2. Asks(t) /\ At(t, "recycling")
    BY <1>4, <2>1 DEF QuietInv, Asks
  <2>3. PICK i : i = cap.id
    OBVIOUS
  <2>4. /\ cap.phase = "recycling" /\ capCall[t].no = cap.no /\ capCall[t].id = i /\ capCall[t].previous \in Active
        /\ Holds(i) /\ (capCall[t].previous = "claimed" => Stands(i))
        /\ task.id = i /\ task.keep /\ entry[i] = "recycling"
    BY <2>2, <2>3 DEF Asks, At
  <2>5. marker = {i}
    BY <2>4 DEF Holds
  <2>6. \/ /\ Recycles' /\ NoOtherClient' /\ task'.id = i /\ task'.keep /\ task' # Idle
           /\ HeldStay /\ UNCHANGED entry
        \/ task' = Idle /\ HeldStay /\ UNCHANGED entry
        \/ task' = Idle /\ marker' = {} /\ entry'[i] = "parked"
    BY <1>1, <1>4, <2>4, <2>5, RecycleGoesOn
  <2>7. \A u \in CapThreads \ {t} : At(u, "idle")
    BY <2>1, OthersIdle
  <2>8. \A u \in CapThreads \ {t} : ~At(u, "recycling")
    BY <2>7 DEF At
  <2>9. HeldStay => Holds(i)' /\ (Stands(i) => Stands(i)')
    BY <2>4, <2>5 DEF HeldStay, Holds
  <2>10. cap'.id = i /\ (Holds(i)' => Holds(cap.id)') /\ (Stands(i)' => Stands(cap.id)')
    BY <1>1, <2>3 DEF Holds, Stands
  <2>11. CASE task' # Idle
    <3>1. capCall' = capCall
      <4>1. capCall' = [u \in CapThreads |-> capCall[u]]
        BY <2>11 DEF PoolStep
      <4> QED BY <4>1 DEF CapTypes
    <3>2. Recycles' /\ NoOtherClient' /\ task'.id = i /\ task'.keep /\ HeldStay /\ entry'[i] = "recycling"
      BY <2>4, <2>6, <2>11
    <3>3. Asks(t)'
      BY <1>1, <2>2, <2>4, <2>9, <2>10, <3>1, <3>2 DEF Asks, At, Between
    <3> QED BY <1>2, <2>1, <2>2, <2>7, <3>1, <3>2, <3>3 DEF QuietInv, OneAsks, At
  <2>12. CASE task' = Idle
    <3> DEFINE call == [capCall[t] EXCEPT !.at = IF entry'[i] = "parked" THEN "recycled" ELSE "failed"]
    <3>1. Goes(t, call)
      <4>1. /\ \A u \in CapThreads \ {t} : capCall'[u] = capCall[u]
            /\ capCall'[t] = call
        BY <2>2, <2>4, <2>8, <2>12 DEF PoolStep
      <4>2. capCall' = [u \in CapThreads |-> capCall'[u]] /\ capCall = [u \in CapThreads |-> capCall[u]]
        BY DEF PoolStep, CapTypes
      <4> HIDE DEF call
      <4> QED BY <4>1, <4>2 DEF Goes
    <3>2. /\ call.no = cap.no /\ call.id = i /\ call.previous = capCall[t].previous
          /\ call.at = (IF entry'[i] = "parked" THEN "recycled" ELSE "failed")
      BY <2>4 DEF CapTypes
    <3>3. capCall'[t] = call
      BY <3>1 DEF Goes, CapTypes
    <3> HIDE DEF call
    <3>4. ~Recycles' /\ NoOtherClient'
      BY <2>12, IdleIsATask, NoRecycle
    <3>5. CASE HeldStay /\ UNCHANGED entry
      <4>1. call.at = "failed"
        BY <2>4, <3>2, <3>5
      <4>2. Asks(t)'
        BY <1>1, <2>4, <2>9, <2>10, <3>2, <3>3, <3>4, <3>5, <4>1 DEF Asks, At, Between
      <4> QED BY <1>2, <2>7, <3>1, <3>4, <4>1, <4>2, OneGoes
    <3>6. CASE marker' = {} /\ entry'[i] = "parked"
      <4>1. call.at = "recycled"
        BY <3>2, <3>6
      <4>2. Asks(t)'
        BY <1>1, <2>4, <2>10, <3>2, <3>3, <3>4, <3>6, <4>1 DEF Asks, At, Between
      <4> QED BY <1>2, <2>7, <3>1, <3>4, <4>1, <4>2, OneGoes
    <3> QED BY <2>6, <2>12, <3>5, <3>6
  <2> QED BY <2>11, <2>12
<1> QED BY <1>3, <1>4

\* A maintenance begins, a wait ends, or docker moves.
LEMMA PoolMovesStep ==
  ASSUME CapTypes, QuietInv, PoolMoves, ~slip, ~slip' PROVE QuietInv'
<1>1. PoolInv /\ NoOtherClient /\ UNCHANGED capVars /\ PoolTypes
  BY DEF QuietInv, PoolMoves, PoolInv
<1>2. PoolInv'
  BY <1>1, PoolInvStays DEF PoolMoves, Next
<1>3. ASSUME NEW stages \in Stages, Maintain(stages) PROVE QuietInv'
  <2>1. task.op = "idle" /\ UNCHANGED <<entry, marker>> /\ UNCHANGED boxVars
    BY <1>3 DEF Maintain, Free, Idle, poolVars
  <2>2. task'.op \in {"reconcile", "idle", "fill", "reap"}
    <3>1. stages \in SUBSET {"fill", "reap"} \/ "reconcile" \in stages
      BY <1>3 DEF Stages
    <3> QED BY <1>3, <3>1, NextStageIsIdle DEF Maintain, Idle
  <2>3. ~Recycles /\ ~Recycles' /\ NoOtherClient'
    BY <2>1, <2>2, NoRecycle DEF Recycles
  <2>4. HeldStay
    BY <2>1, AllStand DEF HeldStay
  <2> QED BY <1>1, <1>2, <2>3, <2>4, OthersGoOn
<1>4. CASE WaitOver \/ \E i \in Ids : BoxDies(i) \/ BoxRestarts(i)
  <2>1. UNCHANGED <<entry, marker, task>> /\ \A j \in Ids : Stands(j) => Stands(j)'
    BY <1>1, <1>4, WorldKeeps
  <2>2. HeldStay /\ (Recycles' <=> Recycles) /\ NoOtherClient'
    BY <1>1, <2>1 DEF HeldStay, PoolTypes, Recycles, NoOtherClient
  <2> QED BY <1>1, <1>2, <2>1, <2>2, OthersGoOn
<1> QED BY <1>3, <1>4 DEF PoolMoves

\* At first the pool holds nothing.
LEMMA CapInvHoldsAtFirst == CapInit => CapInv
<1> SUFFICES ASSUME CapInit PROVE CapInv
  OBVIOUS
<1>1. /\ Init /\ cap = NoCapsule /\ capCall = [t \in CapThreads |-> NoRequest]
  BY DEF CapInit
<1>2. CapTypes
  BY <1>1 DEF CapTypes, NoCapsule, NoRequest, CapSteps, CapPhases
<1>3. \A t \in CapThreads : At(t, "idle")
  BY <1>1 DEF At, NoRequest
<1>4. task.op = "reconcile" /\ marker = {}
  BY <1>1 DEF Init, Boot, Idle
<1>5. Resting
  BY <1>1, <1>4 DEF Resting, Recycles, NoCapsule, Active
<1>6. PoolInv
  BY <1>1, PoolInvHoldsAtFirst
<1> QED BY <1>2, <1>3, <1>4, <1>5, <1>6 DEF CapInv, QuietInv, NoOtherClient, OneAsks

\* Every step of capsule and pool keeps the invariant.
LEMMA CapInvStays == ASSUME CapInv, [FlowNext]_flowVars PROVE CapInv'
<1>1. CapTypes /\ CapTypes'
  BY CapTypesStay DEF CapInv
<1> SUFFICES ASSUME ~slip' PROVE QuietInv'
  BY <1>1 DEF CapInv
<1>2. ASSUME NEW t \in CapThreads, CapStep(t) PROVE QuietInv'
  <2>1. ~TimesOut(t)
    BY DEF TimesOut
  <2>2. ~slip
    BY <1>2 DEF CapStep, CapThreadStep, Open, Ready, HandBack, Finish, Ask, ClaimPaused, ClaimRefused, Opened, ResumeWorld,
        StartCycle, Repause, AskRecycle, Finished, TimesOut
  <2>3. QuietInv
    BY <2>2 DEF CapInv
  <2>4. CASE Open(t) \/ Ready(t) \/ HandBack(t) \/ Finish(t)
    BY <1>1, <2>2, <2>3, <2>4, OpenStep, BeginStep, HandBackStep
  <2>5. CASE (\E i \in Ids : ClaimPaused(t, i)) \/ ClaimRefused(t) \/ Opened(t)
    BY <1>1, <2>2, <2>3, <2>5, ClaimPausedStep, ClaimedStep
  <2>6. CASE ResumeWorld(t) \/ StartCycle(t) \/ Repause(t)
    BY <1>1, <2>2, <2>3, <2>6, ResumeWorldStep, StartCycleStep, RepauseStep
  <2>7. CASE AskRecycle(t) \/ Finished(t)
    BY <1>1, <2>2, <2>3, <2>7, AskRecycleStep, FinishedStep
  <2> QED BY <1>2, <2>1, <2>4, <2>5, <2>6, <2>7 DEF CapStep, CapThreadStep
<1>3. CASE PoolStep \/ PoolMoves
  <2>1. ~slip
    BY <1>3 DEF PoolStep, PoolMoves, capVars
  <2> QED BY <1>1, <1>3, <2>1, PoolStepStep, PoolMovesStep DEF CapInv
<1>4. ~PoolDies /\ ~CapsuleDies
  BY DEF PoolDies, CapsuleDies
<1>5. CASE UNCHANGED flowVars
  <2>1. UNCHANGED vars /\ UNCHANGED capVars
    BY <1>5 DEF flowVars
  <2>2. ~slip
    BY <2>1 DEF capVars
  <2>3. QuietInv
    BY <2>2 DEF CapInv
  <2>4. /\ PoolInv' /\ NoOtherClient' /\ (Recycles' <=> Recycles) /\ marker' = marker /\ UNCHANGED <<entry, task>>
        /\ \A i : Stands(i) => Stands(i)'
    BY <2>1, <2>3, PoolUntouched DEF vars, QuietInv
  <2>5. HeldStay
    BY <2>4 DEF HeldStay
  <2> QED BY <1>1, <2>1, <2>2, <2>3, <2>4, <2>5, OthersGoOn
<1> QED BY <1>2, <1>3, <1>4, <1>5 DEF FlowNext

\* A capsule that was claimed holds one paused server until it gives it back, and
\* without lost answers, deaths and overlapping requests it holds exactly that one
\* (capsule_flow.py: open, ready, finish; parked_pool.py: claim, recycle), for any
\* number of servers, threads, requests and faults.
THEOREM CapsuleAlwaysHoldsServer == FlowSpec => []CapsuleHoldsServer
<1>1. CapInv => CapsuleHoldsServer
  <2> SUFFICES ASSUME CapInv, ~slip PROVE CapsuleHoldsServer
    BY DEF CapsuleHoldsServer, JoinsPaused, HoldsItsServer
  <2>1. QuietInv
    BY DEF CapInv
  <2>2. JoinsPaused
    <3> SUFFICES ASSUME cap.phase = "claimed", \A t \in CapThreads : ~Between(t) PROVE cap.id \in disturbed \/ ~moving[cap.id]
      BY DEF JoinsPaused
    <3>1. \A t \in CapThreads : At(t, "idle")
      BY <2>1 DEF QuietInv, Asks, At, Between, CapInv, CapTypes, CapSteps
    <3> QED BY <2>1, <3>1 DEF QuietInv, Resting, Active, Stands
  <2>3. HoldsItsServer
    <3>1. ASSUME cap.phase \in Active PROVE Holds(cap.id)
      <4>1. ASSUME NEW t \in CapThreads, ~At(t, "idle") PROVE Holds(cap.id)
        BY <2>1, <3>1, <4>1 DEF QuietInv, Asks, At, Between, Active, CapInv, CapTypes, CapSteps
      <4> QED BY <2>1, <3>1, <4>1 DEF QuietInv, Resting
    <3>2. ASSUME \A t \in CapThreads : At(t, "idle") PROVE marker = IF cap.phase \in Active THEN {cap.id} ELSE {}
      BY <2>1, <3>2 DEF QuietInv, Resting, Holds
    <3> QED BY <3>1, <3>2 DEF HoldsItsServer, Holds
  <2> QED BY <2>2, <2>3 DEF CapsuleHoldsServer
<1>2. CapInv /\ [FlowNext]_flowVars => CapInv'
  BY CapInvStays
<1> QED BY CapInvHoldsAtFirst, <1>1, <1>2, PTL DEF FlowSpec
=============================================================================
