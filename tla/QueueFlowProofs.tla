-------------------------- MODULE QueueFlowProofs --------------------------
\* Machine-checked proofs about QueueFlow, for every set of players and every bound.
EXTENDS QueueFlow, SequenceTheorems, WellFoundedInduction, TLAPS

\* A match's record, the list of them, the operation and the referee's places.
IsRecord(r) == r = [team |-> r.team, state |-> r.state, result |-> r.result, of |-> r.of, side |-> r.side]
IsRecords(rs) == rs \in Seq({rs[i] : i \in 1 .. Len(rs)}) /\ \A i \in 1 .. Len(rs) : IsRecord(rs[i])
IsTask == task = [op |-> task.op, match |-> task.match, worlds |-> task.worlds, then |-> task.then,
                  todo |-> task.todo, result |-> task.result, others |-> task.others]
PerWorld(f) == f = [w \in Worlds |-> f[w]]
QueueTypes ==
  /\ IsRecords(records) /\ IsRecords(disk.records) /\ IsTask /\ PerWorld(player) /\ PerWorld(matchId)
  /\ task.then \in {"idle", "create", "tidy", "settle"}

\* The disk knows no result that the records do not have.
SameResult(r, later) == r.state = "finished" => later.state = "finished" /\ later.result = r.result
DiskAgrees == \A m \in DOMAIN disk.records : m \in Matches /\ SameResult(disk.records[m], records[m])

\* A match that is being provisioned is not finished, nor ready, unless the write
\* that said so was refused; the worlds and, if no other client called the referee,
\* the places of its players are there, as far as it got.
Begun == {"start", "lobby", "ready", "mark", "rollback", "reset"}
IsBegun == \/ records[task.match].state = "provisioning"
           \/ records[task.match].state = "ready" /\ task.op = "rollback" /\ task.match \in unsaved
TaskIsOpen == task.op \in Begun => task.match \in Matches /\ IsBegun
Runs(w) == <<task.match, w>> \in up
Named(w) == matchId[w] = task.match /\ player[w] = records[task.match].team[w]
WorldsAreUp ==
  /\ task.op = "start" => \A w \in Worlds \ task.worlds : Runs(w)
  /\ task.op \in {"lobby", "ready"} => \A w \in Worlds : Runs(w)
NamesAreTold == ~task.others =>
  /\ task.op = "lobby" => \A w \in Worlds \ task.worlds : Named(w)
  /\ task.op = "ready" => \A w \in Worlds : Named(w)
QueueInv == QueueTypes /\ DiskAgrees /\ TaskIsOpen /\ WorldsAreUp /\ NamesAreTold

-----------------------------------------------------------------------------
(* Records and the disk.                                                   *)

\* A list of records stays one when a record is replaced.
LEMMA OneRecordChanged ==
  ASSUME NEW rs, IsRecords(rs), NEW m \in 1 .. Len(rs), NEW r, IsRecord(r)
  PROVE  /\ IsRecords([rs EXCEPT ![m] = r]) /\ Len([rs EXCEPT ![m] = r]) = Len(rs)
         /\ DOMAIN rs = 1 .. Len(rs) /\ DOMAIN [rs EXCEPT ![m] = r] = 1 .. Len(rs)
<1> DEFINE new == [rs EXCEPT ![m] = r]
<1>1. rs \in [1 .. Len(rs) -> {rs[i] : i \in 1 .. Len(rs)}] /\ Len(rs) \in Nat /\ DOMAIN rs = 1 .. Len(rs)
  BY LenProperties DEF IsRecords
<1>2. DOMAIN new = 1 .. Len(rs) /\ \A i \in 1 .. Len(rs) : new[i] = IF i = m THEN r ELSE rs[i]
  BY <1>1
<1>3. new \in [1 .. Len(rs) -> {new[i] : i \in 1 .. Len(rs)}]
  BY <1>1, <1>2
<1>4. new \in Seq({new[i] : i \in 1 .. Len(rs)})
  <2> DEFINE T == {new[i] : i \in 1 .. Len(rs)}
  <2> HIDE DEF T, new
  <2> SUFFICES new \in Seq(T)
    BY DEF T
  <2>1. new \in [1 .. Len(rs) -> T]
    BY <1>3 DEF T
  <2> QED BY <1>1, <2>1
<1>5. Len(new) = Len(rs)
  BY <1>1, <1>2, <1>4, LenProperties
<1> QED BY <1>1, <1>2, <1>4, <1>5 DEF IsRecords

\* A list of records stays one when a record is added, and the others stay.
LEMMA RecordAppended ==
  ASSUME NEW rs, IsRecords(rs), NEW r, IsRecord(r)
  PROVE  /\ IsRecords(Append(rs, r)) /\ Len(Append(rs, r)) = Len(rs) + 1 /\ Len(rs) \in Nat
         /\ DOMAIN rs = 1 .. Len(rs) /\ DOMAIN Append(rs, r) = 1 .. Len(rs) + 1
         /\ Append(rs, r)[Len(rs) + 1] = r /\ \A i \in 1 .. Len(rs) : Append(rs, r)[i] = rs[i]
<1> DEFINE S == {rs[i] : i \in 1 .. Len(rs)} \union {r}
           new == Append(rs, r)
<1>1. rs \in Seq(S) /\ r \in S
  <2>1. {rs[i] : i \in 1 .. Len(rs)} \subseteq S
    OBVIOUS
  <2> HIDE DEF S
  <2>2. rs \in Seq({rs[i] : i \in 1 .. Len(rs)})
    BY DEF IsRecords
  <2>3. rs \in Seq(S)
    BY <2>1, <2>2
  <2> QED BY <2>3 DEF S
<1> HIDE DEF S
<1>2. /\ new \in Seq(S) /\ Len(new) = Len(rs) + 1 /\ new[Len(rs) + 1] = r /\ Len(rs) \in Nat
      /\ DOMAIN rs = 1 .. Len(rs) /\ DOMAIN new = 1 .. Len(rs) + 1
      /\ \A i \in 1 .. Len(rs) : new[i] = rs[i]
  BY <1>1
<1> HIDE DEF new
<1>3. \A i \in 1 .. Len(rs) + 1 : IsRecord(new[i])
  <2> TAKE i \in 1 .. Len(rs) + 1
  <2>1. i \in 1 .. Len(rs) \/ i = Len(rs) + 1
    BY <1>2
  <2> QED BY <1>2, <2>1 DEF IsRecords
<1>4. new \in Seq({new[i] : i \in 1 .. Len(new)})
  BY <1>2, LenProperties, SeqDef
<1> QED BY <1>2, <1>3, <1>4 DEF IsRecords, new

\* Results that are on record stay.
KeepsResults == \A m \in Matches : m \in Matches' /\ SameResult(records[m], records'[m])
DiskFollows == disk' = disk \/ disk'.records = records \/ disk'.records = records'
DiskKeeps == \A m \in DOMAIN disk.records :
  /\ m \in DOMAIN disk'.records
  /\ disk.records[m].state = "finished" =>
       disk'.records[m].state = "finished"
       /\ disk'.records[m].result = disk.records[m].result

\* A disk that is left alone, or written with the records before or after a step, keeps its results.
LEMMA ResultsStay ==
  ASSUME DiskAgrees, KeepsResults, DiskFollows PROVE DiskAgrees' /\ DiskKeeps
<1>1. CASE disk' = disk
  BY <1>1 DEF DiskAgrees, KeepsResults, DiskKeeps, SameResult
<1>2. CASE disk'.records = records
  <2>1. DiskAgrees'
    BY <1>2 DEF KeepsResults, DiskAgrees, Matches
  <2>2. DiskKeeps
    BY <1>2 DEF DiskAgrees, DiskKeeps, SameResult, Matches
  <2> QED BY <2>1, <2>2
<1>3. CASE disk'.records = records'
  <2>1. DiskAgrees'
    BY <1>3 DEF DiskAgrees, SameResult, Matches
  <2>2. DiskKeeps
    <3> SUFFICES ASSUME NEW m \in DOMAIN disk.records
                 PROVE  m \in Matches' /\ SameResult(disk.records[m], records'[m])
      BY <1>3 DEF DiskKeeps, SameResult, Matches
    <3>1. m \in Matches /\ SameResult(disk.records[m], records[m])
      BY DEF DiskAgrees
    <3>2. m \in Matches' /\ SameResult(records[m], records'[m])
      BY <3>1 DEF KeepsResults
    <3> QED BY <3>1, <3>2 DEF SameResult
  <2> QED BY <2>1, <2>2
<1> QED BY <1>1, <1>2, <1>3 DEF DiskFollows

\* Records that stay keep their results.
LEMMA RecordsUnchanged == ASSUME records' = records PROVE KeepsResults
  BY DEF KeepsResults, SameResult, Matches

\* The next step of an operation that begins.
LEMMA OpOf == Idle.op = "idle" /\ \A op, m, worlds : Task(op, m, worlds).op = op
  BY DEF Task, Idle

\* Persisting writes the records as they are, or nothing.
LEMMA Persisted ==
  ASSUME NEW about, NEW next, NEW failed, Persist(about, next, failed)
  PROVE  DiskFollows /\ task' \in {next, failed} /\ (disk'.records = records' \/ disk' = disk)
  BY DEF Persist, Snapshot, DiskFollows

\* The record of a match that is not finished changes, and only its state, result
\* or worlds.
LEMMA OpenChanges ==
  ASSUME QueueTypes, NEW m \in Matches, records[m].state # "finished", NEW r, IsRecord(r),
         records' = [records EXCEPT ![m] = r]
  PROVE  IsRecords(records') /\ KeepsResults /\ Matches' = Matches /\ records'[m] = r
<1>1. IsRecords(records) /\ Matches = 1 .. Len(records)
  BY LenProperties DEF QueueTypes, IsRecords, Matches
<1>2. IsRecords(records') /\ Matches' = Matches
  BY <1>1, OneRecordChanged DEF Matches
<1>3. \A n \in Matches : records'[n] = IF n = m THEN r ELSE records[n]
  BY DEF Matches
<1> QED BY <1>2, <1>3 DEF KeepsResults, SameResult

\* The same for a match that begins.
LEMMA MatchBegins ==
  ASSUME QueueTypes, NEW team, NEW of, records' = Append(records, NewRecord(team, of))
  PROVE  /\ IsRecords(records') /\ KeepsResults /\ Len(records) + 1 \in Matches'
         /\ records'[Len(records) + 1].state = "provisioning"
<1>1. IsRecord(NewRecord(team, of)) /\ NewRecord(team, of).state = "provisioning"
  BY DEF IsRecord, NewRecord
<1>2. IsRecords(records)
  BY DEF QueueTypes
<1>3. /\ IsRecords(records') /\ Matches = 1 .. Len(records) /\ Matches' = 1 .. Len(records) + 1
      /\ Len(records) \in Nat /\ records'[Len(records) + 1] = NewRecord(team, of)
      /\ \A m \in Matches : records'[m] = records[m]
  BY <1>1, <1>2, RecordAppended DEF Matches
<1>4. KeepsResults
  BY <1>3 DEF KeepsResults, SameResult
<1> QED BY <1>1, <1>3, <1>4

-----------------------------------------------------------------------------
(* The steps.                                                              *)

\* What a step owes: the invariant, the results on disk, and a start of its own.
StartsItsOwn == phase # "running" /\ phase' = "running" /\ task # Idle /\ ~task'.others =>
  \A w \in Worlds :
    /\ matchId'[w] = task.match /\ player'[w] = records[task.match].team[w] /\ <<task.match, w>> \in up
StepHolds == QueueInv' /\ DiskKeeps /\ StartsItsOwn

\* A step that begins or ends nothing that the invariant watches.
Places == PerWorld(player') /\ PerWorld(matchId')
TaskIs(ops) == IsTask' /\ task'.op \in ops /\ task'.then \in {"idle", "create", "tidy", "settle"}
Quiet == {"idle", "stop", "create", "tidy", "settle", "anchor"}

\* A step into an operation the invariant does not watch owes it only the records.
LEMMA QuietStep ==
  ASSUME QueueInv, TaskIs(Quiet), Places, IsRecords(records'), KeepsResults,
         DiskFollows, phase' \in {phase, "lobby", "finished"}
  PROVE  StepHolds
<1>1. DiskAgrees' /\ DiskKeeps
  BY ResultsStay DEF QueueInv
<1>2. QueueTypes'
  BY DEF TaskIs, Places, QueueInv, QueueTypes, DiskFollows
<1>3. TaskIsOpen' /\ WorldsAreUp' /\ NamesAreTold'
  BY DEF TaskIs, Quiet, TaskIsOpen, Begun, WorldsAreUp, NamesAreTold
<1>4. StartsItsOwn
  BY DEF StartsItsOwn
<1> QED BY <1>1, <1>2, <1>3, <1>4 DEF StepHolds, QueueInv

\* The idle operation is one.
LEMMA IdleIs == ASSUME task' = Idle PROVE TaskIs({"idle"})
  BY DEF TaskIs, IsTask, Idle

\* A step that leaves the referee alone moves no player and no phase.
LEMMA PlacesStay == ASSUME QueueInv, UNCHANGED vars PROVE Places /\ phase' = phase
  BY DEF QueueInv, QueueTypes, Places, PerWorld, vars, teamVars, flowVars

\* Provisioning goes on: the same match, still open.
LEMMA GoesOn ==
  ASSUME QueueInv, TaskIs(Begun), task'.match \in Matches', IsBegun', Places, IsRecords(records'), KeepsResults, DiskFollows,
         WorldsAreUp', NamesAreTold', StartsItsOwn
  PROVE  StepHolds
<1>1. DiskAgrees' /\ DiskKeeps
  BY ResultsStay DEF QueueInv
<1>2. QueueTypes'
  BY DEF TaskIs, Places, QueueInv, QueueTypes, DiskFollows
<1>3. TaskIsOpen'
  BY DEF TaskIsOpen
<1> QED BY <1>1, <1>2, <1>3 DEF StepHolds, QueueInv

\* A join pairs two players into a new match or leaves the records alone.
LEMMA JoinStep == ASSUME QueueInv, NEW p \in Players, Join(p) PROVE StepHolds
<1>1. UNCHANGED vars /\ task.op = "idle" /\ DiskFollows
  BY DEF Join, Free, Idle, Snapshot, DiskFollows
<1>2. CASE UNCHANGED <<records, task>>
  <2>1. TaskIs(Quiet)
    BY <1>1, <1>2 DEF TaskIs, Quiet, QueueInv, QueueTypes, IsTask
  <2> QED BY <1>1, <1>2, <2>1, PlacesStay, RecordsUnchanged, QuietStep DEF QueueInv, QueueTypes
<1>3. CASE \E team : records' = Append(records, NewRecord(team, 0)) /\ task' = Task("start", Len(records) + 1, Worlds)
  <2>1. PICK team : records' = Append(records, NewRecord(team, 0))
    BY <1>3
  <2>2. /\ IsRecords(records') /\ KeepsResults /\ Len(records) + 1 \in Matches'
        /\ records'[Len(records) + 1].state = "provisioning"
    BY <2>1, MatchBegins DEF QueueInv
  <2>3. /\ TaskIs(Begun) /\ task'.match = Len(records) + 1 /\ task'.op = "start" /\ task'.worlds = Worlds
    BY <1>3 DEF TaskIs, IsTask, Task, Idle, Begun
  <2>4. WorldsAreUp' /\ NamesAreTold' /\ StartsItsOwn /\ IsBegun'
    BY <1>1, <2>2, <2>3, PlacesStay DEF WorldsAreUp, NamesAreTold, StartsItsOwn, IsBegun
  <2> QED BY <1>1, <2>2, <2>3, <2>4, PlacesStay, GoesOn
<1> QED BY <1>2, <1>3 DEF Join

\* A leave changes no record.
LEMMA LeaveStep == ASSUME QueueInv, NEW p \in Players, Leave(p) PROVE StepHolds
<1>1. UNCHANGED vars /\ UNCHANGED records /\ DiskFollows /\ task' = Idle
  BY Persisted DEF Leave
<1>2. TaskIs(Quiet)
  BY <1>1, IdleIs DEF TaskIs, Quiet
<1> QED BY <1>1, <1>2, PlacesStay, RecordsUnchanged, QuietStep DEF QueueInv, QueueTypes

\* A failed call of a provisioning rolls back.
LEMMA RolledIs ==
  ASSUME QueueTypes, task' = RolledTask \/ task' = [task EXCEPT !.op = "rollback"]
  PROVE  TaskIs(Begun) /\ task'.op = "rollback" /\ task'.match = task.match /\ task'.others = task.others
<1>1. IsTask /\ task.then \in {"idle", "create", "tidy", "settle"}
  BY DEF QueueTypes
<1>2. PICK worlds : task' = [op |-> "rollback", match |-> task.match, worlds |-> worlds, then |-> task.then,
                             todo |-> task.todo, result |-> task.result, others |-> task.others]
  BY <1>1 DEF RolledTask, IsTask
<1> QED BY <1>1, <1>2 DEF TaskIs, IsTask, Begun
LEMMA RollsBack ==
  ASSUME QueueInv, task.op \in Begun \ {"rollback"}, RollBack \/ task' = [task EXCEPT !.op = "rollback"],
         UNCHANGED <<records, disk>>, Places, phase # "running" /\ phase' = "running" => StartsItsOwn
  PROVE  StepHolds
<1>1. TaskIs(Begun) /\ task'.op = "rollback" /\ task'.match = task.match
  BY RolledIs DEF RollBack, QueueInv
<1>2. task'.match \in Matches' /\ IsBegun'
  BY <1>1 DEF QueueInv, TaskIsOpen, IsBegun, Matches
<1>3. WorldsAreUp' /\ NamesAreTold' /\ StartsItsOwn
  BY <1>1 DEF WorldsAreUp, NamesAreTold, StartsItsOwn
<1> QED BY <1>1, <1>2, <1>3, RecordsUnchanged, GoesOn DEF QueueInv, QueueTypes, DiskFollows

\* The next world, or the next step for both.
LEMMA NextWorldIs ==
  ASSUME QueueTypes, NEW op \in Begun, NextWorld(op)
  PROVE  /\ TaskIs({op, task.op}) /\ task'.match = task.match /\ task'.others = task.others
         /\ \/ task'.op = task.op /\ task'.worlds = task.worlds \ {FirstWorld}
            \/ task'.op = op /\ task'.worlds = Worlds /\ task.worlds \subseteq {FirstWorld}
<1> DEFINE rest == task.worlds \ {FirstWorld}
<1>1. IsTask /\ task.then \in {"idle", "create", "tidy", "settle"}
  BY DEF QueueTypes
<1>2. CASE rest # {}
  <2>1. task' = [op |-> task.op, match |-> task.match, worlds |-> rest, then |-> task.then,
                 todo |-> task.todo, result |-> task.result, others |-> task.others]
    BY <1>1, <1>2 DEF NextWorld, IsTask
  <2> HIDE DEF rest
  <2>2. IsTask' /\ task'.op = task.op /\ task'.worlds = rest /\ task'.match = task.match /\ task'.then = task.then
        /\ task'.others = task.others
    BY <2>1 DEF IsTask
  <2> QED BY <1>1, <2>2 DEF TaskIs, rest
<1>3. CASE rest = {}
  <2>1. task' = [op |-> op, match |-> task.match, worlds |-> Worlds, then |-> task.then,
                 todo |-> task.todo, result |-> task.result, others |-> task.others]
    <3>1. task' = [task EXCEPT !.op = op, !.worlds = Worlds]
      BY <1>3 DEF NextWorld
    <3> QED BY <1>1, <3>1 DEF IsTask
  <2>2. task.worlds \subseteq {FirstWorld}
    BY <1>3
  <2> HIDE DEF rest
  <2>3. IsTask' /\ task'.op = op /\ task'.worlds = Worlds /\ task'.match = task.match /\ task'.then = task.then
        /\ task'.others = task.others
    BY <2>1 DEF IsTask
  <2> QED BY <1>1, <2>2, <2>3 DEF TaskIs
<1> QED BY <1>2, <1>3

\* A started world runs for the match that is being provisioned.
LEMMA StartWorldStep == ASSUME QueueInv, StartWorld PROVE StepHolds
<1> DEFINE m == task.match
           w == FirstWorld
<1>1. UNCHANGED vars /\ disk' = disk /\ task.op = "start"
  BY DEF StartWorld
<1>2. m \in Matches /\ records[m].state = "provisioning" /\ IsRecord(records[m])
  <2>1. m \in Matches /\ records[m].state = "provisioning"
    BY <1>1 DEF QueueInv, TaskIsOpen, Begun, IsBegun
  <2>2. Matches = 1 .. Len(records)
    BY LenProperties DEF QueueInv, QueueTypes, IsRecords, Matches
  <2> QED BY <2>1, <2>2 DEF QueueInv, QueueTypes, IsRecords
<1>3. CASE RollBack /\ UNCHANGED records
  BY <1>1, <1>3, PlacesStay, RollsBack DEF Begun
<1>4. CASE /\ up' = up \union {<<m, w>>} /\ NextWorld("lobby")
           /\ records' = [records EXCEPT ![m].side = @ \union {w}]
  <2> DEFINE r == [records[m] EXCEPT !.side = @ \union {w}]
  <2>1. records' = [records EXCEPT ![m] = r]
    BY <1>4
  <2>2. IsRecord(r) /\ r.state = "provisioning" /\ r.team = records[m].team
    BY <1>2 DEF IsRecord
  <2> HIDE DEF r
  <2>3. IsRecords(records') /\ KeepsResults /\ Matches' = Matches /\ records'[m] = r
    BY <1>2, <2>1, <2>2, OpenChanges DEF QueueInv
  <2>4. /\ TaskIs({"lobby", "start"}) /\ task'.match = m
        /\ \/ task'.op = "start" /\ task'.worlds = task.worlds \ {w}
           \/ task'.op = "lobby" /\ task'.worlds = Worlds /\ task.worlds \subseteq {w}
    BY <1>1, <1>4, NextWorldIs DEF QueueInv, Begun
  <2>5. \A v \in Worlds : v \notin task.worlds \/ v = w => <<m, v>> \in up'
    BY <1>1, <1>4 DEF QueueInv, WorldsAreUp, Runs
  <2>6. WorldsAreUp'
    BY <2>4, <2>5 DEF WorldsAreUp, Runs
  <2>7. NamesAreTold' /\ StartsItsOwn
    BY <1>1, <2>4, PlacesStay DEF NamesAreTold, StartsItsOwn
  <2>8. TaskIs(Begun) /\ IsBegun'
    BY <1>2, <2>2, <2>3, <2>4 DEF TaskIs, Begun, IsBegun
  <2> QED BY <1>1, <1>2, <2>2, <2>3, <2>4, <2>6, <2>7, <2>8, PlacesStay, GoesOn DEF DiskFollows
<1> QED BY <1>3, <1>4 DEF StartWorld

\* A call of the referee: the match goes on with the next world, or is rolled back.
LEMMA CallStep ==
  ASSUME QueueInv, task.op \in {"lobby", "ready"}, NEW op \in {"ready", "mark"},
         UNCHANGED <<records, disk, up>>, Places,
         RollBack \/ NextWorld(op),
         NextWorld(op) => NamesAreTold', StartsItsOwn
  PROVE  StepHolds
<1>1. CASE RollBack
  BY <1>1, RollsBack DEF Begun
<1>2. CASE NextWorld(op)
  <2>1. TaskIs({op, task.op}) /\ task'.match = task.match
    BY <1>2, NextWorldIs DEF QueueInv, Begun
  <2>2. task.match \in Matches /\ records[task.match].state = "provisioning" /\ Matches' = Matches
    BY DEF QueueInv, TaskIsOpen, Begun, IsBegun, Matches
  <2>3. WorldsAreUp'
    BY <2>1 DEF QueueInv, WorldsAreUp, Runs, TaskIs
  <2>4. TaskIs(Begun) /\ IsBegun'
    BY <2>1, <2>2 DEF TaskIs, Begun, IsBegun
  <2> QED BY <1>2, <2>1, <2>2, <2>3, <2>4, RecordsUnchanged, GoesOn DEF QueueInv, QueueTypes, DiskFollows
<1> QED BY <1>1, <1>2

\* A registration tells the referee the match's own player and id.
LEMMA RegisterStep == ASSUME QueueInv, Register PROVE StepHolds
<1> DEFINE m == task.match
           w == FirstWorld
<1>1. UNCHANGED <<records, disk, up>> /\ task.op = "lobby" /\ m \in Nat /\ w \in Worlds
  <2>1. task.op = "lobby" /\ UNCHANGED <<records, disk, up>>
    BY DEF Register, coreVars
  <2>2. m \in Matches
    BY <2>1 DEF QueueInv, TaskIsOpen, Begun
  <2>3. Matches \subseteq Nat
    BY LenProperties DEF QueueInv, QueueTypes, IsRecords, Matches
  <2> QED BY <2>1, <2>2, <2>3 DEF FirstWorld, Worlds
<1>2. RegisterCall(w) \/ UNCHANGED vars
  BY DEF Register, Calls, Refused
<1>3. RegisterCall(w) => /\ player' = [player EXCEPT ![w] = records[m].team[w]]
                         /\ matchId' = [matchId EXCEPT ![w] = m] /\ phase' = phase
  BY <1>1, NoneIsNoId DEF RegisterCall, LobbyRegister, flowVars
<1>4. Places /\ phase' = phase
  <2>1. CASE RegisterCall(w)
    BY <1>3, <2>1 DEF QueueInv, QueueTypes, Places, PerWorld
  <2> QED BY <1>2, <2>1, PlacesStay
<1>5. RegisterCall(w) /\ NextWorld("ready") => NamesAreTold'
  <2> SUFFICES ASSUME RegisterCall(w), NextWorld("ready") PROVE NamesAreTold'
    OBVIOUS
  <2>1. PerWorld(player) /\ PerWorld(matchId)
    BY DEF QueueInv, QueueTypes
  <2>2. \A v \in Worlds : (~task.others /\ v \notin task.worlds) \/ v = w =>
          matchId'[v] = m /\ player'[v] = records[m].team[v]
    BY <1>1, <1>3, <2>1 DEF QueueInv, NamesAreTold, Named, PerWorld
  <2>3. /\ task'.match = m /\ task'.others = task.others
        /\ \/ task'.op = "lobby" /\ task'.worlds = task.worlds \ {w}
           \/ task'.op = "ready" /\ task'.worlds = Worlds /\ task.worlds \subseteq {w}
    BY <1>1, NextWorldIs DEF QueueInv, Begun
  <2> QED BY <1>1, <2>2, <2>3 DEF NamesAreTold, Named
<1>6. RollBack \/ (RegisterCall(w) /\ NextWorld("ready"))
  BY DEF Register, Calls
<1>7. StartsItsOwn
  BY <1>4 DEF StartsItsOwn
<1>8. CASE RollBack
  BY <1>1, <1>4, <1>7, <1>8, RollsBack DEF Begun
<1>9. CASE RegisterCall(w) /\ NextWorld("ready")
  BY <1>1, <1>4, <1>5, <1>7, <1>9, CallStep
<1> QED BY <1>6, <1>8, <1>9

\* The ready that starts the referee's match finds its worlds up and its names told.
LEMMA ReadyWorldStep == ASSUME QueueInv, ReadyWorld PROVE StepHolds
<1>1. UNCHANGED <<records, disk, up>> /\ task.op = "ready"
  BY DEF ReadyWorld, coreVars
<1>2. UNCHANGED <<player, matchId>>
  <2>1. Ready(FirstWorld) \/ UNCHANGED vars
    BY DEF ReadyWorld, Calls, ReadyCall, Refused
  <2> QED BY <2>1 DEF Ready, Start, vars, teamVars
<1>3. Places
  BY <1>2 DEF QueueInv, QueueTypes, Places, PerWorld
<1>4. \A w \in Worlds : Runs(w) /\ (~task.others => Named(w))
  BY <1>1 DEF QueueInv, NamesAreTold, WorldsAreUp
<1>6. RollBack \/ NextWorld("mark")
  BY DEF ReadyWorld, Calls
<1>8. task'.others = task.others
  BY <1>6, RolledIs, NextWorldIs DEF RollBack, QueueInv, Begun
<1>5. StartsItsOwn
  BY <1>2, <1>4, <1>8 DEF StartsItsOwn, Named, Runs
<1>7. NextWorld("mark") => NamesAreTold'
  <2> SUFFICES ASSUME NextWorld("mark") PROVE NamesAreTold'
    OBVIOUS
  <2>1. task'.match = task.match /\ task'.op \in {"ready", "mark"}
    BY <1>1, NextWorldIs DEF QueueInv, Begun
  <2> QED BY <1>1, <1>2, <1>4, <1>8, <2>1 DEF NamesAreTold, Named
<1> QED BY <1>1, <1>3, <1>5, <1>6, <1>7, CallStep

\* The state of an open match is set and written.
LEMMA StateSet ==
  ASSUME QueueInv, task.op \in Begun, NEW state \in {"ready", "failed"},
         records' = [records EXCEPT ![task.match].state = state], DiskFollows,
         TaskIs(Quiet), Places, phase' \in {phase, "lobby", "finished"}
  PROVE  StepHolds
<1> DEFINE m == task.match
           r == [records[m] EXCEPT !.state = state]
<1>1. m \in Matches /\ records[m].state # "finished" /\ IsRecord(records[m])
  <2>1. m \in Matches /\ records[m].state # "finished"
    BY DEF QueueInv, TaskIsOpen, IsBegun
  <2>2. Matches = 1 .. Len(records)
    BY LenProperties DEF QueueInv, QueueTypes, IsRecords, Matches
  <2> QED BY <2>1, <2>2 DEF QueueInv, QueueTypes, IsRecords
<1>2. IsRecord(r) /\ records' = [records EXCEPT ![m] = r]
  BY <1>1 DEF IsRecord
<1> HIDE DEF r
<1>3. IsRecords(records') /\ KeepsResults
  BY <1>1, <1>2, OpenChanges DEF QueueInv
<1> QED BY <1>3, QuietStep

\* A provisioned match becomes ready, or is rolled back although it is.
LEMMA MarkReadyStep == ASSUME QueueInv, MarkReady PROVE StepHolds
<1> DEFINE m == task.match
           next == IF records[m].of = 0 THEN Idle ELSE Task("anchor", m, {})
<1>1. /\ UNCHANGED vars /\ task.op = "mark" /\ DiskFollows
      /\ records' = [records EXCEPT ![m].state = "ready"] /\ task' \in {next, RolledTask}
  BY Persisted DEF MarkReady
<1>2. CASE task' = next
  <2>1. TaskIs(Quiet)
    BY <1>2 DEF TaskIs, IsTask, Task, Idle, Quiet
  <2> QED BY <1>1, <2>1, PlacesStay, StateSet DEF Begun
<1>3. CASE task' = RolledTask /\ task' # next
  <2>1. TaskIs(Begun) /\ task'.op = "rollback" /\ task'.match = m
    BY <1>3, RolledIs DEF QueueInv
  <2>2. m \in Matches /\ records[m].state = "provisioning" /\ IsRecord(records[m])
    <3>1. m \in Matches /\ records[m].state = "provisioning"
      BY <1>1 DEF QueueInv, TaskIsOpen, Begun, IsBegun
    <3>2. Matches = 1 .. Len(records)
      BY LenProperties DEF QueueInv, QueueTypes, IsRecords, Matches
    <3> QED BY <3>1, <3>2 DEF QueueInv, QueueTypes, IsRecords
  <2> DEFINE r == [records[m] EXCEPT !.state = "ready"]
  <2>3. IsRecord(r) /\ records' = [records EXCEPT ![m] = r] /\ r.state = "ready"
    BY <1>1, <2>2 DEF IsRecord
  <2> HIDE DEF r
  <2>4. IsRecords(records') /\ KeepsResults /\ Matches' = Matches /\ records'[m] = r
    BY <2>2, <2>3, OpenChanges DEF QueueInv
  <2>5. m \in unsaved'
    BY <1>3 DEF MarkReady, Persist
  <2>6. IsBegun'
    BY <2>1, <2>3, <2>4, <2>5 DEF IsBegun
  <2>7. WorldsAreUp' /\ NamesAreTold' /\ StartsItsOwn
    BY <1>1, <2>1, PlacesStay DEF WorldsAreUp, NamesAreTold, StartsItsOwn
  <2> QED BY <1>1, <2>1, <2>2, <2>4, <2>6, <2>7, PlacesStay, GoesOn
<1> QED BY <1>1, <1>2, <1>3

\* A match that fails was not finished.
LEMMA FailedStep ==
  ASSUME QueueInv, task.op \in Begun, MarkFailed(task.match), Places, phase' \in {phase, "lobby"}
  PROVE  StepHolds
<1>1. task' = Idle /\ DiskFollows
  BY Persisted DEF MarkFailed
<1>2. TaskIs(Quiet)
  BY <1>1, IdleIs DEF TaskIs, Quiet
<1> QED BY <1>1, <1>2, StateSet DEF MarkFailed

\* A rollback that is through fails the match.
LEMMA RolledBackStep == ASSUME QueueInv, RolledBack PROVE StepHolds
  BY PlacesStay, FailedStep DEF RolledBack, Begun

\* A rollback stops the worlds it started.
LEMMA StopStartedStep == ASSUME QueueInv, StopStarted PROVE StepHolds
<1>1. UNCHANGED vars /\ UNCHANGED <<records, disk, unsaved>> /\ task.op = "rollback"
  BY DEF StopStarted, coreVars, history
<1>2. TaskIs(Begun) /\ task'.op = "rollback" /\ task'.match = task.match
  <2>1. task' = [task EXCEPT !.worlds = @ \ {FirstWorld}]
    BY DEF StopStarted
  <2> QED BY <1>1, <2>1 DEF QueueInv, QueueTypes, IsTask, TaskIs, Begun
<1>3. task'.match \in Matches' /\ IsBegun'
  BY <1>1, <1>2 DEF QueueInv, TaskIsOpen, Begun, IsBegun, Matches
<1>4. WorldsAreUp' /\ NamesAreTold' /\ StartsItsOwn
  BY <1>1, <1>2, PlacesStay DEF WorldsAreUp, NamesAreTold, StartsItsOwn
<1> QED BY <1>1, <1>2, <1>3, <1>4, PlacesStay, RecordsUnchanged, GoesOn DEF QueueInv, QueueTypes, DiskFollows

\* What goes on after a finish, and the finish up to its first stop.
LEMMA ContinueIs ==
  ASSUME NEW t, NEW then \in {"idle", "create", "tidy", "settle"},
         t = [op |-> t.op, match |-> t.match, worlds |-> t.worlds, then |-> then, todo |-> t.todo, result |-> t.result, others |-> t.others],
         task' = Continue(t)
  PROVE  TaskIs(Quiet)
<1>1. CASE task' = Idle
  BY <1>1, IdleIs DEF TaskIs, Quiet
<1>2. CASE task' = [t EXCEPT !.op = t.then, !.worlds = {}]
  <2>1. [t EXCEPT !.op = t.then] =
          [op |-> then, match |-> t.match, worlds |-> t.worlds, then |-> then, todo |-> t.todo, result |-> t.result, others |-> t.others]
    OBVIOUS
  <2>2. task' = [op |-> then, match |-> t.match, worlds |-> {}, then |-> then, todo |-> t.todo, result |-> t.result, others |-> t.others]
    BY <1>2, <2>1
  <2> QED BY <2>2 DEF TaskIs, IsTask, Quiet
<1> QED BY <1>1, <1>2 DEF Continue

\* A finish writes a result only where there is none.
LEMMA FinishBegins ==
  ASSUME QueueInv, NEW m, NEW result, NEW then \in {"idle", "create", "tidy", "settle"}, NEW todo,
         BeginFinish(m, result, then, todo), UNCHANGED vars
  PROVE  StepHolds
<1> DEFINE t == [op |-> "stop", match |-> m, worlds |-> records[m].side, then |-> then,
                 todo |-> todo, result |-> task.result, others |-> FALSE]
<1>1. TaskIs(Quiet)
  <2>1. task' = t \/ task' = Continue(t) \/ task' = Idle
    BY Persisted DEF BeginFinish
  <2>2. CASE task' = t
    BY <2>2 DEF TaskIs, IsTask, Quiet
  <2>3. CASE task' = Continue(t)
    BY <2>3, ContinueIs
  <2>4. CASE task' = Idle
    BY <2>4, IdleIs DEF TaskIs, Quiet
  <2> QED BY <2>1, <2>2, <2>3, <2>4
<1>2. DiskFollows /\ records' = Finished(m, result)
  BY Persisted DEF BeginFinish, Written
<1>3. IsRecords(records') /\ KeepsResults
  <2>1. CASE records[m].state = "finished" \/ m \notin Matches
    <3>1. records' = records
      <4>1. CASE records[m].state = "finished"
        BY <1>2, <4>1 DEF Finished
      <4>2. CASE m \notin Matches /\ records[m].state # "finished"
        BY <1>2, <4>2 DEF Finished, Matches, QueueInv, QueueTypes, IsRecords
      <4> QED BY <2>1, <4>1, <4>2
    <3> QED BY <3>1, RecordsUnchanged DEF QueueInv, QueueTypes
  <2>2. CASE records[m].state # "finished" /\ m \in Matches
    <3>1. IsRecord(records[m])
      <4>1. Matches = 1 .. Len(records)
        BY LenProperties DEF QueueInv, QueueTypes, IsRecords, Matches
      <4> QED BY <2>2, <4>1 DEF QueueInv, QueueTypes, IsRecords
    <3>2. IsRecord(Ended(records[m], result))
      <4> DEFINE r == [records[m] EXCEPT !.state = "finished"]
                 res == IF result = None THEN r.result ELSE result
      <4>1. IsRecord(r) /\ r.result = records[m].result
        BY <3>1 DEF IsRecord
      <4>2. Ended(records[m], result) = [r EXCEPT !.result = res]
        BY <4>1 DEF Ended
      <4> HIDE DEF r, res
      <4> QED BY <4>1, <4>2 DEF IsRecord
    <3>3. records' = [records EXCEPT ![m] = Ended(records[m], result)]
      BY <1>2, <2>2 DEF Finished
    <3> QED BY <2>2, <3>2, <3>3, OpenChanges DEF QueueInv
  <2> QED BY <2>1, <2>2
<1> QED BY <1>1, <1>2, <1>3, PlacesStay, QuietStep

\* The operations that only finish, and those that read or stop.
LEMMA FinishSteps ==
  ASSUME QueueInv,
         \/ \E m \in 1 .. MaxMatches : AskRematch(m) \/ \E r \in Results : Finish(m, r)
         \/ Tidy \/ Settle
  PROVE  StepHolds
  BY FinishBegins DEF AskRematch, Finish, Tidy, Settle

\* The reconciler's reading and a stop change no record.
LEMMA QuietSteps ==
  ASSUME QueueInv, Reconcile \/ ReadReferee \/ StopWorld PROVE StepHolds
<1>1. UNCHANGED <<records, disk>> /\ UNCHANGED vars
  BY DEF Reconcile, ReadReferee, StopWorld, coreVars
<1>2. TaskIs(Quiet)
  <2>1. CASE Reconcile
    BY <2>1 DEF Reconcile, TaskIs, IsTask, Idle, Quiet
  <2>2. CASE ReadReferee
    <3>1. CASE task' = Idle
      BY <3>1, IdleIs DEF TaskIs, Quiet
    <3>2. CASE task' # Idle
      BY <2>2, <3>2 DEF ReadReferee, TaskIs, IsTask, Idle, Quiet
    <3> QED BY <3>1, <3>2
  <2>3. CASE StopWorld
    <3>1. IsTask /\ task.then \in {"idle", "create", "tidy", "settle"} /\ task.op = "stop"
      BY <2>3 DEF StopWorld, QueueInv, QueueTypes
    <3>2. CASE task' = [task EXCEPT !.worlds = @ \ {FirstWorld}]
      BY <3>1, <3>2 DEF TaskIs, IsTask, Quiet
    <3>3. CASE task' = Idle
      BY <3>3, IdleIs DEF TaskIs, Quiet
    <3>4. CASE task' = Continue(task)
      BY <3>1, <3>4, ContinueIs DEF IsTask
    <3> QED BY <2>3, <3>2, <3>3, <3>4 DEF StopWorld, StopFailed
  <2> QED BY <2>1, <2>2, <2>3
<1> QED BY <1>1, <1>2, PlacesStay, RecordsUnchanged, QuietStep DEF QueueInv, QueueTypes, DiskFollows

\* A finish that is through persists the records.
LEMMA WrittenSteps == ASSUME QueueInv, Anchor \/ Stopped PROVE StepHolds
<1>1. UNCHANGED records /\ UNCHANGED vars /\ DiskFollows /\ task' \in {Idle, Continue(task)}
  BY Persisted DEF Anchor, Stopped
<1>2. TaskIs(Quiet)
  <2>1. CASE task' = Idle
    BY <2>1, IdleIs DEF TaskIs, Quiet
  <2>2. CASE task' = Continue(task)
    BY <2>2, ContinueIs DEF QueueInv, QueueTypes, IsTask
  <2> QED BY <1>1, <2>1, <2>2
<1> QED BY <1>1, <1>2, PlacesStay, RecordsUnchanged, QuietStep DEF QueueInv, QueueTypes

\* A rematch is a new match that is being provisioned, or left alone where the
\* write is refused.
LEMMA CreateStep == ASSUME QueueInv, CreateRematch PROVE StepHolds
<1> DEFINE m == Len(records) + 1
<1>1. UNCHANGED vars /\ DiskFollows /\ task' \in {Task("reset", m, {}), Idle}
  BY Persisted DEF CreateRematch
<1>2. IsRecords(records') /\ KeepsResults /\ m \in Matches' /\ records'[m].state = "provisioning"
  BY MatchBegins DEF CreateRematch, QueueInv
<1>3. CASE task' = Task("reset", m, {})
  <2>1. TaskIs(Begun) /\ task'.match = m /\ task'.op = "reset"
    BY <1>3 DEF TaskIs, IsTask, Task, Idle, Begun
  <2>2. WorldsAreUp' /\ NamesAreTold' /\ StartsItsOwn /\ IsBegun'
    BY <1>1, <1>2, <2>1, PlacesStay DEF WorldsAreUp, NamesAreTold, StartsItsOwn, IsBegun
  <2> QED BY <1>1, <1>2, <2>1, <2>2, PlacesStay, GoesOn
<1>4. CASE task' = Idle
  <2>1. TaskIs(Quiet)
    BY <1>4, IdleIs DEF TaskIs, Quiet
  <2> QED BY <1>1, <1>2, <2>1, PlacesStay, QuietStep
<1> QED BY <1>1, <1>3, <1>4

\* The referee is reset: its names stay, its echoes go.
LEMMA Resets == ASSUME QueueInv, Rematch PROVE Places /\ phase' = "lobby"
  BY DEF Rematch, ClearEcho, AllWorlds, QueueInv, QueueTypes, Places, PerWorld

\* The referee's rematch leaves its match in the lobby.
LEMMA ResetStep == ASSUME QueueInv, ResetReferee PROVE StepHolds
<1>1. Places /\ phase' \in {phase, "lobby"} /\ task.op = "reset"
  BY Resets, PlacesStay DEF ResetReferee, Refused
<1>4. UNCHANGED <<records, disk>>
  BY DEF ResetReferee, coreVars
<1>2. CASE task' = [task EXCEPT !.op = "rollback"]
  BY <1>1, <1>2, <1>4, RollsBack DEF Begun, StartsItsOwn
<1>3. CASE task' = Task("start", task.match, Worlds)
  <2>1. TaskIs(Begun) /\ task'.match = task.match /\ task'.op = "start" /\ task'.worlds = Worlds
    BY <1>3 DEF TaskIs, IsTask, Task, Idle, Begun
  <2>2. task.match \in Matches' /\ IsBegun' /\ records' = records
    BY <1>1, <1>4, <2>1 DEF QueueInv, TaskIsOpen, Begun, IsBegun, Matches
  <2>3. WorldsAreUp' /\ NamesAreTold' /\ StartsItsOwn
    BY <1>1, <2>1 DEF WorldsAreUp, NamesAreTold, StartsItsOwn
  <2> QED BY <1>1, <1>4, <2>1, <2>2, <2>3, RecordsUnchanged, GoesOn DEF QueueInv, QueueTypes, DiskFollows
<1> QED BY <1>2, <1>3 DEF ResetReferee

\* The referee decides: the operation under way goes on.
LEMMA DecideStep == ASSUME QueueInv, NEW w \in Worlds, Decide(w) PROVE StepHolds
<1>1. UNCHANGED <<records, disk, task, up, unsaved>>
  BY DEF Decide, queueVars, coreVars, worldVars, history
<1>2. KeepsResults /\ DiskFollows /\ Matches' = Matches
  BY <1>1, RecordsUnchanged DEF DiskFollows, Matches
<1>3. UNCHANGED <<player, matchId>> /\ phase' \in {phase, "finished"}
  BY DEF Decide, ReportHq
<1>4. QueueInv'
  BY <1>1, <1>2, <1>3
  DEF QueueInv, QueueTypes, IsTask, DiskAgrees, TaskIsOpen, IsBegun, WorldsAreUp, NamesAreTold, Runs, Named
<1>5. DiskKeeps /\ StartsItsOwn
  BY <1>1, <1>3 DEF DiskKeeps, StartsItsOwn
<1> QED BY <1>4, <1>5 DEF StepHolds

\* Another client's call leaves the queue's side alone; what the task has told the
\* referee no longer counts.
LEMMA StrangerTask ==
  ASSUME QueueInv, Stranger
  PROVE  /\ IsTask' /\ task'.op = task.op /\ task'.match = task.match /\ task'.worlds = task.worlds
         /\ task'.then = task.then /\ task'.todo = task.todo /\ task'.others = (task # Idle)
<1>1. task' = [op |-> task.op, match |-> task.match, worlds |-> task.worlds, then |-> task.then,
               todo |-> task.todo, result |-> task.result, others |-> task # Idle]
  BY DEF Stranger, QueueInv, QueueTypes, IsTask
<1> QED BY <1>1 DEF IsTask
LEMMA StrangerStep == ASSUME QueueInv, Stranger PROVE StepHolds
<1>1. UNCHANGED <<records, disk, up, unsaved>> /\ OtherCall
  BY DEF Stranger, coreVars, history
<1>2. KeepsResults /\ DiskFollows /\ Matches' = Matches
  BY <1>1, RecordsUnchanged DEF DiskFollows, Matches
<1>3. Places
  <2>1. CASE \E w \in Worlds, p \in Players, m \in OtherIds : LobbyRegister(w, p, m)
    BY <2>1 DEF LobbyRegister, QueueInv, QueueTypes, Places, PerWorld
  <2>2. CASE Go \/ \E w \in Worlds : Ready(w) \/ ReportHq(w, 0)
    <3>1. UNCHANGED <<player, matchId>>
      BY <2>2 DEF Go, Ready, Start, ReportHq
    <3> QED BY <3>1 DEF QueueInv, QueueTypes, Places, PerWorld
  <2>3. CASE \E p \in Players : StartSp(p)
    BY <2>3 DEF StartSp, ClearEcho, AllWorlds, Places, PerWorld
  <2>4. CASE Rematch
    BY <2>4, Resets
  <2> QED BY <1>1, <2>1, <2>2, <2>3, <2>4 DEF OtherCall
<1>4. /\ IsTask' /\ task'.op = task.op /\ task'.match = task.match /\ task'.worlds = task.worlds
      /\ task'.then = task.then /\ task'.others = (task # Idle)
  BY StrangerTask
<1>5. StartsItsOwn
  BY <1>4 DEF StartsItsOwn
<1>6. NamesAreTold'
  <2>1. CASE task # Idle
    BY <1>4, <2>1 DEF NamesAreTold
  <2>2. CASE task = Idle
    BY <1>4, <2>2 DEF NamesAreTold, Idle
  <2> QED BY <2>1, <2>2
<1>7. QueueTypes' /\ DiskAgrees' /\ TaskIsOpen' /\ WorldsAreUp'
  BY <1>1, <1>2, <1>3, <1>4
  DEF QueueInv, QueueTypes, Places, DiskAgrees, TaskIsOpen, IsBegun, WorldsAreUp, Runs
<1>8. DiskKeeps
  BY <1>1 DEF DiskKeeps
<1> QED BY <1>5, <1>6, <1>7, <1>8 DEF StepHolds, QueueInv

\* The service comes back with what it wrote.
LEMMA CrashStep == ASSUME QueueInv, Crash PROVE StepHolds
<1>1. UNCHANGED vars /\ disk' = disk /\ records' = disk.records
  BY DEF Crash
<1>2. TaskIs(Quiet)
  BY IdleIs DEF Crash, TaskIs, Quiet
<1>3. QueueTypes'
  BY <1>1, <1>2, PlacesStay DEF QueueInv, QueueTypes, TaskIs, Places
<1>4. DiskAgrees' /\ DiskKeeps
  BY <1>1 DEF DiskAgrees, SameResult, Matches, DiskKeeps
<1>5. TaskIsOpen' /\ WorldsAreUp' /\ NamesAreTold' /\ StartsItsOwn
  BY <1>1, <1>2, PlacesStay DEF TaskIs, Quiet, Begun, TaskIsOpen, WorldsAreUp, NamesAreTold, StartsItsOwn
<1> QED BY <1>3, <1>4, <1>5 DEF StepHolds, QueueInv

-----------------------------------------------------------------------------
(* Worlds and places: what a record says of worlds and players.            *)

\* A ready match's worlds run; what is ready on disk is so in memory, both where the
\* writes about the match went through; what counts as cleaned up, in memory or on
\* disk, is finished and its worlds are gone.
ReadyRuns == \A m \in Matches \ unsaved : records[m].state = "ready" => \A w \in Worlds : <<m, w>> \in up
DiskReady == \A m \in DOMAIN disk.records \ unsaved : disk.records[m].state = "ready" => records[m].state = "ready"
CleanIn(rs, done) == \A m \in done :
  m \in DOMAIN rs /\ rs[m].state = "finished" /\ \A w \in rs[m].side : <<m, w>> \notin up
MarkedRuns == task.op = "mark" => \A w \in Worlds : Runs(w)
StoppedSoFar == task.op = "stop" =>
  /\ task.match \in Matches /\ records[task.match].state = "finished"
  /\ \A w \in records[task.match].side \ task.worlds : ~Runs(w)
WorldsInv ==
  ReadyRuns /\ DiskReady /\ MarkedRuns /\ StoppedSoFar /\ CleanIn(records, cleaned) /\ CleanIn(disk.records, disk.cleaned)

\* A queue and records that fit: a waiting player waits once and, if no rematch led
\* them astray (off), is in no open match; a player of an open match is in no other.
IsQueue(q) == q \in Seq(Players) /\ \A i, j \in 1 .. Len(q) : q[i] = q[j] => i = j
IsOpen(rs, m) == m \in DOMAIN rs /\ rs[m].state \in Active
Plays(rs, m, p) == \E w \in Worlds : rs[m].team[w] = p
Waiting(q, p) == \E i \in 1 .. Len(q) : q[i] = p
Fit(q, rs, off) ==
  /\ IsQueue(q) /\ \A m \in DOMAIN rs, w \in Worlds : rs[m].team[w] \in Players
  /\ \A m \in DOMAIN rs, p \in Players \ off : IsOpen(rs, m) /\ Plays(rs, m, p) =>
       /\ ~Waiting(q, p)
       /\ \A n \in DOMAIN rs : IsOpen(rs, n) /\ Plays(rs, n, p) => n = m

\* The players of open matches, and only they, are bound to them.
BoundAgrees ==
  /\ bound \in [Players -> Nat]
  /\ \A m \in Matches, p \in Players \ astray : IsOpen(records, m) /\ Plays(records, m, p) => bound[p] = m
  /\ \A p \in Players : bound[p] # 0 => IsOpen(records, bound[p]) /\ Plays(records, bound[p], p)

\* What the operation under way has yet to finish, or to play again, are matches.
LeftIsThere ==
  /\ task.op \in {"tidy", "settle"} \/ (task.op = "stop" /\ task.then \in {"tidy", "settle"}) =>
       task.todo \subseteq Matches
  /\ task.op = "create" \/ (task.op = "stop" /\ task.then = "create") => task.match \in Matches
PlacesInv == Fit(queue, records, astray) /\ Fit(disk.queue, disk.records, astray) /\ BoundAgrees /\ LeftIsThere
Strays == astray \subseteq astray'

\* What a step does to ready and finished matches and to the worlds that run.
Grows == unsaved \subseteq unsaved'
KeepsReady == \A m \in Matches \ unsaved' : records[m].state = "ready" => m \in Matches' /\ records'[m].state = "ready"
KeepsFinished == \A m \in Matches : records[m].state = "finished" =>
  m \in Matches' /\ records'[m].state = "finished" /\ records'[m].side = records[m].side
NoneComesUp == \A m \in Matches : \A w : records[m].state = "finished" /\ <<m, w>> \in up' => <<m, w>> \in up
DiskOf(rs, done) == disk'.records = rs /\ disk'.cleaned = done
DiskIsOld == disk' = disk \/ DiskOf(records, cleaned)
DiskIsNew == DiskOf(records', cleaned')

\* A step that leaves finished matches and their worlds alone keeps the worlds'
\* invariant, if what it is about does.
LEMMA WorldsKept ==
  ASSUME QueueInv, WorldsInv, Grows, KeepsFinished, NoneComesUp, cleaned' = cleaned,
         DiskIsNew \/ (DiskIsOld /\ KeepsReady),
         ReadyRuns', MarkedRuns', StoppedSoFar'
  PROVE  WorldsInv'
<1>1. CleanIn(records, cleaned)'
  BY DEF WorldsInv, CleanIn, KeepsFinished, NoneComesUp, Matches
<1>2. \A m \in disk.cleaned :
        /\ m \in Matches /\ m \in DOMAIN disk.records
        /\ disk.records[m].state = "finished" /\ records[m].state = "finished"
        /\ \A w \in disk.records[m].side : <<m, w>> \notin up
  BY DEF WorldsInv, CleanIn, QueueInv, DiskAgrees, SameResult
<1>3. CASE disk' = disk /\ KeepsReady
  <2>1. CleanIn(disk.records, disk.cleaned)'
    BY <1>2, <1>3 DEF CleanIn, NoneComesUp
  <2>2. DiskReady'
    BY <1>3 DEF WorldsInv, DiskReady, KeepsReady, Grows, QueueInv, DiskAgrees
  <2> QED BY <1>1, <2>1, <2>2 DEF WorldsInv
<1>4. CASE DiskOf(records, cleaned) /\ KeepsReady
  <2>1. CleanIn(disk.records, disk.cleaned)'
    BY <1>4 DEF WorldsInv, CleanIn, NoneComesUp, DiskOf, Matches
  <2>2. DiskReady'
    BY <1>4 DEF DiskReady, KeepsReady, DiskOf, Matches
  <2> QED BY <1>1, <2>1, <2>2 DEF WorldsInv
<1>5. CASE DiskIsNew
  <2>1. CleanIn(disk.records, disk.cleaned)'
    BY <1>1, <1>5 DEF CleanIn, DiskIsNew, DiskOf
  <2>2. DiskReady'
    BY <1>5 DEF DiskReady, DiskIsNew, DiskOf
  <2> QED BY <1>1, <2>1, <2>2 DEF WorldsInv
<1> QED BY <1>3, <1>4, <1>5 DEF DiskIsOld

\* Such is a step that changes no record and no world and does not begin to stop any.
Elsewhere == \/ task'.op = task.op /\ task'.match = task.match /\ task'.worlds = task.worlds
             \/ task'.op \notin {"mark", "stop"}
LEMMA WorldsUntouched ==
  ASSUME QueueInv, WorldsInv, Grows, UNCHANGED <<records, cleaned, up>>, DiskIsNew \/ DiskIsOld, Elsewhere
  PROVE  WorldsInv'
<1>1. KeepsReady /\ KeepsFinished /\ NoneComesUp
  BY DEF KeepsReady, KeepsFinished, NoneComesUp, Matches
<1>2. ReadyRuns' /\ MarkedRuns' /\ StoppedSoFar'
  BY DEF WorldsInv, Grows, ReadyRuns, MarkedRuns, StoppedSoFar, Elsewhere, Runs, Matches
<1> QED BY <1>1, <1>2, WorldsKept

\* So is one that changes the record of the match that is being provisioned, and
\* its worlds.
LEMMA WorldsOfOpen ==
  ASSUME QueueInv, WorldsInv, Grows, task.op \in Begun, NEW r, records' = [records EXCEPT ![task.match] = r],
         cleaned' = cleaned, \A x : x[1] # task.match => (x \in up' <=> x \in up),
         r.state = "ready" => task.match \in unsaved' \/ \A w \in Worlds : <<task.match, w>> \in up',
         DiskIsNew \/ disk' = disk, MarkedRuns', task'.op # "stop"
  PROVE  WorldsInv'
<1>1. /\ task.match \in Matches /\ records[task.match].state # "finished" /\ Matches' = Matches
      /\ records[task.match].state = "ready" => task.match \in unsaved'
      /\ \A m \in Matches : records'[m] = IF m = task.match THEN r ELSE records[m]
  BY DEF QueueInv, TaskIsOpen, IsBegun, Grows, Matches
<1>2. \A m \in Matches : \A w : m # task.match => (<<m, w>> \in up' <=> <<m, w>> \in up)
  OBVIOUS
<1>3. KeepsReady /\ KeepsFinished /\ NoneComesUp
  BY <1>1, <1>2 DEF KeepsReady, KeepsFinished, NoneComesUp
<1>4. ReadyRuns' /\ StoppedSoFar'
  BY <1>1, <1>2 DEF WorldsInv, Grows, ReadyRuns, StoppedSoFar
<1> QED BY <1>3, <1>4, WorldsKept DEF DiskIsOld

\* A new match has no worlds yet.
LEMMA WorldsOfNew ==
  ASSUME QueueInv, WorldsInv, Grows, NEW team, NEW of, records' = Append(records, NewRecord(team, of)),
         UNCHANGED <<cleaned, up>>, DiskIsNew \/ DiskIsOld, task'.op \notin {"mark", "stop"}
  PROVE  WorldsInv'
<1>1. IsRecord(NewRecord(team, of)) /\ IsRecords(records) /\ NewRecord(team, of).state = "provisioning"
  BY DEF IsRecord, NewRecord, QueueInv, QueueTypes
<1>2. /\ Matches = 1 .. Len(records) /\ Matches' = 1 .. Len(records) + 1 /\ Len(records) \in Nat
      /\ records'[Len(records) + 1].state = "provisioning"
      /\ \A m \in Matches : records'[m] = records[m]
  BY <1>1, RecordAppended DEF Matches
<1>3. KeepsReady /\ KeepsFinished /\ NoneComesUp
  BY <1>2 DEF KeepsReady, KeepsFinished, NoneComesUp
<1>4. ReadyRuns'
  <2> SUFFICES ASSUME NEW m \in Matches' \ unsaved', records'[m].state = "ready"
               PROVE  \A w \in Worlds : <<m, w>> \in up
    BY DEF ReadyRuns
  <2>1. m \in Matches \ unsaved
    BY <1>2 DEF Grows
  <2> QED BY <1>2, <2>1 DEF WorldsInv, ReadyRuns
<1>5. MarkedRuns' /\ StoppedSoFar'
  BY DEF MarkedRuns, StoppedSoFar
<1> QED BY <1>3, <1>4, <1>5, WorldsKept

\* A persisted step writes the records and what is cleaned up, or nothing.
LEMMA PersistedAll ==
  ASSUME NEW about, NEW next, NEW failed, Persist(about, next, failed)
  PROVE  DiskIsNew \/ (disk' = disk /\ about \subseteq unsaved')
  BY DEF Persist, Snapshot, DiskIsNew, DiskOf

\* A join waits, or begins a match.
LEMMA JoinWorlds == ASSUME QueueInv, WorldsInv, Grows, NEW p \in Players, Join(p) PROVE WorldsInv'
<1>1. UNCHANGED <<cleaned, up>> /\ DiskIsOld
  BY DEF Join, Snapshot, DiskIsOld, DiskOf
<1>2. CASE UNCHANGED <<records, task>>
  BY <1>1, <1>2, WorldsUntouched DEF Elsewhere
<1>3. CASE \E team : records' = Append(records, NewRecord(team, 0)) /\ task' = Task("start", Len(records) + 1, Worlds)
  <2>1. task'.op \notin {"mark", "stop"}
    BY <1>3 DEF Task, Idle
  <2> QED BY <1>1, <1>3, <2>1, WorldsOfNew
<1> QED BY <1>2, <1>3 DEF Join

\* Steps that change no record and no world.
LEMMA UntouchedSteps ==
  ASSUME QueueInv, WorldsInv, Grows,
         \/ \E p \in Players : Leave(p)
         \/ Reconcile \/ ReadReferee \/ Anchor \/ Stranger \/ \E w \in Worlds : Decide(w)
  PROVE  WorldsInv'
<1>1. UNCHANGED <<records, cleaned, up>>
  BY DEF Leave, Reconcile, ReadReferee, Anchor, Stranger, Decide, queueVars, coreVars, worldVars
<1>2. disk' = disk \/ DiskIsNew
  BY PersistedAll DEF Leave, Reconcile, ReadReferee, Anchor, Stranger, Decide, queueVars
<1>3. Elsewhere
  <2>1. CASE Stranger
    BY <2>1, StrangerTask DEF Elsewhere
  <2>2. CASE ~Stranger
    <3>1. task' = task \/ task' = Idle \/ task'.op \in {"tidy", "settle"}
      BY <2>2, Persisted DEF Leave, Reconcile, ReadReferee, Anchor, Decide, queueVars, Idle
    <3> QED BY <3>1 DEF Elsewhere, Idle
  <2> QED BY <2>1, <2>2
<1> QED BY <1>1, <1>2, <1>3, WorldsUntouched DEF DiskIsOld

\* A call of the provisioning is answered: the match goes on or is rolled back.
LEMMA CalledWorlds ==
  ASSUME QueueInv, WorldsInv, Grows, Register \/ ReadyWorld PROVE WorldsInv'
<1>1. UNCHANGED <<records, cleaned, up, disk>>
  BY DEF Register, ReadyWorld, coreVars
<1>2. CASE RollBack
  <2>1. task'.op = "rollback"
    BY <1>2, RolledIs DEF RollBack, QueueInv
  <2> QED BY <1>1, <2>1, WorldsUntouched DEF Elsewhere, DiskIsOld
<1>3. CASE Register /\ NextWorld("ready")
  <2>1. task'.op \in {"lobby", "ready"}
    BY <1>3, NextWorldIs DEF Register, QueueInv, Begun
  <2> QED BY <1>1, <2>1, WorldsUntouched DEF Elsewhere, DiskIsOld
<1>4. CASE ReadyWorld /\ NextWorld("mark")
  <2>1. task'.op \in {"ready", "mark"} /\ task'.match = task.match /\ task.op = "ready"
    BY <1>4, NextWorldIs DEF ReadyWorld, QueueInv, Begun
  <2>2. \A w \in Worlds : Runs(w)
    BY <2>1 DEF QueueInv, WorldsAreUp
  <2>3. MarkedRuns' /\ StoppedSoFar' /\ ReadyRuns'
    BY <1>1, <2>1, <2>2 DEF MarkedRuns, StoppedSoFar, Runs, WorldsInv, Grows, ReadyRuns, Matches
  <2>4. KeepsReady /\ KeepsFinished /\ NoneComesUp
    BY <1>1 DEF KeepsReady, KeepsFinished, NoneComesUp, Matches
  <2> QED BY <1>1, <2>3, <2>4, WorldsKept DEF DiskIsOld
<1> QED BY <1>2, <1>3, <1>4 DEF Register, ReadyWorld, Calls

\* A world of the match that is provisioned comes up, or its call fails.
LEMMA StartWorldWorlds == ASSUME QueueInv, WorldsInv, Grows, StartWorld PROVE WorldsInv'
<1> DEFINE m == task.match
           w == FirstWorld
<1>1. /\ task.op = "start" /\ m \in Matches /\ records[m].state = "provisioning" /\ cleaned' = cleaned
      /\ disk' = disk /\ up' \in {up, up \union {<<m, w>>}}
  BY DEF StartWorld, QueueInv, TaskIsOpen, IsBegun, Begun
<1>2. \A x : x[1] # m => (x \in up' <=> x \in up)
  BY <1>1
<1>3. CASE RollBack /\ UNCHANGED records
  <2>1. task'.op = "rollback"
    BY <1>3, RolledIs DEF RollBack, QueueInv
  <2>2. records' = [records EXCEPT ![m] = records[m]]
    BY <1>3 DEF QueueInv, QueueTypes, IsRecords
  <2>3. MarkedRuns'
    BY <2>1 DEF MarkedRuns
  <2> HIDE DEF m, w
  <2> QED BY <1>1, <1>2, <2>1, <2>2, <2>3, WorldsOfOpen DEF Begun, m
<1>4. CASE NextWorld("lobby") /\ records' = [records EXCEPT ![m].side = @ \union {w}]
  <2> DEFINE r == [records[m] EXCEPT !.side = @ \union {w}]
  <2>1. records' = [records EXCEPT ![m] = r] /\ r.state = "provisioning"
    <3>1. IsRecord(records[m])
      <4>1. Matches = 1 .. Len(records)
        BY LenProperties DEF QueueInv, QueueTypes, IsRecords, Matches
      <4>2. m \in Matches
        BY <1>1
      <4> QED BY <4>1, <4>2 DEF QueueInv, QueueTypes, IsRecords
    <3> QED BY <1>1, <1>4, <3>1 DEF IsRecord
  <2>2. task'.op \in {"lobby", "start"}
    BY <1>1, <1>4, NextWorldIs DEF QueueInv, Begun
  <2>3. MarkedRuns'
    BY <2>2 DEF MarkedRuns
  <2> HIDE DEF r, m, w
  <2> QED BY <1>1, <1>2, <2>1, <2>2, <2>3, WorldsOfOpen DEF Begun, m
<1> QED BY <1>3, <1>4 DEF StartWorld

\* The match that was provisioned becomes ready or fails; its rollback stops its worlds.
LEMMA ClosedWorlds ==
  ASSUME QueueInv, WorldsInv, Grows, task.op \in Begun, NEW state \in {"ready", "failed"},
         records' = [records EXCEPT ![task.match].state = state], UNCHANGED <<cleaned, up>>, DiskIsNew \/ disk' = disk,
         state = "ready" => task.op = "mark", task'.op \notin {"mark", "stop"}
  PROVE  WorldsInv'
<1> DEFINE m == task.match
           r == [records[m] EXCEPT !.state = state]
<1>1. records' = [records EXCEPT ![m] = r] /\ r.state = state
  <2>1. m \in Matches /\ Matches = 1 .. Len(records)
    BY LenProperties DEF QueueInv, QueueTypes, IsRecords, Matches, TaskIsOpen
  <2>2. IsRecord(records[m])
    BY <2>1 DEF QueueInv, QueueTypes, IsRecords
  <2> QED BY <2>2 DEF IsRecord
<1> HIDE DEF r
<1>2. MarkedRuns' /\ (r.state = "ready" => \A w \in Worlds : <<task.match, w>> \in up')
  BY <1>1 DEF MarkedRuns, WorldsInv, Runs
<1> QED BY <1>1, <1>2, WorldsOfOpen
LEMMA ProvisionedWorlds ==
  ASSUME QueueInv, WorldsInv, Grows, MarkReady \/ RolledBack \/ StopStarted \/ ResetReferee PROVE WorldsInv'
<1>1. CASE MarkReady
  <2>1. task' \in {Idle, Task("anchor", task.match, {}), RolledTask} /\ task.op \in Begun /\ task.op = "mark"
    BY <1>1, Persisted DEF MarkReady, Begun
  <2>2. task'.op \notin {"mark", "stop"}
    <3>1. CASE task' = RolledTask
      BY <3>1, RolledIs DEF QueueInv
    <3> QED BY <2>1, <3>1, OpOf
  <2>3. DiskIsNew \/ disk' = disk
    BY <1>1, PersistedAll DEF MarkReady
  <2> QED BY <1>1, <2>1, <2>2, <2>3, ClosedWorlds DEF MarkReady
<1>2. CASE MarkFailed(task.match) /\ up' = up /\ task.op \in Begun
  <2>1. task' = Idle /\ (DiskIsNew \/ disk' = disk)
    BY <1>2, Persisted, PersistedAll DEF MarkFailed
  <2>2. task'.op \notin {"mark", "stop"}
    BY <2>1 DEF Idle
  <2> QED BY <1>2, <2>1, <2>2, ClosedWorlds DEF MarkFailed
<1>3. CASE StopStarted
  <2>1. /\ task.op = "rollback" /\ task'.op = "rollback" /\ UNCHANGED <<records, cleaned, disk>>
        /\ up' = up \ {<<task.match, FirstWorld>>} \/ up' = up
    BY <1>3 DEF StopStarted, coreVars, QueueInv, QueueTypes, IsTask
  <2>2. records' = [records EXCEPT ![task.match] = records[task.match]]
    BY <2>1 DEF QueueInv, QueueTypes, IsRecords
  <2>3. records[task.match].state = "ready" => task.match \in unsaved'
    BY <2>1 DEF QueueInv, TaskIsOpen, IsBegun, Begun, Grows
  <2>4. MarkedRuns' /\ \A x : x[1] # task.match => (x \in up' <=> x \in up)
    BY <2>1 DEF MarkedRuns
  <2> QED BY <2>1, <2>2, <2>3, <2>4, WorldsOfOpen DEF Begun
<1>4. CASE ResetReferee
  <2>1. UNCHANGED <<records, cleaned, up, disk>>
    BY <1>4 DEF ResetReferee, coreVars
  <2>2. task' = Task("start", task.match, Worlds) \/ task' = [task EXCEPT !.op = "rollback"]
    BY <1>4 DEF ResetReferee
  <2>3. task'.op \notin {"mark", "stop"}
    BY <2>2, RolledIs DEF Task, Idle, QueueInv
  <2> QED BY <2>1, <2>3, WorldsUntouched DEF Elsewhere, DiskIsOld
<1> QED BY <1>1, <1>2, <1>3, <1>4 DEF RolledBack, Begun

\* What a finish leaves: the match is finished, its worlds are to stop, and what
\* comes then.
LEMMA FinishLeaves ==
  ASSUME QueueInv, NEW m \in Matches, NEW result, NEW then \in {"idle", "create", "tidy", "settle"}, NEW todo,
         BeginFinish(m, result, then, todo)
  PROVE  /\ records'[m].state = "finished" /\ records'[m].team = records[m].team
         /\ records'[m].side = records[m].side
         /\ Matches' = Matches /\ \A n \in Matches \ {m} : records'[n] = records[n]
         /\ records[m].state = "finished" => records' = records
         /\ \/ task'.op = "stop" /\ task'.match = m /\ task'.worlds = records[m].side /\ task'.then = then
            \/ task' = Idle
            \/ task'.op = then /\ task'.match = m /\ task'.then = then
<1> DEFINE t == [op |-> "stop", match |-> m, worlds |-> records[m].side, then |-> then,
                 todo |-> todo, result |-> task.result, others |-> FALSE]
           e == Ended(records[m], result)
<1>1. Matches = 1 .. Len(records) /\ IsRecord(records[m])
  BY LenProperties DEF QueueInv, QueueTypes, IsRecords, Matches
<1>2. e.state = "finished" /\ e.team = records[m].team /\ e.side = records[m].side
  BY <1>1 DEF Ended, IsRecord
<1>3. records' = IF records[m].state = "finished" THEN records ELSE [records EXCEPT ![m] = e]
  BY DEF BeginFinish, Written, Finished
<1> HIDE DEF e
<1>4. /\ records'[m].state = "finished" /\ records'[m].team = records[m].team
      /\ records'[m].side = records[m].side
      /\ Matches' = Matches /\ \A n \in Matches \ {m} : records'[n] = records[n]
      /\ records[m].state = "finished" => records' = records
  BY <1>2, <1>3 DEF Matches
<1>5. task' = t \/ task' = Continue(t) \/ task' = Idle
  BY Persisted DEF BeginFinish
<1>6. CASE task' = t
  BY <1>4, <1>6
<1>7. CASE task' = Continue(t)
  <2>1. t.then = then /\ t.match = m
    OBVIOUS
  <2>2. task' = Idle \/ (task'.op = then /\ task'.match = m /\ task'.then = then)
    BY <1>7, <2>1 DEF Continue
  <2> QED BY <1>4, <2>2
<1>8. CASE task' = Idle
  BY <1>4, <1>8
<1> QED BY <1>5, <1>6, <1>7, <1>8

\* A finish stops no world yet.
LEMMA FinishWorlds ==
  ASSUME QueueInv, WorldsInv, Grows, NEW m \in Matches, NEW result,
         NEW then \in {"idle", "create", "tidy", "settle"}, NEW todo,
         BeginFinish(m, result, then, todo), up' = up
  PROVE  WorldsInv'
<1>1. (DiskIsNew \/ (disk' = disk /\ m \in unsaved')) /\ cleaned' = cleaned
  BY PersistedAll DEF BeginFinish, Written
<1>2. KeepsFinished /\ NoneComesUp
  BY FinishLeaves DEF KeepsFinished, NoneComesUp
<1>3. ReadyRuns'
  <2> SUFFICES ASSUME NEW n \in Matches' \ unsaved', records'[n].state = "ready"
               PROVE  \A w \in Worlds : <<n, w>> \in up
    BY DEF ReadyRuns
  <2>1. n # m /\ n \in Matches \ unsaved /\ records'[n] = records[n]
    BY FinishLeaves DEF Grows
  <2> QED BY <2>1 DEF WorldsInv, ReadyRuns
<1>4. MarkedRuns' /\ StoppedSoFar'
  BY FinishLeaves DEF MarkedRuns, StoppedSoFar, Idle
<1>5. m \in unsaved' => KeepsReady
  BY FinishLeaves DEF KeepsReady
<1> QED BY <1>1, <1>2, <1>3, <1>4, <1>5, WorldsKept DEF DiskIsOld

\* What goes on after a finish is what was to come.
LEMMA GoesOnAs ==
  ASSUME NEW op, NEW m, NEW worlds, NEW then, NEW todo, NEW result, NEW others,
         task = [op |-> op, match |-> m, worlds |-> worlds, then |-> then, todo |-> todo, result |-> result,
                 others |-> others],
         task' = Continue(task)
  PROVE  task' = Idle \/ (task'.op = then /\ task'.match = m /\ task'.then = then /\ task'.todo = todo)
  BY DEF Continue
LEMMA FinishStepsWorlds ==
  ASSUME QueueInv, WorldsInv, Grows, LeftIsThere,
         \/ \E m \in 1 .. MaxMatches : AskRematch(m) \/ \E r \in Results : Finish(m, r)
         \/ Tidy \/ Settle
  PROVE  WorldsInv'
<1>1. CASE \E m \in 1 .. MaxMatches : AskRematch(m) \/ \E r \in Results : Finish(m, r)
  BY <1>1, FinishWorlds DEF AskRematch, Finish
<1>2. CASE Tidy
  BY <1>2, FinishWorlds DEF Tidy, LeftIsThere
<1>3. CASE Settle
  BY <1>3, FinishWorlds DEF Settle, LeftIsThere
<1> QED BY <1>1, <1>2, <1>3

\* A world of a finished match goes down, or its stop fails and ends the finish.
LEMMA StopWorldWorlds == ASSUME QueueInv, WorldsInv, Grows, StopWorld PROVE WorldsInv'
<1> DEFINE m == task.match
           w == FirstWorld
<1>1. /\ task.op = "stop" /\ UNCHANGED <<records, cleaned, disk>> /\ m \in Matches /\ records[m].state = "finished"
      /\ IsTask /\ task.then \in {"idle", "create", "tidy", "settle"}
  BY DEF StopWorld, coreVars, WorldsInv, StoppedSoFar, QueueInv, QueueTypes
<1>2. /\ KeepsReady /\ KeepsFinished /\ (up' = up \/ up' = up \ {<<m, w>>})
  BY <1>1 DEF KeepsReady, KeepsFinished, StopWorld, Matches
<1>3. NoneComesUp
  BY <1>2 DEF NoneComesUp
<1>4. ReadyRuns'
  BY <1>1, <1>2 DEF WorldsInv, Grows, ReadyRuns, Matches
<1>5. MarkedRuns' /\ StoppedSoFar'
  <2>1. CASE up' = up \ {<<m, w>>} /\ task' = [task EXCEPT !.worlds = @ \ {w}]
    <3>1. task'.op = "stop" /\ task'.match = m /\ task'.worlds = task.worlds \ {w}
      BY <1>1, <2>1 DEF IsTask
    <3> QED BY <1>1, <2>1, <3>1 DEF WorldsInv, MarkedRuns, StoppedSoFar, Runs, Matches
  <2>2. CASE task' = Idle \/ task' = Continue(task)
    <3>1. task'.op \notin {"mark", "stop"}
      BY <1>1, <2>2, GoesOnAs DEF Idle, IsTask
    <3> QED BY <3>1 DEF MarkedRuns, StoppedSoFar
  <2> QED BY <2>1, <2>2 DEF StopWorld, StopFailed
<1> QED BY <1>1, <1>2, <1>3, <1>4, <1>5, WorldsKept DEF DiskIsOld

\* A finish that is through has stopped every world.
LEMMA StoppedWorlds == ASSUME QueueInv, WorldsInv, Grows, Stopped PROVE WorldsInv'
<1>1. /\ cleaned' = cleaned \union {task.match} /\ UNCHANGED <<records, up>> /\ (DiskIsNew \/ disk' = disk)
      /\ task.op = "stop" /\ task.worlds = {} /\ IsTask /\ task.then \in {"idle", "create", "tidy", "settle"}
  BY PersistedAll DEF Stopped, QueueInv, QueueTypes
<1>2. CleanIn(records, cleaned)'
  BY <1>1 DEF WorldsInv, StoppedSoFar, CleanIn, Runs, Matches
<1>3. task'.op \notin {"mark", "stop"}
  <2>1. task' = Continue(task) \/ task' = Idle
    BY Persisted DEF Stopped
  <2> QED BY <1>1, <2>1, GoesOnAs DEF Idle, IsTask
<1>4. ReadyRuns' /\ MarkedRuns' /\ StoppedSoFar'
  BY <1>1, <1>3 DEF WorldsInv, Grows, ReadyRuns, MarkedRuns, StoppedSoFar, Matches
<1>5. DiskReady' /\ CleanIn(disk.records, disk.cleaned)'
  <2>1. CASE DiskIsNew
    BY <1>1, <1>2, <2>1 DEF DiskReady, CleanIn, DiskIsNew, DiskOf
  <2>2. CASE disk' = disk
    BY <1>1, <2>2 DEF WorldsInv, Grows, DiskReady, CleanIn
  <2> QED BY <1>1, <2>1, <2>2
<1> QED BY <1>2, <1>4, <1>5 DEF WorldsInv

\* A rematch begins; a service that comes back has what it wrote.
LEMMA CreateWorlds == ASSUME QueueInv, WorldsInv, Grows, CreateRematch PROVE WorldsInv'
<1>1. task' \in {Task("reset", Len(records) + 1, {}), Idle} /\ UNCHANGED <<cleaned, up>>
  BY Persisted DEF CreateRematch
<1>3. DiskIsNew \/ DiskIsOld
  BY PersistedAll DEF CreateRematch, DiskIsOld
<1>2. task'.op \notin {"mark", "stop"}
  BY <1>1, OpOf
<1> QED BY <1>1, <1>2, <1>3, WorldsOfNew DEF CreateRematch
LEMMA CrashWorlds == ASSUME QueueInv, WorldsInv, Crash PROVE WorldsInv'
<1>1. records' = disk.records /\ cleaned' = disk.cleaned /\ UNCHANGED <<disk, up, unsaved>> /\ task' = Idle
  BY DEF Crash, history
<1>2. ReadyRuns'
  BY <1>1 DEF WorldsInv, ReadyRuns, DiskReady, QueueInv, DiskAgrees, Matches
<1>3. MarkedRuns' /\ StoppedSoFar'
  BY <1>1 DEF MarkedRuns, StoppedSoFar, Idle
<1>4. CleanIn(records, cleaned)' /\ CleanIn(disk.records, disk.cleaned)' /\ DiskReady'
  BY <1>1 DEF WorldsInv, CleanIn, DiskReady
<1> QED BY <1>2, <1>3, <1>4 DEF WorldsInv

\* What was not written stays so, and who was led astray.
LEMMA HistoryGrows == ASSUME [QueueNext]_allVars PROVE Grows /\ Strays
<1>1. \A about, next, failed : Persist(about, next, failed) => Grows
  BY DEF Persist, Grows
<1>2. CASE UNCHANGED history
  BY <1>2 DEF history, Grows, Strays
<1>3. CASE CreateRematch
  BY <1>1, <1>3 DEF CreateRematch, Strays
<1>4. CASE (\E p \in Players : Leave(p)) \/ MarkReady \/ Anchor \/ RolledBack \/ Stopped
  BY <1>1, <1>4 DEF Leave, MarkReady, Anchor, RolledBack, MarkFailed, Stopped, Strays
<1>5. CASE Tidy \/ Settle \/ \E m \in 1 .. MaxMatches : AskRematch(m) \/ \E r \in Results : Finish(m, r)
  BY <1>1, <1>5 DEF Tidy, Settle, AskRematch, Finish, BeginFinish, Strays
<1>6. CASE StartWorld \/ Register \/ ReadyWorld \/ StopStarted \/ StopWorld \/ ResetReferee \/ ReadReferee
  BY <1>2, <1>6 DEF StartWorld, Register, ReadyWorld, StopStarted, StopWorld, ResetReferee, ReadReferee
<1>7. CASE TaskStep
  BY <1>3, <1>4, <1>5, <1>6, <1>7 DEF TaskStep
<1> QED BY <1>2, <1>4, <1>5, <1>7 DEF QueueNext, Join, Reconcile, Decide, Stranger, Crash, allVars, worldVars

LEMMA WorldsStep ==
  ASSUME QueueInv, WorldsInv, LeftIsThere, [QueueNext]_allVars PROVE WorldsInv'
<1> USE HistoryGrows
<1>1. CASE UNCHANGED allVars
  <2>1. UNCHANGED <<records, cleaned, up, task, disk>>
    BY <1>1 DEF allVars, queueVars, coreVars, worldVars
  <2> QED BY <2>1, WorldsUntouched DEF Elsewhere, DiskIsOld
<1>2. CASE TaskStep
  BY <1>2, StartWorldWorlds, CalledWorlds, ProvisionedWorlds, UntouchedSteps, StopWorldWorlds, StoppedWorlds,
     CreateWorlds, FinishStepsWorlds DEF TaskStep
<1> QED BY <1>1, <1>2, JoinWorlds, UntouchedSteps, FinishStepsWorlds, CrashWorlds DEF QueueNext

\* A sequence without its i-th element.
LEMMA Removed ==
  ASSUME NEW S, NEW s \in Seq(S), NEW i \in 1 .. Len(s)
  PROVE  /\ RemoveAt(s, i) \in Seq(S) /\ Len(RemoveAt(s, i)) = Len(s) - 1
         /\ \A k \in 1 .. Len(s) - 1 : RemoveAt(s, i)[k] = s[IF k < i THEN k ELSE k + 1]
<1> DEFINE front == SubSeq(s, 1, i - 1)
           back == SubSeq(s, i + 1, Len(s))
<1>1. Len(s) \in Nat /\ i \in Nat
  OBVIOUS
<1>2. /\ front \in Seq(S) /\ Len(front) = i - 1
      /\ \A k \in 1 .. i - 1 : front[k] = s[k]
  BY <1>1, SubSeqProperties
<1>3. /\ back \in Seq(S) /\ Len(back) = Len(s) - i
      /\ \A k \in 1 .. Len(s) - i : back[k] = s[i + k]
  BY <1>1, SubSeqProperties
<1> HIDE DEF front, back
<1>4. Len(front) \in Nat /\ Len(front) + Len(back) = Len(s) - 1
  BY <1>1, <1>2, <1>3
<1>5. /\ front \o back \in Seq(S) /\ Len(front \o back) = Len(front) + Len(back)
      /\ \A k \in 1 .. Len(front) + Len(back) : (front \o back)[k] = IF k <= Len(front) THEN front[k] ELSE back[k - Len(front)]
  BY <1>2, <1>3, ConcatProperties
<1>6. /\ front \o back \in Seq(S) /\ Len(front \o back) = Len(s) - 1
      /\ \A k \in 1 .. Len(s) - 1 : (front \o back)[k] = IF k <= i - 1 THEN front[k] ELSE back[k - (i - 1)]
  BY <1>2, <1>4, <1>5
<1>7. RemoveAt(s, i) = front \o back
  BY DEF RemoveAt, front, back
<1>8. ASSUME NEW k \in 1 .. Len(s) - 1 PROVE (front \o back)[k] = s[IF k < i THEN k ELSE k + 1]
  <2>1. CASE k < i
    BY <1>1, <1>2, <1>6, <2>1
  <2>2. CASE ~(k < i)
    <3>1. k - (i - 1) \in 1 .. Len(s) - i /\ ~(k <= i - 1) /\ i + (k - (i - 1)) = k + 1
      BY <1>1, <2>2
    <3> QED BY <1>3, <1>6, <2>2, <3>1
  <2> QED BY <2>1, <2>2
<1> QED BY <1>6, <1>7, <1>8

\* Members, the queue's players and open matches, as the records and the queue say.
LEMMA PlacesAsTold ==
  ASSUME IsQueue(queue)
  PROVE  /\ \A m : \A p : p \in Members(m) <=> Plays(records, m, p)
         /\ \A p : p \in ToSet(queue) <=> Waiting(queue, p)
         /\ \A m : m \in Open <=> IsOpen(records, m)
<1>1. \A p : p \in ToSet(queue) <=> Waiting(queue, p)
  BY DEF ToSet, Waiting, IsQueue
<1> QED BY <1>1 DEF Members, Plays, Open, IsOpen, Matches

\* Nothing is left to do where the next step is none of a finish.
LEMMA NothingLeft ==
  ASSUME task'.op \notin {"stop", "create", "tidy", "settle"} PROVE LeftIsThere'
  BY DEF LeftIsThere

DiskPlaces == disk' = disk \/ (disk'.queue = queue' /\ disk'.records = records')
LEMMA PersistsPlaces ==
  ASSUME NEW about, NEW next, NEW failed, Persist(about, next, failed) PROVE DiskPlaces
  BY DEF Persist, Snapshot, DiskPlaces

\* A queue that shrinks still fits.
LEMMA FitLess ==
  ASSUME NEW q, NEW rs, NEW less, NEW off, NEW more, off \subseteq more, Fit(q, rs, off), IsQueue(less),
         \A p \in Players : Waiting(less, p) => Waiting(q, p)
  PROVE  Fit(less, rs, more)
  BY DEF Fit

\* What is on disk fits as long as it is not written.
LEMMA OldDisk ==
  ASSUME PlacesInv, Strays, disk' = disk PROVE Fit(disk'.queue, disk'.records, astray')
<1>1. Fit(disk.queue, disk.records, astray) /\ IsQueue(disk.queue)
  BY DEF PlacesInv, Fit
<1> QED BY <1>1, FitLess DEF Strays

\* Places stay where nobody moves and no match opens or closes.
LEMMA PlacesKept ==
  ASSUME PlacesInv, Strays, UNCHANGED <<queue, bound>>, Matches' = Matches,
         \A m \in Matches : /\ records'[m].team = records[m].team
                            /\ records'[m].state \in Active <=> records[m].state \in Active,
         DiskPlaces, LeftIsThere'
  PROVE  PlacesInv'
<1>1. \A m : \A p : m \in Matches => /\ IsOpen(records', m) <=> IsOpen(records, m)
                                     /\ Plays(records', m, p) <=> Plays(records, m, p)
  BY DEF IsOpen, Plays, Matches
<1>2. Fit(queue', records', astray')
  BY <1>1 DEF PlacesInv, Fit, Matches, Strays
<1>3. BoundAgrees'
  <2>1. \A m \in Matches, p \in Players \ astray' : IsOpen(records', m) /\ Plays(records', m, p) => bound[p] = m
    BY <1>1 DEF PlacesInv, BoundAgrees, Strays
  <2>2. \A p \in Players : bound[p] # 0 => IsOpen(records', bound[p]) /\ Plays(records', bound[p], p)
    BY <1>1 DEF PlacesInv, BoundAgrees, IsOpen, Matches
  <2> QED BY <2>1, <2>2 DEF PlacesInv, BoundAgrees
<1>4. Fit(disk'.queue, disk'.records, astray')
  BY <1>2, OldDisk DEF DiskPlaces
<1> QED BY <1>2, <1>3, <1>4 DEF PlacesInv

\* A match that closes releases its players.
LEMMA PlacesClosed ==
  ASSUME QueueInv, PlacesInv, Strays, NEW m \in Matches, queue' = queue, bound' = Release(m), Matches' = Matches,
         records'[m].team = records[m].team, records'[m].state \notin Active,
         \A n \in Matches \ {m} : records'[n] = records[n],
         DiskPlaces, LeftIsThere'
  PROVE  PlacesInv'
<1>1. \A n : \A p : n \in Matches => /\ IsOpen(records', n) <=> IsOpen(records, n) /\ n # m
                                     /\ Plays(records', n, p) <=> Plays(records, n, p)
  BY DEF IsOpen, Plays, Matches
<1>2. Fit(queue', records', astray')
  BY <1>1 DEF PlacesInv, Fit, Matches, Strays
<1>3. /\ bound' \in [Players -> Nat]
      /\ \A p \in Players : bound'[p] = IF Plays(records, m, p) /\ bound[p] = m THEN 0 ELSE bound[p]
  BY PlacesAsTold DEF PlacesInv, Fit, BoundAgrees, Release
<1>4. \A n \in Matches, p \in Players \ astray' : IsOpen(records', n) /\ Plays(records', n, p) => bound'[p] = n
  BY <1>1, <1>3 DEF PlacesInv, BoundAgrees, Strays
<1>5. \A p \in Players : bound'[p] # 0 => IsOpen(records', bound'[p]) /\ Plays(records', bound'[p], p)
  <2> SUFFICES ASSUME NEW p \in Players, bound'[p] # 0
               PROVE  IsOpen(records', bound'[p]) /\ Plays(records', bound'[p], p)
    OBVIOUS
  <2>1. bound'[p] = bound[p] /\ ~(Plays(records, m, p) /\ bound[p] = m)
    BY <1>3
  <2>2. IsOpen(records, bound[p]) /\ Plays(records, bound[p], p) /\ bound[p] \in Matches
    BY <2>1 DEF PlacesInv, BoundAgrees, IsOpen, Matches
  <2> QED BY <1>1, <2>1, <2>2
<1>6. Fit(disk'.queue, disk'.records, astray')
  BY <1>2, OldDisk DEF DiskPlaces
<1> QED BY <1>2, <1>3, <1>4, <1>5, <1>6 DEF PlacesInv, BoundAgrees

\* A match begins with players who, unless led astray, neither play nor wait any longer.
LEMMA PlacesBegun ==
  ASSUME QueueInv, PlacesInv, Strays, NEW team, NEW of, \A w \in Worlds : team[w] \in Players,
         records' = Append(records, NewRecord(team, of)),
         bound' = [p \in Players |-> IF \E w \in Worlds : team[w] = p THEN Len(records) + 1 ELSE bound[p]],
         IsQueue(queue'),
         \A p \in Players \ astray' : Waiting(queue', p) => Waiting(queue, p) \/ bound[p] = 0,
         \A w \in Worlds : team[w] \notin astray' => bound[team[w]] = 0 /\ ~Waiting(queue', team[w]),
         Fit(disk'.queue, disk'.records, astray') \/ (disk'.queue = queue' /\ disk'.records = records'),
         LeftIsThere'
  PROVE  PlacesInv'
<1> DEFINE m == Len(records) + 1
<1>1. /\ IsRecord(NewRecord(team, of)) /\ IsRecords(records)
      /\ NewRecord(team, of).state = "provisioning" /\ NewRecord(team, of).team = team
  BY DEF IsRecord, NewRecord, QueueInv, QueueTypes
<1>2. /\ Matches = 1 .. Len(records) /\ Matches' = 1 .. m /\ Len(records) \in Nat
      /\ records'[m].state = "provisioning" /\ records'[m].team = team
      /\ \A n \in Matches : records'[n] = records[n]
  BY <1>1, RecordAppended DEF Matches
<1>3. /\ IsOpen(records', m) /\ \A p : Plays(records', m, p) <=> \E w \in Worlds : team[w] = p
      /\ \A n \in Matches : IsOpen(records', n) <=> IsOpen(records, n)
      /\ \A n \in Matches : \A p : Plays(records', n, p) <=> Plays(records, n, p)
  BY <1>2 DEF IsOpen, Plays, Matches, Active
<1>4. \A n \in Matches, p \in Players \ astray' : IsOpen(records, n) /\ Plays(records, n, p) =>
        bound[p] = n /\ n # 0 /\ ~Waiting(queue', p) /\ \A w \in Worlds : team[w] # p
  BY <1>2 DEF PlacesInv, BoundAgrees, Fit, Matches, Strays
<1>5. m \notin Matches /\ Matches' = Matches \union {m} /\ m \in Nat /\ m # 0 /\ Matches' = DOMAIN records'
  BY <1>2 DEF Matches
<1> HIDE DEF m
<1>6. Fit(queue', records', astray')
  <2>1. \A n \in DOMAIN records', w \in Worlds : records'[n].team[w] \in Players
    BY <1>2, <1>5 DEF PlacesInv, Fit, Matches
  <2>2. \A n \in Matches', p \in Players \ astray' : IsOpen(records', n) /\ Plays(records', n, p) =>
          /\ ~Waiting(queue', p)
          /\ \A k \in Matches' : IsOpen(records', k) /\ Plays(records', k, p) => k = n
    BY <1>3, <1>4, <1>5
  <2> QED BY <1>5, <2>1, <2>2 DEF Fit
<1>7. BoundAgrees'
  <2>1. /\ bound' \in [Players -> Nat]
        /\ \A p \in Players : bound'[p] = IF \E w \in Worlds : team[w] = p THEN m ELSE bound[p]
    BY <1>5 DEF PlacesInv, BoundAgrees, m
  <2>2. \A n \in Matches', p \in Players \ astray' : IsOpen(records', n) /\ Plays(records', n, p) => bound'[p] = n
    BY <1>3, <1>4, <1>5, <2>1
  <2>3. \A p \in Players : bound[p] # 0 => bound[p] \in Matches /\ IsOpen(records, bound[p]) /\ Plays(records, bound[p], p)
    BY DEF PlacesInv, BoundAgrees, IsOpen, Matches
  <2>4. \A p \in Players : bound'[p] # 0 => IsOpen(records', bound'[p]) /\ Plays(records', bound'[p], p)
    BY <1>3, <1>5, <2>1, <2>3
  <2> QED BY <2>1, <2>2, <2>4 DEF BoundAgrees
<1>8. Fit(disk'.queue, disk'.records, astray')
  BY <1>6
<1> QED BY <1>6, <1>7, <1>8 DEF PlacesInv

\* The player who leaves is taken out of the queue.
LEMMA LeavePlaces == ASSUME QueueInv, PlacesInv, Strays, NEW p \in Players, Leave(p) PROVE PlacesInv'
<1>1. PICK i \in 1 .. Len(queue) : queue' = RemoveAt(queue, i)
  BY DEF Leave
<1>2. queue \in Seq(Players) /\ \A a, b \in 1 .. Len(queue) : queue[a] = queue[b] => a = b
  BY DEF PlacesInv, Fit, IsQueue
<1>3. /\ queue' \in Seq(Players) /\ Len(queue') = Len(queue) - 1
      /\ \A k \in 1 .. Len(queue') : queue'[k] = queue[IF k < i THEN k ELSE k + 1]
  BY <1>1, <1>2, Removed
<1>4. IsQueue(queue') /\ \A q \in Players : Waiting(queue', q) => Waiting(queue, q)
  <2> DEFINE old(k) == IF k < i THEN k ELSE k + 1
  <2>1. Len(queue) \in Nat /\ Len(queue') = Len(queue) - 1
    BY <1>2, <1>3
  <2>2. \A k \in 1 .. Len(queue') : old(k) \in 1 .. Len(queue) /\ queue'[k] = queue[old(k)]
    BY <1>3, <2>1
  <2>3. \A k, l \in 1 .. Len(queue') : old(k) = old(l) => k = l
    BY <2>1
  <2> HIDE DEF old
  <2> QED BY <1>2, <1>3, <2>2, <2>3 DEF IsQueue, Waiting
<1>5. UNCHANGED <<records, bound, task>> /\ DiskPlaces /\ task.op = "idle"
  <2>1. task' = Idle /\ task = Idle
    BY Persisted DEF Leave, Free
  <2>2. UNCHANGED <<records, bound>> /\ DiskPlaces
    BY DEF Leave, Persist, Snapshot, DiskPlaces
  <2> QED BY <2>1, <2>2 DEF Idle
<1>6. Fit(queue', records', astray')
  BY <1>4, <1>5, FitLess DEF PlacesInv, Strays
<1>7. BoundAgrees'
  BY <1>5 DEF PlacesInv, BoundAgrees, Matches, Strays
<1>8. LeftIsThere'
  BY <1>5, NothingLeft
<1>9. Fit(disk'.queue, disk'.records, astray')
  BY <1>5, <1>6, OldDisk DEF DiskPlaces
<1> QED BY <1>6, <1>7, <1>8, <1>9 DEF PlacesInv

\* Those who join wait, or the first two of the queue get a match.
LEMMA JoinPlaces == ASSUME QueueInv, PlacesInv, Strays, NEW p \in Players, Join(p) PROVE PlacesInv'
<1> DEFINE waiting == IF p \in ToSet(queue) THEN queue ELSE Append(queue, p)
           team == [w \in Worlds |-> waiting[IF w = "A" THEN 1 ELSE 2]]
<1>1. /\ bound[p] = 0 /\ task.op = "idle" /\ astray' = astray
      /\ disk' = disk \/ (disk'.queue = waiting /\ disk'.records = records)
  BY DEF Join, Snapshot, Free, Idle, history
<1>2. IsQueue(queue) /\ queue \in Seq(Players) /\ (p \in ToSet(queue) <=> Waiting(queue, p))
  BY PlacesAsTold DEF PlacesInv, Fit, IsQueue
<1>3. IsQueue(waiting) /\ \A q \in Players : Waiting(waiting, q) => Waiting(queue, q) \/ q = p
  <2>1. CASE p \in ToSet(queue)
    BY <1>2, <2>1
  <2>2. CASE p \notin ToSet(queue)
    <3>1. /\ Append(queue, p) \in Seq(Players) /\ Len(Append(queue, p)) = Len(queue) + 1
          /\ \A i \in 1 .. Len(queue) + 1 : Append(queue, p)[i] = IF i = Len(queue) + 1 THEN p ELSE queue[i]
          /\ \A i \in 1 .. Len(queue) : queue[i] # p
      BY <1>2, <2>2 DEF Waiting
    <3>2. waiting = Append(queue, p)
      BY <2>2
    <3> QED BY <1>2, <3>1, <3>2 DEF IsQueue, Waiting
  <2> QED BY <2>1, <2>2
<1> HIDE DEF waiting
<1>4. \A q \in Players \ astray : Waiting(waiting, q) => bound[q] = 0
  <2> SUFFICES ASSUME NEW q \in Players \ astray, Waiting(queue, q) PROVE bound[q] = 0
    BY <1>1, <1>3
  <2> QED BY DEF PlacesInv, Fit, BoundAgrees, IsOpen
<1>5. Fit(waiting, records, astray')
  <2>1. \A m \in DOMAIN records, q \in Players \ astray : IsOpen(records, m) /\ Plays(records, m, q) => bound[q] = m /\ m # 0
    <3>1. DOMAIN records = 1 .. Len(records) /\ Matches = DOMAIN records
      BY LenProperties DEF QueueInv, QueueTypes, IsRecords, Matches
    <3> QED BY <3>1 DEF PlacesInv, BoundAgrees
  <2> QED BY <1>1, <1>3, <1>4, <2>1 DEF PlacesInv, Fit
<1>6. Fit(disk'.queue, disk'.records, astray')
  BY <1>1, <1>5, OldDisk
<1>7. CASE queue' = waiting /\ UNCHANGED <<records, bound, task>>
  <2>1. LeftIsThere'
    BY <1>1, <1>7, NothingLeft
  <2>2. BoundAgrees'
    BY <1>1, <1>7 DEF PlacesInv, BoundAgrees, Matches
  <2> QED BY <1>5, <1>6, <1>7, <2>1, <2>2 DEF PlacesInv
<1>8. CASE /\ Len(waiting) >= 2 /\ queue' = Rest(waiting)
           /\ records' = Append(records, NewRecord(team, 0)) /\ task'.op = "start"
           /\ bound' = [q \in Players |-> IF q \in {waiting[1], waiting[2]} THEN Len(records) + 1 ELSE bound[q]]
  <2>1. /\ waiting \in Seq(Players) /\ 1 \in 1 .. Len(waiting) /\ 2 \in 1 .. Len(waiting) /\ Len(waiting) \in Nat
        /\ waiting[1] \in Players /\ waiting[2] \in Players
        /\ \A i, j \in 1 .. Len(waiting) : waiting[i] = waiting[j] => i = j
    BY <1>3, <1>8 DEF IsQueue
  <2>2. /\ queue' \in Seq(Players) /\ Len(queue') = Len(waiting) - 2
        /\ \A k \in 1 .. Len(queue') : queue'[k] = waiting[k + 2]
    <3> DEFINE L == Len(waiting)
               rest == SubSeq(waiting, 3, L)
    <3>1. L \in Int /\ 3 \in Int /\ L >= 2 /\ \A k \in 3 .. L : waiting[k] \in Players
      BY <1>8, <2>1
    <3>2. /\ rest \in Seq(Players) /\ Len(rest) = IF 3 <= L THEN L - 3 + 1 ELSE 0
          /\ \A k \in 1 .. L - 3 + 1 : rest[k] = waiting[3 + k - 1]
      <4> HIDE DEF L
      <4> QED BY <3>1, SubSeqProperties
    <3>3. queue' = rest
      BY <1>8 DEF Rest
    <3> HIDE DEF L, rest
    <3>4. Len(rest) = L - 2 /\ \A k \in 1 .. L - 2 : rest[k] = waiting[k + 2]
      BY <3>1, <3>2
    <3> QED BY <3>2, <3>3, <3>4 DEF L
  <2>3. /\ IsQueue(queue') /\ \A q \in Players : Waiting(queue', q) => Waiting(waiting, q)
        /\ ~Waiting(queue', waiting[1]) /\ ~Waiting(queue', waiting[2])
    BY <2>1, <2>2, SMTT(30) DEF IsQueue, Waiting
  <2>4. /\ team \in [Worlds -> Players] /\ team["A"] = waiting[1] /\ team["B"] = waiting[2]
        /\ \A w \in Worlds : team[w] \in {waiting[1], waiting[2]}
    BY <2>1 DEF Worlds
  <2>5. \A q : q \in {waiting[1], waiting[2]} <=> \E w \in Worlds : team[w] = q
    BY <2>4 DEF Worlds
  <2>6. Waiting(waiting, waiting[1]) /\ Waiting(waiting, waiting[2])
    BY <2>1 DEF Waiting
  <2>7. \A w \in Worlds : team[w] \notin astray' => bound[team[w]] = 0 /\ ~Waiting(queue', team[w])
    BY <1>1, <1>4, <2>1, <2>3, <2>4, <2>6
  <2>8. LeftIsThere'
    BY <1>8, NothingLeft
  <2> HIDE DEF team
  <2>10. bound' = [q \in Players |-> IF \E w \in Worlds : team[w] = q THEN Len(records) + 1 ELSE bound[q]]
    BY <1>8, <2>5
  <2> QED BY <1>1, <1>4, <1>6, <1>8, <2>3, <2>4, <2>7, <2>8, <2>10, PlacesBegun
<1> QED BY <1>7, <1>8 DEF Join, Task, Idle, waiting

\* Such is a step that changes neither queue nor records.
LEMMA PlacesSame ==
  ASSUME PlacesInv, Strays, UNCHANGED <<queue, records, bound>>, DiskPlaces, LeftIsThere'
  PROVE  PlacesInv'
  BY PlacesKept DEF Matches

\* An operation that goes on with its finish, or with the next world.
LEMMA StillLeft ==
  ASSUME QueueInv, PlacesInv, Strays, task.op = "stop", UNCHANGED <<queue, records>>,
         task' \in {[task EXCEPT !.worlds = @ \ {FirstWorld}], Idle, Continue(task)}
  PROVE  LeftIsThere'
<1>1. IsTask /\ task.then \in {"idle", "create", "tidy", "settle"}
  BY DEF QueueInv, QueueTypes
<1>2. CASE task' = Idle
  <2>1. task'.op \notin {"stop", "create", "tidy", "settle"}
    BY <1>2 DEF Idle
  <2> QED BY <2>1, NothingLeft
<1>3. CASE \/ task' # Idle /\ task' = Continue(task)
           \/ task' = [task EXCEPT !.worlds = @ \ {FirstWorld}]
  <2>1. /\ task'.op \in {"stop", task.then} /\ task'.match = task.match /\ task'.then = task.then
        /\ task'.todo = task.todo
    BY <1>1, <1>3, GoesOnAs DEF IsTask
  <2>2. LeftIsThere'
    BY <1>1, <2>1 DEF PlacesInv, LeftIsThere, Matches
  <2> QED BY <2>2
<1> QED BY <1>2, <1>3

\* Steps that change neither queue nor records.
LEMMA StopPlaces == ASSUME QueueInv, PlacesInv, Strays, StopWorld \/ Stopped PROVE PlacesInv'
<1>1. task.op = "stop" /\ UNCHANGED <<queue, records, bound>> /\ DiskPlaces
  BY DEF StopWorld, Stopped, coreVars, Persist, Snapshot, DiskPlaces
<1>2. task' \in {[task EXCEPT !.worlds = @ \ {FirstWorld}], Idle, Continue(task)}
  BY Persisted DEF StopWorld, Stopped, StopFailed
<1> QED BY <1>1, <1>2, StillLeft, PlacesSame
LEMMA CallPlaces ==
  ASSUME QueueInv, PlacesInv, Strays,
         Register \/ ReadyWorld \/ Anchor \/ StopStarted \/ ResetReferee
  PROVE  PlacesInv'
<1>1. UNCHANGED <<queue, records, bound>> /\ DiskPlaces
  BY DEF Register, ReadyWorld, Anchor, StopStarted, ResetReferee, coreVars, Persist, Snapshot, DiskPlaces
<1>2. task'.op \notin {"stop", "create", "tidy", "settle"}
  <2>1. CASE RollBack
    BY <2>1, RolledIs DEF RollBack, QueueInv
  <2>2. CASE \E op \in {"ready", "mark"} : task.op \in {"lobby", "ready"} /\ NextWorld(op)
    BY <2>2, NextWorldIs DEF QueueInv, Begun
  <2>3. CASE Anchor
    BY <2>3 DEF Anchor, Persist, Idle
  <2>4. CASE StopStarted
    BY <2>4 DEF StopStarted, QueueInv, QueueTypes, IsTask
  <2>5. CASE ResetReferee
    BY <2>5 DEF ResetReferee, Task, Idle, QueueInv, QueueTypes, IsTask
  <2> QED BY <2>1, <2>2, <2>3, <2>4, <2>5 DEF Register, ReadyWorld, Calls
<1> QED BY <1>1, <1>2, NothingLeft, PlacesSame
LEMMA ReconcilePlaces == ASSUME QueueInv, PlacesInv, Strays, Reconcile \/ ReadReferee PROVE PlacesInv'
<1>1. UNCHANGED <<queue, records, bound, disk>>
  BY DEF Reconcile, ReadReferee, coreVars
<1>2. LeftIsThere'
  <2>1. CASE task' = Idle
    <3>1. task'.op \notin {"stop", "create", "tidy", "settle"}
      BY <2>1 DEF Idle
    <3> QED BY <3>1, NothingLeft
  <2>2. CASE task' # Idle
    <3>1. task'.op \in {"tidy", "settle"} /\ task'.todo \subseteq Matches /\ Matches' = Matches
      BY <1>1, <2>2 DEF Reconcile, ReadReferee, Idle, Unclean, Pending, Open, Matches
    <3> QED BY <3>1 DEF LeftIsThere
  <2> QED BY <2>1, <2>2
<1> QED BY <1>1, <1>2, PlacesSame DEF DiskPlaces
LEMMA RefereePlaces ==
  ASSUME QueueInv, PlacesInv, Strays, Stranger \/ (\E w \in Worlds : Decide(w)) \/ UNCHANGED allVars PROVE PlacesInv'
<1>1. UNCHANGED <<queue, records, bound, disk>>
  BY DEF Stranger, Decide, allVars, queueVars, coreVars, worldVars
<1>2. UNCHANGED <<task.op, task.then, task.todo, task.match>>
  <2>1. CASE Stranger
    BY <2>1, StrangerTask DEF QueueInv
  <2>2. CASE task' = task
    BY <2>2
  <2> QED BY <2>1, <2>2 DEF Decide, allVars, queueVars
<1>3. LeftIsThere'
  BY <1>1, <1>2 DEF PlacesInv, LeftIsThere, Matches
<1> QED BY <1>1, <1>3, PlacesSame DEF DiskPlaces

\* The match that is provisioned stays open, whether a world came up or it is ready.
LEMMA OpenPlaces == ASSUME QueueInv, PlacesInv, Strays, StartWorld \/ MarkReady PROVE PlacesInv'
<1> DEFINE m == task.match
<1>1. UNCHANGED <<queue, bound>> /\ DiskPlaces /\ task.op \in Begun
  BY DEF StartWorld, MarkReady, Persist, Snapshot, DiskPlaces, Begun
<1>2. m \in Matches /\ records[m].state = "provisioning" /\ IsRecord(records[m])
  <2>1. m \in Matches /\ Matches = 1 .. Len(records) /\ records[m].state = "provisioning"
    BY <1>1, LenProperties DEF QueueInv, QueueTypes, IsRecords, Matches, TaskIsOpen, IsBegun, StartWorld, MarkReady
  <2> QED BY <2>1 DEF QueueInv, QueueTypes, IsRecords
<1>3. \/ records' = records
      \/ records' = [records EXCEPT ![m].side = @ \union {FirstWorld}]
      \/ records' = [records EXCEPT ![m].state = "ready"]
  BY DEF StartWorld, MarkReady
<1>4. /\ Matches' = Matches
      /\ \A n \in Matches : /\ records'[n].team = records[n].team
                            /\ records'[n].state \in Active <=> records[n].state \in Active
  BY <1>2, <1>3 DEF Matches, IsRecord, Active
<1>5. task'.op \notin {"stop", "create", "tidy", "settle"}
  <2>1. CASE RollBack
    BY <2>1, RolledIs DEF RollBack, QueueInv
  <2>2. CASE task.op = "start" /\ NextWorld("lobby")
    BY <2>2, NextWorldIs DEF QueueInv, Begun
  <2>3. CASE MarkReady
    <3>1. task' \in {Idle, Task("anchor", m, {}), RolledTask}
      BY <2>3, Persisted DEF MarkReady
    <3>2. CASE task' = RolledTask
      BY <3>2, RolledIs DEF QueueInv
    <3> QED BY <3>1, <3>2, OpOf
  <2> QED BY <2>1, <2>2, <2>3 DEF StartWorld
<1> QED BY <1>1, <1>4, <1>5, NothingLeft, PlacesKept

\* The match that could not be provisioned is closed.
LEMMA FailedPlaces == ASSUME QueueInv, PlacesInv, Strays, task.op \in Begun, MarkFailed(task.match) PROVE PlacesInv'
<1> DEFINE m == task.match
<1>1. m \in Matches /\ IsRecord(records[m])
  <2>1. m \in Matches /\ Matches = 1 .. Len(records)
    BY LenProperties DEF QueueInv, QueueTypes, IsRecords, Matches, TaskIsOpen
  <2> QED BY <2>1 DEF QueueInv, QueueTypes, IsRecords
<1>2. records' = [records EXCEPT ![m].state = "failed"] /\ queue' = queue /\ bound' = Release(m)
  BY DEF MarkFailed
<1>5. DiskPlaces
  BY PersistsPlaces DEF MarkFailed
<1>3. /\ Matches' = Matches /\ records'[m].team = records[m].team /\ records'[m].state \notin Active
      /\ \A n \in Matches \ {m} : records'[n] = records[n]
  BY <1>1, <1>2 DEF Matches, IsRecord, Active
<1>4. task'.op \notin {"stop", "create", "tidy", "settle"}
  <2>1. task' = Idle
    BY Persisted DEF MarkFailed
  <2> QED BY <2>1 DEF Idle
<1> QED BY <1>1, <1>2, <1>3, <1>4, <1>5, NothingLeft, PlacesClosed

\* A finish closes its match, once.
LEMMA FinishPlaces ==
  ASSUME QueueInv, PlacesInv, Strays, NEW m \in Matches, NEW result, NEW then \in {"idle", "create", "tidy", "settle"},
         NEW todo, BeginFinish(m, result, then, todo), LeftIsThere'
  PROVE  PlacesInv'
<1>1. queue' = queue /\ DiskPlaces /\ bound' = IF records[m].state = "finished" THEN bound ELSE Release(m)
  BY DEF BeginFinish, Written, Persist, Snapshot, DiskPlaces
<1>2. CASE records[m].state = "finished"
  <2>1. records' = records
    BY <1>2, FinishLeaves
  <2> QED BY <1>1, <1>2, <2>1, PlacesSame
<1>3. CASE records[m].state # "finished"
  <2>1. /\ records'[m].team = records[m].team /\ records'[m].state \notin Active /\ Matches' = Matches
        /\ \A n \in Matches \ {m} : records'[n] = records[n]
    BY FinishLeaves DEF Active
  <2> QED BY <1>1, <1>3, <2>1, PlacesClosed
<1> QED BY <1>2, <1>3

\* What a finish has left to do.
LEMMA LeftAfterFinish ==
  ASSUME QueueInv, NEW m \in Matches, NEW result, NEW then \in {"idle", "create", "tidy", "settle"},
         NEW todo \in SUBSET Matches, BeginFinish(m, result, then, todo)
  PROVE  LeftIsThere'
<1> DEFINE t == [op |-> "stop", match |-> m, worlds |-> records[m].side, then |-> then,
                 todo |-> todo, result |-> task.result, others |-> FALSE]
<1>1. \/ task' = Idle
      \/ task'.op \in {"stop", then} /\ task'.match = m /\ task'.then = then /\ task'.todo = todo
  <2>1. CASE task' = t
    BY <2>1
  <2>2. CASE task' = Continue(t)
    <3>1. t.then = then /\ t.match = m /\ t.todo = todo
      OBVIOUS
    <3> HIDE DEF t
    <3>2. task' = Idle \/ task' = [t EXCEPT !.op = t.then, !.worlds = {}]
      BY <2>2 DEF Continue
    <3> QED BY <3>1, <3>2 DEF t
  <2> QED BY <2>1, <2>2 DEF BeginFinish, Persist
<1>2. CASE task' = Idle
  <2>1. task'.op \notin {"stop", "create", "tidy", "settle"}
    BY <1>2 DEF Idle
  <2> QED BY <2>1, NothingLeft
<1>3. CASE task'.op \in {"stop", then} /\ task'.match = m /\ task'.then = then /\ task'.todo = todo
  <2>1. Matches' = Matches
    BY FinishLeaves
  <2> QED BY <1>3, <2>1 DEF LeftIsThere
<1> QED BY <1>1, <1>2, <1>3

LEMMA FinishStepsPlaces ==
  ASSUME QueueInv, PlacesInv, Strays,
         \/ \E m \in 1 .. MaxMatches : AskRematch(m) \/ \E r \in Results : Finish(m, r)
         \/ Tidy \/ Settle
  PROVE  PlacesInv'
<1>1. ASSUME NEW m, AskRematch(m) PROVE PlacesInv'
  <2>1. /\ m \in Matches /\ BeginFinish(m, None, "create", {}) /\ {} \in SUBSET Matches
    BY <1>1 DEF AskRematch
  <2> QED BY <2>1, LeftAfterFinish, FinishPlaces
<1>2. ASSUME NEW m, NEW r, Finish(m, r) PROVE PlacesInv'
  <2>1. m \in Matches /\ BeginFinish(m, r, "idle", {}) /\ {} \in SUBSET Matches
    BY <1>2 DEF Finish
  <2> QED BY <2>1, LeftAfterFinish, FinishPlaces
<1>3. ASSUME NEW op \in {"tidy", "settle"}, task.op = op, NEW m \in task.todo, NEW r,
             BeginFinish(m, r, op, task.todo \ {m})
      PROVE  PlacesInv'
  <2>1. m \in Matches /\ task.todo \ {m} \in SUBSET Matches
    BY <1>3 DEF PlacesInv, LeftIsThere
  <2> QED BY <1>3, <2>1, LeftAfterFinish, FinishPlaces
<1>4. CASE Tidy
  BY <1>3, <1>4 DEF Tidy
<1>5. CASE Settle
  BY <1>3, <1>5 DEF Settle
<1> QED BY <1>1, <1>2, <1>4, <1>5

\* A rematch takes its players from the queue and from other matches, and only those.
LEMMA CreatePlaces == ASSUME QueueInv, PlacesInv, Strays, CreateRematch PROVE PlacesInv'
<1> DEFINE old == task.match
           team == records[old].team
<1>1. old \in Matches /\ IsQueue(queue)
  BY DEF PlacesInv, LeftIsThere, CreateRematch, Fit
<1>2. queue' = queue /\ DiskPlaces /\ task' \in {Task("reset", Len(records) + 1, {}), Idle}
  BY DEF CreateRematch, Persist, Snapshot, DiskPlaces
<1>3. \A w \in Worlds : team[w] \in Players
  BY <1>1 DEF PlacesInv, Fit, Matches
<1>4. \A p : p \in Members(old) <=> \E w \in Worlds : team[w] = p
  BY DEF Members
<1>5. bound' = [p \in Players |-> IF \E w \in Worlds : team[w] = p THEN Len(records) + 1 ELSE bound[p]]
  BY <1>4 DEF CreateRematch
<1>6. ASSUME NEW w \in Worlds, team[w] \notin astray' PROVE bound[team[w]] = 0 /\ ~Waiting(queue', team[w])
  <2>1. team[w] \in Players /\ ~Busy(team[w])
    BY <1>3, <1>4, <1>6 DEF CreateRematch
  <2>2. ~Waiting(queue, team[w]) /\ ~\E m : IsOpen(records, m) /\ Plays(records, m, team[w])
    BY <1>1, <2>1, PlacesAsTold DEF Busy
  <2> QED BY <1>2, <2>1, <2>2 DEF PlacesInv, BoundAgrees
<1>7. records' = Append(records, NewRecord(team, old))
  BY DEF CreateRematch
<1>8. task'.op \notin {"stop", "create", "tidy", "settle"}
  BY <1>2, OpOf
<1>9. Fit(disk'.queue, disk'.records, astray') \/ (disk'.queue = queue' /\ disk'.records = records')
  BY <1>2, OldDisk DEF DiskPlaces
<1> HIDE DEF team
<1> QED BY <1>1, <1>2, <1>3, <1>5, <1>6, <1>7, <1>8, <1>9, NothingLeft, PlacesBegun

\* Some number of a set of them up to n is the largest.
LEMMA Largest ==
  ASSUME NEW n \in Nat, NEW S \in SUBSET (1 .. n), S # {} PROVE \E m \in S : \A k \in S : k <= m
<1> DEFINE below == {n - k : k \in S}
<1>1. below \subseteq Nat /\ below # {}
  <2>1. PICK k \in S : TRUE
    OBVIOUS
  <2>2. n - k \in below
    OBVIOUS
  <2>3. \A l \in S : n - l \in Nat
    OBVIOUS
  <2> QED BY <2>2, <2>3
<1>2. PICK b \in below : \A c \in below : <<c, b>> \notin OpToRel(<, Nat)
  <2> HIDE DEF below
  <2> QED BY <1>1, NatLessThanWellFounded, WFMin
<1>3. PICK m \in S : b = n - m
  BY <1>2
<1>4. ASSUME NEW k \in S PROVE k <= m
  <2>1. n - k \in below /\ n - k \in Nat /\ b \in Nat
    BY <1>1
  <2>2. ~(n - k < b)
    BY <1>2, <2>1 DEF OpToRel
  <2> QED BY <1>3, <2>2
<1> QED BY <1>4

\* The service comes back with what it wrote, and binds the players of open matches.
LEMMA CrashPlaces == ASSUME QueueInv, PlacesInv, Strays, Crash PROVE PlacesInv'
<1> DEFINE Of(p) == {m \in DOMAIN disk.records : disk.records[m].state \in Active
                                               /\ \E w \in Worlds : disk.records[m].team[w] = p}
<1>1. /\ disk' = disk /\ queue' = disk.queue /\ records' = disk.records /\ task' = Idle
      /\ bound' = [p \in Players |->
                     IF Of(p) = {} THEN 0 ELSE CHOOSE m \in Of(p) : \A n \in Of(p) : n <= m]
  BY DEF Crash
<1>7. \A p : \A m : m \in Of(p) <=> IsOpen(disk.records, m) /\ Plays(disk.records, m, p)
  BY DEF IsOpen, Plays
<1> HIDE DEF Of
<1>2. Fit(queue', records', astray') /\ Fit(disk'.queue, disk'.records, astray')
  BY <1>1, OldDisk
<1>3. DOMAIN disk.records = 1 .. Len(disk.records) /\ Len(disk.records) \in Nat
  BY LenProperties DEF QueueInv, QueueTypes, IsRecords
<1>4. ASSUME NEW p \in Players
      PROVE  \/ Of(p) = {} /\ bound'[p] = 0
             \/ bound'[p] \in Of(p) /\ bound'[p] # 0 /\ bound'[p] \in Nat
  <2>1. CASE Of(p) = {}
    BY <1>1, <2>1
  <2>2. CASE Of(p) # {}
    <3>1. Of(p) \in SUBSET (1 .. Len(disk.records))
      BY <1>3, <1>7 DEF IsOpen
    <3>2. \E m \in Of(p) : \A n \in Of(p) : n <= m
      BY <1>3, <2>2, <3>1, Largest
    <3>3. bound'[p] = CHOOSE m \in Of(p) : \A n \in Of(p) : n <= m
      BY <1>1, <2>2
    <3>4. bound'[p] \in Of(p)
      BY <3>2, <3>3
    <3> QED BY <3>1, <3>4
  <2> QED BY <2>1, <2>2
<1>5. BoundAgrees'
  <2>1. bound' \in [Players -> Nat]
    BY <1>1, <1>4
  <2>2. \A m \in DOMAIN records', p \in Players \ astray' :
          IsOpen(records', m) /\ Plays(records', m, p) => bound'[p] = m
    BY <1>1, <1>2, <1>4, <1>7 DEF Fit, IsOpen
  <2>3. \A p \in Players : bound'[p] # 0 => IsOpen(records', bound'[p]) /\ Plays(records', bound'[p], p)
    BY <1>1, <1>4, <1>7
  <2> QED BY <2>1, <2>2, <2>3 DEF BoundAgrees, Matches
<1>6. task'.op \notin {"stop", "create", "tidy", "settle"}
  BY <1>1 DEF Idle
<1> QED BY <1>2, <1>5, <1>6, NothingLeft DEF PlacesInv

LEMMA PlacesStep ==
  ASSUME QueueInv, PlacesInv, [QueueNext]_allVars PROVE PlacesInv'
<1> USE HistoryGrows
<1>1. CASE TaskStep
  <2>1. CASE RolledBack
    BY <2>1, FailedPlaces DEF RolledBack, Begun
  <2> QED BY <1>1, <2>1, OpenPlaces, CallPlaces, StopPlaces, CreatePlaces, ReconcilePlaces,
             FinishStepsPlaces DEF TaskStep
<1>2. CASE \E m \in 1 .. MaxMatches : AskRematch(m) \/ \E r \in Results : Finish(m, r)
  BY <1>2, FinishStepsPlaces
<1> QED BY <1>1, <1>2, JoinPlaces, LeavePlaces, ReconcilePlaces, RefereePlaces, CrashPlaces DEF QueueNext

\* There is nobody anywhere at first.
LEMMA PlacesAtFirst == ASSUME QueueInit PROVE WorldsInv /\ PlacesInv
<1>1. /\ queue = <<>> /\ records = <<>> /\ cleaned = {} /\ bound = [p \in Players |-> 0] /\ task = Idle
      /\ disk.queue = <<>> /\ disk.records = <<>> /\ disk.cleaned = {}
  BY DEF QueueInit, Snapshot
<1>2. WorldsInv
  BY <1>1 DEF WorldsInv, ReadyRuns, DiskReady, MarkedRuns, StoppedSoFar, CleanIn, Idle, Matches
<1>3. Fit(queue, records, astray) /\ Fit(disk.queue, disk.records, astray)
  BY <1>1 DEF Fit, IsQueue
<1>4. BoundAgrees
  BY <1>1 DEF BoundAgrees, Matches
<1>5. LeftIsThere
  BY <1>1 DEF LeftIsThere, Idle
<1> QED BY <1>2, <1>3, <1>4, <1>5 DEF PlacesInv

-----------------------------------------------------------------------------
(* The theorems.                                                           *)

\* There are no matches at first.
LEMMA QueueInvHoldsAtFirst == QueueInit => QueueInv
<1> SUFFICES ASSUME QueueInit PROVE QueueInv
  OBVIOUS
<1>1. records = <<>> /\ disk.records = <<>> /\ task = Idle
  BY DEF QueueInit, Snapshot
<1>2. IsRecords(records) /\ IsRecords(disk.records)
  BY <1>1 DEF IsRecords
<1>3. PerWorld(player) /\ PerWorld(matchId)
  BY DEF QueueInit, Init, AllWorlds, PerWorld
<1>4. QueueTypes
  BY <1>1, <1>2, <1>3 DEF QueueTypes, IsTask, Idle
<1>5. DiskAgrees
  BY <1>1 DEF DiskAgrees
<1>6. TaskIsOpen /\ WorldsAreUp /\ NamesAreTold
  BY <1>1 DEF Idle, TaskIsOpen, Begun, WorldsAreUp, NamesAreTold
<1> QED BY <1>4, <1>5, <1>6 DEF QueueInv

\* Every step keeps the invariant and the results on disk.
LEMMA QueueStep == ASSUME QueueInv, [QueueNext]_allVars PROVE StepHolds
<1>1. CASE TaskStep
  BY <1>1, StartWorldStep, RegisterStep, ReadyWorldStep, MarkReadyStep, WrittenSteps, StopStartedStep,
     RolledBackStep, QuietSteps, CreateStep, ResetStep, FinishSteps DEF TaskStep
<1>2. CASE \E p \in Players : Join(p) \/ Leave(p)
  BY <1>2, JoinStep, LeaveStep
<1>3. CASE \E m \in 1 .. MaxMatches : AskRematch(m) \/ \E r \in Results : Finish(m, r)
  BY <1>3, FinishSteps
<1>4. CASE Reconcile
  BY <1>4, QuietSteps
<1>5. CASE Stranger \/ \E w \in Worlds : Decide(w)
  BY <1>5, StrangerStep, DecideStep
<1>6. CASE Crash
  BY <1>6, CrashStep
<1>7. CASE UNCHANGED allVars
  <2>1. UNCHANGED vars /\ UNCHANGED <<records, disk, task, up, unsaved>>
    BY <1>7 DEF allVars, queueVars, coreVars, worldVars, history
  <2>2. UNCHANGED <<player, matchId, phase>>
    BY <2>1 DEF vars, teamVars, flowVars
  <2>3. QueueInv'
    BY <2>1, <2>2
    DEF QueueInv, QueueTypes, IsTask, DiskAgrees, TaskIsOpen, IsBegun, WorldsAreUp, NamesAreTold, Runs, Named, Matches
  <2>4. DiskKeeps /\ StartsItsOwn
    BY <2>1, <2>2 DEF DiskKeeps, StartsItsOwn
  <2> QED BY <2>3, <2>4 DEF StepHolds
<1> QED BY <1>1, <1>2, <1>3, <1>4, <1>5, <1>6, <1>7 DEF QueueNext

\* The invariant holds of every reachable state of queue and referee (queue_core.py,
\* queue_flow.py), crashes and lost answers included.
THEOREM QueueInvAlways == QueueSpec => []QueueInv
<1>1. QueueInv /\ [QueueNext]_allVars => QueueInv'
  BY QueueStep DEF StepHolds
<1> QED BY QueueInvHoldsAtFirst, <1>1, PTL DEF QueueSpec

\* A result that reached the disk stays: no repeated finish, no tick of the
\* reconciler and no restart changes or forgets it (queue_core.py: finish).
THEOREM ResultAlwaysOnce == QueueSpec => ResultWrittenOnce
<1>1. QueueInv /\ [QueueNext]_allVars =>
        \A m \in DOMAIN disk.records :
          /\ m \in DOMAIN disk'.records
          /\ disk.records[m].state = "finished" =>
               disk'.records[m].state = "finished"
               /\ disk'.records[m].result = disk.records[m].result
  BY QueueStep DEF StepHolds, DiskKeeps
<1> QED BY QueueInvAlways, <1>1, PTL DEF QueueSpec, ResultWrittenOnce

\* When the referee's match starts while the queue provisions one, its worlds run and
\* the names and ids it holds are those of that match, if no other client called the
\* referee since the provisioning began (queue_flow.py: _provision).
THEOREM StartsAlwaysWhole == QueueSpec => StartsWhole
<1>1. QueueInv /\ [QueueNext]_allVars =>
        (phase # "running" /\ phase' = "running" /\ task # Idle /\ ~task'.others =>
           \A w \in Worlds :
             /\ matchId'[w] = task.match
             /\ player'[w] = records[task.match].team[w]
             /\ <<task.match, w>> \in up)
  BY QueueStep DEF StepHolds, StartsItsOwn
<1> QED BY QueueInvAlways, <1>1, PTL DEF QueueSpec, StartsWhole

\* What records, worlds and places say together (queue_flow.py: _provision, _cleanup;
\* queue_core.py), after any calls, failed calls, failed writes and restarts: ready
\* matches have their worlds, unless the write of their start or end failed, cleaned
\* ones have none, and each player has one place, if no rematch took them from another.
THEOREM RecordsAlwaysHold == QueueSpec => []RecordsHoldWorlds
<1>1. WorldsInv /\ PlacesInv /\ QueueInv /\ [QueueNext]_allVars => WorldsInv' /\ PlacesInv'
  BY WorldsStep, PlacesStep DEF PlacesInv
<1>2. QueueInit => WorldsInv /\ PlacesInv
  BY PlacesAtFirst
<1>3. QueueInv /\ WorldsInv /\ PlacesInv => RecordsHoldWorlds
  <2> SUFFICES ASSUME QueueInv, WorldsInv, PlacesInv PROVE RecordsHoldWorlds
    OBVIOUS
  <2>1. ReadyMatchHasWorlds
    BY DEF ReadyMatchHasWorlds, WorldsInv, ReadyRuns, DiskReady, QueueInv, DiskAgrees
  <2>2. CleanedMeansStopped
    <3>1. CleanIn(records, cleaned)
      BY DEF WorldsInv
    <3> QED BY <3>1, Zenon DEF CleanedMeansStopped, CleanIn
  <2>3. OnePlaceEach
    <3>1. IsQueue(queue)
      BY DEF PlacesInv, Fit
    <3>2. \A m \in Open : \A p \in Members(m) \ astray : bound[p] = m /\ p \notin ToSet(queue)
      BY <3>1, PlacesAsTold DEF PlacesInv, Fit, BoundAgrees, Matches, Members, IsOpen
    <3>3. \A p \in Players : bound[p] # 0 => bound[p] \in Open /\ p \in Members(bound[p])
      BY <3>1, PlacesAsTold DEF PlacesInv, BoundAgrees
    <3> QED BY <3>1, <3>2, <3>3 DEF OnePlaceEach, IsQueue
  <2> QED BY <2>1, <2>2, <2>3 DEF RecordsHoldWorlds
<1> QED BY QueueInvAlways, <1>1, <1>2, <1>3, PTL DEF QueueSpec
=============================================================================
