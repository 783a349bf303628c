---------------------------- MODULE MatchRecords ----------------------------
(***************************************************************************)
(* The persistent match records (tournament/src/records.rs and the hq_hp   *)
(* branch of POST /report).  The handler derives a record under the lock   *)
(* that finished the match and stores it after the lock: one row for each  *)
(* participant, INSERT OR IGNORE on (match_id, rematch, player).  match_id *)
(* is the same for every match, so rematch is the key of a match.  The     *)
(* rows survive a restart of the server, the match state does not.         *)
(***************************************************************************)
EXTENDS RefereeMatch, Sequences

CONSTANTS
  MaxFinished,   \* bound: matches that finish
  MaxRestarts    \* bound: restarts of the server

VARIABLES
  rows,          \* the table match_record
  unwritten,     \* records derived and not yet stored
  finished,      \* history: the records of the finished matches, in order
  lost,          \* history: indices of records that a restart took along or whose insert failed
  restarts       \* history

recordVars == <<rows, unwritten, finished, lost, restarts>>
recordsVars == <<vars, recordVars>>

RecordsInit ==
  /\ Init
  /\ rows = {} /\ unwritten = {} /\ finished = <<>> /\ lost = {} /\ restarts = 0

\* to_record: the match in the state it just reached.
Result == [w \in Worlds |-> IF w = winner' THEN "win" ELSE "loss"]

Record ==
  [rematch |-> rematches', mode |-> mode', winner |-> player'[winner'],
   participants |->
     [w \in Worlds |-> [player |-> player'[w], opponent |-> Opponent(w), result |-> Result[w]]]]

\* POST /report hq_hp: only the report that ends the match derives a record.
FinishMatch ==
  /\ \E w \in Worlds : ReportHq(w, 0)
  /\ Len(finished) < MaxFinished
  /\ finished' = Append(finished, Record)
  /\ unwritten' = unwritten \union {Len(finished')}
  /\ UNCHANGED <<rows, lost, restarts>>

NoMatchEnd ==
  /\ \/ \E w \in Worlds, p \in Players, m \in MatchIds \union {None} : LobbyRegister(w, p, m)
     \/ \E w \in Worlds : Ready(w)
     \/ Go
     \/ \E p \in Players : StartSp(p)
     \/ Rematch
     \/ \E w \in Worlds, level \in BOOLEAN : RouteSend(w, level)
     \/ \E w \in Worlds : WaveStart(w)
     \/ \E w \in Worlds, hp \in 1 .. HqStart + 1 : ReportHq(w, hp)
     \/ Pause
     \/ Resume
  /\ UNCHANGED recordVars

\* The row of world w's participant.
Row(i, w) ==
  LET r == finished[i] IN
  [rematch |-> r.rematch, player |-> r.participants[w].player,
   opponent |-> r.participants[w].opponent, result |-> r.participants[w].result,
   winner |-> r.winner, of |-> i]

Taken(table, row) == \E old \in table : old.rematch = row.rematch /\ old.player = row.player

\* INSERT OR IGNORE.
Insert(table, row) == IF Taken(table, row) THEN table ELSE table \union {row}

\* record: one transaction for both participants (bug: without OR IGNORE a row
\* that is taken makes it fail).
WrittenIfFree(i) ==
  IF \E w \in Worlds : Taken(rows, Row(i, w)) THEN rows
  ELSE Insert(Insert(rows, Row(i, "A")), Row(i, "B"))
Written(i) == Insert(Insert(rows, Row(i, "A")), Row(i, "B"))

\* Handlers store in any order.
Store(i) ==
  /\ i \in unwritten
  /\ rows' = Written(i)
  /\ unwritten' = unwritten \ {i}
  /\ UNCHANGED <<vars, finished, lost, restarts>>

\* A transaction that fails leaves no row of its record; the handler logs that and
\* answers the report as ever, and nobody stores the record again.
StoreFails(i) ==
  /\ i \in unwritten
  /\ unwritten' = unwritten \ {i}
  /\ lost' = lost \union {i}
  /\ UNCHANGED <<vars, rows, finished, restarts>>

\* The server goes down with whatever its handlers have not stored yet.
Restart ==
  /\ restarts < MaxRestarts
  /\ restarts' = restarts + 1
  /\ mode' = "duel" /\ phase' = "lobby"
  /\ round' = 0 /\ roundsDone' = 0 /\ rematches' = 0
  /\ winner' = None /\ paused' = FALSE
  /\ player' = AllWorlds(None) /\ ready' = AllWorlds(FALSE)
  /\ hq' = AllWorlds(HqStart)
  /\ matchId' = AllWorlds(None)
  /\ pending' = NoIncoming /\ reveal' = NoReveal
  /\ nextId' = 0 /\ sent' = {} /\ revealed' = {}
  /\ lost' = lost \union unwritten
  /\ unwritten' = {}
  /\ UNCHANGED <<rows, finished>>

RecordsNext ==
  \/ FinishMatch
  \/ NoMatchEnd
  \/ \E i \in unwritten : Store(i) \/ StoreFails(i)
  \/ Restart

RecordsSpec == RecordsInit /\ [][RecordsNext]_recordsVars

-----------------------------------------------------------------------------
(* Properties.                                                             *)

\* A player has one row for each key, and it says of them what happened in one
\* of the matches played under that key: a winner's row names them as winner.
RowsTellAMatch ==
  /\ \A x, y \in rows : x.rematch = y.rematch /\ x.player = y.player => x = y
  /\ \A x \in rows : finished[x.of].rematch = x.rematch
                     /\ (x.result = "win" => x.winner = x.player)

\* An insert that went through is complete: once its handler is through, each
\* finished match, unless a restart came before its insert or the insert failed,
\* left every participant a row under its key, this match's or an earlier one's.
\* A failed insert is only logged, and leaves no half of a record behind: whoever has a
\* row, the other participant of that match has one under its key too.
ResultsOnRecord ==
  /\ \A i \in 1 .. Len(finished) : i \in unwritten \union lost
       \/ \A w \in Worlds : Taken(rows, Row(i, w))
  /\ \A x \in rows, w \in Worlds : Taken(rows, Row(x.of, w))
=============================================================================
