------------------------------- MODULE LogTail -------------------------------
(***************************************************************************)
(* The log tailer (LogTailer of deploy/send-tailer, the same class as in   *)
(* deploy/session-recorder): it polls a log file the game server appends   *)
(* to and feeds the new lines, one by one, to its feeder.                  *)
(*                                                                         *)
(* A line is written in two pieces, <<line, 1>> and <<line, 2>>, the       *)
(* second with the newline; the file is a sequence of pieces, and offsets  *)
(* count them.  A server that starts again begins the file anew.  Left     *)
(* out: other lines, and a file that is replaced by one of another size    *)
(* between two polls without ever being seen smaller.                      *)
(***************************************************************************)
EXTENDS Integers, SequencesExt

CONSTANTS
  MaxLine,       \* bound: lines written
  MaxCuts,       \* bound: times the file begins anew
  MaxPending     \* bound: pieces kept when a poll reads on

ASSUME TailBounds == MaxLine \in Nat /\ MaxCuts \in Nat /\ MaxPending \in Nat

VARIABLES
  log,           \* the file
  written,       \* lines begun
  cuts,
  cursor,        \* _cursor, None = -1
  pending,       \* _pending
  queue,         \* the complete lines of this poll, not fed yet: pieces as well
  upto,          \* consumed
  at             \* the poll's next step

fileVars == <<log, written, cuts>>
tailVars == <<cursor, pending, queue, upto, at>>
logVars == <<fileVars, tailVars>>

Lines == 1 .. MaxLine
None == -1

TailInit ==
  /\ log = <<>> /\ written = 0 /\ cuts = 0
  /\ cursor = None /\ pending = <<>>
  /\ queue = <<>> /\ upto = 0
  /\ at = "measure"

-----------------------------------------------------------------------------
(* The game server.                                                        *)

Open == log # <<>> /\ Last(log)[2] = 1

WriteLine ==
  /\ ~Open /\ written < MaxLine
  /\ written' = written + 1
  /\ log' = log \o <<<<written + 1, 1>>, <<written + 1, 2>>>>
  /\ UNCHANGED <<cuts, tailVars>>

\* A write that ends within a line, and the rest of the line.
WriteHead ==
  /\ ~Open /\ written < MaxLine
  /\ written' = written + 1
  /\ log' = Append(log, <<written + 1, 1>>)
  /\ UNCHANGED <<cuts, tailVars>>

WriteTail ==
  /\ Open
  /\ log' = Append(log, <<written, 2>>)
  /\ UNCHANGED <<written, cuts, tailVars>>

BeginAnew ==
  /\ cuts < MaxCuts
  /\ cuts' = cuts + 1
  /\ log' = <<>>
  /\ UNCHANGED <<written, tailVars>>

-----------------------------------------------------------------------------
(* poll_once.                                                              *)

\* _cursor_for: a smaller file is a new one.
Shrunk == Len(log) < cursor

Measure ==
  /\ at = "measure"
  /\ cursor' = IF cursor = None THEN Len(log) ELSE IF Shrunk THEN 0 ELSE cursor
  /\ pending' = IF cursor # None /\ Shrunk THEN <<>> ELSE pending
  /\ at' = "read"
  /\ UNCHANGED <<fileVars, queue, upto>>

\* The newlines in a piece of data, and the end of the last line they end.
Newlines(data) == {i \in DOMAIN data : data[i][2] = 2}
Complete(data) == Max(Newlines(data) \union {0})

\* The bytes after the cursor are put behind the pending ones.  The cursor is to
\* go on by the length of all complete lines, the pending bytes included, from
\* where it was, which is before those bytes.
Read ==
  LET new == SubSeq(log, cursor + 1, Len(log))
      data == pending \o new IN
  /\ at = "read" /\ Len(pending) <= MaxPending
  /\ IF new = <<>>
     THEN at' = "measure" /\ UNCHANGED <<pending, queue, upto>>
     ELSE /\ queue' = SubSeq(data, 1, Complete(data))
          /\ pending' = SubSeq(data, Complete(data) + 1, Len(data))
          /\ upto' = cursor + Complete(data)
          /\ at' = "feed"
  /\ UNCHANGED <<fileVars, cursor>>

\* The next line, up to its newline, goes to the feeder.
Feed(line) ==
  /\ at = "feed" /\ queue # <<>>
  /\ LET end == Min(Newlines(queue)) IN
       /\ line = queue[end][1]
       /\ queue' = SubSeq(queue, end + 1, Len(queue))
  /\ UNCHANGED <<fileVars, cursor, pending, upto, at>>

\* The cursor is set once all lines are fed.
Fed ==
  /\ at = "feed" /\ queue = <<>>
  /\ cursor' = upto
  /\ at' = "measure"
  /\ UNCHANGED <<fileVars, pending, queue, upto>>

\* The tailer starts again; its cursor was in memory.
TailerRestart ==
  /\ cursor' = None /\ pending' = <<>>
  /\ queue' = <<>> /\ upto' = 0
  /\ at' = "measure"
  /\ UNCHANGED fileVars
=============================================================================
