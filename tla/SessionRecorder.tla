---------------------------- MODULE SessionRecorder ----------------------------
\* deploy/session-recorder: follows the game server's log and writes its events
\* into one file per session, which a match_end closes.  Sessions and cursor are
\* kept in a state file; the recorder may die between any two writes.  A line is
\* written at once, or its head first: a poll that ends in a head keeps it, and also
\* reads it again.
EXTENDS Naturals, Sequences, SequencesExt

CONSTANT RcBounds      \* bounds: records of lines, heads, cuts of the log, deaths

VARIABLES
  rcLog,          \* the game's log: lines [no, kind]
  rcMemory,       \* _state: the active session, its seq, and the cursor
  rcDisk,         \* the state file
  rcFiles,        \* per session its JSONL file
  rcIndex,        \* index.jsonl: sessions
  rcPoll,         \* the poll: its next step, the lines not fed yet, where it will set the cursor
  rcTear,         \* half: the log ends in a head; held: _pending has one; within, upto: the
                  \* cursor, and the one to come, is within the line behind it
  rcBound, rcCount,   \* the bounds; lines, heads, cuts and deaths so far
  rcCut,          \* history: "none", a cut that is "unseen" by the cursor, or "read"
  rcMissed,       \* history: a cut went unnoticed, the new log had grown past the cursor
  rcTorn          \* history: a poll ended in a head
rcVars == <<rcLog, rcMemory, rcDisk, rcFiles, rcIndex, rcPoll, rcTear, rcBound, rcCount, rcCut, rcMissed, rcTorn>>

Kinds == {"event", "match_end", "other"}
NoSession == 0
NewSession == Len(rcFiles) + 1
Entry(what, no, kind, seq) == [what |-> what, no |-> no, kind |-> kind, seq |-> seq]
Sleeping == [at |-> "sleep", lines |-> <<>>, upto |-> 0]

RcInit ==
  /\ rcLog = <<>> /\ rcFiles = <<>> /\ rcIndex = <<>> /\ rcPoll = Sleeping
  /\ rcMemory = [active |-> NoSession, seq |-> 0, cursor |-> 0] /\ rcDisk = rcMemory
  /\ rcBound \in RcBounds /\ rcCount = [lines |-> 0, heads |-> 0, cuts |-> 0, deaths |-> 0]
  /\ rcTear = [half |-> FALSE, held |-> FALSE, within |-> FALSE, upto |-> FALSE]
  /\ rcCut = "none" /\ rcMissed = FALSE /\ rcTorn = FALSE

RcCounts(what) == rcCount[what] < rcBound[what] /\ rcCount' = [rcCount EXCEPT ![what] = @ + 1]

\* The game: a line of its log, or the head of one that the next line completes; a
\* server that starts again empties it.
RcWrite ==
  /\ RcCounts("lines") /\ rcTear' = [rcTear EXCEPT !.half = FALSE]
  /\ \E kind \in Kinds : rcLog' = Append(rcLog, [no |-> rcCount'.lines, kind |-> kind])
  /\ UNCHANGED <<rcMemory, rcDisk, rcFiles, rcIndex, rcPoll, rcBound, rcCut, rcMissed, rcTorn>>
RcHead ==
  /\ RcCounts("heads") /\ ~rcTear.half /\ rcTear' = [rcTear EXCEPT !.half = TRUE]
  /\ UNCHANGED <<rcLog, rcMemory, rcDisk, rcFiles, rcIndex, rcPoll, rcBound, rcCut, rcMissed, rcTorn>>
RcEmpties ==
  /\ RcCounts("cuts") /\ rcLog' = <<>> /\ rcCut' = "unseen" /\ rcTear' = [rcTear EXCEPT !.half = FALSE]
  /\ UNCHANGED <<rcMemory, rcDisk, rcFiles, rcIndex, rcPoll, rcBound, rcMissed, rcTorn>>

RcSave(memory) == rcMemory' = memory /\ rcDisk' = memory

\* poll_once: a file smaller than the cursor is a new one; one without new lines
\* leaves the cursor as it is.  It waits for the lines to be fed (bug: it is set
\* with the read).
CursorRuns == RcSave([rcMemory EXCEPT !.cursor = Len(rcLog)])
CursorWaits == UNCHANGED <<rcMemory, rcDisk>>
\* How long a head is, is left open: one the cursor is within may be the shorter.
RcSmaller == Len(rcLog) < rcMemory.cursor \/ (Len(rcLog) = rcMemory.cursor /\ rcTear.within)
RcOffset == IF RcSmaller THEN 0 ELSE rcMemory.cursor
RcAstray == rcTear.held \/ rcTear.within
RcRead ==
  /\ rcPoll.at = "sleep" /\ RcOffset < Len(rcLog) /\ (RcAstray => RcSmaller)
  /\ rcPoll' = [at |-> "feed", lines |-> SubSeq(rcLog, RcOffset + 1, Len(rcLog)), upto |-> Len(rcLog)]
  /\ rcTear' = [rcTear EXCEPT !.held = rcTear.half] /\ rcTorn' = (rcTorn \/ rcTear.half)
  /\ rcCut' = IF rcCut = "unseen" THEN "read" ELSE rcCut
  /\ rcMissed' = (rcMissed \/ (rcCut = "unseen" /\ RcOffset > 0))
  /\ CursorWaits /\ UNCHANGED <<rcLog, rcFiles, rcIndex, rcBound, rcCount>>
\* With a head held, or from within a line, the first line is not the one written:
\* feed may take it for any.  The head held is counted again, so that the cursor
\* goes beyond what was read: into the next line or behind it.
RcReadAstray ==
  /\ rcPoll.at = "sleep" /\ RcAstray /\ rcMemory.cursor < Len(rcLog)
  /\ \E kind \in Kinds, past \in {0, 1}, within \in BOOLEAN :
       /\ rcTear.held <=> (past = 1 \/ within)
       /\ rcPoll' = [at |-> "feed", upto |-> Len(rcLog) + past,
                     lines |-> [SubSeq(rcLog, rcMemory.cursor + 1, Len(rcLog)) EXCEPT ![1].kind = kind]]
       /\ rcTear' = [rcTear EXCEPT !.held = rcTear.half, !.upto = within]
  /\ rcCut' = IF rcCut = "unseen" THEN "read" ELSE rcCut
  /\ CursorWaits /\ UNCHANGED <<rcLog, rcFiles, rcIndex, rcBound, rcCount, rcMissed, rcTorn>>
\* Nothing but a head behind the offset: the cursor stays.
RcReadHead ==
  /\ rcPoll.at = "sleep" /\ rcTear.half /\ rcTorn' = TRUE
  /\ \/ RcSmaller /\ rcLog = <<>> /\ RcSave([rcMemory EXCEPT !.cursor = 0])
        /\ rcTear' = [rcTear EXCEPT !.held = TRUE, !.within = FALSE]
     \/ rcMemory.cursor = Len(rcLog) /\ UNCHANGED <<rcMemory, rcDisk>> /\ rcTear' = [rcTear EXCEPT !.held = TRUE]
  /\ UNCHANGED <<rcLog, rcFiles, rcIndex, rcPoll, rcBound, rcCount, rcCut, rcMissed>>
\* A smaller file with nothing in it yet: only the head held is dropped.
RcForgets ==
  /\ rcPoll.at = "sleep" /\ rcTear.held /\ RcSmaller /\ rcLog = <<>> /\ ~rcTear.half
  /\ rcTear' = [rcTear EXCEPT !.held = FALSE]
  /\ UNCHANGED <<rcLog, rcMemory, rcDisk, rcFiles, rcIndex, rcPoll, rcBound, rcCount, rcCut, rcMissed, rcTorn>>

Line == Head(rcPoll.lines)
RcAt(step) == rcPoll.at = step
RcGo(step) == rcPoll' = [rcPoll EXCEPT !.at = step]
RcNextLine == rcPoll' = [rcPoll EXCEPT !.at = "feed", !.lines = Tail(@)]
RcRest == UNCHANGED <<rcLog, rcTear, rcBound, rcCount, rcMissed, rcTorn>>

\* feed: other lines, and a match_end without a session, are dropped.
RcFeed ==
  /\ RcAt("feed") /\ rcPoll.lines # <<>>
  /\ \/ (Line.kind = "other" \/ (Line.kind = "match_end" /\ rcMemory.active = NoSession)) /\ RcNextLine
     \/ Line.kind # "other" /\ rcMemory.active # NoSession /\ RcGo("append")
     \/ Line.kind = "event" /\ rcMemory.active = NoSession /\ RcGo("open")
  /\ RcRest /\ UNCHANGED <<rcMemory, rcDisk, rcFiles, rcIndex, rcCut>>
\* _ensure_session: the file with its session_start, then the state.
RcOpen ==
  /\ RcAt("open") /\ RcGo("opened")
  /\ rcFiles' = Append(rcFiles, <<Entry("start", 0, "other", 0)>>)
  /\ rcMemory' = [rcMemory EXCEPT !.active = NewSession, !.seq = 0]
  /\ RcRest /\ UNCHANGED <<rcDisk, rcIndex, rcCut>>
RcOpened ==
  /\ RcAt("opened") /\ RcGo("append") /\ RcSave(rcMemory)
  /\ RcRest /\ UNCHANGED <<rcFiles, rcIndex, rcCut>>
\* _append_event: seq, and the record at the end of the session's file.
RcAdd(entry) == rcFiles' = [rcFiles EXCEPT ![rcMemory.active] = Append(@, entry)]
RcAppend ==
  /\ RcAt("append") /\ RcGo(IF Line.kind = "match_end" THEN "finish" ELSE "save")
  /\ rcMemory' = [rcMemory EXCEPT !.seq = @ + 1]
  /\ RcAdd(Entry("line", Line.no, Line.kind, rcMemory.seq + 1))
  /\ RcRest /\ UNCHANGED <<rcDisk, rcIndex, rcCut>>
RcSaved ==
  /\ RcAt("save") /\ RcNextLine /\ RcSave(rcMemory)
  /\ RcRest /\ UNCHANGED <<rcFiles, rcIndex, rcCut>>
\* finalize_session: session_end, the summary and the index, then the state.
RcFinish ==
  /\ RcAt("finish") /\ RcGo("index") /\ RcAdd(Entry("end", 0, "other", rcMemory.seq))
  /\ RcRest /\ UNCHANGED <<rcMemory, rcDisk, rcIndex, rcCut>>
RcIndex ==
  /\ RcAt("index") /\ RcGo("closed") /\ rcIndex' = Append(rcIndex, rcMemory.active)
  /\ RcRest /\ UNCHANGED <<rcMemory, rcDisk, rcFiles, rcCut>>
RcClosed ==
  /\ RcAt("closed") /\ RcNextLine /\ RcSave([rcMemory EXCEPT !.active = NoSession, !.seq = 0])
  /\ RcRest /\ UNCHANGED <<rcFiles, rcIndex, rcCut>>

\* Once all lines are fed the cursor is set and saved.
RcFed ==
  /\ RcAt("feed") /\ rcPoll.lines = <<>> /\ rcPoll' = Sleeping
  /\ RcSave([rcMemory EXCEPT !.cursor = rcPoll.upto])
  /\ rcTear' = [rcTear EXCEPT !.within = rcTear.upto, !.upto = FALSE]
  /\ rcCut' = IF rcCut = "read" THEN "none" ELSE rcCut
  /\ UNCHANGED <<rcLog, rcFiles, rcIndex, rcBound, rcCount, rcMissed, rcTorn>>

\* The recorder dies and starts again from its state file.
RcDies ==
  /\ RcCounts("deaths") /\ rcMemory' = rcDisk /\ rcPoll' = Sleeping
  /\ rcTear' = [rcTear EXCEPT !.held = FALSE, !.upto = FALSE]
  /\ rcCut' = IF rcCut = "read" THEN "unseen" ELSE rcCut
  /\ UNCHANGED <<rcLog, rcDisk, rcFiles, rcIndex, rcBound, rcMissed, rcTorn>>

RcWork ==
  RcRead \/ RcReadAstray \/ RcReadHead \/ RcForgets \/ RcFeed \/ RcOpen \/ RcOpened \/ RcAppend \/ RcSaved \/ RcFinish \/ RcIndex \/ RcClosed \/ RcFed
RcNext == RcWrite \/ RcHead \/ RcEmpties \/ RcWork \/ RcDies
RcSpec == RcInit /\ [][RcNext]_rcVars
-----------------------------------------------------------------------------
Recorded(line) ==
  \E s \in DOMAIN rcFiles : \E i \in DOMAIN rcFiles[s] : rcFiles[s][i].what = "line" /\ rcFiles[s][i].no = line.no

\* A restart loses nothing (session_recorder.py:17-20): whatever step the recorder
\* died at, each event of the log the saved cursor has passed is in a session, but
\* for a new log that had outgrown the cursor before it was looked at, and as long
\* as no poll has ended within a line.
NothingIsLost ==
  ~rcTorn /\ ~rcMissed /\ rcCut = "none" =>
    \A i \in 1 .. rcDisk.cursor : rcLog[i].kind = "event" => Recorded(rcLog[i])

\* While it does not die, each line is recorded once and in order, as long as no poll
\* has ended within a line; and even then a session is one match: numbered lines, of
\* which a match_end is the last, and its end; the index lists the ended ones.
SessionsTellMatches ==
  rcCount.deaths = 0 =>
    /\ ~rcTorn => \A s, t \in DOMAIN rcFiles : \A i \in DOMAIN rcFiles[s], j \in DOMAIN rcFiles[t] :
         /\ rcFiles[s][i].what = "line" /\ rcFiles[t][j].what = "line"
         /\ s < t \/ (s = t /\ i < j)
         => rcFiles[s][i].no < rcFiles[t][j].no
    /\ \A s \in DOMAIN rcFiles : LET file == rcFiles[s] IN
         /\ \A i \in DOMAIN file :
              /\ file[i].what = "start" <=> i = 1
              /\ file[i].what = "line" => file[i].seq = i - 1
              /\ file[i].what = "end" => i = Len(file) /\ file[i - 1].kind = "match_end"
              /\ file[i].kind = "match_end" => i >= Len(file) - 1
         /\ s < Len(rcFiles) => Last(file).what = "end"
    /\ \A i \in DOMAIN rcIndex : rcIndex[i] = i /\ Last(rcFiles[i]).what = "end"

\* The files of the recorder hold each match by itself, and every line it read but
\* for a poll that ended within one.
RecorderKeepsLines == NothingIsLost /\ SessionsTellMatches
=============================================================================
