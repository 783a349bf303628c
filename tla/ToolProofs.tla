------------------------------ MODULE ToolProofs ------------------------------
(***************************************************************************)
(* Machine-checked proofs about what follows a game world or stands beside *)
(* it (WorldTools), for every value of its constants.                      *)
(***************************************************************************)
EXTENDS WorldTools, SymbolizerProofs

-----------------------------------------------------------------------------
(* The mod updater (ModUpdate).                                            *)

\* The files there are; Whole(NoFile) is the folder with none.
MuSteps == {"idle", "backup", "remove", "move"}
MuTypes ==
  /\ mod \in [MuFiles -> Nat] /\ backup \in [MuFiles -> Nat] /\ latest \in Nat \ {0} /\ muFound \in [MuFiles -> Nat]
  /\ muAt \in MuSteps /\ muOptions \in MuOptions /\ muBroken \in BOOLEAN /\ modThere \in BOOLEAN
Intact(folder) == folder = Whole(folder["manifest"])

\* Where install() is tells what there is, torn or not: what was found lies in its place
\* until it was copied.
StepsAgree ==
  /\ ~modThere => mod = Nowhere
  /\ muAt # "idle" => muSaid = "working"
  /\ muAt = "backup" => modThere /\ muOptions.backup /\ mod = muFound
  /\ muAt = "remove" => modThere
  /\ muAt \in {"remove", "move"} /\ muOptions.backup =>
       backup = muFound /\ (Complete(muFound) => \E b \in backups : b.files = muFound)

\* Unless a run was stopped half way since the last installation, the folder is intact
\* when no run works on it, and what a run that works found was.
IntactUntilBroken == ~muBroken =>
  /\ muAt \in {"idle", "backup"} => Intact(mod)
  /\ muAt # "idle" => Intact(muFound)
MuInv == MuTypes /\ StepsAgree /\ IntactUntilBroken /\ OldVersionIsKept /\ SaidIsWhole

LEMMA NowhereIsWhole == Nowhere = Whole(NoFile) /\ \A v : Whole(v)["manifest"] = v
BY ManifestIsAFile DEF Nowhere, Whole

LEMMA MuInvHoldsAtFirst == MuInit => MuInv
<1> SUFFICES ASSUME MuInit PROVE MuInv
  OBVIOUS
<1>1. MuTypes
  <2>1. Nowhere \in [MuFiles -> Nat] /\ Whole(1) \in [MuFiles -> Nat]
    BY DEF Nowhere, Whole, NoFile
  <2>2. modThere \in BOOLEAN
    BY DEF MuInit
  <2>3. mod \in [MuFiles -> Nat] /\ backup \in [MuFiles -> Nat] /\ muFound \in [MuFiles -> Nat]
    BY <2>1 DEF MuInit
  <2>4. latest \in Nat \ {0} /\ muAt \in MuSteps /\ muOptions \in MuOptions
    BY DEF MuInit, NoFile, MuSteps
  <2>5. muBroken \in BOOLEAN
    BY DEF MuInit
  <2> QED BY <2>2, <2>3, <2>4, <2>5 DEF MuTypes
<1>2. StepsAgree /\ SaidIsWhole /\ OldVersionIsKept
  BY DEF MuInit, StepsAgree, SaidIsWhole, OldVersionIsKept
<1>3. Intact(mod)
  BY NowhereIsWhole DEF MuInit, Intact, NoFile
<1> QED BY <1>1, <1>2, <1>3 DEF MuInv, MuInit, IntactUntilBroken

\* A new release comes between two runs; a whole mod stays whole.
LEMMA ReleaseStep == ASSUME MuInv, MuRelease PROVE MuInv'
<1>1. latest' = latest + 1 /\ muAt = "idle" /\ UNCHANGED <<mod, modThere, muOptions, muAt, muFound, backup, backups, muSaid, muBroken>>
  BY DEF MuRelease
<1>2. MuTypes' /\ StepsAgree'
  BY <1>1 DEF MuInv, MuTypes, StepsAgree
<1>3. IntactUntilBroken'
  BY <1>1 DEF MuInv, MuTypes, IntactUntilBroken, Intact
<1>4. SaidIsWhole'
  BY <1>1 DEF MuInv, MuTypes, SaidIsWhole
<1>5. OldVersionIsKept'
  BY <1>1 DEF MuInv, OldVersionIsKept
<1> QED BY <1>2, <1>3, <1>4, <1>5 DEF MuInv

\* A run begins with the version the manifest names; an intact folder is all of it.
LEMMA StartStep == ASSUME MuInv, MuStart PROVE MuInv'
<1>1. /\ muAt = "idle" /\ muOptions' \in MuOptions /\ muFound' = mod /\ backup' = Nowhere
      /\ UNCHANGED <<mod, modThere, latest, backups, muBroken>>
  BY DEF MuStart
<1>0. ~modThere => ~Complete(mod)
  BY NowhereIsWhole DEF MuInv, StepsAgree, Complete
<1>2. \/ mod["manifest"] = latest /\ muSaid' = "up-to-date" /\ muAt' = "idle"
      \/ /\ muSaid' = "working"
         /\ muAt' = IF ~modThere THEN "move" ELSE IF muOptions'.backup THEN "backup" ELSE "remove"
  BY DEF MuStart
<1>3. MuTypes'
  BY <1>1, <1>2 DEF MuInv, MuTypes, Nowhere, NoFile, MuSteps
<1>4. StepsAgree'
  <2>1. ~modThere => backup' = muFound'
    BY <1>1 DEF MuInv, StepsAgree
  <2> QED BY <1>0, <1>1, <1>2, <2>1 DEF MuInv, StepsAgree, Complete
<1>5. IntactUntilBroken'
  BY <1>1 DEF MuInv, IntactUntilBroken, Intact
<1>6. OldVersionIsKept'
  BY <1>1, <1>2 DEF OldVersionIsKept
<1>7. SaidIsWhole'
  BY <1>1, <1>2 DEF MuInv, MuTypes, IntactUntilBroken, Intact, SaidIsWhole, Complete, NoFile
<1> QED BY <1>3, <1>4, <1>5, <1>6, <1>7 DEF MuInv

\* The backup is made, one file after the other, and kept.
LEMMA BackupStep == ASSUME MuInv, CopyToBackup \/ BackedUp PROVE MuInv'
<1>1. /\ muAt = "backup" /\ muSaid = "working"
      /\ UNCHANGED <<mod, modThere, latest, muOptions, muFound, muSaid, muBroken>>
  BY DEF CopyToBackup, BackedUp, MuInv, StepsAgree
<1>2. mod = muFound
  BY <1>1 DEF MuInv, StepsAgree
<1>3. OldVersionIsKept' /\ SaidIsWhole'
  BY <1>1, <1>2 DEF OldVersionIsKept, SaidIsWhole
<1>4. CASE CopyToBackup
  <2>1. backup' \in [MuFiles -> Nat] /\ UNCHANGED muAt
    BY <1>4 DEF CopyToBackup, MuInv, MuTypes
  <2> QED BY <1>1, <1>3, <2>1 DEF MuInv, MuTypes, StepsAgree, IntactUntilBroken
<1>5. CASE BackedUp
  <2>1. /\ muAt' = "remove" /\ backup = mod /\ UNCHANGED backup
        /\ [files |-> backup, inMods |-> muOptions.inMods] \in backups'
    BY <1>5 DEF BackedUp, RemovesAfter
  <2>0. \E b \in backups' : b.files = mod
    BY <2>1
  <2>2. MuTypes'
    BY <1>1, <2>1 DEF MuInv, MuTypes, MuSteps
  <2>3. StepsAgree' /\ IntactUntilBroken'
    BY <1>1, <1>2, <2>0, <2>1 DEF MuInv, StepsAgree, IntactUntilBroken
  <2> QED BY <1>3, <2>2, <2>3 DEF MuInv
<1> QED BY <1>4, <1>5


\* Files go and come; the backup stays.
LEMMA FilesMoveStep == ASSUME MuInv, RemoveFile \/ MoveIn PROVE MuInv'
<1>1. /\ muAt \in {"remove", "move"} /\ muAt' \in {"remove", "move"} /\ muSaid = "working"
      /\ UNCHANGED <<latest, muOptions, muFound, backup, backups, muSaid, muBroken>>
  BY DEF RemoveFile, MoveIn, MuInv, StepsAgree
<1>2. /\ mod' \in [MuFiles -> Nat] /\ modThere' \in BOOLEAN
      /\ ~modThere' => mod' = Nowhere
      /\ muAt' = "remove" => modThere'
  <2>1. CASE RemoveFile
    <3>1. muAt = "remove" /\ modThere /\ mod \in [MuFiles -> Nat]
      BY <2>1 DEF RemoveFile, MuInv, MuTypes, StepsAgree
    <3>2. CASE \E f \in MuFiles : mod' = [mod EXCEPT ![f] = NoFile] /\ UNCHANGED modThere
      BY <3>1, <3>2 DEF NoFile, MuInv, MuTypes
    <3>3. CASE mod = Nowhere /\ modThere' = FALSE /\ muAt' = "move" /\ UNCHANGED mod
      BY <3>1, <3>3
    <3> QED BY <2>1, <3>2, <3>3 DEF RemoveFile
  <2>2. CASE MoveIn
    BY <2>2 DEF MoveIn, MuInv, MuTypes, Whole
  <2> QED BY <2>1, <2>2
<1>3. MuTypes'
  <2>1. muAt' \in MuSteps
    BY <1>1 DEF MuSteps
  <2> QED BY <2>1, <1>1, <1>2, Zenon DEF MuInv, MuTypes
<1>4. muOptions.backup => backup = muFound /\ (Complete(muFound) => \E b \in backups : b.files = muFound)
  BY <1>1 DEF MuInv, StepsAgree
<1>5. StepsAgree'
  BY <1>1, <1>2, <1>4 DEF StepsAgree, Complete
<1>6. OldVersionIsKept' /\ SaidIsWhole'
  BY <1>1, <1>4 DEF OldVersionIsKept, SaidIsWhole, Complete
<1>7. IntactUntilBroken'
  BY <1>1 DEF MuInv, IntactUntilBroken
<1> QED BY <1>3, <1>5, <1>6, <1>7 DEF MuInv

\* The new version is there, whole, whatever was there before.
LEMMA MovedInStep == ASSUME MuInv, MovedIn PROVE MuInv'
<1>1. /\ muAt = "move" /\ mod = Whole(latest) /\ muSaid' = "updated" /\ muAt' = "idle" /\ muBroken' = FALSE
      /\ UNCHANGED <<mod, modThere, latest, muOptions, muFound, backup, backups>>
  BY DEF MovedIn
<1>2. mod["manifest"] = latest /\ latest # NoFile /\ Complete(mod) /\ Intact(mod)
  BY <1>1, NowhereIsWhole DEF MuInv, MuTypes, NoFile, Complete, Intact
<1>3. MuTypes' /\ StepsAgree'
  BY <1>1 DEF MuInv, MuTypes, MuSteps, StepsAgree
<1>4. OldVersionIsKept' /\ SaidIsWhole'
  BY <1>1, <1>2 DEF MuInv, StepsAgree, OldVersionIsKept, SaidIsWhole, Complete
<1>5. IntactUntilBroken'
  BY <1>1, <1>2 DEF IntactUntilBroken, Intact
<1> QED BY <1>3, <1>4, <1>5 DEF MuInv

\* An error or a kill that comes before anything is removed leaves the folder as it was
\* found, and so does one after which the backup went back; any other counts as having
\* broken it, and the backup is there.
LEMMA StopStep == ASSUME MuInv, MuRestore \/ MuRestoreFails \/ MuError \/ MuKilled PROVE MuInv'
<1>1. /\ muAt \in {"backup", "remove", "move"} /\ muAt' = "idle" /\ muSaid' \in {"error", "killed"}
      /\ UNCHANGED <<latest, muOptions, muFound, backup, backups>>
  BY DEF MuRestore, MuRestoreFails, MuError, MuKilled, MuStops
<1>2. RollsBack => muAt = "move" /\ backup = muFound
  BY <1>1 DEF RollsBack, MuInv, StepsAgree
<1>3. \/ mod' = muFound /\ modThere' = TRUE /\ muBroken' = muBroken
      \/ /\ mod' \in [MuFiles -> Nat] /\ modThere' \in BOOLEAN /\ (~modThere' => mod' = Nowhere)
         /\ muBroken' = TRUE /\ muAt \in {"remove", "move"}
  <2>1. CASE MuRestore
    BY <1>2, <2>1 DEF MuRestore
  <2>2. CASE MuRestoreFails
    <3>1. PICK copied \in SUBSET MuFiles :
            /\ mod' = [f \in MuFiles |-> IF f \in copied THEN backup[f] ELSE NoFile]
            /\ modThere' = (copied # {}) \/ modThere' = TRUE
      BY <2>2 DEF MuRestoreFails
    <3>2. mod' \in [MuFiles -> Nat]
      BY <3>1 DEF MuInv, MuTypes, NoFile
    <3>3. modThere' \in BOOLEAN /\ (~modThere' => mod' = Nowhere)
      BY <3>1 DEF Nowhere
    <3>4. muBroken' = TRUE /\ muAt = "move"
      BY <1>2, <2>2 DEF MuRestoreFails, Leaves
    <3> QED BY <3>2, <3>3, <3>4
  <2>3. CASE MuError \/ MuKilled
    <3>1. UNCHANGED <<mod, modThere>> /\ muBroken' = (muBroken \/ muAt \in {"remove", "move"})
      BY <2>3 DEF MuError, MuKilled, Leaves
    <3>2. muAt = "backup" => mod = muFound /\ modThere = TRUE /\ muBroken' = muBroken
      BY <3>1 DEF MuInv, MuTypes, StepsAgree
    <3> QED BY <1>1, <3>1, <3>2 DEF MuInv, MuTypes, StepsAgree
  <2> QED BY <2>1, <2>2, <2>3
<1>4. MuTypes'
  BY <1>1, <1>3 DEF MuInv, MuTypes, MuSteps
<1>5. StepsAgree'
  BY <1>1, <1>3 DEF StepsAgree
<1>6. IntactUntilBroken'
  BY <1>1, <1>3 DEF MuInv, IntactUntilBroken, Intact
<1>7. OldVersionIsKept' /\ SaidIsWhole'
  <2>1. muAt \in {"remove", "move"} /\ muOptions.backup /\ Complete(muFound) => \E b \in backups : b.files = muFound
    BY DEF MuInv, StepsAgree
  <2> QED BY <1>1, <1>3, <2>1 DEF OldVersionIsKept, SaidIsWhole, Complete
<1> QED BY <1>4, <1>5, <1>6, <1>7 DEF MuInv

LEMMA MuInvStays == ASSUME MuInv, [MuNext]_muVars PROVE MuInv'
<1>1. CASE UNCHANGED muVars
  BY <1>1 DEF muVars, MuInv, MuTypes, StepsAgree, IntactUntilBroken, Intact, OldVersionIsKept, SaidIsWhole, Complete
<1> QED BY <1>1, ReleaseStep, StartStep, BackupStep, FilesMoveStep, MovedInStep, StopStep DEF MuNext, MuWork

\* With a backup the updater never loses a whole mod, and what it says of the folder is
\* true unless a run was stopped while it removed or moved files, for any set of files,
\* any number of runs and any errors and kills between two files (mod_update.py:
\* install).
THEOREM ModAlwaysKept == MuSpec => []ModIsKept
<1>1. MuInv => ModIsKept
  BY DEF MuInv, ModIsKept
<1>2. MuInit => MuInv
  BY MuInvHoldsAtFirst
<1>3. MuInv /\ [MuNext]_muVars => MuInv'
  BY MuInvStays
<1> QED BY <1>1, <1>2, <1>3, PTL DEF MuSpec

-----------------------------------------------------------------------------
(* One instance of the session recorder (SessionRecorder).                 *)

RcLines == [no : Nat, kind : Kinds]
RcEntries == [what : {"start", "line", "end"}, no : Nat, kind : Kinds, seq : Nat]
RcMemories == [active : Nat, seq : Nat, cursor : Nat]
RcSteps == {"sleep", "feed", "open", "opened", "append", "save", "finish", "index", "closed"}
RcTears == [half : BOOLEAN, held : BOOLEAN, within : BOOLEAN, upto : BOOLEAN]
RcTypes ==
  /\ rcLog \in Seq(RcLines)
  /\ rcMemory \in RcMemories /\ rcDisk \in RcMemories
  /\ rcFiles \in Seq(Seq(RcEntries)) /\ rcIndex \in Seq(Nat)
  /\ rcPoll \in [at : RcSteps, lines : Seq(RcLines), upto : Nat]
  /\ rcCount \in [lines : Nat, heads : Nat, cuts : Nat, deaths : Nat]
  /\ rcTear \in RcTears
  /\ rcCut \in {"none", "unseen", "read"} /\ rcMissed \in BOOLEAN /\ rcTorn \in BOOLEAN

\* Each step has its line and its session; the saved cursor is the one in memory,
\* and at the end of a line unless a poll ended within one.
RcStepsFit ==
  /\ ~rcTorn => ~rcTear.held /\ ~rcTear.within /\ ~rcTear.upto
  /\ rcMemory.cursor = rcDisk.cursor
  /\ rcMemory.active <= Len(rcFiles) /\ rcDisk.active <= Len(rcFiles)
  /\ rcPoll.at = "sleep" => rcCut # "read"
  /\ rcPoll.at \notin {"sleep", "feed"} => rcPoll.lines # <<>>
  /\ rcPoll.at \in {"opened", "append", "save", "finish", "index", "closed"} => rcMemory.active # NoSession
  /\ rcPoll.at = "open" => rcMemory.active = NoSession
  /\ rcPoll.at = "save" => Recorded(rcPoll.lines[1])
  /\ rcPoll.at \in {"finish", "index", "closed"} => rcPoll.lines[1].kind = "match_end"

\* The lines of a poll are those of the log behind what was fed, unless the log
\* was emptied meanwhile.
RcFedUpto == rcPoll.upto - Len(rcPoll.lines)
RcFollows ==
  /\ rcCut = "none" => rcMemory.cursor <= Len(rcLog)
  /\ rcPoll.at # "sleep" /\ rcCut # "unseen" =>
       /\ rcPoll.upto <= Len(rcLog) /\ Len(rcPoll.lines) <= rcPoll.upto
       /\ \A i \in 1 .. Len(rcPoll.lines) : rcPoll.lines[i] = rcLog[RcFedUpto + i]
RcKept(upto) == \A i \in 1 .. upto : rcLog[i].kind = "event" => Recorded(rcLog[i])
RcKeeps ==
  ~rcMissed =>
    /\ rcCut = "none" => RcKept(rcMemory.cursor)
    /\ rcPoll.at # "sleep" /\ rcCut # "unseen" => RcKept(RcFedUpto)
RcKeepInv == RcTypes /\ RcStepsFit /\ (~rcTorn => RcFollows /\ RcKeeps)

\* Lines are numbered as they are written; what is recorded is behind what waits.
RcNumbers ==
  /\ \A i \in DOMAIN rcLog : rcLog[i].no <= rcCount.lines
  /\ \A i, j \in DOMAIN rcLog : i < j => rcLog[i].no < rcLog[j].no
  /\ \A i \in DOMAIN rcPoll.lines : rcPoll.lines[i].no <= rcCount.lines
  /\ \A i, j \in DOMAIN rcPoll.lines : i < j => rcPoll.lines[i].no < rcPoll.lines[j].no
RcWaits(i) == i > 1 \/ rcPoll.at \notin {"save", "finish", "index", "closed"}
RcPassed == IF rcPoll.at = "sleep" THEN rcMemory.cursor ELSE rcPoll.upto
RcUnread(i) == rcCut = "unseen" \/ i > RcPassed
RcBehind(no) ==
  \A s \in DOMAIN rcFiles : \A i \in DOMAIN rcFiles[s] : rcFiles[s][i].what = "line" => rcFiles[s][i].no < no
RcWaitingBehind == \A i \in DOMAIN rcPoll.lines : RcWaits(i) => RcBehind(rcPoll.lines[i].no)
RcUnreadBehind ==
  \A i \in DOMAIN rcLog : RcUnread(i) =>
    RcBehind(rcLog[i].no) /\ \A k \in DOMAIN rcPoll.lines : rcPoll.lines[k].no < rcLog[i].no
RcFilesInOrder ==
  \A s, t \in DOMAIN rcFiles : \A i \in DOMAIN rcFiles[s], j \in DOMAIN rcFiles[t] :
    /\ rcFiles[s][i].what = "line" /\ rcFiles[t][j].what = "line"
    /\ s < t \/ (s = t /\ i < j)
    => rcFiles[s][i].no < rcFiles[t][j].no
RcInOrder == RcBehind(rcCount.lines + 1) /\ RcWaitingBehind /\ RcUnreadBehind /\ RcFilesInOrder
RcOrderInv == RcNumbers /\ (rcCount.deaths = 0 /\ ~rcTorn => RcInOrder)

\* The file of a session, and the books about it.
RcEnded(file) == file[Len(file)].what = "end"
RcFile(file) ==
  /\ file # <<>>
  /\ \A i \in DOMAIN file :
       /\ file[i].what = "start" <=> i = 1
       /\ file[i].what = "line" => file[i].seq = i - 1
       /\ file[i].what = "end" => i = Len(file) /\ file[i - 1].kind = "match_end"
       /\ file[i].kind = "match_end" => i >= Len(file) - 1
RcOpenFile(file) ==
  ~RcEnded(file) /\ \A i \in DOMAIN file : file[i].kind = "match_end" => i = Len(file) /\ rcPoll.at = "finish"
RcActive == rcMemory.active # NoSession
RcBooks ==
  /\ \A s \in DOMAIN rcFiles : RcFile(rcFiles[s])
  /\ \A s \in DOMAIN rcFiles : s < Len(rcFiles) => RcEnded(rcFiles[s])
  /\ RcActive => rcMemory.active = Len(rcFiles)
  /\ ~RcActive /\ rcFiles # <<>> => RcEnded(rcFiles[Len(rcFiles)])
  /\ RcActive /\ rcPoll.at \in {"index", "closed"} => RcEnded(rcFiles[Len(rcFiles)])
  /\ RcActive /\ rcPoll.at \notin {"index", "closed"} =>
       /\ RcOpenFile(rcFiles[Len(rcFiles)]) /\ rcMemory.seq = Len(rcFiles[Len(rcFiles)]) - 1
  /\ rcPoll.at = "finish" => rcFiles[Len(rcFiles)][Len(rcFiles[Len(rcFiles)])].kind = "match_end"
  /\ Len(rcIndex) = IF RcActive /\ rcPoll.at # "closed" THEN Len(rcFiles) - 1 ELSE Len(rcFiles)
  /\ \A i \in DOMAIN rcIndex : rcIndex[i] = i
RcBookInv == rcCount.deaths = 0 => RcBooks

RcInv == RcKeepInv /\ RcOrderInv /\ RcBookInv

\* An entry at the end of one file.
LEMMA FileGrows ==
  ASSUME NEW files \in Seq(Seq(RcEntries)), NEW a \in 1 .. Len(files), NEW e \in RcEntries,
         NEW more, more = [files EXCEPT ![a] = Append(@, e)]
  PROVE  /\ more \in Seq(Seq(RcEntries)) /\ Len(more) = Len(files) /\ DOMAIN more = 1 .. Len(files)
         /\ \A s \in 1 .. Len(files) : s # a => more[s] = files[s]
         /\ more[a] \in Seq(RcEntries) /\ files[a] \in Seq(RcEntries) /\ Len(files[a]) \in Nat
         /\ Len(more[a]) = Len(files[a]) + 1 /\ DOMAIN more[a] = 1 .. Len(files[a]) + 1
         /\ \A i \in 1 .. Len(files[a]) : more[a][i] = files[a][i]
         /\ more[a][Len(files[a]) + 1] = e
<1>1. Len(files) \in Nat /\ DOMAIN files = 1 .. Len(files) /\ \A s \in 1 .. Len(files) : files[s] \in Seq(RcEntries)
  OBVIOUS
<1>2. /\ Append(files[a], e) \in Seq(RcEntries) /\ Len(Append(files[a], e)) = Len(files[a]) + 1
      /\ \A i \in 1 .. Len(files[a]) : Append(files[a], e)[i] = files[a][i]
      /\ Append(files[a], e)[Len(files[a]) + 1] = e
  BY <1>1, AppendProperties
<1>3. /\ DOMAIN more = 1 .. Len(files) /\ more[a] = Append(files[a], e)
      /\ \A s \in 1 .. Len(files) : s # a => more[s] = files[s]
  BY <1>1
<1>4. \A s \in 1 .. Len(files) : more[s] \in Seq(RcEntries)
  BY <1>1, <1>2, <1>3
<1>5. more \in Seq(Seq(RcEntries)) /\ Len(more) = Len(files)
  BY <1>1, <1>3, <1>4
<1>6. DOMAIN more[a] = 1 .. Len(files[a]) + 1
  BY <1>2, <1>3
<1> QED BY <1>1, <1>2, <1>3, <1>5, <1>6

\* A new file.
LEMMA FileOpens ==
  ASSUME NEW files \in Seq(Seq(RcEntries)), NEW e \in RcEntries, NEW more, more = Append(files, <<e>>)
  PROVE  /\ more \in Seq(Seq(RcEntries)) /\ Len(files) \in Nat /\ Len(more) = Len(files) + 1 /\ DOMAIN more = 1 .. Len(files) + 1
         /\ \A s \in 1 .. Len(files) : more[s] = files[s]
         /\ more[Len(files) + 1] = <<e>>
<1>1. <<e>> \in Seq(RcEntries)
  OBVIOUS
<1> QED BY <1>1, AppendProperties

LEMMA RecordedStays ==
  ASSUME rcFiles \in Seq(Seq(RcEntries)), NEW a \in 1 .. Len(rcFiles), NEW e \in RcEntries,
         rcFiles' = [rcFiles EXCEPT ![a] = Append(@, e)], NEW line, Recorded(line)
  PROVE  Recorded(line)'
<1>1. /\ DOMAIN rcFiles' = 1 .. Len(rcFiles) /\ DOMAIN rcFiles = 1 .. Len(rcFiles)
      /\ \A s \in 1 .. Len(rcFiles) : s # a => rcFiles'[s] = rcFiles[s]
      /\ DOMAIN rcFiles'[a] = 1 .. Len(rcFiles[a]) + 1 /\ DOMAIN rcFiles[a] = 1 .. Len(rcFiles[a]) /\ Len(rcFiles[a]) \in Nat
      /\ \A i \in 1 .. Len(rcFiles[a]) : rcFiles'[a][i] = rcFiles[a][i]
  BY FileGrows
<1>2. PICK s \in DOMAIN rcFiles, i \in Nat : i \in DOMAIN rcFiles[s] /\ rcFiles[s][i].what = "line" /\ rcFiles[s][i].no = line.no
  BY DEF Recorded
<1>3. s \in DOMAIN rcFiles' /\ i \in DOMAIN rcFiles'[s] /\ rcFiles'[s][i] = rcFiles[s][i]
  <2>1. CASE s = a
    BY <1>1, <1>2, <2>1
  <2>2. CASE s # a
    BY <1>1, <1>2, <2>2
  <2> QED BY <2>1, <2>2
<1> QED BY <1>2, <1>3 DEF Recorded

LEMMA RecordedInNew ==
  ASSUME rcFiles \in Seq(Seq(RcEntries)), NEW e \in RcEntries, rcFiles' = Append(rcFiles, <<e>>), NEW line, Recorded(line)
  PROVE  Recorded(line)'
<1>1. DOMAIN rcFiles' = 1 .. Len(rcFiles) + 1 /\ DOMAIN rcFiles = 1 .. Len(rcFiles) /\ \A s \in 1 .. Len(rcFiles) : rcFiles'[s] = rcFiles[s]
      /\ Len(rcFiles) \in Nat
  BY FileOpens
<1>2. PICK s \in DOMAIN rcFiles : \E i \in DOMAIN rcFiles[s] : rcFiles[s][i].what = "line" /\ rcFiles[s][i].no = line.no
  BY DEF Recorded
<1>3. s \in DOMAIN rcFiles' /\ rcFiles'[s] = rcFiles[s]
  BY <1>1
<1> QED BY <1>2, <1>3 DEF Recorded

-----------------------------------------------------------------------------
\* What a poll leaves for later stays as it is while a line is recorded.
LEMMA PollGoesOn ==
  ASSUME RcKeepInv, ~rcTorn, rcPoll.at # "sleep", rcPoll'.at # "sleep", rcPoll'.lines = rcPoll.lines, rcPoll'.upto = rcPoll.upto,
         rcMemory'.cursor = rcMemory.cursor, UNCHANGED <<rcLog, rcCut, rcMissed, rcTorn>>,
         \A line : Recorded(line) => Recorded(line)'
  PROVE  RcFollows' /\ RcKeeps'
<1>1. RcFedUpto' = RcFedUpto
  BY DEF RcFedUpto
<1>2. RcFollows'
  BY <1>1 DEF RcKeepInv, RcFollows
<1>3. \A upto : RcKept(upto) => RcKept(upto)'
  BY DEF RcKept
<1>4. RcKeeps'
  BY <1>1, <1>3 DEF RcKeepInv, RcKeeps
<1> QED BY <1>2, <1>4

\* A line is done: an event was recorded.
LEMMA LineIsDone ==
  ASSUME RcKeepInv, rcPoll.at # "sleep", rcPoll.lines # <<>>, RcNextLine,
         rcPoll.lines[1].kind = "event" => Recorded(rcPoll.lines[1]),
         rcMemory'.cursor = rcMemory.cursor, UNCHANGED <<rcLog, rcCut, rcMissed, rcFiles, rcTorn>>
  PROVE  (~rcTorn => RcFollows' /\ RcKeeps') /\ rcPoll'.at = "feed" /\ rcPoll' \in [at : RcSteps, lines : Seq(RcLines), upto : Nat]
<1> DEFINE rest == Tail(rcPoll.lines)
<1>1. /\ rcPoll \in [at : RcSteps, lines : Seq(RcLines), upto : Nat]
      /\ rcPoll'.at = "feed" /\ rcPoll'.lines = rest /\ rcPoll'.upto = rcPoll.upto
      /\ rcPoll' = [at |-> "feed", lines |-> rest, upto |-> rcPoll.upto]
  BY DEF RcNextLine, RcKeepInv, RcTypes
<1>2. /\ rest \in Seq(RcLines) /\ Len(rest) = Len(rcPoll.lines) - 1 /\ Len(rcPoll.lines) \in Nat \ {0}
      /\ \A i \in 1 .. Len(rest) : rest[i] = rcPoll.lines[i + 1]
  BY <1>1, HeadTailProperties
<1> HIDE DEF rest
<1>3. RcFedUpto' = RcFedUpto + 1 /\ RcFedUpto \in Int
  BY <1>1, <1>2 DEF RcFedUpto
<1>4. ~rcTorn /\ rcCut # "unseen" => /\ rcPoll.upto <= Len(rcLog) /\ Len(rcPoll.lines) <= rcPoll.upto
                          /\ rcPoll.lines[1] = rcLog[RcFedUpto + 1]
                          /\ \A i \in 1 .. Len(rest) : rest[i] = rcLog[RcFedUpto + (i + 1)]
  <2>1. 1 \in 1 .. Len(rcPoll.lines) /\ \A i \in 1 .. Len(rest) : i + 1 \in 1 .. Len(rcPoll.lines)
    BY <1>2
  <2> QED BY <1>2, <2>1 DEF RcKeepInv, RcFollows
<1>5. ASSUME ~rcTorn PROVE RcFollows'
  <2>1. \A i \in Int : RcFedUpto' + i = RcFedUpto + (i + 1)
    BY <1>3
  <2>2. rcCut = "none" => rcMemory'.cursor <= Len(rcLog')
    BY <1>5 DEF RcKeepInv, RcFollows
  <2>3. ASSUME rcCut # "unseen" PROVE /\ rcPoll'.upto <= Len(rcLog') /\ Len(rcPoll'.lines) <= rcPoll'.upto
                                      /\ \A i \in 1 .. Len(rcPoll'.lines) : rcPoll'.lines[i] = rcLog'[RcFedUpto' + i]
    <3>1. Len(rest) <= rcPoll.upto
      BY <1>1, <1>2, <1>4, <1>5, <2>3
    <3>2. \A i \in 1 .. Len(rest) : rest[i] = rcLog[RcFedUpto' + i]
      <4>1. SUFFICES ASSUME NEW i \in 1 .. Len(rest) PROVE rest[i] = rcLog[RcFedUpto' + i]
        OBVIOUS
      <4>2. rest[i] = rcLog[RcFedUpto + (i + 1)]
        BY <1>4, <1>5, <2>3
      <4>3. RcFedUpto' + i = RcFedUpto + (i + 1)
        BY <1>2, <2>1
      <4> QED BY <4>2, <4>3
    <3>3. rcLog' = rcLog /\ rcPoll'.lines = rest /\ rcPoll'.upto = rcPoll.upto
      BY <1>1
    <3>4. rcPoll.upto <= Len(rcLog)
      BY <1>4, <1>5, <2>3
    <3> QED BY <3>1, <3>2, <3>3, <3>4
  <2> QED BY <2>2, <2>3 DEF RcFollows
<1>6. \A upto : RcKept(upto)' <=> RcKept(upto)
  BY DEF RcKept, Recorded
<1>7. ASSUME ~rcTorn PROVE RcKeeps'
  <2>1. ASSUME ~rcMissed, rcCut # "unseen" PROVE RcKept(RcFedUpto + 1)
    <3>1. RcKept(RcFedUpto)
      BY <1>7, <2>1 DEF RcKeepInv, RcKeeps
    <3>2. \A i \in 1 .. RcFedUpto + 1 : i \in 1 .. RcFedUpto \/ i = RcFedUpto + 1
      BY <1>3
    <3>3. rcLog[RcFedUpto + 1].kind = "event" => Recorded(rcLog[RcFedUpto + 1])
      BY <1>4, <1>7, <2>1
    <3> QED BY <3>1, <3>2, <3>3 DEF RcKept
  <2>2. ~rcMissed /\ rcCut = "none" => RcKept(rcMemory.cursor)
    BY <1>7 DEF RcKeepInv, RcKeeps
  <2> QED BY <1>3, <1>6, <2>1, <2>2 DEF RcKeeps
<1> QED BY <1>1, <1>2, <1>5, <1>7 DEF RcSteps

LEMMA RcKeepStart == RcInit => RcKeepInv
<1> SUFFICES ASSUME RcInit PROVE RcKeepInv
  OBVIOUS
<1>1. /\ rcLog = <<>> /\ rcFiles = <<>> /\ rcIndex = <<>> /\ rcPoll = [at |-> "sleep", lines |-> <<>>, upto |-> 0]
      /\ rcMemory = [active |-> 0, seq |-> 0, cursor |-> 0] /\ rcDisk = rcMemory
      /\ rcCount = [lines |-> 0, heads |-> 0, cuts |-> 0, deaths |-> 0] /\ rcCut = "none" /\ rcMissed = FALSE /\ rcTorn = FALSE
      /\ rcTear = [half |-> FALSE, held |-> FALSE, within |-> FALSE, upto |-> FALSE]
  BY DEF RcInit, NoSession, Sleeping
<1>2. RcTypes
  <2>1. rcLog \in Seq(RcLines) /\ rcFiles \in Seq(Seq(RcEntries)) /\ rcIndex \in Seq(Nat)
    BY <1>1
  <2>2. rcMemory \in RcMemories /\ rcDisk \in RcMemories /\ rcCount \in [lines : Nat, heads : Nat, cuts : Nat, deaths : Nat]
    BY <1>1 DEF RcMemories
  <2>3. rcPoll \in [at : RcSteps, lines : Seq(RcLines), upto : Nat]
    <3>1. <<>> \in Seq(RcLines)
      OBVIOUS
    <3> QED BY <1>1, <3>1 DEF RcSteps
  <2>4. rcTear \in RcTears /\ rcMissed \in BOOLEAN /\ rcTorn \in BOOLEAN
    BY <1>1, Zenon DEF RcTears
  <2> QED BY <1>1, <2>1, <2>2, <2>3, <2>4 DEF RcTypes
<1>3. RcStepsFit
  BY <1>1 DEF RcStepsFit
<1>4. RcFollows /\ RcKeeps
  BY <1>1 DEF RcFollows, RcKeeps, RcKept
<1> QED BY <1>2, <1>3, <1>4 DEF RcKeepInv

\* What the game writes does not change where the recorder is.
TearStays == rcTear'.held = rcTear.held /\ rcTear'.within = rcTear.within /\ rcTear'.upto = rcTear.upto
LEMMA TearOfLog ==
  ASSUME RcKeepInv, NEW half \in BOOLEAN, rcTear' = [rcTear EXCEPT !.half = half]
  PROVE  TearStays /\ rcTear' \in RcTears
<1>1. rcTear \in [half : BOOLEAN, held : BOOLEAN, within : BOOLEAN, upto : BOOLEAN]
  BY DEF RcKeepInv, RcTypes, RcTears
<1> QED BY <1>1 DEF TearStays, RcTears

LEMMA HeadKeeps == ASSUME RcKeepInv, RcHead PROVE RcKeepInv'
<1>1. UNCHANGED <<rcLog, rcMemory, rcDisk, rcFiles, rcIndex, rcPoll, rcCut, rcMissed, rcTorn>> /\ TearStays /\ rcTear' \in RcTears
  <2>1. rcTear' = [rcTear EXCEPT !.half = TRUE] /\ TRUE \in BOOLEAN
    BY DEF RcHead
  <2> QED BY <2>1, TearOfLog, Zenon DEF RcHead
<1>2. rcCount' \in [lines : Nat, heads : Nat, cuts : Nat, deaths : Nat]
  <2>1. rcCount' = [rcCount EXCEPT !["heads"] = @ + 1] /\ rcCount \in [lines : Nat, heads : Nat, cuts : Nat, deaths : Nat]
    BY DEF RcHead, RcCounts, RcKeepInv, RcTypes
  <2> QED BY <2>1
<1>3. RcTypes'
  BY <1>1, <1>2 DEF RcKeepInv, RcTypes
<1>4. RcStepsFit'
  BY <1>1 DEF RcKeepInv, RcStepsFit, Recorded, TearStays
<1>5. RcFedUpto' = RcFedUpto /\ \A upto : RcKept(upto)' <=> RcKept(upto)
  BY <1>1 DEF RcFedUpto, RcKept, Recorded
<1>6. (RcFollows' <=> RcFollows) /\ (RcKeeps' <=> RcKeeps)
  BY <1>1, <1>5 DEF RcFollows, RcKeeps
<1> QED BY <1>1, <1>3, <1>4, <1>6 DEF RcKeepInv

\* The game's log: its lines so far stay what they are, or are all gone.
LEMMA LogKeeps == ASSUME RcKeepInv, RcWrite \/ RcEmpties PROVE RcKeepInv'
<1>1. UNCHANGED <<rcMemory, rcDisk, rcFiles, rcIndex, rcPoll, rcMissed, rcTorn>> /\ TearStays /\ rcTear' \in RcTears
  <2>1. UNCHANGED <<rcMemory, rcDisk, rcFiles, rcIndex, rcPoll, rcMissed, rcTorn>> /\ rcTear' = [rcTear EXCEPT !.half = FALSE]
    BY DEF RcWrite, RcEmpties
  <2> QED BY <2>1, TearOfLog
<1>2. /\ rcCount' \in [lines : Nat, heads : Nat, cuts : Nat, deaths : Nat]
      /\ RcWrite => rcCount'.lines = rcCount.lines + 1
      /\ rcCount'.deaths = rcCount.deaths
  <2>1. rcCount \in [lines : Nat, heads : Nat, cuts : Nat, deaths : Nat]
    BY DEF RcKeepInv, RcTypes
  <2>2. CASE RcWrite
    <3>1. rcCount' = [rcCount EXCEPT !["lines"] = @ + 1]
      BY <2>2 DEF RcWrite, RcCounts
    <3> QED BY <2>1, <3>1
  <2>3. CASE RcEmpties /\ ~RcWrite
    <3>1. rcCount' = [rcCount EXCEPT !["cuts"] = @ + 1]
      BY <2>3 DEF RcEmpties, RcCounts
    <3> QED BY <2>1, <2>3, <3>1
  <2> QED BY <2>2, <2>3
<1>3. CASE RcWrite
  <2>1. PICK kind \in Kinds : rcLog' = Append(rcLog, [no |-> rcCount'.lines, kind |-> kind])
    BY <1>3 DEF RcWrite
  <2> DEFINE line == [no |-> rcCount'.lines, kind |-> kind]
  <2>2. line \in RcLines /\ rcLog \in Seq(RcLines)
    BY <1>2 DEF RcLines, RcKeepInv, RcTypes
  <2> HIDE DEF line
  <2>3. rcLog' \in Seq(RcLines) /\ Len(rcLog') = Len(rcLog) + 1 /\ Len(rcLog) \in Nat /\ \A i \in 1 .. Len(rcLog) : rcLog'[i] = rcLog[i]
    BY <2>1, <2>2, AppendProperties DEF line
  <2>4. UNCHANGED rcCut
    BY <1>3 DEF RcWrite
  <2>5. RcTypes'
    BY <1>1, <1>2, <2>3, <2>4 DEF RcKeepInv, RcTypes
  <2>6. RcStepsFit'
    BY <1>1, <2>4 DEF RcKeepInv, RcStepsFit, Recorded, TearStays
  <2>7. \A upto \in Int : upto <= Len(rcLog) /\ RcKept(upto) => RcKept(upto)'
    BY <1>1, <2>3 DEF RcKept, Recorded
  <2>8. RcFedUpto' = RcFedUpto /\ RcFedUpto \in Int
    BY <1>1 DEF RcFedUpto, RcKeepInv, RcTypes
  <2>9. ~rcTorn /\ rcPoll.at # "sleep" /\ rcCut # "unseen" => RcFedUpto >= 0 /\ RcFedUpto <= Len(rcLog) /\ rcPoll.upto <= Len(rcLog)
    BY <2>3 DEF RcKeepInv, RcTypes, RcFollows, RcFedUpto
  <2>10. Len(rcPoll.lines) \in Nat /\ rcPoll.upto \in Nat /\ rcMemory.cursor \in Nat
    BY DEF RcKeepInv, RcTypes, RcMemories
  <2>11. ASSUME ~rcTorn PROVE RcFollows'
    <3>1. rcCut = "none" => rcMemory.cursor <= Len(rcLog) + 1
      BY <2>3, <2>10, <2>11 DEF RcKeepInv, RcFollows
    <3>2. ASSUME rcPoll.at # "sleep", rcCut # "unseen", NEW i \in 1 .. Len(rcPoll.lines)
          PROVE  rcPoll.lines[i] = rcLog'[RcFedUpto + i]
      <4>1. RcFedUpto + i \in 1 .. Len(rcLog)
        BY <2>3, <2>9, <2>10, <2>11, <3>2 DEF RcFedUpto
      <4> QED BY <2>3, <2>11, <3>2, <4>1 DEF RcKeepInv, RcFollows
    <3>3. rcPoll.at # "sleep" /\ rcCut # "unseen" => rcPoll.upto <= Len(rcLog) + 1 /\ Len(rcPoll.lines) <= rcPoll.upto
      BY <2>3, <2>9, <2>10, <2>11 DEF RcKeepInv, RcFollows
    <3> QED BY <1>1, <2>3, <2>4, <2>8, <3>1, <3>2, <3>3 DEF RcFollows
  <2>12. ASSUME ~rcTorn PROVE RcKeeps'
    <3>1. ASSUME ~rcMissed, rcCut = "none" PROVE RcKept(rcMemory.cursor)'
      <4>1. RcKept(rcMemory.cursor) /\ rcMemory.cursor <= Len(rcLog)
        BY <2>12, <3>1 DEF RcKeepInv, RcKeeps, RcFollows
      <4>2. PICK upto \in Int : upto = rcMemory.cursor
        BY <2>10
      <4>3. RcKept(upto)'
        BY <2>7, <4>1, <4>2
      <4> QED BY <1>1, <4>2, <4>3 DEF RcKept
    <3>2. ASSUME ~rcMissed, rcPoll.at # "sleep", rcCut # "unseen" PROVE RcKept(RcFedUpto)'
      <4>1. RcKept(RcFedUpto)
        BY <2>12, <3>2 DEF RcKeepInv, RcKeeps
      <4>2. PICK upto \in Int : upto = RcFedUpto
        BY <2>8
      <4>3. RcKept(upto)'
        BY <2>7, <2>9, <2>12, <3>2, <4>1, <4>2
      <4> QED BY <2>8, <4>2, <4>3 DEF RcKept
    <3> QED BY <1>1, <2>4, <3>1, <3>2 DEF RcKeeps
  <2> QED BY <1>1, <2>5, <2>6, <2>11, <2>12 DEF RcKeepInv
<1>4. CASE RcEmpties
  <2>1. rcLog' = <<>> /\ rcCut' = "unseen"
    BY <1>4 DEF RcEmpties
  <2>2. RcTypes'
    BY <1>1, <1>2, <2>1 DEF RcKeepInv, RcTypes
  <2>3. RcStepsFit'
    BY <1>1, <2>1 DEF RcKeepInv, RcStepsFit, Recorded, TearStays
  <2>4. RcFollows' /\ RcKeeps'
    BY <2>1 DEF RcFollows, RcKeeps
  <2> QED BY <2>2, <2>3, <2>4 DEF RcKeepInv
<1> QED BY <1>3, <1>4

\* The fields of a state whose types fit.
LEMMA RcFields ==
  ASSUME RcKeepInv
  PROVE  /\ rcMemory.active \in Nat /\ rcMemory.seq \in Nat /\ rcMemory.cursor \in Nat
         /\ rcPoll.at \in RcSteps /\ rcPoll.lines \in Seq(RcLines) /\ rcPoll.upto \in Nat
         /\ rcFiles \in Seq(Seq(RcEntries)) /\ Len(rcFiles) \in Nat /\ DOMAIN rcFiles = 1 .. Len(rcFiles)
         /\ rcMemory.active <= Len(rcFiles) /\ rcMemory.cursor = rcDisk.cursor
         /\ rcMemory = [active |-> rcMemory.active, seq |-> rcMemory.seq, cursor |-> rcMemory.cursor]
BY DEF RcKeepInv, RcTypes, RcStepsFit, RcMemories

\* The lines that are read: those of the log behind the offset.
LEMMA SubSeqRead ==
  ASSUME RcKeepInv, RcOffset < Len(rcLog), NEW new, new = SubSeq(rcLog, RcOffset + 1, Len(rcLog))
  PROVE  /\ RcOffset \in Nat /\ Len(rcLog) - RcOffset \in Nat
         /\ new \in Seq(RcLines) /\ Len(new) = Len(rcLog) - RcOffset /\ DOMAIN new = 1 .. (Len(rcLog) - RcOffset)
         /\ \A i \in 1 .. (Len(rcLog) - RcOffset) : new[i] = rcLog[RcOffset + i]
<1> DEFINE n == Len(rcLog) - RcOffset
<1>1. rcLog \in Seq(RcLines) /\ rcMemory.cursor \in Nat /\ Len(rcLog) \in Nat
  BY DEF RcKeepInv, RcTypes, RcMemories
<1>2. RcOffset \in Nat /\ n \in Nat
  BY <1>1 DEF RcOffset
<1>3. \A i \in RcOffset + 1 .. Len(rcLog) : rcLog[i] \in RcLines
  BY <1>1, <1>2
<1>4. /\ new \in Seq(RcLines) /\ Len(new) = IF RcOffset + 1 <= Len(rcLog) THEN Len(rcLog) - (RcOffset + 1) + 1 ELSE 0
      /\ \A i \in 1 .. Len(rcLog) - (RcOffset + 1) + 1 : new[i] = rcLog[RcOffset + 1 + i - 1]
  BY <1>1, <1>2, <1>3, SubSeqProperties
<1>5. RcOffset + 1 <= Len(rcLog) /\ Len(rcLog) - (RcOffset + 1) + 1 = n
  BY <1>1, <1>2
<1>6. \A i \in 1 .. n : RcOffset + 1 + i - 1 = RcOffset + i
  BY <1>2
<1>7. new \in Seq(RcLines) /\ Len(new) = n /\ \A i \in 1 .. n : new[i] = rcLog[RcOffset + i]
  <2> HIDE DEF n
  <2> QED BY <1>4, <1>5, <1>6
<1> QED BY <1>2, <1>7

LEMMA ReadKeeps == ASSUME RcKeepInv, RcRead PROVE RcKeepInv'
<1> DEFINE new == SubSeq(rcLog, RcOffset + 1, Len(rcLog))
           n == Len(rcLog) - RcOffset
<1>1. /\ rcPoll.at = "sleep" /\ RcOffset < Len(rcLog) /\ rcPoll' = [at |-> "feed", lines |-> new, upto |-> Len(rcLog)]
      /\ rcCut' = IF rcCut = "unseen" THEN "read" ELSE rcCut
      /\ rcMissed' = (rcMissed \/ (rcCut = "unseen" /\ RcOffset > 0))
      /\ rcTear' = [rcTear EXCEPT !.held = rcTear.half] /\ rcTorn' = (rcTorn \/ rcTear.half)
      /\ UNCHANGED <<rcMemory, rcDisk, rcLog, rcFiles, rcIndex, rcCount>>
  BY DEF RcRead, CursorWaits
<1>2. rcLog \in Seq(RcLines) /\ rcMemory.cursor \in Nat /\ Len(rcLog) \in Nat /\ rcCut \in {"none", "unseen"} /\ rcMissed \in BOOLEAN
  BY <1>1 DEF RcKeepInv, RcTypes, RcStepsFit, RcMemories
<1>3. /\ RcOffset \in Nat /\ n \in Nat
      /\ ~rcTorn /\ rcCut = "none" => RcOffset = rcMemory.cursor
  BY <1>1, <1>2 DEF RcOffset, RcSmaller, RcKeepInv, RcStepsFit, RcFollows
<1>4. new \in Seq(RcLines) /\ Len(new) = n /\ \A i \in 1 .. n : new[i] = rcLog[RcOffset + i]
  BY <1>1, SubSeqRead
<1> HIDE DEF new
<1>5. rcPoll'.at = "feed" /\ rcPoll'.lines = new /\ rcPoll'.upto = Len(rcLog) /\ RcFedUpto' = RcOffset
  <2>1. rcPoll'.at = "feed" /\ rcPoll'.lines = new /\ rcPoll'.upto = Len(rcLog)
    BY <1>1
  <2>2. Len(rcLog) - Len(new) = RcOffset
    BY <1>2, <1>3, <1>4
  <2> QED BY <2>1, <2>2 DEF RcFedUpto
<1>5a. /\ rcTear' \in RcTears /\ rcTorn' \in BOOLEAN
       /\ rcTear'.held = rcTear.half /\ rcTear'.within = rcTear.within /\ rcTear'.upto = rcTear.upto
  <2>1. rcTear \in [half : BOOLEAN, held : BOOLEAN, within : BOOLEAN, upto : BOOLEAN] /\ rcTorn \in BOOLEAN
    BY DEF RcKeepInv, RcTypes, RcTears
  <2> QED BY <1>1, <2>1 DEF RcTears
<1>6. RcTypes'
  <2>1. rcPoll' \in [at : RcSteps, lines : Seq(RcLines), upto : Nat]
    BY <1>1, <1>2, <1>4 DEF RcSteps
  <2>2. rcCut' \in {"none", "unseen", "read"} /\ rcMissed' \in BOOLEAN
    BY <1>1, <1>2
  <2> QED BY <1>1, <1>5a, <2>1, <2>2 DEF RcKeepInv, RcTypes
<1>7. RcStepsFit'
  BY <1>1, <1>5, <1>5a DEF RcKeepInv, RcStepsFit
<1>8. rcCut' \in {"none", "read"} /\ (rcCut' = "none" => rcCut = "none")
  BY <1>1, <1>2
<1>9. ASSUME ~rcTorn PROVE RcFollows'
  <2>1. rcCut' = "none" => rcMemory'.cursor <= Len(rcLog')
    BY <1>1, <1>8, <1>9 DEF RcKeepInv, RcFollows
  <2>2. Len(new) <= Len(rcLog)
    BY <1>2, <1>3, <1>4
  <2>3. Len(rcLog) <= Len(rcLog)
    BY <1>2
  <2> HIDE DEF n
  <2>4. \A i \in 1 .. Len(new) : new[i] = rcLog[RcOffset + i]
    BY <1>4
  <2>5. rcLog' = rcLog
    BY <1>1
  <2> QED BY <1>5, <2>1, <2>2, <2>3, <2>4, <2>5 DEF RcFollows
<1>10. \A upto : RcKept(upto)' <=> RcKept(upto)
  BY <1>1 DEF RcKept, Recorded
<1>11. ASSUME ~rcTorn PROVE RcKeeps'
  <2>1. ASSUME ~rcMissed', rcCut' = "none" PROVE RcKept(rcMemory.cursor)
    BY <1>1, <1>8, <1>11, <2>1 DEF RcKeepInv, RcKeeps
  <2>2. ASSUME ~rcMissed' PROVE RcKept(RcOffset)
    <3>1. CASE rcCut = "none"
      BY <1>1, <1>3, <1>11, <2>2, <3>1 DEF RcKeepInv, RcKeeps
    <3>2. CASE rcCut = "unseen"
      <4>1. ~(RcOffset > 0)
        BY <1>1, <2>2, <3>2
      <4>2. RcOffset = 0
        BY <1>3, <4>1
      <4> QED BY <4>2 DEF RcKept
    <3> QED BY <1>2, <3>1, <3>2
  <2> QED BY <1>1, <1>5, <1>10, <2>1, <2>2 DEF RcKeeps
<1> QED BY <1>1, <1>6, <1>7, <1>9, <1>11 DEF RcKeepInv

\* Reads with a head held or from within a line, and of a head alone: there has been
\* a poll that ended within a line, so that only the steps have to fit.
LEMMA LinesAstray ==
  ASSUME RcKeepInv, rcMemory.cursor < Len(rcLog), NEW kind \in Kinds, NEW new,
         new = [SubSeq(rcLog, rcMemory.cursor + 1, Len(rcLog)) EXCEPT ![1].kind = kind]
  PROVE  /\ rcMemory.cursor \in Nat /\ Len(rcLog) - rcMemory.cursor \in Nat
         /\ new \in Seq(RcLines) /\ DOMAIN new = 1 .. (Len(rcLog) - rcMemory.cursor)
         /\ \A i \in DOMAIN new : new[i].no = rcLog[rcMemory.cursor + i].no /\ rcMemory.cursor + i \in DOMAIN rcLog
<1> DEFINE old == SubSeq(rcLog, rcMemory.cursor + 1, Len(rcLog))
           n == Len(rcLog) - rcMemory.cursor
<1>1. rcLog \in Seq(RcLines) /\ rcMemory.cursor \in Nat /\ Len(rcLog) \in Nat /\ n \in Nat \ {0} /\ DOMAIN rcLog = 1 .. Len(rcLog)
  <2>1. rcLog \in Seq(RcLines) /\ rcMemory.cursor \in Nat
    BY DEF RcKeepInv, RcTypes, RcMemories
  <2>2. Len(rcLog) \in Nat /\ DOMAIN rcLog = 1 .. Len(rcLog)
    BY <2>1
  <2> QED BY <2>1, <2>2
<1>2. \A i \in rcMemory.cursor + 1 .. Len(rcLog) : rcLog[i] \in RcLines
  BY <1>1
<1>3. /\ old \in Seq(RcLines) /\ Len(old) = IF rcMemory.cursor + 1 <= Len(rcLog) THEN Len(rcLog) - (rcMemory.cursor + 1) + 1 ELSE 0
      /\ \A i \in 1 .. Len(rcLog) - (rcMemory.cursor + 1) + 1 : old[i] = rcLog[rcMemory.cursor + 1 + i - 1]
  BY <1>1, <1>2, SubSeqProperties
<1>4. rcMemory.cursor + 1 <= Len(rcLog) /\ Len(rcLog) - (rcMemory.cursor + 1) + 1 = n
      /\ \A i \in 1 .. n : rcMemory.cursor + 1 + i - 1 = rcMemory.cursor + i /\ rcMemory.cursor + i \in DOMAIN rcLog
  <2>1. \A c \in Nat, m \in Nat : \A i \in 1 .. m - c : c + 1 + i - 1 = c + i /\ c + i \in 1 .. m
    OBVIOUS
  <2>2. \A c \in Nat, m \in Nat : m - c \in Nat \ {0} => c + 1 <= m /\ m - (c + 1) + 1 = m - c
    OBVIOUS
  <2> QED BY <1>1, <2>1, <2>2
<1> HIDE DEF n
<1>5. old \in Seq(RcLines) /\ DOMAIN old = 1 .. n /\ \A i \in 1 .. n : old[i] = rcLog[rcMemory.cursor + i] /\ old[i] \in RcLines
  <2>1. old \in Seq(RcLines) /\ Len(old) = n /\ \A i \in 1 .. n : old[i] = rcLog[rcMemory.cursor + i]
    BY <1>3, <1>4
  <2>2. DOMAIN old = 1 .. n /\ \A i \in 1 .. n : old[i] \in RcLines
    <3> HIDE DEF old
    <3> QED BY <2>1
  <2> QED BY <2>1, <2>2
<1> HIDE DEF old
<1>6. new = [old EXCEPT ![1] = [old[1] EXCEPT !.kind = kind]]
  BY DEF old
<1>7. 1 \in 1 .. n /\ old[1] \in [no : Nat, kind : Kinds] /\ [old[1] EXCEPT !.kind = kind] \in RcLines /\ [old[1] EXCEPT !.kind = kind].no = old[1].no
  <2>1. 1 \in 1 .. n
    BY <1>1
  <2>2. old[1] \in [no : Nat, kind : Kinds]
    BY <1>5, <2>1 DEF RcLines
  <2> QED BY <2>1, <2>2 DEF RcLines
<1>8. DOMAIN new = 1 .. n /\ \A i \in 1 .. n : new[i] \in RcLines /\ new[i].no = old[i].no
  BY <1>5, <1>6, <1>7
<1>9. new \in Seq(RcLines)
  <2>1. new = [i \in 1 .. n |-> new[i]]
    BY <1>5, <1>6
  <2>2. new \in [1 .. n -> RcLines] /\ n \in Nat
    BY <1>1, <1>8, <2>1
  <2> QED BY <2>2, SeqDef, ZenonT(30)
<1> QED BY <1>1, <1>4, <1>5, <1>8, <1>9 DEF n

LEMMA AstrayKeeps == ASSUME RcKeepInv, RcReadAstray \/ RcReadHead \/ RcForgets PROVE RcKeepInv'
<1>1. rcTear \in [half : BOOLEAN, held : BOOLEAN, within : BOOLEAN, upto : BOOLEAN] /\ rcTorn \in BOOLEAN
      /\ UNCHANGED <<rcLog, rcFiles, rcIndex, rcCount>> /\ rcPoll.at = "sleep"
      /\ rcMemory \in RcMemories /\ Len(rcLog) \in Nat
  <2>1. UNCHANGED <<rcLog, rcFiles, rcIndex, rcCount>> /\ rcPoll.at = "sleep"
    BY DEF RcReadAstray, RcReadHead, RcForgets
  <2>2. rcTear \in [half : BOOLEAN, held : BOOLEAN, within : BOOLEAN, upto : BOOLEAN] /\ rcTorn \in BOOLEAN
    BY DEF RcKeepInv, RcTypes, RcTears
  <2>3. rcMemory \in RcMemories /\ Len(rcLog) \in Nat
    BY DEF RcKeepInv, RcTypes
  <2> QED BY <2>1, <2>2, <2>3
<1>2. \A line : Recorded(line)' <=> Recorded(line)
  BY <1>1 DEF Recorded
<1>3. CASE RcReadAstray
  <2>1. PICK kind \in Kinds, past \in {0, 1}, within \in BOOLEAN :
          /\ rcPoll' = [at |-> "feed", upto |-> Len(rcLog) + past,
                        lines |-> [SubSeq(rcLog, rcMemory.cursor + 1, Len(rcLog)) EXCEPT ![1].kind = kind]]
          /\ rcTear' = [rcTear EXCEPT !.held = rcTear.half, !.upto = within]
    BY <1>3 DEF RcReadAstray
  <2>2. rcTear' \in RcTears /\ rcTorn' = TRUE /\ rcMissed' = rcMissed /\ rcCut' \in {"none", "unseen", "read"}
        /\ UNCHANGED <<rcMemory, rcDisk>> /\ rcMemory.cursor < Len(rcLog)
    <3>1. RcAstray /\ rcTorn' = rcTorn /\ rcMissed' = rcMissed /\ UNCHANGED <<rcMemory, rcDisk>> /\ rcMemory.cursor < Len(rcLog)
          /\ rcCut' = IF rcCut = "unseen" THEN "read" ELSE rcCut
      BY <1>3 DEF RcReadAstray, CursorWaits
    <3>2. rcTorn
      BY <3>1 DEF RcAstray, RcKeepInv, RcStepsFit
    <3>3. rcTear' \in RcTears
      BY <1>1, <2>1 DEF RcTears
    <3> QED BY <1>1, <3>1, <3>2, <3>3 DEF RcKeepInv, RcTypes
  <2>3. rcPoll'.lines \in Seq(RcLines) /\ rcPoll'.at = "feed" /\ rcPoll' \in [at : RcSteps, lines : Seq(RcLines), upto : Nat]
    <3>1. PICK new : new = [SubSeq(rcLog, rcMemory.cursor + 1, Len(rcLog)) EXCEPT ![1].kind = kind]
      OBVIOUS
    <3>2. new \in Seq(RcLines)
      BY <2>2, <3>1, LinesAstray
    <3>3. Len(rcLog) + past \in Nat
      BY <1>1
    <3> QED BY <2>1, <3>1, <3>2, <3>3 DEF RcSteps
  <2>4. RcTypes'
    BY <1>1, <2>2, <2>3 DEF RcKeepInv, RcTypes
  <2>5. RcStepsFit'
    BY <1>1, <2>2, <2>3 DEF RcKeepInv, RcStepsFit
  <2> QED BY <2>2, <2>4, <2>5 DEF RcKeepInv
<1>4. CASE RcReadHead
  <2>1. rcTorn' = TRUE /\ UNCHANGED <<rcPoll, rcCut, rcMissed>>
    BY <1>4 DEF RcReadHead
  <2>2. /\ rcTear' \in RcTears /\ rcMemory' \in RcMemories /\ rcDisk' \in RcMemories /\ rcMemory'.cursor = rcDisk'.cursor
        /\ rcMemory'.active <= Len(rcFiles) /\ rcDisk'.active <= Len(rcFiles)
    <3>1. CASE rcTear' = [rcTear EXCEPT !.held = TRUE, !.within = FALSE] /\ RcSave([rcMemory EXCEPT !.cursor = 0])
      <4>1. rcTear' \in RcTears
        BY <1>1, <3>1 DEF RcTears
      <4>2. rcMemory' = [active |-> rcMemory.active, seq |-> rcMemory.seq, cursor |-> 0] /\ rcDisk' = rcMemory'
        BY <3>1, RcFields DEF RcSave
      <4> QED BY <4>1, <4>2, RcFields DEF RcMemories
    <3>2. CASE rcTear' = [rcTear EXCEPT !.held = TRUE] /\ UNCHANGED <<rcMemory, rcDisk>>
      <4>1. rcTear' \in RcTears
        BY <1>1, <3>2 DEF RcTears
      <4> QED BY <3>2, <4>1 DEF RcKeepInv, RcTypes, RcStepsFit
    <3> QED BY <1>4, <3>1, <3>2 DEF RcReadHead
  <2>3. RcTypes'
    BY <1>1, <2>1, <2>2 DEF RcKeepInv, RcTypes
  <2>4. RcStepsFit'
    BY <1>1, <2>1, <2>2 DEF RcKeepInv, RcStepsFit
  <2> QED BY <2>1, <2>3, <2>4 DEF RcKeepInv
<1>5. CASE RcForgets
  <2>1. rcTear' = [rcTear EXCEPT !.held = FALSE] /\ UNCHANGED <<rcMemory, rcDisk, rcPoll, rcCut, rcMissed, rcTorn>> /\ rcTear.held
    BY <1>5 DEF RcForgets
  <2>2. rcTear' \in RcTears /\ rcTorn
    BY <1>1, <2>1 DEF RcTears, RcKeepInv, RcStepsFit
  <2>3. RcTypes'
    BY <1>1, <2>1, <2>2 DEF RcKeepInv, RcTypes
  <2>4. RcStepsFit'
    BY <1>1, <1>2, <2>1, <2>2 DEF RcKeepInv, RcStepsFit
  <2> QED BY <2>1, <2>2, <2>3, <2>4 DEF RcKeepInv
<1> QED BY <1>3, <1>4, <1>5

LEMMA FirstLine ==
  ASSUME RcKeepInv, rcPoll.lines # <<>>
  PROVE  Line = rcPoll.lines[1] /\ rcPoll.lines[1] \in RcLines
BY DEF RcKeepInv, RcTypes, Line

\* A step that goes on to another step of the line.
LEMMA RcGoes ==
  ASSUME RcKeepInv, NEW step \in RcSteps, RcGo(step)
  PROVE  /\ rcPoll'.at = step /\ rcPoll'.lines = rcPoll.lines /\ rcPoll'.upto = rcPoll.upto
         /\ rcPoll' \in [at : RcSteps, lines : Seq(RcLines), upto : Nat]
BY DEF RcKeepInv, RcTypes, RcGo

LEMMA FeedKeeps == ASSUME RcKeepInv, RcFeed PROVE RcKeepInv'
<1>1. /\ rcPoll.at = "feed" /\ rcPoll.lines # <<>> /\ UNCHANGED <<rcLog, rcTear, rcTorn, rcCount, rcMissed, rcMemory, rcDisk, rcFiles, rcIndex, rcCut>>
      /\ Line = rcPoll.lines[1]
  BY FirstLine DEF RcFeed, RcAt, RcRest
<1>2. \A line : Recorded(line)' <=> Recorded(line)
  BY <1>1 DEF Recorded
<1>3. CASE Line.kind # "event" /\ RcNextLine
  <2>1. (~rcTorn => RcFollows' /\ RcKeeps') /\ rcPoll'.at = "feed" /\ rcPoll' \in [at : RcSteps, lines : Seq(RcLines), upto : Nat]
    BY <1>1, <1>3, LineIsDone
  <2>2. RcTypes'
    BY <1>1, <2>1 DEF RcKeepInv, RcTypes
  <2>3. RcStepsFit'
    BY <1>1, <2>1 DEF RcKeepInv, RcStepsFit
  <2> QED BY <1>1, <2>1, <2>2, <2>3 DEF RcKeepInv
<1>4. CASE rcMemory.active # NoSession /\ RcGo("append")
  <2>1. /\ rcPoll'.at = "append" /\ rcPoll'.lines = rcPoll.lines /\ rcPoll'.upto = rcPoll.upto
        /\ rcPoll' \in [at : RcSteps, lines : Seq(RcLines), upto : Nat]
    BY <1>4, RcGoes DEF RcSteps
  <2>2. RcTypes'
    BY <1>1, <2>1 DEF RcKeepInv, RcTypes
  <2>3. RcStepsFit'
    BY <1>1, <1>4, <2>1 DEF RcKeepInv, RcStepsFit
  <2>4. ~rcTorn => RcFollows' /\ RcKeeps'
    BY <1>1, <1>2, <2>1, PollGoesOn
  <2> QED BY <1>1, <2>2, <2>3, <2>4 DEF RcKeepInv
<1>5. CASE rcMemory.active = NoSession /\ RcGo("open")
  <2>1. /\ rcPoll'.at = "open" /\ rcPoll'.lines = rcPoll.lines /\ rcPoll'.upto = rcPoll.upto
        /\ rcPoll' \in [at : RcSteps, lines : Seq(RcLines), upto : Nat]
    BY <1>5, RcGoes DEF RcSteps
  <2>2. RcTypes'
    BY <1>1, <2>1 DEF RcKeepInv, RcTypes
  <2>3. RcStepsFit'
    BY <1>1, <1>5, <2>1 DEF RcKeepInv, RcStepsFit
  <2>4. ~rcTorn => RcFollows' /\ RcKeeps'
    BY <1>1, <1>2, <2>1, PollGoesOn
  <2> QED BY <1>1, <2>2, <2>3, <2>4 DEF RcKeepInv
<1> QED BY <1>3, <1>4, <1>5 DEF RcFeed

LEMMA OpenKeeps == ASSUME RcKeepInv, RcOpen PROVE RcKeepInv'
<1> DEFINE e == Entry("start", 0, "other", 0)
<1>1. /\ rcPoll.at = "open" /\ RcGo("opened") /\ rcFiles' = Append(rcFiles, <<e>>)
      /\ rcMemory' = [active |-> Len(rcFiles) + 1, seq |-> 0, cursor |-> rcMemory.cursor]
      /\ UNCHANGED <<rcLog, rcTear, rcTorn, rcCount, rcMissed, rcDisk, rcIndex, rcCut>>
  BY RcFields DEF RcOpen, RcAt, RcRest, NewSession
<1>2. e \in RcEntries
  BY DEF Entry, RcEntries, Kinds
<1>3. rcFiles' \in Seq(Seq(RcEntries)) /\ Len(rcFiles') = Len(rcFiles) + 1 /\ Len(rcFiles) \in Nat
  BY <1>1, <1>2, RcFields, FileOpens
<1>4. \A line : Recorded(line) => Recorded(line)'
  BY <1>1, <1>2, RcFields, RecordedInNew
<1>5. /\ rcPoll'.at = "opened" /\ rcPoll'.lines = rcPoll.lines /\ rcPoll'.upto = rcPoll.upto
      /\ rcPoll' \in [at : RcSteps, lines : Seq(RcLines), upto : Nat]
  BY <1>1, RcGoes DEF RcSteps
<1> HIDE DEF e
<1>6. rcMemory'.cursor = rcMemory.cursor /\ rcMemory'.active = Len(rcFiles) + 1 /\ rcMemory' \in RcMemories
  BY <1>1, <1>3, RcFields DEF RcMemories
<1>7. RcTypes'
  BY <1>1, <1>3, <1>5, <1>6 DEF RcKeepInv, RcTypes
<1>8. RcStepsFit'
  <2>1. rcDisk.active <= Len(rcFiles) + 1 /\ rcDisk.cursor = rcMemory.cursor /\ Len(rcFiles) + 1 # 0 /\ Len(rcFiles) + 1 <= Len(rcFiles) + 1
    BY <1>3, SMTT(30) DEF RcKeepInv, RcTypes, RcStepsFit, RcMemories
  <2>2. rcPoll.lines # <<>>
    BY <1>1 DEF RcKeepInv, RcStepsFit
  <2> QED BY <1>1, <1>3, <1>5, <1>6, <2>1, <2>2 DEF RcKeepInv, RcStepsFit, NoSession
<1>9. ~rcTorn => RcFollows' /\ RcKeeps'
  BY <1>1, <1>4, <1>5, <1>6, PollGoesOn
<1> QED BY <1>1, <1>7, <1>8, <1>9 DEF RcKeepInv

LEMMA OpenedKeeps == ASSUME RcKeepInv, RcOpened PROVE RcKeepInv'
<1>1. /\ rcPoll.at = "opened" /\ RcGo("append") /\ rcDisk' = rcMemory
      /\ UNCHANGED <<rcLog, rcTear, rcTorn, rcCount, rcMissed, rcMemory, rcFiles, rcIndex, rcCut>>
  BY DEF RcOpened, RcAt, RcRest, RcSave
<1>2. \A line : Recorded(line)' <=> Recorded(line)
  BY <1>1 DEF Recorded
<1>3. /\ rcPoll'.at = "append" /\ rcPoll'.lines = rcPoll.lines /\ rcPoll'.upto = rcPoll.upto
      /\ rcPoll' \in [at : RcSteps, lines : Seq(RcLines), upto : Nat]
  BY <1>1, RcGoes DEF RcSteps
<1>4. RcTypes'
  BY <1>1, <1>3 DEF RcKeepInv, RcTypes
<1>5. RcStepsFit'
  BY <1>1, <1>3 DEF RcKeepInv, RcStepsFit
<1>6. ~rcTorn => RcFollows' /\ RcKeeps'
  BY <1>1, <1>2, <1>3, PollGoesOn
<1> QED BY <1>1, <1>4, <1>5, <1>6 DEF RcKeepInv

\* An entry at the end of the active file: what is kept stays so.
LEMMA EntryKeeps ==
  ASSUME RcKeepInv, NEW e \in RcEntries, RcAdd(e), NEW step \in RcSteps, RcGo(step), rcPoll.at \notin {"sleep", "feed"},
         step \notin {"sleep", "open"}, rcMemory.active # NoSession, rcMemory' \in RcMemories,
         rcMemory'.active = rcMemory.active, rcMemory'.cursor = rcMemory.cursor, UNCHANGED <<rcLog, rcTear, rcTorn, rcCount, rcMissed, rcDisk, rcIndex, rcCut>>,
         step = "save" => Recorded(rcPoll.lines[1])',
         step \in {"finish", "index", "closed"} => rcPoll.lines[1].kind = "match_end"
  PROVE  RcKeepInv'
<1>1. rcMemory.active \in 1 .. Len(rcFiles) /\ rcFiles' = [rcFiles EXCEPT ![rcMemory.active] = Append(@, e)]
  BY RcFields DEF RcAdd, NoSession
<1>2. rcFiles' \in Seq(Seq(RcEntries)) /\ Len(rcFiles') = Len(rcFiles)
  BY <1>1, RcFields, FileGrows
<1>3. \A line : Recorded(line) => Recorded(line)'
  BY <1>1, RcFields, RecordedStays
<1>4. /\ rcPoll'.at = step /\ rcPoll'.lines = rcPoll.lines /\ rcPoll'.upto = rcPoll.upto
      /\ rcPoll' \in [at : RcSteps, lines : Seq(RcLines), upto : Nat]
  BY RcGoes
<1>5. RcTypes'
  BY <1>2, <1>4 DEF RcKeepInv, RcTypes
<1>6. RcStepsFit'
  <2>1. rcPoll.lines # <<>>
    BY DEF RcKeepInv, RcStepsFit
  <2>2. rcMemory'.active <= Len(rcFiles') /\ rcDisk'.active <= Len(rcFiles') /\ rcMemory'.cursor = rcDisk'.cursor
    BY <1>2, RcFields DEF RcKeepInv, RcStepsFit
  <2> QED BY <1>2, <1>4, <2>1, <2>2 DEF RcKeepInv, RcStepsFit
<1>7. ~rcTorn => RcFollows' /\ RcKeeps'
  BY <1>3, <1>4, PollGoesOn
<1> QED BY <1>5, <1>6, <1>7 DEF RcKeepInv

LEMMA AppendKeeps == ASSUME RcKeepInv, RcAppend PROVE RcKeepInv'
<1> DEFINE e == Entry("line", Line.no, Line.kind, rcMemory.seq + 1)
<1>1. /\ rcPoll.at = "append" /\ RcAdd(e) /\ UNCHANGED <<rcLog, rcTear, rcTorn, rcCount, rcMissed, rcDisk, rcIndex, rcCut>>
      /\ rcMemory' = [active |-> rcMemory.active, seq |-> rcMemory.seq + 1, cursor |-> rcMemory.cursor]
  BY RcFields DEF RcAppend, RcAt, RcRest
<1>2. rcPoll.lines # <<>> /\ Line = rcPoll.lines[1] /\ Line \in RcLines
  BY <1>1, FirstLine DEF RcKeepInv, RcStepsFit
<1>3. e \in RcEntries /\ e.what = "line" /\ e.no = rcPoll.lines[1].no
  BY <1>2, RcFields, SMTT(30) DEF Entry, RcEntries, RcLines
<1>4. /\ rcMemory' \in RcMemories /\ rcMemory'.active = rcMemory.active /\ rcMemory'.cursor = rcMemory.cursor
      /\ rcMemory.active # NoSession
  BY <1>1, RcFields DEF RcMemories, RcKeepInv, RcStepsFit
<1> HIDE DEF e
<1>5. Recorded(rcPoll.lines[1])'
  <2>1. rcMemory.active \in 1 .. Len(rcFiles) /\ rcFiles' = [rcFiles EXCEPT ![rcMemory.active] = Append(@, e)]
    BY <1>1, <1>4, RcFields DEF RcAdd, NoSession
  <2>2. /\ rcMemory.active \in DOMAIN rcFiles' /\ rcFiles'[rcMemory.active][Len(rcFiles[rcMemory.active]) + 1] = e
        /\ Len(rcFiles[rcMemory.active]) + 1 \in DOMAIN rcFiles'[rcMemory.active]
    BY <1>3, <2>1, RcFields, FileGrows
  <2>4. \E t \in DOMAIN rcFiles' : \E j \in DOMAIN rcFiles'[t] : rcFiles'[t][j].what = "line" /\ rcFiles'[t][j].no = rcPoll.lines[1].no
    BY <1>3, <2>2
  <2>5. rcPoll'.lines = rcPoll.lines
    BY <1>1, RcGoes DEF RcAppend, RcSteps
  <2> QED BY <2>4, <2>5 DEF Recorded
<1>6. CASE Line.kind = "match_end"
  <2>1. RcGo("finish")
    BY <1>6 DEF RcAppend
  <2> QED BY <1>1, <1>2, <1>3, <1>4, <1>6, <2>1, EntryKeeps DEF RcSteps
<1>7. CASE Line.kind # "match_end"
  <2>1. RcGo("save")
    BY <1>7 DEF RcAppend
  <2> QED BY <1>1, <1>3, <1>4, <1>5, <2>1, EntryKeeps DEF RcSteps
<1> QED BY <1>6, <1>7

LEMMA SavedKeeps == ASSUME RcKeepInv, RcSaved PROVE RcKeepInv'
<1>1. /\ rcPoll.at = "save" /\ RcNextLine /\ rcMemory' = rcMemory /\ rcDisk' = rcMemory
      /\ UNCHANGED <<rcLog, rcTear, rcTorn, rcCount, rcMissed, rcFiles, rcIndex, rcCut>>
  BY DEF RcSaved, RcAt, RcRest, RcSave
<1>2. rcPoll.lines # <<>> /\ Recorded(rcPoll.lines[1])
  BY <1>1 DEF RcKeepInv, RcStepsFit
<1>3. (~rcTorn => RcFollows' /\ RcKeeps') /\ rcPoll'.at = "feed" /\ rcPoll' \in [at : RcSteps, lines : Seq(RcLines), upto : Nat]
  BY <1>1, <1>2, LineIsDone
<1>4. RcTypes'
  BY <1>1, <1>3 DEF RcKeepInv, RcTypes
<1>5. RcStepsFit'
  BY <1>1, <1>3 DEF RcKeepInv, RcStepsFit
<1> QED BY <1>1, <1>3, <1>4, <1>5 DEF RcKeepInv

LEMMA FinishKeeps == ASSUME RcKeepInv, RcFinish PROVE RcKeepInv'
<1> DEFINE e == Entry("end", 0, "other", rcMemory.seq)
<1>1. /\ rcPoll.at = "finish" /\ RcGo("index") /\ RcAdd(e) /\ UNCHANGED <<rcLog, rcTear, rcTorn, rcCount, rcMissed, rcMemory, rcDisk, rcIndex, rcCut>>
  BY DEF RcFinish, RcAt, RcRest
<1>2. e \in RcEntries
  BY RcFields DEF Entry, RcEntries, Kinds
<1>3. rcMemory' \in RcMemories /\ rcMemory.active # NoSession /\ rcPoll.lines[1].kind = "match_end" /\ "index" \in RcSteps
  BY <1>1 DEF RcKeepInv, RcTypes, RcStepsFit, RcSteps
<1> HIDE DEF e
<1> QED BY <1>1, <1>2, <1>3, EntryKeeps

LEMMA IndexKeeps == ASSUME RcKeepInv, RcIndex PROVE RcKeepInv'
<1>1. /\ rcPoll.at = "index" /\ RcGo("closed") /\ rcIndex' = Append(rcIndex, rcMemory.active)
      /\ UNCHANGED <<rcLog, rcTear, rcTorn, rcCount, rcMissed, rcMemory, rcDisk, rcFiles, rcCut>>
  BY DEF RcIndex, RcAt, RcRest
<1>2. rcIndex' \in Seq(Nat)
  BY <1>1, RcFields DEF RcKeepInv, RcTypes
<1>3. \A line : Recorded(line)' <=> Recorded(line)
  BY <1>1 DEF Recorded
<1>4. /\ rcPoll'.at = "closed" /\ rcPoll'.lines = rcPoll.lines /\ rcPoll'.upto = rcPoll.upto
      /\ rcPoll' \in [at : RcSteps, lines : Seq(RcLines), upto : Nat]
  BY <1>1, RcGoes DEF RcSteps
<1>5. RcTypes'
  BY <1>1, <1>2, <1>4 DEF RcKeepInv, RcTypes
<1>6. RcStepsFit'
  BY <1>1, <1>4 DEF RcKeepInv, RcStepsFit
<1>7. ~rcTorn => RcFollows' /\ RcKeeps'
  BY <1>1, <1>3, <1>4, PollGoesOn
<1> QED BY <1>1, <1>5, <1>6, <1>7 DEF RcKeepInv

LEMMA ClosedKeeps == ASSUME RcKeepInv, RcClosed PROVE RcKeepInv'
<1>1. /\ rcPoll.at = "closed" /\ RcNextLine /\ rcMemory' = [active |-> 0, seq |-> 0, cursor |-> rcMemory.cursor] /\ rcDisk' = rcMemory'
      /\ UNCHANGED <<rcLog, rcTear, rcTorn, rcCount, rcMissed, rcFiles, rcIndex, rcCut>>
  BY RcFields DEF RcClosed, RcAt, RcRest, RcSave, NoSession
<1>2. /\ rcMemory' \in RcMemories /\ rcMemory'.cursor = rcMemory.cursor /\ rcMemory'.active = 0
      /\ rcDisk'.active = 0 /\ rcDisk'.cursor = rcMemory'.cursor /\ rcDisk' \in RcMemories
  BY <1>1, RcFields DEF RcMemories
<1>3. rcPoll.lines # <<>> /\ rcPoll.lines[1].kind # "event"
  BY <1>1 DEF RcKeepInv, RcStepsFit
<1>4. (~rcTorn => RcFollows' /\ RcKeeps') /\ rcPoll'.at = "feed" /\ rcPoll' \in [at : RcSteps, lines : Seq(RcLines), upto : Nat]
  BY <1>1, <1>2, <1>3, LineIsDone
<1>5. RcTypes'
  BY <1>1, <1>2, <1>4 DEF RcKeepInv, RcTypes
<1>6. RcStepsFit'
  <2>1. 0 <= Len(rcFiles')
    BY <1>1, RcFields
  <2> QED BY <1>1, <1>2, <1>4, <2>1 DEF RcKeepInv, RcStepsFit
<1> QED BY <1>1, <1>4, <1>5, <1>6 DEF RcKeepInv

LEMMA FedKeeps == ASSUME RcKeepInv, RcFed PROVE RcKeepInv'
<1>1. /\ rcPoll.at = "feed" /\ rcPoll.lines = <<>> /\ rcPoll' = [at |-> "sleep", lines |-> <<>>, upto |-> 0]
      /\ rcMemory' = [active |-> rcMemory.active, seq |-> rcMemory.seq, cursor |-> rcPoll.upto] /\ rcDisk' = rcMemory'
      /\ rcCut' = IF rcCut = "read" THEN "none" ELSE rcCut
      /\ rcTear' = [rcTear EXCEPT !.within = rcTear.upto, !.upto = FALSE]
      /\ UNCHANGED <<rcLog, rcTorn, rcCount, rcMissed, rcFiles, rcIndex>>
  BY RcFields DEF RcFed, RcAt, RcRest, RcSave, Sleeping
<1>2. /\ rcMemory' \in RcMemories /\ rcMemory'.cursor = rcPoll.upto /\ rcMemory'.active = rcMemory.active
      /\ rcDisk'.active = rcMemory.active /\ rcDisk'.cursor = rcMemory'.cursor /\ rcDisk' \in RcMemories
  BY <1>1, RcFields DEF RcMemories
<1>3. rcPoll' \in [at : RcSteps, lines : Seq(RcLines), upto : Nat] /\ rcPoll'.at = "sleep"
  <2>1. <<>> \in Seq(RcLines)
    OBVIOUS
  <2> QED BY <1>1, <2>1 DEF RcSteps
<1>4. rcCut' \in {"none", "unseen"} /\ (rcCut' = "none" => rcCut # "unseen")
  BY <1>1 DEF RcKeepInv, RcTypes
<1>4a. rcTear' \in RcTears /\ rcTear'.held = rcTear.held /\ rcTear'.within = rcTear.upto /\ rcTear'.upto = FALSE
  <2>1. rcTear \in [half : BOOLEAN, held : BOOLEAN, within : BOOLEAN, upto : BOOLEAN]
    BY DEF RcKeepInv, RcTypes, RcTears
  <2> QED BY <1>1, <2>1 DEF RcTears
<1>5. RcTypes'
  BY <1>1, <1>2, <1>3, <1>4, <1>4a DEF RcKeepInv, RcTypes
<1>6. RcStepsFit'
  <2>1. rcMemory.active <= Len(rcFiles')
    BY <1>1, RcFields
  <2> QED BY <1>1, <1>2, <1>3, <1>4, <1>4a, <2>1 DEF RcKeepInv, RcStepsFit
<1>7. ASSUME ~rcTorn PROVE RcFollows'
  BY <1>1, <1>2, <1>3, <1>4, <1>7 DEF RcKeepInv, RcFollows
<1>8. ASSUME ~rcTorn PROVE RcKeeps'
  <2>1. \A upto : RcKept(upto)' <=> RcKept(upto)
    BY <1>1 DEF RcKept, Recorded
  <2>2. RcFedUpto = rcPoll.upto
    <3>1. Len(rcPoll.lines) = 0 /\ rcPoll.upto \in Nat
      BY <1>1, RcFields
    <3> QED BY <3>1 DEF RcFedUpto
  <2>3. ~rcMissed /\ rcCut # "unseen" => RcKept(rcPoll.upto)
    BY <1>1, <1>8, <2>2 DEF RcKeepInv, RcKeeps
  <2> QED BY <1>1, <1>2, <1>3, <1>4, <2>1, <2>3 DEF RcKeeps
<1> QED BY <1>1, <1>5, <1>6, <1>7, <1>8 DEF RcKeepInv

LEMMA DeathKeeps == ASSUME RcKeepInv, RcDies PROVE RcKeepInv'
<1>1. /\ rcMemory' = rcDisk /\ rcPoll' = [at |-> "sleep", lines |-> <<>>, upto |-> 0]
      /\ rcCut' = IF rcCut = "read" THEN "unseen" ELSE rcCut
      /\ rcCount' = [rcCount EXCEPT !["deaths"] = @ + 1]
      /\ rcTear' = [rcTear EXCEPT !.held = FALSE, !.upto = FALSE]
      /\ UNCHANGED <<rcLog, rcMissed, rcTorn, rcDisk, rcFiles, rcIndex>>
  BY DEF RcDies, RcCounts, Sleeping
<1>2. rcCount' \in [lines : Nat, heads : Nat, cuts : Nat, deaths : Nat]
  <2>1. rcCount \in [lines : Nat, heads : Nat, cuts : Nat, deaths : Nat]
    BY DEF RcKeepInv, RcTypes
  <2> QED BY <1>1, <2>1
<1>3. rcPoll' \in [at : RcSteps, lines : Seq(RcLines), upto : Nat] /\ rcPoll'.at = "sleep"
  <2>1. <<>> \in Seq(RcLines)
    OBVIOUS
  <2> QED BY <1>1, <2>1 DEF RcSteps
<1>4. rcCut' \in {"none", "unseen"} /\ (rcCut' = "none" => rcCut = "none")
  BY <1>1 DEF RcKeepInv, RcTypes
<1>4a. rcTear' \in RcTears /\ rcTear'.held = FALSE /\ rcTear'.within = rcTear.within /\ rcTear'.upto = FALSE
  <2>1. rcTear \in [half : BOOLEAN, held : BOOLEAN, within : BOOLEAN, upto : BOOLEAN]
    BY DEF RcKeepInv, RcTypes, RcTears
  <2> QED BY <1>1, <2>1 DEF RcTears
<1>5. RcTypes'
  BY <1>1, <1>2, <1>3, <1>4, <1>4a DEF RcKeepInv, RcTypes
<1>6. RcStepsFit'
  BY <1>1, <1>3, <1>4, <1>4a DEF RcKeepInv, RcStepsFit
<1>7. ASSUME ~rcTorn PROVE RcFollows'
  BY <1>1, <1>7, <1>3, <1>4, RcFields DEF RcKeepInv, RcFollows
<1>8. \A upto : RcKept(upto)' <=> RcKept(upto)
  BY <1>1 DEF RcKept, Recorded
<1>9. ASSUME ~rcTorn PROVE RcKeeps'
  <2>1. rcMemory'.cursor = rcMemory.cursor
    BY <1>1, RcFields
  <2> QED BY <1>1, <1>3, <1>4, <1>8, <1>9, <2>1 DEF RcKeepInv, RcKeeps
<1> QED BY <1>1, <1>5, <1>6, <1>7, <1>9 DEF RcKeepInv

LEMMA RcKeepStep == RcKeepInv /\ [RcNext]_rcVars => RcKeepInv'
<1> SUFFICES ASSUME RcKeepInv, [RcNext]_rcVars PROVE RcKeepInv'
  OBVIOUS
<1>1. CASE UNCHANGED rcVars
  <2>1. UNCHANGED <<rcLog, rcMemory, rcDisk, rcFiles, rcIndex, rcPoll, rcTear, rcTorn, rcCount, rcCut, rcMissed>>
    BY <1>1 DEF rcVars
  <2>2. \A line : Recorded(line)' <=> Recorded(line)
    BY <2>1 DEF Recorded
  <2>3. RcFedUpto' = RcFedUpto /\ \A upto : RcKept(upto)' <=> RcKept(upto)
    BY <2>1 DEF RcFedUpto, RcKept, Recorded
  <2>4. RcTypes'
    BY <2>1 DEF RcKeepInv, RcTypes
  <2>5. RcStepsFit'
    BY <2>1 DEF RcKeepInv, RcStepsFit, Recorded
  <2>6. ~rcTorn => RcFollows' /\ RcKeeps'
    BY <2>1, <2>3 DEF RcKeepInv, RcFollows, RcKeeps
  <2> QED BY <2>1, <2>4, <2>5, <2>6 DEF RcKeepInv
<1> QED BY <1>1, LogKeeps, HeadKeeps, ReadKeeps, AstrayKeeps, FeedKeeps, OpenKeeps, OpenedKeeps, AppendKeeps, SavedKeeps, FinishKeeps, IndexKeeps,
           ClosedKeeps, FedKeeps, DeathKeeps DEF RcNext, RcWork

LEMMA KeptIsKept == RcKeepInv => NothingIsLost
BY DEF RcKeepInv, RcStepsFit, RcKeeps, RcKept, NothingIsLost

-----------------------------------------------------------------------------
\* What becomes of the lines of a poll.
LEMMA PollLines ==
  ASSUME RcKeepInv, RcWork \/ RcDies, ~RcRead, ~RcReadAstray
  PROVE  \/ rcPoll'.lines = rcPoll.lines \/ rcPoll'.lines = <<>>
         \/ rcPoll.lines # <<>> /\ rcPoll'.lines = Tail(rcPoll.lines)
<1>1. \A step \in RcSteps : RcGo(step) => rcPoll'.lines = rcPoll.lines
  BY RcGoes
<1>2. RcNextLine => rcPoll'.lines = Tail(rcPoll.lines)
  BY DEF RcNextLine, RcKeepInv, RcTypes
<1>3. rcPoll.at \notin {"sleep", "feed"} => rcPoll.lines # <<>>
  BY DEF RcKeepInv, RcStepsFit
<1>4. CASE RcFeed
  BY <1>1, <1>2, <1>4 DEF RcFeed, RcSteps
<1>5. CASE RcOpen \/ RcOpened \/ RcAppend \/ RcFinish \/ RcIndex
  BY <1>1, <1>5 DEF RcOpen, RcOpened, RcAppend, RcFinish, RcIndex, RcSteps
<1>6. CASE RcSaved \/ RcClosed
  BY <1>2, <1>3, <1>6 DEF RcSaved, RcClosed, RcAt
<1>7. CASE RcFed \/ RcDies
  BY <1>7 DEF RcFed, RcDies, Sleeping
<1>8. CASE RcReadHead \/ RcForgets
  BY <1>8 DEF RcReadHead, RcForgets
<1> QED BY <1>4, <1>5, <1>6, <1>7, <1>8 DEF RcWork

\* The counts go up, by one line when the game writes it.
LEMMA CountsGoUp ==
  ASSUME RcKeepInv, [RcNext]_rcVars
  PROVE  /\ rcCount.lines \in Nat /\ rcCount.deaths \in Nat
         /\ rcCount'.lines = IF RcWrite THEN rcCount.lines + 1 ELSE rcCount.lines
         /\ rcCount'.deaths = 0 => rcCount.deaths = 0 /\ ~RcDies
<1>1. rcCount \in [lines : Nat, heads : Nat, cuts : Nat, deaths : Nat]
  BY DEF RcKeepInv, RcTypes
<1>2. CASE RcWrite
  <2>1. rcCount' = [rcCount EXCEPT !["lines"] = @ + 1]
    BY <1>2 DEF RcWrite, RcCounts
  <2>2. ~RcDies
    BY <1>1, <1>2, <2>1 DEF RcDies, RcCounts
  <2> QED BY <1>1, <1>2, <2>1, <2>2
<1>3. CASE RcEmpties /\ ~RcWrite
  <2>1. rcCount' = [rcCount EXCEPT !["cuts"] = @ + 1]
    BY <1>3 DEF RcEmpties, RcCounts
  <2>2. ~RcDies
    BY <1>1, <2>1 DEF RcDies, RcCounts
  <2> QED BY <1>1, <1>3, <2>1, <2>2
<1>4. CASE RcDies /\ ~RcWrite
  <2>1. rcCount' = [rcCount EXCEPT !["deaths"] = @ + 1]
    BY <1>4 DEF RcDies, RcCounts
  <2> QED BY <1>1, <1>4, <2>1
<1>5. CASE RcHead /\ ~RcWrite
  <2>1. rcCount' = [rcCount EXCEPT !["heads"] = @ + 1]
    BY <1>5 DEF RcHead, RcCounts
  <2>2. ~RcDies
    BY <1>1, <2>1 DEF RcDies, RcCounts
  <2> QED BY <1>1, <1>5, <2>1, <2>2
<1>6. CASE (RcWork \/ UNCHANGED rcVars) /\ ~RcWrite /\ ~RcDies
  <2>1. rcCount' = rcCount
    BY <1>6 DEF RcWork, rcVars, RcRead, RcReadAstray, RcReadHead, RcForgets, RcFeed, RcOpen, RcOpened, RcAppend, RcSaved, RcFinish, RcIndex, RcClosed, RcFed, RcRest
  <2> QED BY <1>1, <1>6, <2>1
<1> QED BY <1>2, <1>3, <1>4, <1>5, <1>6 DEF RcNext

LEMMA RcNumbersStart == RcInit => RcNumbers
BY DEF RcInit, RcNumbers, Sleeping

LEMMA RcNos ==
  ASSUME RcKeepInv
  PROVE  /\ rcLog \in Seq(RcLines) /\ Len(rcLog) \in Nat /\ DOMAIN rcLog = 1 .. Len(rcLog)
         /\ rcPoll.lines \in Seq(RcLines) /\ Len(rcPoll.lines) \in Nat /\ DOMAIN rcPoll.lines = 1 .. Len(rcPoll.lines)
         /\ \A i \in DOMAIN rcLog : rcLog[i].no \in Nat
         /\ \A i \in DOMAIN rcPoll.lines : rcPoll.lines[i].no \in Nat
<1>1. rcLog \in Seq(RcLines) /\ rcPoll.lines \in Seq(RcLines)
  BY DEF RcKeepInv, RcTypes
<1>2. \A lines \in Seq(RcLines) : DOMAIN lines = 1 .. Len(lines) /\ Len(lines) \in Nat /\ \A i \in DOMAIN lines : lines[i] \in RcLines
  OBVIOUS
<1>3. \A line \in RcLines : line.no \in Nat
  BY DEF RcLines
<1> QED BY <1>1, <1>2, <1>3

LEMMA RcNumbersStep ==
  ASSUME RcKeepInv, RcNumbers, [RcNext]_rcVars
  PROVE  RcNumbers'
<1>1. /\ rcLog \in Seq(RcLines) /\ Len(rcLog) \in Nat /\ DOMAIN rcLog = 1 .. Len(rcLog)
      /\ rcPoll.lines \in Seq(RcLines) /\ Len(rcPoll.lines) \in Nat /\ DOMAIN rcPoll.lines = 1 .. Len(rcPoll.lines)
      /\ \A i \in DOMAIN rcLog : rcLog[i].no \in Nat
      /\ \A i \in DOMAIN rcPoll.lines : rcPoll.lines[i].no \in Nat
  BY RcNos
<1>2. rcCount.lines \in Nat /\ rcCount'.lines \in Nat /\ rcCount.lines <= rcCount'.lines
  BY CountsGoUp
<1>3. /\ \A i \in DOMAIN rcLog : rcLog[i].no <= rcCount'.lines
      /\ \A i \in DOMAIN rcPoll.lines : rcPoll.lines[i].no <= rcCount'.lines
  BY <1>1, <1>2 DEF RcNumbers
<1>4. /\ \A i, j \in DOMAIN rcLog : i < j => rcLog[i].no < rcLog[j].no
      /\ \A i, j \in DOMAIN rcPoll.lines : i < j => rcPoll.lines[i].no < rcPoll.lines[j].no
  BY DEF RcNumbers
<1>5. CASE RcWrite
  <2>1. PICK kind \in Kinds : rcLog' = Append(rcLog, [no |-> rcCount'.lines, kind |-> kind])
    BY <1>5 DEF RcWrite
  <2> DEFINE line == [no |-> rcCount'.lines, kind |-> kind]
  <2>2. line \in RcLines /\ line.no = rcCount'.lines /\ rcLog' = Append(rcLog, line)
    BY <1>2, <2>1 DEF RcLines
  <2> HIDE DEF line
  <2>3. /\ Len(rcLog') = Len(rcLog) + 1 /\ DOMAIN rcLog' = 1 .. Len(rcLog) + 1
        /\ \A i \in 1 .. Len(rcLog) : rcLog'[i] = rcLog[i]
        /\ rcLog'[Len(rcLog) + 1] = line
    BY <1>1, <2>2, AppendProperties
  <2>4. rcCount'.lines = rcCount.lines + 1 /\ rcPoll' = rcPoll
    BY <1>5, CountsGoUp DEF RcWrite
  <2>5. \A i \in DOMAIN rcLog' : rcLog'[i].no <= rcCount'.lines
    BY <1>1, <1>2, <1>3, <2>2, <2>3
  <2>6. \A i, j \in DOMAIN rcLog' : i < j => rcLog'[i].no < rcLog'[j].no
    <3>1. SUFFICES ASSUME NEW i \in 1 .. Len(rcLog) + 1, NEW j \in 1 .. Len(rcLog) + 1, i < j
                   PROVE rcLog'[i].no < rcLog'[j].no
      BY <2>3
    <3>2. i \in 1 .. Len(rcLog) /\ rcLog'[i].no = rcLog[i].no
      BY <1>1, <2>3, <3>1
    <3>3. CASE j \in 1 .. Len(rcLog)
      BY <1>1, <1>4, <2>3, <3>1, <3>2, <3>3
    <3>4. CASE j = Len(rcLog) + 1
      <4>1. rcLog[i].no <= rcCount.lines /\ rcLog[i].no \in Nat
        BY <1>1, <3>2 DEF RcNumbers
      <4> QED BY <1>2, <2>2, <2>3, <2>4, <3>2, <3>4, <4>1
    <3> QED BY <1>1, <3>3, <3>4
  <2> QED BY <1>3, <1>4, <2>4, <2>5, <2>6 DEF RcNumbers
<1>6. CASE RcEmpties
  <2>1. rcLog' = <<>> /\ rcPoll' = rcPoll
    BY <1>6 DEF RcEmpties
  <2> QED BY <1>3, <1>4, <2>1 DEF RcNumbers
<1>7. CASE RcRead
  <2> DEFINE n == Len(rcLog) - RcOffset
  <2>1. rcPoll'.lines = SubSeq(rcLog, RcOffset + 1, Len(rcLog)) /\ rcLog' = rcLog /\ RcOffset < Len(rcLog)
    BY <1>7 DEF RcRead
  <2>2. RcOffset \in Nat /\ n \in Nat
    <3>1. rcMemory.cursor \in Nat
      BY RcFields
    <3> QED BY <1>1, <2>1, <3>1 DEF RcOffset
  <2>3. Len(rcPoll'.lines) = n /\ DOMAIN rcPoll'.lines = 1 .. n /\ \A i \in 1 .. n : rcPoll'.lines[i] = rcLog[RcOffset + i]
    BY <2>1, SubSeqRead
  <2>4. \A i \in 1 .. n : RcOffset + i \in DOMAIN rcLog
    BY <1>1, <2>2
  <2> HIDE DEF n
  <2>5. \A i \in DOMAIN rcPoll'.lines : rcPoll'.lines[i].no <= rcCount'.lines
    BY <1>3, <2>3, <2>4
  <2>6. \A i, j \in DOMAIN rcPoll'.lines : i < j => rcPoll'.lines[i].no < rcPoll'.lines[j].no
    <3>1. SUFFICES ASSUME NEW i \in 1 .. n, NEW j \in 1 .. n, i < j PROVE rcPoll'.lines[i].no < rcPoll'.lines[j].no
      BY <2>3
    <3>2. RcOffset + i < RcOffset + j
      BY <2>2, <3>1
    <3> QED BY <1>4, <2>3, <2>4, <3>2
  <2> QED BY <1>3, <1>4, <2>1, <2>5, <2>6 DEF RcNumbers
<1>8. CASE (RcWork \/ RcDies) /\ ~RcRead /\ ~RcReadAstray
  <2>1. rcLog' = rcLog
    BY <1>8 DEF RcWork, RcReadHead, RcForgets, RcFeed, RcOpen, RcOpened, RcAppend, RcSaved, RcFinish, RcIndex, RcClosed, RcFed, RcRest, RcDies
  <2>2. CASE rcPoll'.lines = rcPoll.lines
    BY <1>3, <1>4, <2>1, <2>2 DEF RcNumbers
  <2>3. CASE rcPoll'.lines = <<>>
    BY <1>3, <1>4, <2>1, <2>3 DEF RcNumbers
  <2>4. CASE rcPoll.lines # <<>> /\ rcPoll'.lines = Tail(rcPoll.lines)
    <3>1. PICK n \in Nat : /\ DOMAIN rcPoll'.lines = 1 .. n /\ n + 1 = Len(rcPoll.lines)
                           /\ \A i \in 1 .. n : rcPoll'.lines[i] = rcPoll.lines[i + 1]
      BY <1>1, <2>4, HeadTailProperties
    <3>2. \A i \in 1 .. n : i + 1 \in DOMAIN rcPoll.lines
      BY <1>1, <3>1
    <3>3. \A i \in DOMAIN rcPoll'.lines : rcPoll'.lines[i].no <= rcCount'.lines
      BY <1>3, <3>1, <3>2
    <3>4. \A i, j \in DOMAIN rcPoll'.lines : i < j => rcPoll'.lines[i].no < rcPoll'.lines[j].no
      <4>1. SUFFICES ASSUME NEW i \in 1 .. n, NEW j \in 1 .. n, i < j PROVE rcPoll'.lines[i].no < rcPoll'.lines[j].no
        BY <3>1
      <4>2. i + 1 < j + 1
        BY <4>1
      <4> QED BY <1>4, <3>1, <3>2, <4>2
    <3> QED BY <1>3, <1>4, <2>1, <3>3, <3>4 DEF RcNumbers
  <2> QED BY <1>8, <2>2, <2>3, <2>4, PollLines
<1>9. CASE UNCHANGED rcVars
  BY <1>9 DEF rcVars, RcNumbers
<1>10. CASE RcHead
  <2>1. rcLog' = rcLog /\ rcPoll' = rcPoll
    BY <1>10 DEF RcHead
  <2> QED BY <1>3, <1>4, <2>1 DEF RcNumbers
<1>11. CASE RcReadAstray
  <2>1. PICK kind \in Kinds : /\ rcPoll'.lines = [SubSeq(rcLog, rcMemory.cursor + 1, Len(rcLog)) EXCEPT ![1].kind = kind]
                             /\ rcLog' = rcLog /\ rcMemory.cursor < Len(rcLog)
    <3>1. PICK kind \in Kinds, past \in {0, 1}, within \in BOOLEAN :
            rcPoll' = [at |-> "feed", upto |-> Len(rcLog) + past,
                       lines |-> [SubSeq(rcLog, rcMemory.cursor + 1, Len(rcLog)) EXCEPT ![1].kind = kind]]
      BY <1>11 DEF RcReadAstray
    <3>2. rcLog' = rcLog /\ rcMemory.cursor < Len(rcLog)
      BY <1>11 DEF RcReadAstray
    <3> QED BY <3>1, <3>2
  <2>2. /\ rcMemory.cursor \in Nat /\ DOMAIN rcPoll'.lines = 1 .. (Len(rcLog) - rcMemory.cursor)
        /\ \A i \in DOMAIN rcPoll'.lines : /\ rcPoll'.lines[i].no = rcLog[rcMemory.cursor + i].no
                                           /\ rcMemory.cursor + i \in DOMAIN rcLog
    BY <2>1, LinesAstray
  <2>3. \A i \in DOMAIN rcPoll'.lines : rcPoll'.lines[i].no <= rcCount'.lines
    BY <1>3, <2>2
  <2>4. \A i, j \in DOMAIN rcPoll'.lines : i < j => rcPoll'.lines[i].no < rcPoll'.lines[j].no
    <3>1. \A i, j \in DOMAIN rcPoll'.lines : i < j => rcMemory.cursor + i < rcMemory.cursor + j
      BY <1>1, <2>2
    <3> QED BY <1>4, <2>2, <3>1
  <2> QED BY <1>3, <1>4, <2>1, <2>3, <2>4 DEF RcNumbers
<1> QED BY <1>5, <1>6, <1>7, <1>8, <1>9, <1>10, <1>11 DEF RcNext, RcWork

-----------------------------------------------------------------------------
LEMMA RcOrderStart == RcInit => RcOrderInv
<1> SUFFICES ASSUME RcInit PROVE RcOrderInv
  OBVIOUS
<1>1. rcFiles = <<>> /\ rcLog = <<>> /\ rcPoll.lines = <<>>
  BY DEF RcInit, Sleeping
<1>2. RcInOrder
  BY <1>1 DEF RcInOrder, RcBehind, RcWaitingBehind, RcUnreadBehind, RcFilesInOrder
<1> QED BY <1>2, RcNumbersStart DEF RcOrderInv

\* A step that records no line, and one that records one at the end of the last file.
RcNoNewLine ==
  \A s \in DOMAIN rcFiles' : \A i \in DOMAIN rcFiles'[s] :
    rcFiles'[s][i].what = "line" => s \in DOMAIN rcFiles /\ i \in DOMAIN rcFiles[s] /\ rcFiles'[s][i] = rcFiles[s][i]

LEMMA OldLinesInOrder ==
  ASSUME RcFilesInOrder, RcNoNewLine
  PROVE  RcFilesInOrder' /\ \A no : RcBehind(no) => RcBehind(no)'
<1>1. RcFilesInOrder'
  BY DEF RcFilesInOrder, RcNoNewLine
<1>2. ASSUME NEW no, RcBehind(no) PROVE RcBehind(no)'
  BY <1>2 DEF RcBehind, RcNoNewLine
<1> QED BY <1>1, <1>2

LEMMA EntryIsNoLine ==
  ASSUME RcKeepInv, rcMemory.active # NoSession, NEW e \in RcEntries, e.what # "line", RcAdd(e)
  PROVE  RcNoNewLine
<1>1. rcMemory.active \in 1 .. Len(rcFiles) /\ rcFiles' = [rcFiles EXCEPT ![rcMemory.active] = Append(@, e)]
  BY RcFields DEF RcAdd, NoSession
<1>2. PICK a \in 1 .. Len(rcFiles) : a = rcMemory.active
  BY <1>1
<1>3. /\ rcFiles \in Seq(Seq(RcEntries)) /\ DOMAIN rcFiles = 1 .. Len(rcFiles)
      /\ \A s \in 1 .. Len(rcFiles) : DOMAIN rcFiles[s] = 1 .. Len(rcFiles[s])
  BY RcFields
<1>4. /\ DOMAIN rcFiles' = 1 .. Len(rcFiles) /\ \A s \in 1 .. Len(rcFiles) : s # a => rcFiles'[s] = rcFiles[s]
      /\ Len(rcFiles[a]) \in Nat /\ DOMAIN rcFiles'[a] = 1 .. Len(rcFiles[a]) + 1
      /\ \A i \in 1 .. Len(rcFiles[a]) : rcFiles'[a][i] = rcFiles[a][i]
      /\ rcFiles'[a][Len(rcFiles[a]) + 1] = e
  BY <1>1, <1>2, <1>3, FileGrows
<1> SUFFICES ASSUME NEW s \in DOMAIN rcFiles', NEW i \in DOMAIN rcFiles'[s], rcFiles'[s][i].what = "line"
             PROVE  s \in DOMAIN rcFiles /\ i \in DOMAIN rcFiles[s] /\ rcFiles'[s][i] = rcFiles[s][i]
  BY DEF RcNoNewLine
<1>5. CASE s # a
  BY <1>3, <1>4, <1>5
<1>6. CASE s = a
  <2>1. i # Len(rcFiles[a]) + 1
    BY <1>4, <1>6
  <2>2. i \in 1 .. Len(rcFiles[a])
    BY <1>4, <1>6, <2>1
  <2> QED BY <1>3, <1>4, <1>6, <2>2
<1> QED BY <1>5, <1>6

\* A line behind which all recorded ones are goes to the end of the last file.
LEMMA LineInOrder ==
  ASSUME RcKeepInv, RcFilesInOrder, rcMemory.active = Len(rcFiles), rcMemory.active # NoSession, NEW e \in RcEntries, RcAdd(e),
         RcBehind(e.no)
  PROVE  /\ RcFilesInOrder' /\ \A no \in Nat : RcBehind(no) /\ e.no < no => RcBehind(no)'
<1>1. rcMemory.active \in 1 .. Len(rcFiles) /\ rcFiles' = [rcFiles EXCEPT ![rcMemory.active] = Append(@, e)]
  BY RcFields DEF RcAdd, NoSession
<1>2. PICK a \in 1 .. Len(rcFiles) : a = rcMemory.active
  BY <1>1
<1>3. /\ rcFiles \in Seq(Seq(RcEntries)) /\ DOMAIN rcFiles = 1 .. Len(rcFiles) /\ Len(rcFiles) \in Nat
      /\ \A s \in 1 .. Len(rcFiles) : DOMAIN rcFiles[s] = 1 .. Len(rcFiles[s])
  BY RcFields
<1>4. /\ DOMAIN rcFiles' = 1 .. Len(rcFiles) /\ \A s \in 1 .. Len(rcFiles) : s # a => rcFiles'[s] = rcFiles[s]
      /\ Len(rcFiles[a]) \in Nat /\ DOMAIN rcFiles'[a] = 1 .. Len(rcFiles[a]) + 1
      /\ \A i \in 1 .. Len(rcFiles[a]) : rcFiles'[a][i] = rcFiles[a][i]
      /\ rcFiles'[a][Len(rcFiles[a]) + 1] = e
  BY <1>1, <1>2, <1>3, FileGrows
<1>5. a = Len(rcFiles)
  BY <1>2
\* Each entry of the new files is the new one, at the end, or an old one.
<1>6. ASSUME NEW s \in DOMAIN rcFiles', NEW i \in DOMAIN rcFiles'[s]
      PROVE  \/ s \in DOMAIN rcFiles /\ i \in DOMAIN rcFiles[s] /\ rcFiles'[s][i] = rcFiles[s][i] /\ (s = a => i < Len(rcFiles[a]) + 1)
             \/ s = a /\ i = Len(rcFiles[a]) + 1 /\ rcFiles'[s][i] = e
  <2>1. CASE s # a
    BY <1>3, <1>4, <2>1
  <2>2. CASE s = a /\ i = Len(rcFiles[a]) + 1
    BY <1>4, <2>2
  <2>3. CASE s = a /\ i # Len(rcFiles[a]) + 1
    <3>1. i \in 1 .. Len(rcFiles[a]) /\ i < Len(rcFiles[a]) + 1
      BY <1>4, <2>3
    <3> QED BY <1>3, <1>4, <2>3, <3>1
  <2> QED BY <2>1, <2>2, <2>3
<1>7. RcFilesInOrder'
  <2> SUFFICES ASSUME NEW s \in DOMAIN rcFiles', NEW t \in DOMAIN rcFiles', NEW i \in DOMAIN rcFiles'[s], NEW j \in DOMAIN rcFiles'[t],
                      rcFiles'[s][i].what = "line", rcFiles'[t][j].what = "line", s < t \/ (s = t /\ i < j)
               PROVE  rcFiles'[s][i].no < rcFiles'[t][j].no
    BY DEF RcFilesInOrder
  <2>1. s \in 1 .. Len(rcFiles) /\ t \in 1 .. Len(rcFiles) /\ (s = a => i \in 1 .. Len(rcFiles[a]) + 1) /\ (t = a => j \in 1 .. Len(rcFiles[a]) + 1)
    <3>1. s \in 1 .. Len(rcFiles) /\ t \in 1 .. Len(rcFiles)
      BY <1>4
    <3>2. ASSUME s = a PROVE i \in 1 .. Len(rcFiles[a]) + 1
      BY <1>4, <3>2
    <3>3. ASSUME t = a PROVE j \in 1 .. Len(rcFiles[a]) + 1
      BY <1>4, <3>3
    <3> QED BY <3>1, <3>2, <3>3
  <2>2. ~(s = a /\ i = Len(rcFiles[a]) + 1)
    <3>1. ASSUME s = a PROVE t = a /\ i < j
      <4>1. ~(a < t)
        BY <1>3, <1>5, <2>1
      <4> QED BY <3>1, <4>1
    <3>2. ASSUME t = a, i < j PROVE i # Len(rcFiles[a]) + 1
      <4>1. j \in 1 .. Len(rcFiles[a]) + 1
        BY <2>1, <3>2
      <4> QED BY <1>4, <3>2, <4>1
    <3> QED BY <3>1, <3>2
  <2>3. s \in DOMAIN rcFiles /\ i \in DOMAIN rcFiles[s] /\ rcFiles'[s][i] = rcFiles[s][i]
    BY <1>6, <2>2
  <2>4. CASE t = a /\ j = Len(rcFiles[a]) + 1 /\ rcFiles'[t][j] = e
    BY <2>3, <2>4 DEF RcBehind
  <2>5. CASE t \in DOMAIN rcFiles /\ j \in DOMAIN rcFiles[t] /\ rcFiles'[t][j] = rcFiles[t][j]
    BY <2>3, <2>5 DEF RcFilesInOrder
  <2> QED BY <1>6, <2>4, <2>5
<1>8. ASSUME NEW no \in Nat, RcBehind(no), e.no < no PROVE RcBehind(no)'
  <2> SUFFICES ASSUME NEW s \in DOMAIN rcFiles', NEW i \in DOMAIN rcFiles'[s], rcFiles'[s][i].what = "line"
               PROVE  rcFiles'[s][i].no < no
    BY DEF RcBehind
  <2> QED BY <1>6, <1>8 DEF RcBehind
<1> QED BY <1>7, <1>8

\* What has to be shown of the lines that wait and of the log that is unread, with
\* the number of the line for a constant.
LEMMA WaitingShown ==
  ASSUME rcPoll'.lines \in Seq(RcLines),
         \A i, no \in Nat : i \in DOMAIN rcPoll'.lines /\ rcPoll'.lines[i].no = no /\ RcWaits(i)' => RcBehind(no)'
  PROVE  RcWaitingBehind'
<1> SUFFICES ASSUME NEW i, i \in DOMAIN rcPoll'.lines, RcWaits(i)' PROVE RcBehind(rcPoll.lines[i].no)'
  BY DEF RcWaitingBehind
<1>1. i \in Nat /\ rcPoll'.lines[i].no \in Nat
  <2>1. i \in Nat /\ rcPoll'.lines[i] \in RcLines
    OBVIOUS
  <2> QED BY <2>1 DEF RcLines
<1>2. PICK no \in Nat : no = rcPoll'.lines[i].no
  BY <1>1
<1>3. RcBehind(no)'
  BY <1>1, <1>2
<1> QED BY <1>2, <1>3 DEF RcBehind

LEMMA UnreadShown ==
  ASSUME rcLog' \in Seq(RcLines),
         \A i, no \in Nat : i \in DOMAIN rcLog' /\ rcLog'[i].no = no /\ RcUnread(i)' =>
           RcBehind(no)' /\ \A k \in DOMAIN rcPoll'.lines : rcPoll'.lines[k].no < no
  PROVE  RcUnreadBehind'
<1> SUFFICES ASSUME NEW i, i \in DOMAIN rcLog', RcUnread(i)'
             PROVE  (RcBehind(rcLog[i].no) /\ \A k \in DOMAIN rcPoll.lines : rcPoll.lines[k].no < rcLog[i].no)'
  BY DEF RcUnreadBehind
<1>1. i \in Nat /\ rcLog'[i].no \in Nat
  <2>1. i \in Nat /\ rcLog'[i] \in RcLines
    OBVIOUS
  <2> QED BY <2>1 DEF RcLines
<1>2. PICK no \in Nat : no = rcLog'[i].no
  BY <1>1
<1>3. RcBehind(no)' /\ \A k \in DOMAIN rcPoll'.lines : rcPoll'.lines[k].no < no
  BY <1>1, <1>2
<1> QED BY <1>2, <1>3 DEF RcBehind

\* A step by which no line is recorded, behind which the same lines wait, and no
\* more of the log is unread.
LEMMA OrderGoesOn ==
  ASSUME RcKeepInv, RcInOrder, RcNoNewLine, rcCount'.lines = rcCount.lines, rcLog' = rcLog,
         NEW d \in {0, 1}, Len(rcPoll'.lines) + d = Len(rcPoll.lines), rcPoll'.lines \in Seq(RcLines),
         \A i \in Nat : i \in DOMAIN rcPoll'.lines => rcPoll'.lines[i] = rcPoll.lines[i + d] /\ (RcWaits(i)' => RcWaits(i + d)),
         \A i \in Nat : RcUnread(i)' => RcUnread(i)
  PROVE  RcInOrder'
<1>1. RcFilesInOrder /\ RcBehind(rcCount.lines + 1) /\ RcWaitingBehind /\ RcUnreadBehind
  BY DEF RcInOrder
<1>2. RcFilesInOrder' /\ \A no : RcBehind(no) => RcBehind(no)'
  BY <1>1, OldLinesInOrder
<1>3. Len(rcPoll'.lines) \in Nat /\ DOMAIN rcPoll'.lines = 1 .. Len(rcPoll'.lines) /\ DOMAIN rcPoll.lines = 1 .. Len(rcPoll.lines)
  BY RcNos
<1>4. \A i \in Nat : i \in DOMAIN rcPoll'.lines => i + d \in DOMAIN rcPoll.lines /\ rcPoll'.lines[i] = rcPoll.lines[i + d]
  BY <1>3
<1>5. RcWaitingBehind'
  <2>1. ASSUME NEW i \in Nat, NEW no \in Nat, i \in DOMAIN rcPoll'.lines, rcPoll'.lines[i].no = no, RcWaits(i)' PROVE RcBehind(no)'
    <3>1. RcWaits(i + d) /\ i + d \in DOMAIN rcPoll.lines /\ rcPoll.lines[i + d].no = no
      BY <1>4, <2>1
    <3>2. RcBehind(no)
      BY <1>1, <3>1 DEF RcWaitingBehind
    <3> QED BY <1>2, <3>2
  <2> QED BY <2>1, WaitingShown
<1>6. RcUnreadBehind'
  <2>1. ASSUME NEW i \in Nat, NEW no \in Nat, i \in DOMAIN rcLog', rcLog'[i].no = no, RcUnread(i)'
        PROVE  RcBehind(no)' /\ \A k \in DOMAIN rcPoll'.lines : rcPoll'.lines[k].no < no
    <3>1. RcBehind(no) /\ \A k \in DOMAIN rcPoll.lines : rcPoll.lines[k].no < no
      BY <1>1, <2>1 DEF RcUnreadBehind
    <3> QED BY <1>2, <1>3, <1>4, <3>1, SMTT(30)
  <2>2. rcLog' \in Seq(RcLines)
    BY RcNos
  <2> QED BY <2>1, <2>2, UnreadShown
<1>7. RcBehind(rcCount.lines + 1)'
  <2>1. PICK no : no = rcCount.lines + 1
    OBVIOUS
  <2>2. RcBehind(no)'
    BY <1>1, <1>2, <2>1
  <2> QED BY <2>1, <2>2 DEF RcBehind
<1> QED BY <1>2, <1>5, <1>6, <1>7 DEF RcInOrder

LEMMA LogOrder == ASSUME RcKeepInv, RcOrderInv, RcInOrder, RcWrite \/ RcEmpties PROVE RcInOrder'
<1>1. UNCHANGED <<rcMemory, rcFiles, rcPoll>> /\ RcFilesInOrder /\ RcBehind(rcCount.lines + 1) /\ RcWaitingBehind
  BY DEF RcWrite, RcEmpties, RcInOrder
<1>2. RcFilesInOrder' /\ (\A no : RcBehind(no) <=> RcBehind(no)') /\ RcPassed' = RcPassed /\ RcWaitingBehind'
  BY <1>1 DEF RcFilesInOrder, RcBehind, RcPassed, RcWaitingBehind, RcWaits
<1>3. rcCount.lines \in Nat /\ rcCount'.lines = IF RcWrite THEN rcCount.lines + 1 ELSE rcCount.lines
  <2>1. [RcNext]_rcVars
    BY DEF RcNext
  <2> QED BY <2>1, CountsGoUp
<1>4. RcBehind(rcCount.lines + 1)'
  <2>1. \A s \in DOMAIN rcFiles : \A i \in DOMAIN rcFiles[s] : rcFiles[s][i].no \in Nat
    <3>1. \A s \in DOMAIN rcFiles : rcFiles[s] \in Seq(RcEntries)
      BY RcFields
    <3>2. \A file \in Seq(RcEntries) : \A i \in DOMAIN file : file[i] \in RcEntries
      OBVIOUS
    <3>3. \A e \in RcEntries : e.no \in Nat
      BY DEF RcEntries
    <3> QED BY <3>1, <3>2, <3>3
  <2>2. rcCount'.lines \in Nat /\ rcCount.lines <= rcCount'.lines
    BY <1>3
  <2>3. \A s \in DOMAIN rcFiles : \A i \in DOMAIN rcFiles[s] : rcFiles[s][i].what = "line" => rcFiles[s][i].no < rcCount'.lines + 1
    <3>1. rcCount.lines \in Nat
      BY <1>3
    <3> QED BY <1>1, <2>1, <2>2, <3>1 DEF RcBehind
  <2> QED BY <1>1, <2>3 DEF RcBehind
<1>5. CASE RcEmpties
  <2>1. rcLog' = <<>>
    BY <1>5 DEF RcEmpties
  <2>2. RcUnreadBehind'
    BY <2>1 DEF RcUnreadBehind
  <2> QED BY <1>2, <1>4, <2>2 DEF RcInOrder
<1>6. CASE RcWrite
  <2>1. PICK kind \in Kinds : rcLog' = Append(rcLog, [no |-> rcCount'.lines, kind |-> kind])
    BY <1>6 DEF RcWrite
  <2>2. /\ rcLog' \in Seq(RcLines) /\ DOMAIN rcLog' = 1 .. Len(rcLog) + 1 /\ Len(rcLog) \in Nat /\ DOMAIN rcLog = 1 .. Len(rcLog)
        /\ \A i \in 1 .. Len(rcLog) : rcLog'[i] = rcLog[i]
        /\ rcLog'[Len(rcLog) + 1].no = rcCount.lines + 1
    <3>1. [no |-> rcCount'.lines, kind |-> kind] \in RcLines
      BY <1>3, <1>6 DEF RcLines
    <3> QED BY <1>3, <1>6, <2>1, <3>1, RcNos, AppendProperties
  <2>3. rcCut' = rcCut /\ \A i : RcUnread(i)' <=> RcUnread(i)
    BY <1>2, <1>6 DEF RcWrite, RcUnread
  <2>4. ASSUME NEW i \in Nat, NEW no \in Nat, i \in DOMAIN rcLog', rcLog'[i].no = no, RcUnread(i)'
        PROVE  RcBehind(no)' /\ \A k \in DOMAIN rcPoll'.lines : rcPoll'.lines[k].no < no
    <3>1. CASE i = Len(rcLog) + 1
      <4>1. \A k \in DOMAIN rcPoll.lines : rcPoll.lines[k].no <= rcCount.lines /\ rcPoll.lines[k].no \in Nat
        BY RcNos DEF RcOrderInv, RcNumbers
      <4>2. no = rcCount.lines + 1
        BY <2>2, <2>4, <3>1
      <4>3. RcBehind(no)
        BY <1>1, <4>2
      <4> QED BY <1>1, <1>2, <1>3, <4>1, <4>2, <4>3
    <3>2. CASE i \in DOMAIN rcLog
      <4>1. rcLog[i].no = no /\ RcUnread(i)
        BY <2>2, <2>3, <2>4, <3>2
      <4>2. RcBehind(no) /\ \A k \in DOMAIN rcPoll.lines : rcPoll.lines[k].no < no
        BY <3>2, <4>1 DEF RcInOrder, RcUnreadBehind
      <4> QED BY <1>1, <1>2, <4>2
    <3> QED BY <2>2, <2>4, <3>1, <3>2
  <2>5. RcUnreadBehind'
    BY <2>2, <2>4, UnreadShown
  <2> QED BY <1>2, <1>4, <2>5 DEF RcInOrder
<1> QED BY <1>5, <1>6

LEMMA ReadOrder == ASSUME RcKeepInv, RcInOrder, RcRead, ~rcTorn PROVE RcInOrder'
<1>1. /\ rcPoll.at = "sleep" /\ RcOffset < Len(rcLog) /\ rcPoll'.lines = SubSeq(rcLog, RcOffset + 1, Len(rcLog))
      /\ rcPoll'.at = "feed" /\ rcPoll'.upto = Len(rcLog) /\ UNCHANGED <<rcMemory, rcLog, rcFiles, rcCount>>
      /\ rcCut' = IF rcCut = "unseen" THEN "read" ELSE rcCut
  BY DEF RcRead, CursorWaits
<1>2. /\ RcOffset \in Nat /\ DOMAIN rcPoll'.lines = 1 .. (Len(rcLog) - RcOffset) /\ rcPoll'.lines \in Seq(RcLines)
      /\ \A i \in 1 .. (Len(rcLog) - RcOffset) : rcPoll'.lines[i] = rcLog[RcOffset + i]
  BY <1>1, SubSeqRead
<1>3. Len(rcLog) \in Nat /\ DOMAIN rcLog = 1 .. Len(rcLog) /\ rcLog \in Seq(RcLines)
  BY RcNos
<1>4. \A i \in 1 .. (Len(rcLog) - RcOffset) : RcOffset + i \in DOMAIN rcLog /\ RcUnread(RcOffset + i)
  <2> SUFFICES ASSUME NEW i \in 1 .. (Len(rcLog) - RcOffset) PROVE RcOffset + i \in DOMAIN rcLog /\ RcUnread(RcOffset + i)
    OBVIOUS
  <2>1. RcOffset + i \in DOMAIN rcLog
    BY <1>2, <1>3
  <2>2. rcCut = "unseen" \/ RcOffset = rcMemory.cursor
    <3>1. rcCut \in {"none", "unseen"}
      BY <1>1 DEF RcKeepInv, RcTypes, RcStepsFit
    <3>2. rcCut = "none" => rcMemory.cursor <= Len(rcLog)
      BY DEF RcKeepInv, RcFollows
    <3>3. ~rcTear.within
      BY DEF RcKeepInv, RcStepsFit
    <3> QED BY <1>3, <3>1, <3>2, <3>3, RcFields DEF RcOffset, RcSmaller
  <2>3. RcPassed = rcMemory.cursor
    BY <1>1 DEF RcPassed
  <2>4. RcOffset = rcMemory.cursor => RcOffset + i > RcPassed
    BY <1>2, <2>3
  <2> QED BY <2>1, <2>2, <2>4 DEF RcUnread
<1>5. \A i \in DOMAIN rcLog' : ~RcUnread(i)'
  BY <1>1, <1>3 DEF RcUnread, RcPassed, RcKeepInv, RcTypes, RcStepsFit
<1>6. RcWaitingBehind'
  <2>1. ASSUME NEW i \in Nat, NEW no \in Nat, i \in DOMAIN rcPoll'.lines, rcPoll'.lines[i].no = no, RcWaits(i)' PROVE RcBehind(no)'
    <3>1. RcOffset + i \in DOMAIN rcLog /\ RcUnread(RcOffset + i) /\ rcLog[RcOffset + i].no = no
      BY <1>2, <1>4, <2>1
    <3>2. RcBehind(no)
      BY <3>1 DEF RcInOrder, RcUnreadBehind
    <3> QED BY <1>1, <3>2 DEF RcBehind
  <2> QED BY <1>2, <2>1, WaitingShown
<1>7. RcUnreadBehind'
  BY <1>1, <1>5 DEF RcUnreadBehind
<1>8. RcFilesInOrder' /\ RcBehind(rcCount.lines + 1)'
  BY <1>1 DEF RcInOrder, RcFilesInOrder, RcBehind
<1> QED BY <1>6, <1>7, <1>8 DEF RcInOrder

\* The step of a line that records none.
LEMMA SameOrder ==
  ASSUME RcKeepInv, RcInOrder, RcNoNewLine, rcPoll.at # "sleep", NEW step \in RcSteps, step # "sleep", RcGo(step),
         rcPoll.at \in {"save", "finish", "index", "closed"} => step \in {"save", "finish", "index", "closed"},
         UNCHANGED <<rcLog, rcCount, rcCut>>
  PROVE  RcInOrder'
<1>1. rcPoll'.at = step /\ rcPoll'.lines = rcPoll.lines /\ rcPoll'.upto = rcPoll.upto
  BY RcGoes
<1>2. \A i : RcUnread(i)' => RcUnread(i)
  BY <1>1 DEF RcUnread, RcPassed
<1>3. /\ rcPoll'.lines \in Seq(RcLines) /\ Len(rcPoll'.lines) + 0 = Len(rcPoll.lines)
      /\ \A i \in Nat : i \in DOMAIN rcPoll'.lines => rcPoll'.lines[i] = rcPoll.lines[i + 0] /\ (RcWaits(i)' => RcWaits(i + 0))
  BY <1>1, RcNos DEF RcWaits
<1> QED BY <1>2, <1>3, OrderGoesOn

LEMMA NextLineOrder ==
  ASSUME RcKeepInv, RcInOrder, UNCHANGED <<rcLog, rcCount, rcCut, rcFiles>>, RcNextLine, rcPoll.lines # <<>>, rcPoll.at # "sleep"
  PROVE  RcInOrder'
<1>1. rcPoll'.at = "feed" /\ rcPoll'.lines = Tail(rcPoll.lines) /\ rcPoll'.upto = rcPoll.upto
  BY DEF RcNextLine, RcKeepInv, RcTypes
<1>2. /\ rcPoll'.lines \in Seq(RcLines) /\ Len(rcPoll'.lines) + 1 = Len(rcPoll.lines) /\ Len(rcPoll'.lines) \in Nat
      /\ \A i \in Nat : i \in DOMAIN rcPoll'.lines => rcPoll'.lines[i] = rcPoll.lines[i + 1]
  BY <1>1, RcNos, HeadTailProperties
<1>3. \A i \in Nat : i \in DOMAIN rcPoll'.lines => RcWaits(i + 1)
  BY <1>2 DEF RcWaits
<1>4. \A i : RcUnread(i)' => RcUnread(i)
  BY <1>1 DEF RcUnread, RcPassed
<1>5. RcNoNewLine
  BY DEF RcNoNewLine
<1> QED BY <1>2, <1>3, <1>4, <1>5, OrderGoesOn

LEMMA FedOrder == ASSUME RcKeepInv, RcInOrder, RcFed PROVE RcInOrder'
<1>1. /\ rcPoll.at = "feed" /\ rcPoll.lines = <<>> /\ rcPoll'.lines = <<>> /\ rcPoll'.at = "sleep" /\ rcMemory'.cursor = rcPoll.upto
      /\ rcCut' = IF rcCut = "read" THEN "none" ELSE rcCut
      /\ UNCHANGED <<rcLog, rcCount, rcFiles>>
  BY RcFields DEF RcFed, RcAt, RcSave, Sleeping
<1>2. RcNoNewLine
  BY <1>1 DEF RcNoNewLine
<1>3. \A i : RcUnread(i)' => RcUnread(i)
  BY <1>1 DEF RcUnread, RcPassed
<1>4. /\ rcPoll'.lines \in Seq(RcLines) /\ Len(rcPoll'.lines) + 0 = Len(rcPoll.lines)
      /\ \A i \in Nat : i \in DOMAIN rcPoll'.lines => rcPoll'.lines[i] = rcPoll.lines[i + 0] /\ (RcWaits(i)' => RcWaits(i + 0))
  BY <1>1
<1> QED BY <1>1, <1>2, <1>3, <1>4, OrderGoesOn

LEMMA AppendOrder == ASSUME RcKeepInv, RcOrderInv, RcInOrder, RcBooks, RcAppend PROVE RcInOrder'
<1> DEFINE e == Entry("line", Line.no, Line.kind, rcMemory.seq + 1)
<1>1. /\ rcPoll.at = "append" /\ RcAdd(e) /\ UNCHANGED <<rcLog, rcCount, rcCut>>
      /\ RcGo(IF Line.kind = "match_end" THEN "finish" ELSE "save")
  BY DEF RcAppend, RcAt, RcRest
<1>2. rcPoll.lines # <<>> /\ Line = rcPoll.lines[1] /\ Line \in RcLines /\ rcMemory.active # NoSession
  BY <1>1, FirstLine DEF RcKeepInv, RcStepsFit
<1>3. e \in RcEntries /\ e.what = "line" /\ e.no = rcPoll.lines[1].no
  BY <1>2, RcFields DEF Entry, RcEntries, RcLines
<1>4. rcMemory.active = Len(rcFiles)
  BY <1>2 DEF RcBooks, RcActive
<1> HIDE DEF e
<1>5. /\ rcPoll'.at \in {"finish", "save"} /\ rcPoll'.lines = rcPoll.lines /\ rcPoll'.upto = rcPoll.upto
  BY <1>1, RcGoes DEF RcSteps
<1>6. /\ 1 \in DOMAIN rcPoll.lines /\ DOMAIN rcPoll.lines = 1 .. Len(rcPoll.lines) /\ Len(rcPoll.lines) \in Nat
      /\ \A i \in DOMAIN rcPoll.lines : rcPoll.lines[i].no \in Nat
      /\ \A i \in DOMAIN rcLog : rcLog[i].no \in Nat
  BY <1>2, RcNos
<1>7. RcBehind(e.no)
  BY <1>1, <1>3, <1>6 DEF RcInOrder, RcWaits, RcWaitingBehind
<1>8. RcFilesInOrder' /\ \A no \in Nat : RcBehind(no) /\ e.no < no => RcBehind(no)'
  <2>1. RcFilesInOrder
    BY DEF RcInOrder
  <2> QED BY <1>1, <1>2, <1>3, <1>4, <1>7, <2>1, LineInOrder
<1>9. RcWaitingBehind'
  <2>1. ASSUME NEW i \in Nat, NEW no \in Nat, i \in DOMAIN rcPoll'.lines, rcPoll'.lines[i].no = no, RcWaits(i)' PROVE RcBehind(no)'
    <3>1. i > 1 /\ i \in DOMAIN rcPoll.lines /\ rcPoll.lines[i].no = no
      BY <1>5, <2>1 DEF RcWaits
    <3>2. e.no < no /\ RcBehind(no)
      BY <1>3, <1>6, <3>1 DEF RcOrderInv, RcNumbers, RcInOrder, RcWaitingBehind, RcWaits
    <3> QED BY <1>8, <3>2
  <2> QED BY <1>5, <2>1, RcNos, WaitingShown
<1>10. RcUnreadBehind'
  <2>1. ASSUME NEW i \in Nat, NEW no \in Nat, i \in DOMAIN rcLog', rcLog'[i].no = no, RcUnread(i)'
        PROVE  RcBehind(no)' /\ \A k \in DOMAIN rcPoll'.lines : rcPoll'.lines[k].no < no
    <3>1. RcUnread(i) /\ rcLog' = rcLog
      BY <1>1, <1>5, <2>1 DEF RcUnread, RcPassed
    <3>2. RcBehind(no) /\ \A k \in DOMAIN rcPoll.lines : rcPoll.lines[k].no < no
      BY <2>1, <3>1 DEF RcInOrder, RcUnreadBehind
    <3>3. e.no < no
      BY <1>3, <1>6, <3>2
    <3> QED BY <1>5, <1>8, <3>2, <3>3
  <2> QED BY <1>1, <2>1, RcNos, UnreadShown
<1>11. RcBehind(rcCount.lines + 1)'
  <2>1. rcCount.lines \in Nat
    BY DEF RcKeepInv, RcTypes
  <2>2. e.no < rcCount.lines + 1 /\ RcBehind(rcCount.lines + 1)
    BY <1>3, <1>6, <2>1 DEF RcOrderInv, RcNumbers, RcInOrder
  <2>3. PICK no \in Nat : no = rcCount.lines + 1
    BY <2>1
  <2>4. RcBehind(no)' /\ rcCount'.lines + 1 = no
    BY <1>1, <1>8, <2>2, <2>3
  <2> QED BY <2>4 DEF RcBehind
<1> QED BY <1>8, <1>9, <1>10, <1>11 DEF RcInOrder

\* A poll that ended within a line stays one that did.
LEMMA TornStays ==
  ASSUME RcKeepInv, [RcNext]_rcVars, ~rcTorn'
  PROVE  ~rcTorn /\ ~RcReadAstray /\ ~RcReadHead /\ ~RcForgets
<1>1. ~RcReadHead
  BY DEF RcReadHead
<1>2. ~rcTorn
  <2>1. CASE RcRead
    BY <2>1 DEF RcRead
  <2>2. CASE RcWrite \/ RcHead \/ RcEmpties \/ RcReadAstray \/ RcForgets \/ RcFed \/ RcDies \/ UNCHANGED rcVars
    BY <2>2 DEF RcWrite, RcHead, RcEmpties, RcReadAstray, RcForgets, RcFed, RcDies, rcVars
  <2>3. CASE RcFeed \/ RcOpen \/ RcOpened \/ RcAppend \/ RcSaved \/ RcFinish \/ RcIndex \/ RcClosed
    BY <2>3 DEF RcFeed, RcOpen, RcOpened, RcAppend, RcSaved, RcFinish, RcIndex, RcClosed, RcRest
  <2> QED BY <1>1, <2>1, <2>2, <2>3 DEF RcNext, RcWork
<1>3. ~rcTear.held /\ ~rcTear.within
  BY <1>2 DEF RcKeepInv, RcStepsFit
<1> QED BY <1>1, <1>2, <1>3 DEF RcReadAstray, RcAstray, RcForgets

LEMMA RcOrderStep ==
  ASSUME RcKeepInv, RcOrderInv, RcBookInv, [RcNext]_rcVars
  PROVE  RcOrderInv'
<1>1. RcNumbers'
  BY RcNumbersStep DEF RcOrderInv
<1> SUFFICES ASSUME rcCount'.deaths = 0, ~rcTorn' PROVE RcInOrder'
  BY <1>1 DEF RcOrderInv
<1>2. RcInOrder /\ RcBooks /\ ~RcDies /\ ~rcTorn /\ ~RcReadAstray /\ ~RcReadHead /\ ~RcForgets
  BY CountsGoUp, TornStays DEF RcOrderInv, RcBookInv
<1>3. CASE UNCHANGED rcVars
  BY <1>2, <1>3 DEF rcVars, RcInOrder, RcWaits, RcUnread, RcPassed, RcBehind, RcWaitingBehind, RcUnreadBehind, RcFilesInOrder
<1>4. rcFiles' = rcFiles => RcNoNewLine
  BY DEF RcNoNewLine
<1>5. rcPoll.at \notin {"sleep", "feed"} => rcPoll.lines # <<>>
  BY DEF RcKeepInv, RcStepsFit
<1>6. CASE RcFeed
  <2>1. rcPoll.at = "feed" /\ rcPoll.lines # <<>> /\ UNCHANGED <<rcLog, rcCount, rcFiles, rcCut>>
    BY <1>6 DEF RcFeed, RcAt, RcRest
  <2>2. RcNextLine \/ RcGo("append") \/ RcGo("open")
    BY <1>6 DEF RcFeed
  <2>3. CASE RcNextLine
    BY <1>2, <2>1, <2>3, NextLineOrder
  <2>4. CASE RcGo("append")
    BY <1>2, <1>4, <2>1, <2>4, SameOrder DEF RcSteps
  <2>5. CASE RcGo("open")
    BY <1>2, <1>4, <2>1, <2>5, SameOrder DEF RcSteps
  <2> QED BY <2>2, <2>3, <2>4, <2>5
<1>7. CASE RcOpen
  <2> DEFINE e == Entry("start", 0, "other", 0)
  <2>1. /\ rcPoll.at = "open" /\ RcGo("opened") /\ rcFiles' = Append(rcFiles, <<e>>) /\ UNCHANGED <<rcLog, rcCount, rcCut>>
    BY <1>7 DEF RcOpen, RcAt, RcRest
  <2>2. e \in RcEntries /\ e.what = "start"
    BY DEF Entry, RcEntries, Kinds
  <2> HIDE DEF e
  <2>3. /\ DOMAIN rcFiles' = 1 .. Len(rcFiles) + 1 /\ \A s \in 1 .. Len(rcFiles) : rcFiles'[s] = rcFiles[s]
        /\ rcFiles'[Len(rcFiles) + 1] = <<e>> /\ DOMAIN rcFiles = 1 .. Len(rcFiles) /\ Len(rcFiles) \in Nat
    BY <2>1, <2>2, RcFields, FileOpens
  <2>4. RcNoNewLine
    <3> SUFFICES ASSUME NEW s \in 1 .. Len(rcFiles) + 1, NEW i \in DOMAIN rcFiles'[s], rcFiles'[s][i].what = "line"
                 PROVE  s \in DOMAIN rcFiles /\ i \in DOMAIN rcFiles[s] /\ rcFiles'[s][i] = rcFiles[s][i]
      BY <2>3 DEF RcNoNewLine
    <3>1. s # Len(rcFiles) + 1
      BY <2>2, <2>3
    <3> QED BY <2>3, <3>1
  <2> QED BY <1>2, <2>1, <2>4, SameOrder DEF RcSteps
<1>8. CASE RcOpened
  BY <1>2, <1>4, <1>8, SameOrder DEF RcOpened, RcAt, RcRest, RcSteps
<1>9. CASE RcIndex
  BY <1>2, <1>4, <1>9, SameOrder DEF RcIndex, RcAt, RcRest, RcSteps
<1>10. CASE RcFinish
  <2> DEFINE e == Entry("end", 0, "other", rcMemory.seq)
  <2>1. rcPoll.at = "finish" /\ RcGo("index") /\ RcAdd(e) /\ UNCHANGED <<rcLog, rcCount, rcCut>>
    BY <1>10 DEF RcFinish, RcAt, RcRest
  <2>2. e \in RcEntries /\ e.what # "line"
    BY RcFields DEF Entry, RcEntries, Kinds
  <2>3. rcMemory.active # NoSession
    BY <2>1 DEF RcKeepInv, RcStepsFit
  <2> HIDE DEF e
  <2>4. RcNoNewLine
    BY <2>1, <2>2, <2>3, EntryIsNoLine
  <2> QED BY <1>2, <2>1, <2>4, SameOrder DEF RcSteps
<1>11. CASE RcSaved \/ RcClosed
  BY <1>2, <1>5, <1>11, NextLineOrder DEF RcSaved, RcClosed, RcAt, RcRest
<1>12. CASE RcHead
  <2>1. UNCHANGED <<rcLog, rcFiles, rcPoll, rcMemory, rcCut>>
    BY <1>12 DEF RcHead
  <2>2. rcCount'.lines = rcCount.lines
    <3>1. rcCount' = [rcCount EXCEPT !["heads"] = @ + 1] /\ rcCount \in [lines : Nat, heads : Nat, cuts : Nat, deaths : Nat]
      BY <1>12 DEF RcHead, RcCounts, RcKeepInv, RcTypes
    <3> QED BY <3>1
  <2>3. RcPassed' = RcPassed /\ \A no : RcBehind(no)' <=> RcBehind(no)
    BY <2>1 DEF RcPassed, RcBehind
  <2>4. RcFilesInOrder' /\ RcWaitingBehind' /\ RcUnreadBehind'
    BY <1>2, <2>1, <2>3 DEF RcInOrder, RcFilesInOrder, RcWaitingBehind, RcUnreadBehind, RcWaits, RcUnread
  <2>5. RcBehind(rcCount.lines + 1)'
    BY <1>2, <2>1, <2>2 DEF RcInOrder, RcBehind
  <2> QED BY <2>4, <2>5 DEF RcInOrder
<1> QED BY <1>2, <1>12, <1>3, <1>6, <1>7, <1>8, <1>9, <1>10, <1>11, LogOrder, ReadOrder, FedOrder, AppendOrder DEF RcNext, RcWork

-----------------------------------------------------------------------------
LEMMA RcBookStart == RcInit => RcBookInv
BY DEF RcInit, RcBookInv, RcBooks, RcActive, NoSession, Sleeping

\* A file with another line, and one with its end.
LEMMA FileWithLine ==
  ASSUME NEW file \in Seq(RcEntries), RcFile(file), ~RcEnded(file), \A i \in DOMAIN file : file[i].kind # "match_end",
         NEW e \in RcEntries, e.what = "line", e.seq = Len(file),
         NEW more \in Seq(RcEntries), Len(more) = Len(file) + 1, more[Len(file) + 1] = e,
         \A i \in 1 .. Len(file) : more[i] = file[i]
  PROVE  /\ RcFile(more) /\ ~RcEnded(more)
         /\ \A i \in DOMAIN more : more[i].kind = "match_end" => i = Len(more) /\ e.kind = "match_end"
<1>1. /\ DOMAIN file = 1 .. Len(file) /\ DOMAIN more = 1 .. Len(file) + 1 /\ Len(file) \in Nat \ {0}
      /\ \A i \in DOMAIN more : i \in 1 .. Len(file) \/ i = Len(file) + 1
  BY DEF RcFile
<1>2. \A i \in 1 .. Len(file) : file[i].what # "end" /\ file[i].kind # "match_end"
  BY <1>1 DEF RcFile, RcEnded
<1>3. \A i \in 1 .. Len(file) : (file[i].what = "start" <=> i = 1) /\ (file[i].what = "line" => file[i].seq = i - 1)
  BY <1>1 DEF RcFile
<1>4. more # <<>>
  BY <1>1
<1>5. ASSUME NEW i \in DOMAIN more
      PROVE  /\ more[i].what = "start" <=> i = 1
             /\ more[i].what = "line" => more[i].seq = i - 1
             /\ more[i].what # "end"
             /\ more[i].kind = "match_end" => i = Len(more) /\ e.kind = "match_end"
  <2>1. CASE i \in 1 .. Len(file)
    BY <1>2, <1>3, <2>1
  <2>2. CASE i = Len(file) + 1
    BY <1>1, <2>2
  <2> QED BY <1>1, <2>1, <2>2
<1>6. Len(more) \in DOMAIN more /\ Len(more) \in Nat /\ Len(more) >= Len(more) - 1
  BY <1>1
<1>7. RcFile(more)
  BY <1>4, <1>5, <1>6 DEF RcFile
<1> QED BY <1>5, <1>6, <1>7 DEF RcEnded

LEMMA FileWithEnd ==
  ASSUME NEW file \in Seq(RcEntries), RcFile(file), ~RcEnded(file), \A i \in DOMAIN file : file[i].kind = "match_end" => i = Len(file),
         file[Len(file)].kind = "match_end",
         NEW e \in RcEntries, e.what = "end", e.kind = "other",
         NEW more \in Seq(RcEntries), Len(more) = Len(file) + 1, more[Len(file) + 1] = e,
         \A i \in 1 .. Len(file) : more[i] = file[i]
  PROVE  RcFile(more) /\ RcEnded(more)
<1>1. /\ DOMAIN file = 1 .. Len(file) /\ DOMAIN more = 1 .. Len(file) + 1 /\ Len(file) \in Nat \ {0}
      /\ \A i \in DOMAIN more : i \in 1 .. Len(file) \/ i = Len(file) + 1
  BY DEF RcFile
<1>2. \A i \in 1 .. Len(file) : file[i].what # "end" /\ (file[i].kind = "match_end" => i = Len(file))
  BY <1>1 DEF RcFile, RcEnded
<1>3. \A i \in 1 .. Len(file) : (file[i].what = "start" <=> i = 1) /\ (file[i].what = "line" => file[i].seq = i - 1)
  BY <1>1 DEF RcFile
<1>4. more # <<>> /\ Len(more) = Len(file) + 1 /\ Len(more) - 1 = Len(file) /\ more[Len(file)] = file[Len(file)]
  BY <1>1
<1>5. ASSUME NEW i \in DOMAIN more
      PROVE  /\ more[i].what = "start" <=> i = 1
             /\ more[i].what = "line" => more[i].seq = i - 1
             /\ more[i].what = "end" => i = Len(more) /\ more[i - 1].kind = "match_end"
             /\ more[i].kind = "match_end" => i >= Len(more) - 1
  <2>1. CASE i \in 1 .. Len(file)
    <3>1. more[i] = file[i] /\ file[i].what # "end" /\ (file[i].kind = "match_end" => i = Len(more) - 1)
      BY <1>2, <1>4, <2>1
    <3>2. Len(more) - 1 >= Len(more) - 1
      BY <1>1
    <3> QED BY <1>3, <2>1, <3>1, <3>2
  <2>2. CASE i = Len(file) + 1
    BY <1>1, <1>4, <2>2
  <2> QED BY <1>1, <2>1, <2>2
<1>6. RcFile(more)
  BY <1>4, <1>5 DEF RcFile
<1> QED BY <1>4, <1>6 DEF RcEnded

\* A step that touches neither the files nor the session.
LEMMA BooksGoOn ==
  ASSUME RcBooks, UNCHANGED <<rcFiles, rcIndex>>, rcMemory'.active = rcMemory.active, rcMemory'.seq = rcMemory.seq,
         rcPoll'.at = rcPoll.at \/ (rcPoll.at \notin {"finish", "index", "closed"} /\ rcPoll'.at \notin {"finish", "index", "closed"})
  PROVE  RcBooks'
<1>1. (RcActive' <=> RcActive) /\ (\A file : RcOpenFile(file)' <=> RcOpenFile(file))
  BY DEF RcActive, RcOpenFile
<1>2. RcOpenFile(rcFiles[Len(rcFiles)])' <=> RcOpenFile(rcFiles[Len(rcFiles)])
  BY DEF RcOpenFile
<1> QED BY <1>1, <1>2 DEF RcBooks

LEMMA OpenBooks == ASSUME RcKeepInv, RcBooks, RcOpen PROVE RcBooks'
<1> DEFINE e == Entry("start", 0, "other", 0)
           n == Len(rcFiles)
<1>1. /\ rcPoll.at = "open" /\ RcGo("opened") /\ rcFiles' = Append(rcFiles, <<e>>) /\ rcIndex' = rcIndex
      /\ rcMemory'.active = n + 1 /\ rcMemory'.seq = 0
  BY RcFields DEF RcOpen, RcAt, RcRest, NewSession
<1>2. e \in RcEntries /\ e.what = "start" /\ e.kind = "other"
  BY DEF Entry, RcEntries, Kinds
<1> HIDE DEF e
<1>3. /\ Len(rcFiles') = n + 1 /\ DOMAIN rcFiles' = 1 .. n + 1 /\ \A s \in 1 .. n : rcFiles'[s] = rcFiles[s]
      /\ rcFiles'[n + 1] = <<e>> /\ DOMAIN rcFiles = 1 .. n /\ n \in Nat
  BY <1>1, <1>2, RcFields, FileOpens
<1> HIDE DEF n
<1>4. rcPoll'.at = "opened"
  BY <1>1, RcGoes DEF RcSteps
<1>5. ~RcActive /\ RcActive'
  BY <1>1, <1>3 DEF RcKeepInv, RcStepsFit, RcActive, NoSession
<1>6. RcFile(<<e>>) /\ ~RcEnded(<<e>>) /\ Len(<<e>>) = 1 /\ \A i \in DOMAIN <<e>> : <<e>>[i].kind # "match_end"
  BY <1>2 DEF RcFile, RcEnded
<1>7. \A s \in 1 .. n : RcEnded(rcFiles[s])
  <2> SUFFICES ASSUME NEW s \in 1 .. n PROVE RcEnded(rcFiles[s])
    OBVIOUS
  <2>1. CASE s < n
    BY <1>3, <2>1 DEF RcBooks, n
  <2>2. CASE s = n
    BY <1>3, <1>5, <2>2 DEF RcBooks, n
  <2> QED BY <1>3, <2>1, <2>2
<1>8. (\A s \in DOMAIN rcFiles : RcFile(rcFiles[s]))' /\ (\A s \in DOMAIN rcFiles : s < Len(rcFiles) => RcEnded(rcFiles[s]))'
  <2> SUFFICES ASSUME NEW s \in 1 .. n + 1 PROVE RcFile(rcFiles'[s]) /\ (s < n + 1 => RcEnded(rcFiles'[s]))
    BY <1>3
  <2>1. CASE s \in 1 .. n
    BY <1>3, <1>7, <2>1 DEF RcBooks
  <2>2. CASE s = n + 1
    BY <1>3, <1>6, <2>2
  <2> QED BY <1>3, <2>1, <2>2
<1>9. RcOpenFile(rcFiles[Len(rcFiles)])' /\ Len(rcFiles'[Len(rcFiles')]) - 1 = 0
  BY <1>3, <1>6 DEF RcOpenFile
<1>10. Len(rcIndex') = Len(rcFiles') - 1 /\ \A i \in DOMAIN rcIndex' : rcIndex'[i] = i
  BY <1>1, <1>3, <1>5 DEF RcBooks, n
<1> QED BY <1>1, <1>3, <1>4, <1>5, <1>8, <1>9, <1>10 DEF RcBooks

\* The active file grows: the others stay what they are.
LEMMA LastGrows ==
  ASSUME RcKeepInv, RcBooks, RcActive, NEW e \in RcEntries, RcAdd(e)
  PROVE  /\ Len(rcFiles) \in Nat \ {0} /\ Len(rcFiles') = Len(rcFiles) /\ DOMAIN rcFiles = 1 .. Len(rcFiles)
         /\ DOMAIN rcFiles' = 1 .. Len(rcFiles)
         /\ \A s \in 1 .. Len(rcFiles) : s < Len(rcFiles) => rcFiles'[s] = rcFiles[s]
         /\ \E file \in Seq(RcEntries), more \in Seq(RcEntries) :
              /\ file = rcFiles[Len(rcFiles)] /\ more = rcFiles'[Len(rcFiles)]
              /\ Len(more) = Len(file) + 1 /\ more[Len(file) + 1] = e /\ \A i \in 1 .. Len(file) : more[i] = file[i]
<1>1. PICK a \in 1 .. Len(rcFiles) : a = rcMemory.active /\ a = Len(rcFiles)
  <2>1. rcMemory.active = Len(rcFiles) /\ rcMemory.active # 0
    BY DEF RcBooks, RcActive, NoSession
  <2>2. Len(rcFiles) \in 1 .. Len(rcFiles)
    BY <2>1, RcFields
  <2> QED BY <2>1, <2>2
<1>2. rcFiles' = [rcFiles EXCEPT ![a] = Append(@, e)]
  BY <1>1 DEF RcAdd
<1>3. /\ Len(rcFiles') = Len(rcFiles) /\ DOMAIN rcFiles' = 1 .. Len(rcFiles)
      /\ \A s \in 1 .. Len(rcFiles) : s # a => rcFiles'[s] = rcFiles[s]
      /\ rcFiles'[a] \in Seq(RcEntries) /\ rcFiles[a] \in Seq(RcEntries)
      /\ Len(rcFiles'[a]) = Len(rcFiles[a]) + 1
      /\ \A i \in 1 .. Len(rcFiles[a]) : rcFiles'[a][i] = rcFiles[a][i]
      /\ rcFiles'[a][Len(rcFiles[a]) + 1] = e
  BY <1>2, RcFields, FileGrows
<1>4. Len(rcFiles) \in Nat \ {0} /\ \A s \in 1 .. Len(rcFiles) : s < Len(rcFiles) => s # a
  BY <1>1, RcFields
<1> QED BY <1>1, <1>3, <1>4, RcFields

LEMMA AppendBooks == ASSUME RcKeepInv, RcBooks, RcAppend PROVE RcBooks'
<1> DEFINE e == Entry("line", Line.no, Line.kind, rcMemory.seq + 1)
           n == Len(rcFiles)
<1>1. /\ rcPoll.at = "append" /\ RcAdd(e) /\ rcIndex' = rcIndex
      /\ RcGo(IF Line.kind = "match_end" THEN "finish" ELSE "save")
      /\ rcMemory'.active = rcMemory.active /\ rcMemory'.seq = rcMemory.seq + 1
  BY RcFields DEF RcAppend, RcAt, RcRest
<1>2. rcPoll.lines # <<>> /\ Line \in RcLines /\ rcMemory.active # NoSession
  BY <1>1, FirstLine DEF RcKeepInv, RcStepsFit
<1>3. e \in RcEntries /\ e.what = "line" /\ e.kind = Line.kind /\ e.seq = rcMemory.seq + 1
  BY <1>2, RcFields DEF Entry, RcEntries, RcLines
<1> HIDE DEF e
<1>4. RcActive /\ RcActive'
  BY <1>1, <1>2 DEF RcActive
<1>5. rcPoll'.at = IF e.kind = "match_end" THEN "finish" ELSE "save"
  BY <1>1, <1>3, RcGoes DEF RcSteps
<1>6. /\ n \in Nat \ {0} /\ Len(rcFiles') = n /\ DOMAIN rcFiles = 1 .. n /\ DOMAIN rcFiles' = 1 .. n
      /\ \A s \in 1 .. n : s < n => rcFiles'[s] = rcFiles[s]
  BY <1>1, <1>3, <1>4, LastGrows
<1>7. PICK file \in Seq(RcEntries), more \in Seq(RcEntries) :
        /\ file = rcFiles[n] /\ more = rcFiles'[n]
        /\ Len(more) = Len(file) + 1 /\ more[Len(file) + 1] = e /\ \A i \in 1 .. Len(file) : more[i] = file[i]
  BY <1>1, <1>3, <1>4, LastGrows
<1>8. RcFile(file) /\ RcOpenFile(file) /\ rcMemory.seq = Len(file) - 1
  BY <1>1, <1>4, <1>6, <1>7 DEF RcBooks
<1>9. Len(file) \in Nat /\ Len(file) = rcMemory.seq + 1
  BY <1>8, RcFields
<1>10. /\ RcFile(more) /\ ~RcEnded(more)
       /\ \A i \in DOMAIN more : more[i].kind = "match_end" => i = Len(more) /\ e.kind = "match_end"
  <2>1. ~RcEnded(file) /\ \A i \in DOMAIN file : file[i].kind # "match_end"
    BY <1>1, <1>8 DEF RcOpenFile
  <2>2. e.seq = Len(file)
    BY <1>3, <1>9
  <2> QED BY <1>3, <1>7, <1>8, <2>1, <2>2, FileWithLine
<1> HIDE DEF n
<1>11. (\A s \in DOMAIN rcFiles : RcFile(rcFiles[s]))' /\ (\A s \in DOMAIN rcFiles : s < Len(rcFiles) => RcEnded(rcFiles[s]))'
  <2> SUFFICES ASSUME NEW s \in 1 .. n PROVE RcFile(rcFiles'[s]) /\ (s < n => RcEnded(rcFiles'[s]))
    BY <1>6
  <2>1. CASE s < n
    BY <1>6, <2>1 DEF RcBooks, n
  <2>2. CASE s = n
    BY <1>6, <1>7, <1>10, <2>2
  <2> QED BY <1>6, <2>1, <2>2
<1>12. RcOpenFile(rcFiles[Len(rcFiles)])' /\ rcMemory'.seq = Len(rcFiles'[Len(rcFiles')]) - 1
  <2>1. rcMemory'.seq = Len(more) - 1
    BY <1>1, <1>7, <1>9, RcFields
  <2> QED BY <1>5, <1>6, <1>7, <1>10, <2>1 DEF RcOpenFile
<1>13. rcPoll'.at = "finish" => rcFiles'[Len(rcFiles')][Len(rcFiles'[Len(rcFiles')])].kind = "match_end"
  BY <1>5, <1>6, <1>7
<1>14. rcMemory'.active = Len(rcFiles') /\ Len(rcIndex') = Len(rcFiles') - 1 /\ \A i \in DOMAIN rcIndex' : rcIndex'[i] = i
  BY <1>1, <1>4, <1>6 DEF RcBooks, n
<1> QED BY <1>4, <1>5, <1>11, <1>12, <1>13, <1>14 DEF RcBooks

LEMMA FinishBooks == ASSUME RcKeepInv, RcBooks, RcFinish PROVE RcBooks'
<1> DEFINE e == Entry("end", 0, "other", rcMemory.seq)
           n == Len(rcFiles)
<1>1. rcPoll.at = "finish" /\ RcAdd(e) /\ rcIndex' = rcIndex /\ RcGo("index") /\ rcMemory' = rcMemory
  BY DEF RcFinish, RcAt, RcRest
<1>2. rcMemory.active # NoSession
  BY <1>1 DEF RcKeepInv, RcStepsFit
<1>3. e \in RcEntries /\ e.what = "end" /\ e.kind = "other"
  BY RcFields DEF Entry, RcEntries, Kinds
<1> HIDE DEF e
<1>4. RcActive /\ RcActive' /\ rcPoll'.at = "index"
  BY <1>1, <1>2, RcGoes DEF RcActive, RcSteps
<1>5. /\ n \in Nat \ {0} /\ Len(rcFiles') = n /\ DOMAIN rcFiles = 1 .. n /\ DOMAIN rcFiles' = 1 .. n
      /\ \A s \in 1 .. n : s < n => rcFiles'[s] = rcFiles[s]
  BY <1>1, <1>3, <1>4, LastGrows
<1>6. PICK file \in Seq(RcEntries), more \in Seq(RcEntries) :
        /\ file = rcFiles[n] /\ more = rcFiles'[n]
        /\ Len(more) = Len(file) + 1 /\ more[Len(file) + 1] = e /\ \A i \in 1 .. Len(file) : more[i] = file[i]
  BY <1>1, <1>3, <1>4, LastGrows
<1>7. RcFile(file) /\ RcOpenFile(file) /\ file[Len(file)].kind = "match_end"
  BY <1>1, <1>4, <1>5, <1>6 DEF RcBooks
<1>8. RcFile(more) /\ RcEnded(more)
  BY <1>3, <1>6, <1>7, FileWithEnd DEF RcOpenFile
<1> HIDE DEF n
<1>9. \A s \in 1 .. n : RcFile(rcFiles'[s]) /\ RcEnded(rcFiles'[s])
  <2> SUFFICES ASSUME NEW s \in 1 .. n PROVE RcFile(rcFiles'[s]) /\ RcEnded(rcFiles'[s])
    OBVIOUS
  <2>1. CASE s < n
    BY <1>5, <2>1 DEF RcBooks, n
  <2>2. CASE s = n
    BY <1>6, <1>8, <2>2
  <2> QED BY <1>5, <2>1, <2>2
<1>10. rcMemory'.active = Len(rcFiles') /\ Len(rcIndex') = Len(rcFiles') - 1 /\ \A i \in DOMAIN rcIndex' : rcIndex'[i] = i
  BY <1>1, <1>4, <1>5 DEF RcBooks, n
<1>11. RcEnded(rcFiles[Len(rcFiles)])'
  BY <1>5, <1>9
<1> QED BY <1>4, <1>5, <1>9, <1>10, <1>11 DEF RcBooks

LEMMA IndexBooks == ASSUME RcKeepInv, RcBooks, RcIndex PROVE RcBooks'
<1>1. rcPoll.at = "index" /\ rcIndex' = Append(rcIndex, rcMemory.active) /\ RcGo("closed") /\ UNCHANGED <<rcMemory, rcFiles>>
  BY DEF RcIndex, RcAt, RcRest
<1>2. RcActive /\ RcActive' /\ rcPoll'.at = "closed"
  BY <1>1, RcGoes DEF RcActive, RcSteps, RcKeepInv, RcStepsFit
<1>3. rcIndex \in Seq(Nat) /\ rcMemory.active = Len(rcFiles) /\ Len(rcFiles) \in Nat \ {0} /\ Len(rcIndex) = Len(rcFiles) - 1
  BY <1>1, <1>2, RcFields DEF RcBooks, RcKeepInv, RcTypes, RcActive, NoSession
<1>4. Len(rcIndex') = Len(rcFiles) /\ \A i \in DOMAIN rcIndex' : rcIndex'[i] = i
  <2>1. /\ Len(rcIndex') = Len(rcIndex) + 1 /\ DOMAIN rcIndex' = 1 .. Len(rcIndex) + 1 /\ DOMAIN rcIndex = 1 .. Len(rcIndex)
        /\ \A i \in 1 .. Len(rcIndex) : rcIndex'[i] = rcIndex[i]
        /\ rcIndex'[Len(rcIndex) + 1] = Len(rcFiles)
    BY <1>1, <1>3, RcFields, AppendProperties
  <2>2. \A i \in 1 .. Len(rcIndex) : rcIndex[i] = i
    BY <2>1 DEF RcBooks
  <2>3. \A i \in 1 .. Len(rcIndex) + 1 : i \in 1 .. Len(rcIndex) \/ i = Len(rcIndex) + 1
    BY <1>3
  <2> QED BY <1>3, <2>1, <2>2, <2>3
<1> QED BY <1>1, <1>2, <1>4 DEF RcBooks

LEMMA ClosedBooks == ASSUME RcKeepInv, RcBooks, RcClosed PROVE RcBooks'
<1>1. rcPoll.at = "closed" /\ RcNextLine /\ rcMemory'.active = NoSession /\ UNCHANGED <<rcFiles, rcIndex>>
  BY RcFields DEF RcClosed, RcAt, RcRest, RcSave
<1>2. RcActive /\ ~RcActive' /\ rcPoll'.at = "feed"
  BY <1>1 DEF RcActive, RcKeepInv, RcTypes, RcStepsFit, RcNextLine
<1> QED BY <1>1, <1>2 DEF RcBooks

LEMMA RcBookStep ==
  ASSUME RcKeepInv, RcBookInv, [RcNext]_rcVars
  PROVE  RcBookInv'
<1> SUFFICES ASSUME rcCount'.deaths = 0 PROVE RcBooks'
  BY DEF RcBookInv
<1>1. RcBooks /\ ~RcDies
  BY CountsGoUp DEF RcBookInv
<1>2. CASE RcWrite \/ RcHead \/ RcEmpties \/ RcForgets \/ UNCHANGED rcVars
  BY <1>1, <1>2, BooksGoOn DEF RcWrite, RcHead, RcEmpties, RcForgets, rcVars
<1>3. CASE RcRead \/ RcReadAstray
  <2>1. rcPoll.at = "sleep" /\ rcPoll'.at = "feed" /\ UNCHANGED <<rcMemory, rcFiles, rcIndex>>
    <3>1. CASE RcRead
      BY <3>1 DEF RcRead, CursorWaits
    <3>2. CASE RcReadAstray
      <4>1. PICK kind \in Kinds, past \in {0, 1}, within \in BOOLEAN :
              rcPoll' = [at |-> "feed", upto |-> Len(rcLog) + past,
                         lines |-> [SubSeq(rcLog, rcMemory.cursor + 1, Len(rcLog)) EXCEPT ![1].kind = kind]]
        BY <3>2, ZenonT(30) DEF RcReadAstray
      <4> QED BY <3>2, <4>1 DEF RcReadAstray, CursorWaits
    <3> QED BY <1>3, <3>1, <3>2
  <2> QED BY <1>1, <2>1, BooksGoOn
<1>4. CASE RcFeed
  <2>1. rcPoll.at = "feed" /\ UNCHANGED <<rcMemory, rcFiles, rcIndex>> /\ (RcNextLine \/ RcGo("append") \/ RcGo("open"))
    BY <1>4 DEF RcFeed, RcAt, RcRest
  <2>2. rcPoll'.at \in {"feed", "append", "open"}
    BY <2>1, RcGoes DEF RcNextLine, RcKeepInv, RcTypes, RcSteps
  <2> QED BY <1>1, <2>1, <2>2, BooksGoOn
<1>5. CASE RcOpened
  <2>1. rcPoll.at = "opened" /\ UNCHANGED <<rcMemory, rcFiles, rcIndex>> /\ rcPoll'.at = "append"
    BY <1>5, RcGoes DEF RcOpened, RcAt, RcRest, RcSave, RcSteps
  <2> QED BY <1>1, <2>1, BooksGoOn
<1>6. CASE RcSaved
  <2>1. rcPoll.at = "save" /\ UNCHANGED <<rcMemory, rcFiles, rcIndex>> /\ rcPoll'.at = "feed"
    BY <1>6 DEF RcSaved, RcAt, RcRest, RcSave, RcNextLine, RcKeepInv, RcTypes
  <2> QED BY <1>1, <2>1, BooksGoOn
<1>7. CASE RcFed
  <2>1. /\ rcPoll.at = "feed" /\ UNCHANGED <<rcFiles, rcIndex>> /\ rcPoll'.at = "sleep"
        /\ rcMemory'.active = rcMemory.active /\ rcMemory'.seq = rcMemory.seq
    BY <1>7, RcFields DEF RcFed, RcAt, RcRest, RcSave, Sleeping
  <2> QED BY <1>1, <2>1, BooksGoOn
<1>8. CASE RcReadHead
  <2>1. /\ UNCHANGED <<rcFiles, rcIndex, rcPoll>> /\ rcPoll.at = "sleep"
        /\ rcMemory'.active = rcMemory.active /\ rcMemory'.seq = rcMemory.seq
    BY <1>8, RcFields DEF RcReadHead, RcSave
  <2> QED BY <1>1, <2>1, BooksGoOn
<1> QED BY <1>1, <1>2, <1>3, <1>4, <1>5, <1>6, <1>7, <1>8, OpenBooks, AppendBooks, FinishBooks, IndexBooks, ClosedBooks DEF RcNext, RcWork

\* What the books say of each session.
LEMMA BooksTell == ASSUME RcInv PROVE SessionsTellMatches
<1> SUFFICES ASSUME rcCount.deaths = 0 PROVE SessionsTellMatches
  BY DEF SessionsTellMatches
<1>1. RcBooks /\ RcKeepInv
  BY DEF RcInv, RcBookInv
<1>2. ~rcTorn => RcFilesInOrder
  BY DEF RcInv, RcOrderInv, RcInOrder
<1>3. \A s \in DOMAIN rcFiles : RcFile(rcFiles[s]) /\ (s < Len(rcFiles) => RcEnded(rcFiles[s]))
  BY <1>1 DEF RcBooks
<1>4. ASSUME NEW i \in DOMAIN rcIndex PROVE rcIndex[i] = i /\ RcEnded(rcFiles[i])
  <2>1. rcIndex[i] = i /\ i \in 1 .. Len(rcIndex) /\ Len(rcIndex) \in Nat /\ DOMAIN rcFiles = 1 .. Len(rcFiles) /\ Len(rcFiles) \in Nat
    <3>1. rcIndex[i] = i
      BY <1>1 DEF RcBooks
    <3>2. DOMAIN rcIndex = 1 .. Len(rcIndex) /\ Len(rcIndex) \in Nat
      BY <1>1 DEF RcKeepInv, RcTypes
    <3> QED BY <1>1, <3>1, <3>2, RcFields
  <2>2. CASE i < Len(rcFiles)
    BY <1>3, <2>1, <2>2
  <2>3. CASE i >= Len(rcFiles)
    <3>1. Len(rcIndex) = IF RcActive /\ rcPoll.at # "closed" THEN Len(rcFiles) - 1 ELSE Len(rcFiles)
      BY <1>1 DEF RcBooks
    <3>2. CASE RcActive /\ rcPoll.at # "closed"
      BY <2>1, <2>3, <3>1, <3>2
    <3>3. CASE ~(RcActive /\ rcPoll.at # "closed")
      <4>1. Len(rcIndex) = Len(rcFiles)
        BY <3>1, <3>3
      <4>2. i = Len(rcFiles)
        BY <2>1, <2>3, <4>1
      <4>3. rcFiles # <<>>
        BY <2>1, <4>1
      <4> QED BY <1>1, <3>3, <4>2, <4>3 DEF RcBooks
    <3> QED BY <3>2, <3>3
  <2> QED BY <2>1, <2>2, <2>3
<1>5. \A s \in DOMAIN rcFiles : LET file == rcFiles[s] IN
        /\ \A i \in DOMAIN file :
             /\ file[i].what = "start" <=> i = 1
             /\ file[i].what = "line" => file[i].seq = i - 1
             /\ file[i].what = "end" => i = Len(file) /\ file[i - 1].kind = "match_end"
             /\ file[i].kind = "match_end" => i >= Len(file) - 1
        /\ s < Len(rcFiles) => Last(file).what = "end"
  BY <1>3 DEF RcFile, RcEnded, Last
<1>6. \A i \in DOMAIN rcIndex : rcIndex[i] = i /\ Last(rcFiles[i]).what = "end"
  BY <1>4 DEF RcEnded, Last
<1> QED BY <1>2, <1>5, <1>6 DEF SessionsTellMatches, RcFilesInOrder

LEMMA RcInvStart == RcInit => RcInv
BY RcKeepStart, RcOrderStart, RcBookStart DEF RcInv

LEMMA RcInvStep == RcInv /\ [RcNext]_rcVars => RcInv'
BY RcKeepStep, RcOrderStep, RcBookStep DEF RcInv

\* The files of the recorder hold every event the saved cursor has passed and each
\* line once and in order, as long as no poll has ended within a line; and each match
\* by itself, even then.
THEOREM RecorderAlwaysKeeps == RcSpec => []RecorderKeepsLines
<1>1. RcInv => RecorderKeepsLines
  BY KeptIsKept, BooksTell DEF RcInv, RecorderKeepsLines
<1> QED BY <1>1, RcInvStart, RcInvStep, PTL DEF RcSpec

-----------------------------------------------------------------------------
(* The chat announcer tells of each threshold, start, wave and end once    *)

AnStatuses == [round : Nat, state : {"paused", "warmup", "running", "game_over"}, index : Nat, left : Int, fired : BOOLEAN]
AnTypes ==
  /\ anCycle \in AnStatuses /\ anBridge \in AnStatuses /\ anPolled \in AnStatuses
  /\ announcer \in [prev : {"none", "paused", "warmup", "running", "game_over"}, index : Int,
                    warmup : SUBSET AnThresholds["warmup"], running : SUBSET AnThresholds["running"], go : BOOLEAN]
  /\ anChat \in [warmup : Seq(Nat), running : Seq(Nat), go : Nat, incoming : Nat, over : Nat]
  /\ anSlip \in BOOLEAN /\ anGap \in BOOLEAN

\* The announcer has seen no round that has not begun; of one it has not seen at
\* all the chat holds nothing.
AnRoundsFit ==
  /\ anPolled.round <= anCycle.round /\ anBridge.round <= anCycle.round
  /\ anPolled.round < anCycle.round => anChat = Silent
  /\ announcer.prev \in {anPolled.state, "none"}
  /\ \A st \in {anCycle, anBridge, anPolled} : st.state = "warmup" => st.index = 0

\* In a round it was there for, told the present and not cut off: the cycle went on
\* from what it was told last.
AnGood == ~anSlip /\ anPolled.round = anCycle.round
AnFollows ==
  /\ announcer.prev = anPolled.state /\ announcer.index = anPolled.index
  /\ anPolled.state # "warmup" => anCycle.state # "warmup"
  /\ anPolled.state \in {"paused", "game_over"} => anCycle.state = anPolled.state
  /\ anCycle.state = "running" => anPolled.index <= anCycle.index

\* The thresholds it has not said are below those it has.
AnBelow(left, said) == \A t \in left : \A i \in DOMAIN said : t < said[i]
AnSeen(state, said) == anPolled.state = state => \A t \in AnThresholds[state] : anPolled.left <= t => t \in said
AnWarns ==
  /\ Falls(anChat.warmup) /\ Falls(anChat.running)
  /\ AnBelow(AnThresholds["warmup"] \ announcer.warmup, anChat.warmup)
  /\ announcer.warmup # {} => anChat.warmup # <<>>
  /\ anCycle.state = "running" /\ anPolled.index = anCycle.index =>
       /\ AnBelow(AnThresholds["running"] \ announcer.running, anChat.running)
       /\ announcer.running # {} => anChat.running # <<>>
  /\ anCycle.state = "running" /\ anPolled.index # anCycle.index => anChat.running = <<>>
  /\ anCycle.state = "warmup" => anChat.running = <<>> /\ announcer.running = {}
  /\ anPolled.left > 0 => AnSeen("warmup", announcer.warmup)
  /\ AnSeen("running", announcer.running)

\* The start, the waves of the attack and the end, as far as they were told: waves
\* not taken over yet are not told, others are, but for those of a gap.
AnTells ==
  /\ anChat.go = One(announcer.go) /\ (anPolled.state = "running" => announcer.go)
  /\ anChat.incoming <= 1
  /\ anCycle.state = "warmup" => anChat.incoming = 0
  /\ anCycle.state = "running" /\ anPolled.index # anCycle.index => anChat.incoming = 0
  /\ anCycle.state = "running" /\ ~anGap => anChat.incoming = One(anCycle.index > 0 /\ anPolled.index = anCycle.index)
  /\ anChat.over = One(anPolled.state = "game_over")
AnInv == AnTypes /\ AnRoundsFit /\ (AnGood => AnFollows /\ AnWarns /\ AnTells)

\* A finite set of numbers has a largest one.
LEMMA LargestOf ==
  ASSUME NEW S \in SUBSET Int, IsFiniteSet(S), S # {}
  PROVE  Max(S) \in S /\ \A y \in S : Max(S) >= y
<1> DEFINE Above(x) == {y \in S : y > x}
           T == {Above(x) : x \in S}
<1>1. IsWellFoundedOn(StrictSubsetOrdering(S), FiniteSubsetsOf(S))
  BY FS_StrictSubsetOrderingWellFounded
<1>2. T \subseteq FiniteSubsetsOf(S) /\ T # {}
  <2>1. \A x \in S : Above(x) \in SUBSET S /\ IsFiniteSet(Above(x))
    BY FS_Subset
  <2> QED BY <2>1 DEF FiniteSubsetsOf
<1>3. PICK least \in T : \A other \in T : <<other, least>> \notin StrictSubsetOrdering(S)
  <2> HIDE DEF T
  <2> QED BY <1>1, <1>2, WFMin
<1>4. PICK x \in S : least = Above(x)
  OBVIOUS
<1>5. \A y \in S : x >= y
  <2> SUFFICES ASSUME NEW y \in S, y > x PROVE FALSE
    OBVIOUS
  <2>1. Above(y) \subseteq Above(x) /\ y \in Above(x) /\ y \notin Above(y)
    <3>1. x \in Int /\ y \in Int /\ \A z \in S : z \in Int
      OBVIOUS
    <3>2. (\A z \in S : z > y => z > x) /\ ~(y > y)
      BY <3>1
    <3> QED BY <3>2, Zenon
  <2>2. Above(y) \in T /\ Above(y) \in SUBSET S /\ Above(x) \in SUBSET S /\ Above(y) # Above(x)
    BY <2>1
  <2>3. <<Above(y), least>> \in StrictSubsetOrdering(S)
    <3> HIDE DEF Above
    <3> QED BY <1>4, <2>1, <2>2 DEF StrictSubsetOrdering
  <2> QED BY <1>3, <2>2, <2>3
<1> QED BY <1>5 DEF Max

\* More that falls.
LEMMA FallsOn ==
  ASSUME NEW said \in Seq(Nat), Falls(said), NEW m \in Nat, \A i \in DOMAIN said : m < said[i]
  PROVE  Append(said, m) \in Seq(Nat) /\ Falls(Append(said, m)) /\ Append(said, m) # <<>>
<1>1. PICK more \in Seq(Nat), n \in Nat :
        /\ more = Append(said, m) /\ n = Len(said) /\ Len(more) = n + 1 /\ DOMAIN said = 1 .. n
        /\ \A i \in 1 .. n : more[i] = said[i]
        /\ more[n + 1] = m
  <2>1. /\ Append(said, m) \in Seq(Nat) /\ Len(Append(said, m)) = Len(said) + 1 /\ Len(said) \in Nat /\ DOMAIN said = 1 .. Len(said)
        /\ \A i \in 1 .. Len(said) : Append(said, m)[i] = said[i]
        /\ Append(said, m)[Len(said) + 1] = m
    BY AppendProperties
  <2>2. PICK more \in Seq(Nat) : more = Append(said, m)
    BY <2>1
  <2> QED BY <2>1, <2>2
<1>2. ASSUME NEW i \in 1 .. n PROVE more[i] > more[i + 1]
  <2>1. CASE i = n
    BY <1>1, <2>1
  <2>2. CASE i < n
    <3>1. i \in 1 .. n - 1 /\ i + 1 \in 1 .. n
      BY <2>2
    <3> QED BY <1>1, <3>1 DEF Falls
  <2>3. i = n \/ i < n
    OBVIOUS
  <2> QED BY <2>1, <2>2, <2>3
<1>3. Len(more) - 1 = n /\ more # <<>>
  BY <1>1
<1>4. Falls(more)
  BY <1>2, <1>3 DEF Falls
<1> QED BY <1>1, <1>3, <1>4

\* What a poll warns of: what of a state's thresholds is crossed and new.
AnNew(st, state) == IF st.state = state THEN Crossed(st, Known(st)) ELSE {}

LEMMA KnownFields ==
  ASSUME AnTypes, NEW st \in AnStatuses
  PROVE  /\ Known(st) \in [prev : {"none", "paused", "warmup", "running", "game_over"}, index : Int,
                           warmup : SUBSET AnThresholds["warmup"], running : SUBSET AnThresholds["running"], go : BOOLEAN]
         /\ Known(st).prev = announcer.prev /\ Known(st).index = announcer.index
         /\ Known(st).warmup = IF Begins(st) THEN {} ELSE announcer.warmup
         /\ Known(st).running = IF Begins(st) \/ st.index # announcer.index THEN {} ELSE announcer.running
         /\ Known(st).go = (announcer.go /\ ~Begins(st))
<1>1. /\ announcer \in [prev : {"none", "paused", "warmup", "running", "game_over"}, index : Int,
                        warmup : SUBSET AnThresholds["warmup"], running : SUBSET AnThresholds["running"], go : BOOLEAN]
      /\ Begins(st) \in BOOLEAN
  BY DEF AnTypes, Begins
<1> QED BY <1>1 DEF Known

LEMMA CrossedIs ==
  ASSUME AnTypes, NEW st \in AnStatuses
  PROVE  /\ \A state \in {"warmup", "running"} :
              /\ AnNew(st, state) \subseteq AnThresholds[state] \ Known(st)[state]
              /\ AnNew(st, state) \subseteq Nat /\ IsFiniteSet(AnNew(st, state))
              /\ \A t \in AnNew(st, state) : st.left <= t
              /\ AnNew(st, state) # {} => st.state = state /\ (state = "warmup" => st.left > 0)
              /\ st.state = state /\ (state = "warmup" => st.left > 0) =>
                   \A t \in AnThresholds[state] : st.left <= t => t \in AnNew(st, state) \/ t \in Known(st)[state]
         /\ st.state \notin {"warmup", "running"} => Crossed(st, Known(st)) = {}
<1> DEFINE said == Known(st)
<1>1. st.state \notin {"warmup", "running"} => Crossed(st, said) = {}
  BY DEF Crossed
<1>2. ASSUME NEW state \in {"warmup", "running"}
      PROVE  /\ AnNew(st, state) \subseteq AnThresholds[state] \ said[state]
             /\ AnNew(st, state) \subseteq Nat /\ IsFiniteSet(AnNew(st, state))
             /\ \A t \in AnNew(st, state) : st.left <= t
             /\ AnNew(st, state) # {} => st.state = state /\ (state = "warmup" => st.left > 0)
             /\ st.state = state /\ (state = "warmup" => st.left > 0) =>
                  \A t \in AnThresholds[state] : st.left <= t => t \in AnNew(st, state) \/ t \in said[state]
  <2>1. AnThresholds[state] \subseteq Nat /\ IsFiniteSet(AnThresholds[state])
    BY ThresholdsAreSeconds
  <2>2. AnNew(st, state) \subseteq {t \in AnThresholds[state] : st.left <= t} \ said[state]
    BY DEF AnNew, Crossed
  <2>3. AnNew(st, state) \subseteq AnThresholds[state]
    BY <2>2
  <2>4. IsFiniteSet(AnNew(st, state))
    BY <2>1, <2>3, FS_Subset
  <2>5. st.state = state /\ (state = "warmup" => st.left > 0) => AnNew(st, state) = {t \in AnThresholds[state] : st.left <= t} \ said[state]
    BY DEF AnNew, Crossed
  <2>6. AnNew(st, state) # {} => st.state = state /\ (state = "warmup" => st.left > 0)
    BY DEF AnNew, Crossed
  <2> HIDE DEF said
  <2> QED BY <2>1, <2>2, <2>3, <2>4, <2>5, <2>6
<1> QED BY <1>1, <1>2

\* The announcer and the chat after a poll, field by field.
LEMMA RememberedFields ==
  ASSUME AnTypes, NEW st \in AnStatuses
  PROVE  /\ Remembers(st) \in [prev : {"none", "paused", "warmup", "running", "game_over"}, index : Int,
                               warmup : SUBSET AnThresholds["warmup"], running : SUBSET AnThresholds["running"], go : BOOLEAN]
         /\ Remembers(st).prev = st.state /\ Remembers(st).index = st.index
         /\ Remembers(st).warmup = Known(st).warmup \cup AnNew(st, "warmup")
         /\ Remembers(st).running = Known(st).running \cup AnNew(st, "running")
         /\ Remembers(st).go = (Known(st).go \/ Goes(st, Known(st)))
<1> DEFINE said == Known(st)
           new == Crossed(st, said)
           now == IF new = {} THEN said ELSE [said EXCEPT ![st.state] = @ \cup new]
           AnKinds == [prev : {"none", "paused", "warmup", "running", "game_over"}, index : Int,
                     warmup : SUBSET AnThresholds["warmup"], running : SUBSET AnThresholds["running"], go : BOOLEAN]
<1>1. said \in AnKinds
  BY KnownFields
<1>2. /\ AnNew(st, "warmup") \subseteq AnThresholds["warmup"] /\ AnNew(st, "running") \subseteq AnThresholds["running"]
      /\ st.state \notin {"warmup", "running"} => new = {}
      /\ AnNew(st, "warmup") = IF st.state = "warmup" THEN new ELSE {}
      /\ AnNew(st, "running") = IF st.state = "running" THEN new ELSE {}
  BY CrossedIs DEF AnNew
<1>3. Remembers(st) = [now EXCEPT !.prev = st.state, !.index = st.index, !.go = @ \/ Goes(st, said)]
  BY DEF Remembers, Previous
<1>4. st.state \in {"none", "paused", "warmup", "running", "game_over"} /\ st.index \in Int /\ Goes(st, said) \in BOOLEAN
  BY DEF AnStatuses, Goes
<1> HIDE DEF said, new
<1>5. /\ now \in AnKinds /\ now.go = said.go
      /\ now.warmup = said.warmup \cup AnNew(st, "warmup") /\ now.running = said.running \cup AnNew(st, "running")
  <2>1. CASE new = {}
    BY <1>1, <1>2, <2>1
  <2>2. CASE new # {} /\ st.state = "warmup"
    BY <1>1, <1>2, <2>2
  <2>3. CASE new # {} /\ st.state = "running"
    BY <1>1, <1>2, <2>3
  <2> QED BY <1>2, <2>1, <2>2, <2>3
<1> HIDE DEF now
<1>6. /\ Remembers(st) \in AnKinds /\ Remembers(st).prev = st.state /\ Remembers(st).index = st.index
      /\ Remembers(st).warmup = now.warmup /\ Remembers(st).running = now.running
      /\ Remembers(st).go = (now.go \/ Goes(st, said))
  BY <1>3, <1>4, <1>5
<1> QED BY <1>5, <1>6 DEF said

AnEnds(st) == st.state = "game_over" /\ announcer.prev \in {"warmup", "running"}
AnLonger(said, new) == IF new = {} THEN said ELSE Append(said, Max(new))

LEMMA SaidFields ==
  ASSUME AnTypes, NEW st \in AnStatuses
  PROVE  /\ Says(st) \in [warmup : Seq(Nat), running : Seq(Nat), go : Nat, incoming : Nat, over : Nat]
         /\ Says(st).warmup = AnLonger(anChat.warmup, AnNew(st, "warmup"))
         /\ Says(st).running = AnLonger(anChat.running, AnNew(st, "running"))
         /\ Says(st).go = anChat.go + One(Goes(st, Known(st)))
         /\ Says(st).incoming = anChat.incoming + One(Fires(st))
         /\ Says(st).over = anChat.over + One(AnEnds(st))
<1> DEFINE said == Known(st)
           new == Crossed(st, said)
           warned == IF new = {} THEN anChat ELSE [anChat EXCEPT ![st.state] = Append(@, Max(new))]
           AnKinds == [warmup : Seq(Nat), running : Seq(Nat), go : Nat, incoming : Nat, over : Nat]
<1>1. anChat \in AnKinds
  BY DEF AnTypes
<1>2. /\ st.state \notin {"warmup", "running"} => new = {}
      /\ AnNew(st, "warmup") = IF st.state = "warmup" THEN new ELSE {}
      /\ AnNew(st, "running") = IF st.state = "running" THEN new ELSE {}
      /\ new # {} => Max(new) \in Nat
  <2>1. ASSUME new # {} PROVE Max(new) \in Nat
    <3>1. new \subseteq Nat /\ IsFiniteSet(new)
      BY <2>1, CrossedIs DEF AnNew
    <3> HIDE DEF new
    <3>2. new \in SUBSET Int
      BY <3>1
    <3>3. Max(new) \in new
      BY <2>1, <3>1, <3>2, LargestOf
    <3> QED BY <3>1, <3>3
  <2> QED BY <2>1, CrossedIs DEF AnNew
<1>3. Says(st) = [warned EXCEPT !.go = @ + One(Goes(st, said)), !.incoming = @ + One(Fires(st)), !.over = @ + One(AnEnds(st))]
  BY DEF Says, AnEnds
<1>4. \A b : One(b) \in Nat
  BY DEF One
<1> HIDE DEF said, new
<1>5. /\ warned \in AnKinds /\ warned.go = anChat.go /\ warned.incoming = anChat.incoming /\ warned.over = anChat.over
      /\ warned.warmup = AnLonger(anChat.warmup, AnNew(st, "warmup")) /\ warned.running = AnLonger(anChat.running, AnNew(st, "running"))
  <2>1. CASE new = {}
    BY <1>1, <1>2, <2>1 DEF AnLonger
  <2>2. CASE new # {} /\ st.state = "warmup"
    <3>1. Append(anChat.warmup, Max(new)) \in Seq(Nat)
      BY <1>1, <1>2, <2>2
    <3>2. warned = [anChat EXCEPT !.warmup = Append(@, Max(new))]
      BY <2>2
    <3> HIDE DEF warned
    <3>3. warned \in AnKinds /\ warned.warmup = Append(anChat.warmup, Max(new)) /\ warned.running = anChat.running
          /\ warned.go = anChat.go /\ warned.incoming = anChat.incoming /\ warned.over = anChat.over
      BY <1>1, <3>1, <3>2
    <3> QED BY <1>2, <2>2, <3>3 DEF AnLonger
  <2>3. CASE new # {} /\ st.state = "running"
    <3>1. Append(anChat.running, Max(new)) \in Seq(Nat)
      BY <1>1, <1>2, <2>3
    <3>2. warned = [anChat EXCEPT !.running = Append(@, Max(new))]
      BY <2>3
    <3> HIDE DEF warned
    <3>3. warned \in AnKinds /\ warned.running = Append(anChat.running, Max(new)) /\ warned.warmup = anChat.warmup
          /\ warned.go = anChat.go /\ warned.incoming = anChat.incoming /\ warned.over = anChat.over
      BY <1>1, <3>1, <3>2
    <3> QED BY <1>2, <2>3, <3>3 DEF AnLonger
  <2> QED BY <1>2, <2>1, <2>2, <2>3
<1> HIDE DEF warned
<1>6. Says(st) = [warmup |-> warned.warmup, running |-> warned.running, go |-> warned.go + One(Goes(st, said)),
                  incoming |-> warned.incoming + One(Fires(st)), over |-> warned.over + One(AnEnds(st))]
  BY <1>3, <1>5
<1>7. /\ warned.go + One(Goes(st, said)) \in Nat /\ warned.incoming + One(Fires(st)) \in Nat /\ warned.over + One(AnEnds(st)) \in Nat
      /\ warned.warmup \in Seq(Nat) /\ warned.running \in Seq(Nat)
  BY <1>4, <1>5, SMTT(30)
<1>8. Says(st) \in AnKinds
  BY <1>6, <1>7
<1> QED BY <1>5, <1>6, <1>8 DEF said

-----------------------------------------------------------------------------
\* What is said of new thresholds is below what was said, and above what is not.
LEMMA AnWarned ==
  ASSUME AnTypes, NEW st \in AnStatuses, NEW state \in {"warmup", "running"}, NEW said \in Seq(Nat), NEW known, known = Known(st)[state],
         Falls(said), AnBelow(AnThresholds[state] \ known, said), known # {} => said # <<>>
  PROVE  LET more == AnLonger(said, AnNew(st, state)) IN
         /\ Falls(more) /\ AnBelow(AnThresholds[state] \ (known \cup AnNew(st, state)), more)
         /\ known \cup AnNew(st, state) # {} => more # <<>>
<1> DEFINE new == AnNew(st, state)
<1>1. CASE new = {}
  BY <1>1 DEF AnLonger, AnBelow
<1>2. CASE new # {}
  <2>1. /\ new \subseteq AnThresholds[state] \ known /\ new \subseteq Nat /\ IsFiniteSet(new)
        /\ \A t \in new : st.left <= t
        /\ st.state = state /\ (state = "warmup" => st.left > 0)
        /\ \A t \in AnThresholds[state] : st.left <= t => t \in new \/ t \in known
    BY <1>2, CrossedIs
  <2> HIDE DEF new
  <2>2. PICK m \in Nat : m = Max(new) /\ m \in new /\ \A t \in new : m >= t
    <3>1. new \in SUBSET Int
      BY <2>1
    <3> QED BY <1>2, <2>1, <3>1, LargestOf
  <2>3. \A i \in DOMAIN said : m < said[i]
    BY <2>1, <2>2 DEF AnBelow
  <2>4. Append(said, m) \in Seq(Nat) /\ Falls(Append(said, m)) /\ Append(said, m) # <<>>
    BY <2>3, FallsOn
  <2>5. ASSUME NEW t \in AnThresholds[state] \ (known \cup new), NEW i \in DOMAIN Append(said, m) PROVE t < Append(said, m)[i]
    <3>1. t < m /\ t \in Nat
      <4>1. ~(st.left <= t) /\ st.left <= m
        BY <2>1, <2>2, <2>5
      <4> QED BY <2>5, <4>1, ThresholdsAreSeconds DEF AnStatuses
    <3>2. CASE i \in DOMAIN said
      <4>1. Append(said, m)[i] = said[i]
        BY <3>2, AppendProperties
      <4> QED BY <2>5, <3>2, <4>1 DEF AnBelow
    <3>3. CASE i \notin DOMAIN said
      <4>1. Append(said, m)[i] = m
        BY <2>5, <3>3, AppendProperties
      <4> QED BY <3>1, <4>1
    <3> QED BY <3>2, <3>3
  <2>6. AnLonger(said, new) = Append(said, m)
    BY <1>2, <2>2 DEF AnLonger
  <2> QED BY <2>4, <2>5, <2>6 DEF AnBelow, new
<1> QED BY <1>1, <1>2

\* What holds when a poll of the present begins, in terms of what it takes as said.
AnReady ==
  LET said == Known(anCycle) IN
  /\ Falls(anChat.warmup) /\ Falls(anChat.running)
  /\ AnBelow(AnThresholds["warmup"] \ said.warmup, anChat.warmup) /\ (said.warmup # {} => anChat.warmup # <<>>)
  /\ anCycle.state = "running" =>
       AnBelow(AnThresholds["running"] \ said.running, anChat.running) /\ (said.running # {} => anChat.running # <<>>)
  /\ anCycle.state = "warmup" => anChat.running = <<>> /\ said.running = {} /\ anChat.incoming = 0
  /\ anChat.go = One(said.go) /\ (anCycle.state = "running" => said.go \/ announcer.prev = "warmup")
  /\ anChat.incoming <= 1
  /\ anCycle.state = "running" =>
       /\ announcer.index # anCycle.index => anChat.incoming = 0
       /\ ~anGap => anChat.incoming = One(anCycle.index > 0 /\ announcer.index = anCycle.index)
       /\ announcer.index \in Nat /\ announcer.index <= anCycle.index
  /\ anChat.over = One(anCycle.state = "game_over" /\ announcer.prev = "game_over")
  /\ anCycle.state = "game_over" => announcer.prev \in {"warmup", "running", "game_over"}

LEMMA FirstPollReady ==
  ASSUME AnInv, anPolled.round < anCycle.round, anCycle.state = "warmup", anPolled.state # "warmup"
  PROVE  AnReady
<1>1. anChat = [warmup |-> <<>>, running |-> <<>>, go |-> 0, incoming |-> 0, over |-> 0]
  BY DEF AnInv, AnRoundsFit, Silent
<1>2. Begins(anCycle)
  BY DEF AnInv, AnRoundsFit, Begins
<1>3. Known(anCycle).warmup = {} /\ Known(anCycle).running = {} /\ Known(anCycle).go = FALSE
  BY <1>2, KnownFields DEF AnInv, AnTypes
<1> QED BY <1>1, <1>3 DEF AnReady, Falls, AnBelow, One

LEMMA LaterPollReady == ASSUME AnInv, AnGood PROVE AnReady
<1>1. AnTypes /\ AnRoundsFit /\ AnFollows /\ AnWarns /\ AnTells
  BY DEF AnInv
<1>2. ~Begins(anCycle)
  BY <1>1 DEF AnFollows, Begins
<1>3. /\ Known(anCycle).warmup = announcer.warmup /\ Known(anCycle).go = announcer.go
      /\ Known(anCycle).running = IF anCycle.index # announcer.index THEN {} ELSE announcer.running
  BY <1>1, <1>2, KnownFields DEF AnTypes
<1>4. /\ Falls(anChat.warmup) /\ Falls(anChat.running)
      /\ AnBelow(AnThresholds["warmup"] \ Known(anCycle).warmup, anChat.warmup)
      /\ Known(anCycle).warmup # {} => anChat.warmup # <<>>
  BY <1>1, <1>3 DEF AnWarns
<1>5. anCycle.state = "running" =>
        /\ AnBelow(AnThresholds["running"] \ Known(anCycle).running, anChat.running)
        /\ Known(anCycle).running # {} => anChat.running # <<>>
  BY <1>1, <1>3 DEF AnWarns, AnFollows, AnBelow
<1>6. anCycle.state = "warmup" => anChat.running = <<>> /\ Known(anCycle).running = {} /\ anChat.incoming = 0
  BY <1>1, <1>3 DEF AnWarns, AnTells
<1>7. /\ anChat.go = One(Known(anCycle).go) /\ anChat.incoming <= 1
      /\ anCycle.state = "running" => Known(anCycle).go \/ announcer.prev = "warmup"
  BY <1>1, <1>3 DEF AnTells, AnFollows, AnTypes, AnStatuses
<1>8. anCycle.state = "running" =>
        /\ announcer.index # anCycle.index => anChat.incoming = 0
        /\ ~anGap => anChat.incoming = One(anCycle.index > 0 /\ announcer.index = anCycle.index)
        /\ announcer.index \in Nat /\ announcer.index <= anCycle.index
  BY <1>1 DEF AnTells, AnFollows, AnTypes, AnStatuses
<1>9. /\ anChat.over = One(anCycle.state = "game_over" /\ announcer.prev = "game_over")
      /\ anCycle.state = "game_over" => announcer.prev \in {"warmup", "running", "game_over"}
  BY <1>1 DEF AnTells, AnFollows, AnTypes, AnStatuses
<1> QED BY <1>4, <1>5, <1>6, <1>7, <1>8, <1>9 DEF AnReady

LEMMA PresentIsTold ==
  ASSUME AnInv, AnReady, announcer' = Remembers(anCycle), anChat' = Says(anCycle), anPolled' = anCycle, anCycle' = anCycle,
         anGap' = (anGap \/ (Comes(anCycle) /\ ~anCycle.fired))
  PROVE  AnFollows' /\ AnWarns' /\ AnTells'
<1> DEFINE said == Known(anCycle)
<1>1. AnTypes /\ anCycle \in AnStatuses
  BY DEF AnInv, AnTypes
<1>2. /\ announcer'.prev = anCycle.state /\ announcer'.index = anCycle.index
      /\ announcer'.warmup = said.warmup \cup AnNew(anCycle, "warmup")
      /\ announcer'.running = said.running \cup AnNew(anCycle, "running")
      /\ announcer'.go = (said.go \/ Goes(anCycle, said))
  BY <1>1, RememberedFields
<1>3. /\ anChat'.warmup = AnLonger(anChat.warmup, AnNew(anCycle, "warmup"))
      /\ anChat'.running = AnLonger(anChat.running, AnNew(anCycle, "running"))
      /\ anChat'.go = anChat.go + One(Goes(anCycle, said))
      /\ anChat'.incoming = anChat.incoming + One(Fires(anCycle))
      /\ anChat'.over = anChat.over + One(AnEnds(anCycle))
  BY <1>1, SaidFields
<1>4. AnFollows'
  BY <1>1, <1>2 DEF AnFollows, AnStatuses
<1>5. /\ Falls(anChat'.warmup) /\ AnBelow(AnThresholds["warmup"] \ announcer'.warmup, anChat'.warmup)
      /\ announcer'.warmup # {} => anChat'.warmup # <<>>
  <2>1. anChat.warmup \in Seq(Nat)
    BY <1>1 DEF AnTypes
  <2>2. said.warmup = said["warmup"]
    OBVIOUS
  <2>3. Falls(anChat.warmup) /\ AnBelow(AnThresholds["warmup"] \ said.warmup, anChat.warmup) /\ (said.warmup # {} => anChat.warmup # <<>>)
    BY DEF AnReady
  <2> HIDE DEF said
  <2> QED BY <1>1, <1>2, <1>3, <2>1, <2>2, <2>3, AnWarned DEF said
<1>6. anCycle.state = "running" =>
        /\ Falls(anChat'.running) /\ AnBelow(AnThresholds["running"] \ announcer'.running, anChat'.running)
        /\ announcer'.running # {} => anChat'.running # <<>>
  <2> SUFFICES ASSUME anCycle.state = "running"
               PROVE  /\ Falls(anChat'.running) /\ AnBelow(AnThresholds["running"] \ announcer'.running, anChat'.running)
                      /\ announcer'.running # {} => anChat'.running # <<>>
    OBVIOUS
  <2>1. anChat.running \in Seq(Nat)
    BY <1>1 DEF AnTypes
  <2>2. said.running = said["running"]
    OBVIOUS
  <2>3. Falls(anChat.running) /\ AnBelow(AnThresholds["running"] \ said.running, anChat.running) /\ (said.running # {} => anChat.running # <<>>)
    BY DEF AnReady
  <2> HIDE DEF said
  <2> QED BY <1>1, <1>2, <1>3, <2>1, <2>2, <2>3, AnWarned DEF said
<1>7. anCycle.state # "running" => anChat'.running = anChat.running /\ announcer'.running = said.running
  BY <1>2, <1>3 DEF AnNew, AnLonger
<1>8. Falls(anChat'.running)
  <2>1. Falls(anChat.running)
    BY DEF AnReady
  <2> QED BY <1>6, <1>7, <2>1
<1>9. anCycle.state = "warmup" => anChat'.running = <<>> /\ announcer'.running = {}
  <2>1. anCycle.state = "warmup" => anChat.running = <<>> /\ said.running = {}
    BY DEF AnReady
  <2> QED BY <1>7, <2>1
<1>10. /\ anCycle.state = "warmup" /\ anCycle.left > 0 => \A t \in AnThresholds["warmup"] : anCycle.left <= t => t \in announcer'.warmup
       /\ anCycle.state = "running" => \A t \in AnThresholds["running"] : anCycle.left <= t => t \in announcer'.running
  BY <1>1, <1>2, CrossedIs
<1>11. AnWarns'
  BY <1>5, <1>6, <1>8, <1>9, <1>10 DEF AnWarns, AnSeen
<1>12. anChat'.go = One(announcer'.go) /\ (anCycle.state = "running" => announcer'.go)
  <2>1. anChat.go = One(said.go) /\ (anCycle.state = "running" => said.go \/ announcer.prev = "warmup") /\ said.go \in BOOLEAN
    BY <1>1, KnownFields DEF AnReady
  <2>2. Goes(anCycle, said) => ~said.go
    BY DEF Goes
  <2>3. anCycle.state = "running" /\ ~said.go => Goes(anCycle, said)
    BY <2>1 DEF Goes
  <2> HIDE DEF said
  <2>4. CASE Goes(anCycle, said)
    <3>1. One(Goes(anCycle, said)) = 1 /\ One(said.go) = 0
      BY <2>2, <2>4 DEF One
    <3>2. announcer'.go = TRUE
      BY <1>2, <2>4
    <3>3. anChat'.go = 1 /\ One(announcer'.go) = 1
      BY <1>3, <2>1, <3>1, <3>2 DEF One
    <3> QED BY <3>2, <3>3
  <2>5. CASE ~Goes(anCycle, said)
    BY <1>2, <1>3, <2>1, <2>3, <2>5 DEF One
  <2> QED BY <2>4, <2>5
<1>13. /\ anChat'.incoming <= 1 /\ (anCycle.state = "warmup" => anChat'.incoming = 0)
       /\ anCycle.state = "running" /\ ~anGap' => anChat'.incoming = One(anCycle.index > 0 /\ anCycle.index = anCycle.index)
  <2>1. anChat.incoming \in Nat /\ anCycle.index \in Nat /\ announcer.index \in Int /\ anCycle.fired \in BOOLEAN
    BY <1>1 DEF AnTypes, AnStatuses
  <2>2. CASE anCycle.state = "running"
    <3>1. /\ announcer.index # anCycle.index => anChat.incoming = 0
          /\ ~anGap => anChat.incoming = One(anCycle.index > 0 /\ announcer.index = anCycle.index)
          /\ announcer.index \in Nat /\ announcer.index <= anCycle.index
          /\ anChat.incoming <= 1
      BY <2>2 DEF AnReady
    <3>2. Comes(anCycle) <=> announcer.index # anCycle.index
      BY <2>1, <2>2, <3>1 DEF Comes, NoIndex
    <3>3. CASE announcer.index = anCycle.index
      <4>1. anChat'.incoming = anChat.incoming
        BY <1>3, <2>1, <3>2, <3>3 DEF Fires, One
      <4>2. ~anGap' => ~anGap
        OBVIOUS
      <4> QED BY <2>2, <3>1, <3>3, <4>1, <4>2
    <3>4. CASE announcer.index # anCycle.index
      <4>1. anChat'.incoming = One(anCycle.fired) /\ anCycle.index > 0
        BY <1>3, <2>1, <3>1, <3>2, <3>4 DEF Fires, One
      <4>2. ~anGap' => anCycle.fired
        BY <3>2, <3>4
      <4> QED BY <2>1, <2>2, <4>1, <4>2 DEF One
    <3> QED BY <3>3, <3>4
  <2>3. CASE anCycle.state # "running"
    <3>1. anChat'.incoming = anChat.incoming
      BY <1>3, <2>1, <2>3 DEF Fires, Comes, One
    <3>2. anChat.incoming <= 1 /\ (anCycle.state = "warmup" => anChat.incoming = 0)
      BY DEF AnReady
    <3> QED BY <2>1, <2>3, <3>1, <3>2
  <2> QED BY <2>2, <2>3
<1>14. anChat'.over = One(anCycle.state = "game_over")
  <2>1. /\ anChat.over = One(anCycle.state = "game_over" /\ announcer.prev = "game_over")
        /\ anCycle.state = "game_over" => announcer.prev \in {"warmup", "running", "game_over"}
    BY DEF AnReady
  <2> QED BY <1>3, <2>1 DEF One, AnEnds
<1>15. AnTells'
  BY <1>12, <1>13, <1>14 DEF AnTells
<1> QED BY <1>4, <1>11, <1>15

-----------------------------------------------------------------------------
LEMMA StatusIs ==
  ASSUME NEW n \in Nat, NEW state \in {"paused", "warmup", "running", "game_over"}, NEW i \in Nat, NEW t \in Int, NEW f \in BOOLEAN
  PROVE  [round |-> n, state |-> state, index |-> i, left |-> t, fired |-> f] \in AnStatuses
BY DEF AnStatuses

LEMMA AnnouncerStarts == ASSUME AnInit PROVE AnInv
<1>1. /\ anCycle = [round |-> 0, state |-> "paused", index |-> 0, left |-> 0, fired |-> FALSE] /\ anBridge = anCycle /\ anPolled = anCycle
      /\ announcer = [prev |-> "none", index |-> -1, warmup |-> {}, running |-> {}, go |-> FALSE]
      /\ anChat = [warmup |-> <<>>, running |-> <<>>, go |-> 0, incoming |-> 0, over |-> 0] /\ anSlip = TRUE /\ anGap = FALSE
  BY DEF AnInit, NewAnnouncer, NoIndex, Silent
<1>2. anCycle \in AnStatuses
  <2>1. 0 \in Nat /\ 0 \in Int /\ FALSE \in BOOLEAN
    OBVIOUS
  <2> QED BY <1>1, <2>1, StatusIs, Zenon
<1>3. AnTypes
  <2>1. anSlip \in BOOLEAN /\ anGap \in BOOLEAN
    BY <1>1, Zenon
  <2> QED BY <1>1, <1>2, <2>1 DEF AnTypes
<1>4. AnRoundsFit /\ ~AnGood
  BY <1>1 DEF AnRoundsFit, AnGood
<1> QED BY <1>3, <1>4 DEF AnInv

\* The cycle's own steps: what was told stays told.
LEMMA CycleKeeps == ASSUME AnInv, CycleMoves PROVE AnInv'
<1>1. /\ AnTypes /\ AnRoundsFit /\ (AnGood => AnFollows /\ AnWarns /\ AnTells)
      /\ UNCHANGED <<anBridge, announcer, anPolled, anSlip, anFaults>>
  BY DEF AnInv, CycleMoves
<1>2. /\ anCycle \in AnStatuses /\ anBridge \in AnStatuses /\ anPolled \in AnStatuses
      /\ anChat \in [warmup : Seq(Nat), running : Seq(Nat), go : Nat, incoming : Nat, over : Nat]
  BY <1>1 DEF AnTypes
<1>3. CASE CycleBegins
  <2>1. /\ anCycle' = [round |-> anCycle.round + 1, state |-> "warmup", index |-> 0, left |-> AnLength["warmup"], fired |-> FALSE]
        /\ anChat' = [warmup |-> <<>>, running |-> <<>>, go |-> 0, incoming |-> 0, over |-> 0] /\ anGap' = FALSE
    BY <1>3 DEF CycleBegins, Silent
  <2>2. anCycle' \in AnStatuses /\ anCycle'.round = anCycle.round + 1 /\ anCycle'.index = 0
    <3>1. AnLength["warmup"] \in Int /\ anCycle.round \in Nat
      BY <1>2, ThresholdsAreSeconds DEF AnStatuses
    <3>2. anCycle.round + 1 \in Nat
      BY <3>1
    <3>3. anCycle' \in AnStatuses
      <4>1. 0 \in Nat /\ FALSE \in BOOLEAN
        OBVIOUS
      <4> QED BY <2>1, <3>1, <3>2, <4>1, StatusIs, Zenon
    <3> QED BY <2>1, <3>3
  <2>3. AnTypes'
    <3>1. anGap' \in BOOLEAN
      BY <2>1, Zenon
    <3>2. anChat' \in [warmup : Seq(Nat), running : Seq(Nat), go : Nat, incoming : Nat, over : Nat]
      BY <2>1
    <3> QED BY <1>1, <2>2, <3>1, <3>2 DEF AnTypes
  <2>4. anPolled.round <= anCycle.round /\ anBridge.round <= anCycle.round /\ anPolled.round \in Nat /\ anBridge.round \in Nat /\ anCycle.round \in Nat
    BY <1>1, <1>2 DEF AnRoundsFit, AnStatuses
  <2>5. AnRoundsFit'
    BY <1>1, <2>1, <2>2, <2>4 DEF AnRoundsFit, Silent
  <2>6. ~AnGood'
    BY <1>1, <2>2, <2>4 DEF AnGood
  <2> QED BY <2>3, <2>5, <2>6 DEF AnInv
<1>4. CASE CycleTicks
  <2>1. /\ anCycle' \in AnStatuses /\ anCycle'.round = anCycle.round /\ anCycle'.state = anCycle.state
        /\ anCycle'.index = anCycle.index /\ anChat' = anChat /\ anGap' = anGap
    <3>1. anCycle' = [anCycle EXCEPT !.left = anCycle.left - 1] /\ anChat' = anChat /\ anGap' = anGap
      BY <1>4 DEF CycleTicks
    <3>2. anCycle' = [round |-> anCycle.round, state |-> anCycle.state, index |-> anCycle.index, left |-> anCycle.left - 1, fired |-> anCycle.fired]
      BY <1>2, <3>1 DEF AnStatuses
    <3>3. /\ anCycle.round \in Nat /\ anCycle.state \in {"paused", "warmup", "running", "game_over"}
          /\ anCycle.index \in Nat /\ anCycle.left - 1 \in Int /\ anCycle.fired \in BOOLEAN
      BY <1>2 DEF AnStatuses
    <3>4. anCycle' \in AnStatuses
      BY <3>2, <3>3, StatusIs
    <3> QED BY <3>1, <3>2, <3>4
  <2>2. AnTypes'
    BY <1>1, <2>1 DEF AnTypes
  <2>3. AnRoundsFit'
    BY <1>1, <2>1 DEF AnRoundsFit
  <2>4. AnGood' => AnGood
    BY <1>1, <2>1 DEF AnGood
  <2>5. ASSUME AnGood' PROVE AnFollows' /\ AnWarns' /\ AnTells'
    <3>1. AnFollows'
      BY <1>1, <2>1, <2>4, <2>5 DEF AnFollows
    <3>2. AnWarns'
      BY <1>1, <2>1, <2>4, <2>5 DEF AnWarns, AnSeen
    <3>3. AnTells'
      BY <1>1, <2>1, <2>4, <2>5 DEF AnTells
    <3> QED BY <3>1, <3>2, <3>3
  <2> QED BY <2>2, <2>3, <2>5 DEF AnInv
<1>5. CASE CycleStarts
  <2>1. /\ anCycle' \in AnStatuses /\ anCycle'.round = anCycle.round /\ anCycle'.state = "running" /\ anCycle.state = "warmup"
        /\ anCycle'.index = anCycle.index /\ anCycle.index = 0 /\ anChat' = anChat /\ anGap' = anGap
    BY <1>1, <1>2, <1>5 DEF CycleStarts, AnStatuses, AnRoundsFit
  <2>2. AnTypes'
    BY <1>1, <2>1 DEF AnTypes
  <2>3. AnRoundsFit'
    BY <1>1, <2>1 DEF AnRoundsFit
  <2>4. AnGood' => AnGood
    BY <1>1, <2>1 DEF AnGood
  <2>5. ASSUME AnGood' PROVE AnFollows' /\ AnWarns' /\ AnTells'
    <3>1. anPolled.state = "warmup" /\ anPolled.index = 0
      BY <1>1, <1>2, <2>1, <2>4, <2>5 DEF AnFollows, AnRoundsFit
    <3>2. AnFollows'
      BY <1>1, <2>1, <2>4, <2>5, <3>1 DEF AnFollows
    <3>3. anChat.running = <<>> /\ announcer.running = {}
      BY <1>1, <2>1, <2>4, <2>5 DEF AnWarns
    <3>4. AnBelow(AnThresholds["running"] \ announcer.running, anChat.running)
      BY <3>3 DEF AnBelow
    <3>5. AnWarns'
      BY <1>1, <2>1, <2>4, <2>5, <3>1, <3>3, <3>4 DEF AnWarns, AnSeen
    <3>6. AnTells'
      BY <1>1, <2>1, <2>4, <2>5, <3>1 DEF AnTells, One
    <3> QED BY <3>2, <3>5, <3>6
  <2> QED BY <2>2, <2>3, <2>5 DEF AnInv
<1>6. CASE CycleAttacks
  <2>1. /\ anCycle' \in AnStatuses /\ anCycle'.round = anCycle.round /\ anCycle'.state = "running" /\ anCycle.state = "running"
        /\ anCycle'.index = anCycle.index + 1 /\ anGap' = FALSE
    <3>1. AnLength["running"] \in Int /\ anCycle' = [anCycle EXCEPT !.index = @ + 1, !.left = AnLength["running"]] /\ anGap' = FALSE
      BY <1>6, ThresholdsAreSeconds DEF CycleAttacks
    <3>2. anCycle.state = "running"
      BY <1>6 DEF CycleAttacks
    <3>3. anCycle' = [round |-> anCycle.round, state |-> "running", index |-> anCycle.index + 1, left |-> AnLength["running"], fired |-> anCycle.fired]
      BY <1>2, <3>1, <3>2 DEF AnStatuses
    <3>4. anCycle.round \in Nat /\ anCycle.index + 1 \in Nat /\ anCycle.fired \in BOOLEAN
      BY <1>2, SMTT(30) DEF AnStatuses
    <3>5. anCycle' \in AnStatuses
      BY <3>3, <3>4, ThresholdsAreSeconds, StatusIs
    <3> QED BY <3>1, <3>2, <3>3, <3>5
  <2>2. /\ anChat' \in [warmup : Seq(Nat), running : Seq(Nat), go : Nat, incoming : Nat, over : Nat]
        /\ anChat'.warmup = anChat.warmup /\ anChat'.running = <<>> /\ anChat'.go = anChat.go
        /\ anChat'.incoming = 0 /\ anChat'.over = anChat.over
    <3>1. anChat' = [anChat EXCEPT !.running = <<>>, !.incoming = 0]
      BY <1>6 DEF CycleAttacks
    <3>2. anChat' = [warmup |-> anChat.warmup, running |-> <<>>, go |-> anChat.go, incoming |-> 0, over |-> anChat.over]
      BY <1>2, <3>1
    <3> QED BY <1>2, <3>2
  <2>3. AnTypes'
    BY <1>1, <2>1, <2>2 DEF AnTypes
  <2>4. anPolled.round < anCycle.round => anChat' = Silent
    <3>1. anChat' = [anChat EXCEPT !.running = <<>>, !.incoming = 0]
      BY <1>6 DEF CycleAttacks
    <3>2. anPolled.round < anCycle.round => anChat = Silent
      BY <1>1 DEF AnRoundsFit
    <3> SUFFICES ASSUME anPolled.round < anCycle.round PROVE anChat' = Silent
      OBVIOUS
    <3>3. anChat = [warmup |-> <<>>, running |-> <<>>, go |-> 0, incoming |-> 0, over |-> 0]
      BY <3>2 DEF Silent
    <3>4. anChat' = [warmup |-> anChat.warmup, running |-> <<>>, go |-> anChat.go, incoming |-> 0, over |-> anChat.over]
      BY <1>2, <3>1
    <3> QED BY <3>3, <3>4 DEF Silent
  <2>5. AnRoundsFit'
    BY <1>1, <2>1, <2>4 DEF AnRoundsFit
  <2>6. AnGood' => AnGood
    BY <1>1, <2>1 DEF AnGood
  <2>7. ASSUME AnGood' PROVE AnFollows' /\ AnWarns' /\ AnTells'
    <3>1. anPolled.index \in Nat /\ anCycle.index \in Nat /\ anPolled.index <= anCycle.index
      BY <1>1, <1>2, <2>1, <2>6, <2>7 DEF AnFollows, AnStatuses
    <3>2. anPolled.index # anCycle'.index /\ anPolled.index <= anCycle'.index
      BY <2>1, <3>1
    <3>3. AnFollows'
      BY <1>1, <2>1, <2>6, <2>7, <3>2 DEF AnFollows
    <3>4. Falls(anChat'.running)
      BY <2>2 DEF Falls
    <3>5. AnWarns'
      BY <1>1, <2>1, <2>2, <2>6, <2>7, <3>2, <3>4 DEF AnWarns, AnSeen
    <3>6. AnTells'
      BY <1>1, <2>1, <2>2, <2>6, <2>7, <3>2 DEF AnTells, One
    <3> QED BY <3>3, <3>5, <3>6
  <2> QED BY <2>3, <2>5, <2>7 DEF AnInv
<1>7. CASE CycleStops
  <2>1. /\ anCycle' \in AnStatuses /\ anCycle'.round = anCycle.round /\ anCycle'.state \in {"game_over", "paused"}
        /\ anCycle.state \in {"warmup", "running"} /\ anChat' = anChat /\ anGap' = anGap
    <3>1. anCycle.state \in {"warmup", "running"} /\ anChat' = anChat /\ anGap' = anGap
      BY <1>7 DEF CycleStops
    <3>2. \/ anCycle' = [anCycle EXCEPT !.state = "game_over", !.left = 0]
          \/ anCycle' = [anCycle EXCEPT !.state = "paused", !.left = 0, !.index = 0, !.fired = FALSE]
      BY <1>7 DEF CycleStops
    <3>3. \/ anCycle' = [round |-> anCycle.round, state |-> "game_over", index |-> anCycle.index, left |-> 0, fired |-> anCycle.fired]
          \/ anCycle' = [round |-> anCycle.round, state |-> "paused", index |-> 0, left |-> 0, fired |-> FALSE]
      BY <1>2, <3>2 DEF AnStatuses
    <3>4. anCycle.round \in Nat /\ anCycle.index \in Nat /\ anCycle.fired \in BOOLEAN
      BY <1>2 DEF AnStatuses
    <3>5. anCycle' \in AnStatuses
      <4>1. 0 \in Nat /\ 0 \in Int /\ FALSE \in BOOLEAN
        OBVIOUS
      <4> QED BY <3>3, <3>4, <4>1, StatusIs, Zenon
    <3> QED BY <3>1, <3>3, <3>5
  <2>2. AnTypes'
    BY <1>1, <2>1 DEF AnTypes
  <2>3. AnRoundsFit'
    BY <1>1, <2>1 DEF AnRoundsFit
  <2>4. AnGood' => AnGood
    BY <1>1, <2>1 DEF AnGood
  <2>5. ASSUME AnGood' PROVE AnFollows' /\ AnWarns' /\ AnTells'
    <3>1. AnFollows'
      BY <1>1, <2>1, <2>4, <2>5 DEF AnFollows
    <3>2. AnWarns'
      BY <1>1, <2>1, <2>4, <2>5 DEF AnWarns, AnSeen
    <3>3. AnTells'
      BY <1>1, <2>1, <2>4, <2>5 DEF AnTells
    <3> QED BY <3>1, <3>2, <3>3
  <2> QED BY <2>2, <2>3, <2>5 DEF AnInv
<1>8. CASE CycleFires
  <2>1. /\ anCycle' \in AnStatuses /\ anCycle'.round = anCycle.round /\ anCycle'.state = anCycle.state
        /\ anCycle'.index = anCycle.index /\ anCycle'.left = anCycle.left /\ anChat' = anChat /\ anGap' = anGap
    <3>1. anCycle' = [anCycle EXCEPT !.fired = TRUE] /\ anChat' = anChat /\ anGap' = anGap
      BY <1>8 DEF CycleFires
    <3> QED BY <1>2, <3>1 DEF AnStatuses
  <2>2. AnTypes'
    BY <1>1, <2>1 DEF AnTypes
  <2>3. AnRoundsFit'
    BY <1>1, <2>1 DEF AnRoundsFit
  <2>4. AnGood' => AnGood
    BY <1>1, <2>1 DEF AnGood
  <2>5. ASSUME AnGood' PROVE AnFollows' /\ AnWarns' /\ AnTells'
    <3>1. AnFollows'
      BY <1>1, <2>1, <2>4, <2>5 DEF AnFollows
    <3>2. AnWarns'
      BY <1>1, <2>1, <2>4, <2>5 DEF AnWarns, AnSeen
    <3>3. AnTells'
      BY <1>1, <2>1, <2>4, <2>5 DEF AnTells
    <3> QED BY <3>1, <3>2, <3>3
  <2> QED BY <2>2, <2>3, <2>5 DEF AnInv
<1> QED BY <1>3, <1>4, <1>5, <1>6, <1>7, <1>8 DEF CycleMoves

\* A poll: of the present it tells what is new; of the past it tells nothing, or
\* slips.
LEMMA PollKeeps ==
  ASSUME AnInv, NEW st \in {anCycle, anBridge}, NEW lost \in BOOLEAN, AnPoll(st, lost)
  PROVE  AnInv'
<1>1. /\ AnTypes /\ AnRoundsFit /\ st \in AnStatuses /\ anCycle \in AnStatuses /\ anPolled \in AnStatuses
      /\ UNCHANGED <<anCycle, anBridge>>
  BY DEF AnInv, AnTypes, AnPoll
<1>2. PICK n \in Nat : n = Max({st.round, anPolled.round}) /\ n \in {st.round, anPolled.round} /\ n >= st.round /\ n >= anPolled.round
  <2>1. {st.round, anPolled.round} \in SUBSET Int /\ IsFiniteSet({st.round, anPolled.round}) /\ {st.round, anPolled.round} # {}
    <3>1. st.round \in Nat /\ anPolled.round \in Nat
      BY <1>1 DEF AnStatuses
    <3>2. IsFiniteSet({st.round, anPolled.round})
      <4>1. IsFiniteSet({st.round} \cup {anPolled.round})
        BY FS_Singleton, FS_AddElement
      <4>2. {st.round} \cup {anPolled.round} = {st.round, anPolled.round}
        OBVIOUS
      <4> QED BY <4>1, <4>2
    <3> QED BY <3>1, <3>2
  <2>2. Max({st.round, anPolled.round}) \in {st.round, anPolled.round}
        /\ \A y \in {st.round, anPolled.round} : Max({st.round, anPolled.round}) >= y
    BY <2>1, LargestOf
  <2> QED BY <1>1, <2>2 DEF AnStatuses
<1>3. anPolled' = [st EXCEPT !.round = n]
  BY <1>2 DEF AnPoll
<1>4. /\ anPolled' \in AnStatuses /\ anPolled'.round = n /\ anPolled'.state = st.state /\ anPolled'.index = st.index
  BY <1>1, <1>3 DEF AnStatuses
<1>5. AnTypes'
  <2>1. announcer' \in [prev : {"none", "paused", "warmup", "running", "game_over"}, index : Int,
                        warmup : SUBSET AnThresholds["warmup"], running : SUBSET AnThresholds["running"], go : BOOLEAN]
    BY <1>1, RememberedFields DEF AnPoll
  <2>2. anChat' \in [warmup : Seq(Nat), running : Seq(Nat), go : Nat, incoming : Nat, over : Nat]
    BY <1>1, SaidFields DEF AnPoll, AnTypes
  <2>3. anSlip' \in BOOLEAN /\ anGap' \in BOOLEAN
    <3>1. anSlip' \in BOOLEAN
      BY <1>1 DEF AnPoll, AnTypes
    <3>2. anGap' \in BOOLEAN
      BY <1>1 DEF AnPoll, AnTypes, Comes
    <3> QED BY <3>1, <3>2
  <2> QED BY <1>1, <1>4, <2>1, <2>2, <2>3 DEF AnTypes
<1>6. AnRoundsFit'
  <2>1. st.round <= anCycle.round /\ anPolled.round <= anCycle.round /\ n <= anCycle.round
    BY <1>1, <1>2 DEF AnRoundsFit, AnStatuses
  <2>2. announcer'.prev = st.state
    BY <1>1, RememberedFields DEF AnPoll
  <2>3. anPolled'.round < anCycle.round => anChat' = Silent
    <3> SUFFICES ASSUME n < anCycle.round PROVE anChat' = Silent
      BY <1>4
    <3>1. st.round < anCycle.round /\ anPolled.round < anCycle.round
      BY <1>1, <1>2 DEF AnStatuses
    <3>2. st.round # anCycle.round
      BY <1>1, <3>1 DEF AnStatuses
    <3> QED BY <1>1, <3>1, <3>2 DEF AnPoll, AnRoundsFit
  <2>4. st.state = "warmup" => st.index = 0
    BY <1>1 DEF AnRoundsFit
  <2> QED BY <1>1, <1>4, <2>1, <2>2, <2>3, <2>4 DEF AnRoundsFit
<1>7. ASSUME AnGood' PROVE AnFollows' /\ AnWarns' /\ AnTells'
  <2>1. st = anCycle /\ ~lost /\ (st.round > anPolled.round => st.state = "warmup" /\ anPolled.state # "warmup")
        /\ (~(st.round > anPolled.round) => ~anSlip)
    BY <1>7 DEF AnGood, AnPoll
  <2>2. anPolled.round <= anCycle.round /\ anPolled.round \in Nat /\ anCycle.round \in Nat
    BY <1>1 DEF AnRoundsFit, AnStatuses
  <2>3. n = anCycle.round
    BY <1>2, <2>1, <2>2
  <2>4. anPolled' = anCycle
    BY <1>1, <1>3, <2>1, <2>3 DEF AnStatuses
  <2>5. AnReady
    <3>1. CASE anPolled.round < anCycle.round
      BY <2>1, <2>2, <3>1, FirstPollReady
    <3>2. CASE anPolled.round = anCycle.round
      BY <2>1, <2>2, <3>2, LaterPollReady DEF AnGood
    <3> QED BY <2>2, <3>1, <3>2
  <2>6. announcer' = Remembers(anCycle) /\ anChat' = Says(anCycle) /\ anGap' = (anGap \/ (Comes(anCycle) /\ ~anCycle.fired))
    BY <2>1 DEF AnPoll
  <2> QED BY <1>1, <2>4, <2>5, <2>6, PresentIsTold
<1> QED BY <1>5, <1>6, <1>7 DEF AnInv

LEMMA AnnouncerKeeps == ASSUME AnInv, [AnNext]_anVars PROVE AnInv'
<1>1. AnTypes /\ AnRoundsFit
  BY DEF AnInv
<1>2. CASE CycleMoves
  BY <1>2, CycleKeeps
<1>3. CASE StatusPushed
  <2>1. anBridge' = anCycle /\ UNCHANGED <<anCycle, announcer, anChat, anPolled, anSlip, anGap>>
    BY <1>3 DEF StatusPushed
  <2>2. AnTypes'
    BY <1>1, <2>1 DEF AnTypes
  <2>3. AnRoundsFit'
    BY <1>1, <2>1 DEF AnRoundsFit, AnTypes, AnStatuses
  <2>4. AnGood' => AnGood
    BY <2>1 DEF AnGood
  <2>5. AnGood => AnFollows' /\ AnWarns' /\ AnTells'
    BY <2>1 DEF AnInv, AnFollows, AnWarns, AnTells, AnSeen
  <2> QED BY <2>2, <2>3, <2>4, <2>5 DEF AnInv
<1>4. CASE PollCycle
  BY <1>4, PollKeeps DEF PollCycle
<1>5. CASE PollBridge
  BY <1>5, PollKeeps DEF PollBridge
<1>6. CASE SendsFail
  BY <1>6, PollKeeps DEF SendsFail
<1>7. CASE AnnouncerDies
  <2>1. /\ announcer' = [prev |-> "none", index |-> -1, warmup |-> {}, running |-> {}, go |-> FALSE]
        /\ anSlip' = TRUE /\ UNCHANGED <<anCycle, anBridge, anChat, anPolled, anGap>>
    BY <1>7 DEF AnnouncerDies, NewAnnouncer, NoIndex
  <2>2. AnTypes'
    BY <1>1, <2>1 DEF AnTypes
  <2>3. AnRoundsFit' /\ ~AnGood'
    BY <1>1, <2>1 DEF AnRoundsFit, AnGood
  <2> QED BY <2>2, <2>3 DEF AnInv
<1>8. CASE UNCHANGED anVars
  <2>1. UNCHANGED <<anCycle, anBridge, announcer, anChat, anPolled, anSlip, anGap>>
    BY <1>8 DEF anVars
  <2> QED BY <2>1 DEF AnInv, AnTypes, AnRoundsFit, AnGood, AnFollows, AnWarns, AnTells, AnSeen
<1> QED BY <1>2, <1>3, <1>4, <1>5, <1>6, <1>7, <1>8 DEF AnNext

LEMMA AnnouncerTold == ASSUME AnInv PROVE ChatTellsOnce
<1>1. AnTypes /\ AnRoundsFit
  BY DEF AnInv
<1>2. SaysOnce
  <2> SUFFICES ASSUME ~anSlip, anPolled.round = anCycle.round
               PROVE  /\ Falls(anChat.warmup) /\ Falls(anChat.running)
                      /\ anChat.go <= 1 /\ anChat.incoming <= 1 /\ anChat.over <= 1
    BY DEF SaysOnce
  <2>1. AnWarns /\ AnTells
    BY DEF AnInv, AnGood
  <2> QED BY <2>1 DEF AnWarns, AnTells, One
<1>3. SaysAll
  <2> SUFFICES ASSUME ~anSlip, anPolled = anCycle
               PROVE  /\ anCycle.state = "warmup" /\ anCycle.left > 0 /\ (\E t \in AnThresholds["warmup"] : anCycle.left <= t) =>
                           anChat.warmup # <<>>
                      /\ anCycle.state = "running" =>
                           anChat.go = 1 /\ ((\E t \in AnThresholds["running"] : anCycle.left <= t) => anChat.running # <<>>)
                      /\ anCycle.state = "running" /\ anCycle.index > 0 /\ ~anGap => anChat.incoming = 1
                      /\ anCycle.state = "game_over" => anChat.over = 1
    BY DEF SaysAll
  <2>1. AnWarns /\ AnTells
    BY DEF AnInv, AnGood
  <2>2. ASSUME anCycle.state = "warmup", anCycle.left > 0, NEW t \in AnThresholds["warmup"], anCycle.left <= t
        PROVE  anChat.warmup # <<>>
    BY <2>1, <2>2 DEF AnWarns, AnSeen
  <2>3. ASSUME anCycle.state = "running", NEW t \in AnThresholds["running"], anCycle.left <= t
        PROVE  anChat.running # <<>>
    BY <2>1, <2>3 DEF AnWarns, AnSeen
  <2>4. anCycle.state = "running" => anChat.go = 1
    BY <2>1 DEF AnTells, One
  <2>5. anCycle.state = "running" /\ anCycle.index > 0 /\ ~anGap => anChat.incoming = 1
    BY <2>1 DEF AnTells, One
  <2>6. anCycle.state = "game_over" => anChat.over = 1
    BY <2>1 DEF AnTells, One
  <2> QED BY <2>2, <2>3, <2>4, <2>5, <2>6
<1> QED BY <1>2, <1>3 DEF ChatTellsOnce

\* The chat hears each threshold, start, wave and end of a round once and misses
\* none, in a round the announcer was there for, but a wave the status of which it
\* read before the cycle had set last_fire (ChatTellsOnce).
THEOREM ChatAlwaysTellsOnce == AnSpec => []ChatTellsOnce
<1>1. AnInit => AnInv
  BY AnnouncerStarts
<1>2. AnInv /\ [AnNext]_anVars => AnInv'
  BY AnnouncerKeeps
<1>3. AnInv => ChatTellsOnce
  BY AnnouncerTold
<1> QED BY <1>1, <1>2, <1>3, PTL DEF AnSpec

-----------------------------------------------------------------------------
(* The wave scheduler                                                      *)

WsLevels == StartLevel .. MaxLevel
WsTypes ==
  /\ wsNow \in Nat /\ wsTicked \in Int /\ wsTicked <= wsNow
  /\ wsLevel \in WsLevels /\ wsNextLevel = Threshold(wsLevel)
  /\ wsAsked \subseteq WsSends
  /\ wsPending \in Seq(wsAsked) /\ wsDue \in Seq(wsAsked) /\ wsFired \in Seq(wsAsked \cup WsLevels)
  /\ wsAt \in {"sleep", "firing", "dead"} /\ (wsAt # "firing" => wsDue = <<>>)

\* The level that is due at a time.
DueAt(time, l) ==
  /\ l \in WsLevels
  /\ \A k \in StartLevel .. (l - 1) : Threshold(k) <= time
  /\ l = MaxLevel \/ time < Threshold(l)

\* Durations can be added up, from any level on.
SumsUp(f, a, b, d) == f = [l \in a .. b |-> d[l] + (IF l = a THEN 0 ELSE f[l - 1])]
LEMMA SumsThereAre ==
  ASSUME NEW a \in Nat, NEW b \in Nat, a <= b, NEW d, \A l \in a .. b : d[l] \in Nat
  PROVE  \E f : SumsUp(f, a, b, d)
<1> DEFINE Sums(f, n) == f = [l \in a .. (a + n) |-> d[l] + (IF l = a THEN 0 ELSE f[l - 1])]
           T == {n \in Nat : a + n <= b => \E f : Sums(f, n)}
<1>1. 0 \in T
  <2> DEFINE f == [l \in a .. a |-> d[l]]
  <2>1. \A l \in a .. (a + 0) : f[l] = d[l] + (IF l = a THEN 0 ELSE f[l - 1])
    OBVIOUS
  <2>2. f = [l \in a .. (a + 0) |-> d[l] + (IF l = a THEN 0 ELSE f[l - 1])]
    BY <2>1
  <2>3. Sums(f, 0)
    BY <2>1, <2>2
  <2> QED BY <2>3
<1>2. ASSUME NEW n \in Nat, n \in T PROVE n + 1 \in T
  <2> SUFFICES ASSUME a + (n + 1) <= b PROVE \E f : Sums(f, n + 1)
    OBVIOUS
  <2>1. PICK f : Sums(f, n)
    BY <1>2
  <2> DEFINE m == a + (n + 1)
             g == [l \in a .. m |-> IF l = m THEN d[m] + f[m - 1] ELSE f[l]]
  <2>2. ASSUME NEW l \in a .. m PROVE g[l] = d[l] + (IF l = a THEN 0 ELSE g[l - 1])
    <3>1. m \in Nat /\ m # a /\ m - 1 = a + n /\ m - 1 \in a .. m /\ m - 1 # m /\ m \in a .. b
      BY <2>1
    <3>2. CASE l = m
      <4>1. g[m] = d[m] + f[m - 1] /\ g[m - 1] = f[m - 1]
        BY <3>1
      <4> HIDE DEF g, m
      <4> QED BY <3>1, <3>2, <4>1
    <3>3. CASE l # m
      <4>1. l \in a .. (a + n) /\ (l # a => l - 1 \in a .. m /\ l - 1 # m)
        BY <3>3
      <4>2. g[l] = f[l] /\ (l # a => g[l - 1] = f[l - 1])
        BY <3>3, <4>1
      <4>3. f[l] = d[l] + (IF l = a THEN 0 ELSE f[l - 1])
        BY <2>1, <4>1
      <4> HIDE DEF g, m
      <4> QED BY <4>2, <4>3
    <3> QED BY <3>2, <3>3
  <2>3. g = [l \in a .. m |-> d[l] + (IF l = a THEN 0 ELSE g[l - 1])]
    BY <2>2
  <2>4. Sums(g, n + 1)
    BY <2>2, <2>3
  <2> HIDE DEF g, Sums
  <2> QED BY <2>4
<1>3. \A n \in Nat : n \in T
  <2> HIDE DEF T
  <2> QED BY <1>1, <1>2, ByInduction
<1>4. PICK n \in Nat : n = b - a /\ a + n = b /\ a + n <= b
  OBVIOUS
<1> QED BY <1>3, <1>4 DEF SumsUp

LEMMA SumsAreNat ==
  ASSUME NEW a \in Nat, NEW b \in Nat, NEW d, NEW f, \A l \in a .. b : d[l] \in Nat,
         \A l \in a .. b : f[l] = d[l] + (IF l = a THEN 0 ELSE f[l - 1])
  PROVE  \A l \in a .. b : f[l] \in Nat
<1> DEFINE T == {n \in Nat : a + n <= b => f[a + n] \in Nat}
<1>1. 0 \in T
  <2> SUFFICES ASSUME a <= b PROVE f[a] \in Nat
    OBVIOUS
  <2>1. a \in a .. b
    OBVIOUS
  <2>2. f[a] = d[a] + 0 /\ d[a] \in Nat
    BY <2>1
  <2> QED BY <2>2
<1>2. ASSUME NEW n \in Nat, n \in T PROVE n + 1 \in T
  <2> SUFFICES ASSUME a + (n + 1) <= b PROVE f[a + (n + 1)] \in Nat
    OBVIOUS
  <2>1. PICK m \in Nat : m = a + (n + 1) /\ m - 1 = a + n /\ m \in a .. b /\ m # a
    OBVIOUS
  <2>2. f[m - 1] \in Nat
    BY <1>2, <2>1
  <2>3. f[m] = d[m] + f[m - 1] /\ d[m] \in Nat
    BY <2>1
  <2>4. f[m] \in Nat
    BY <2>2, <2>3
  <2> QED BY <2>1, <2>4
<1>3. \A n \in Nat : n \in T
  <2> HIDE DEF T
  <2> QED BY <1>1, <1>2, ByInduction
<1>4. ASSUME NEW l \in a .. b PROVE f[l] \in Nat
  <2>1. PICK n \in Nat : n = l - a /\ a + n = l /\ a + n <= b
    OBVIOUS
  <2> QED BY <1>3, <2>1
<1> QED BY <1>4

LEMMA TimeUntilIs ==
  /\ StartLevel \in Nat /\ MaxLevel \in Nat /\ StartLevel \in WsLevels /\ MaxLevel \in WsLevels /\ WsDelay \in Nat
  /\ \A l \in WsLevels : TimeUntil[l] \in Nat /\ WsInterval[l] \in Nat
  /\ TimeUntil[StartLevel] = TimeToNext[StartLevel]
<1>1. /\ StartLevel \in Nat /\ MaxLevel \in Nat /\ StartLevel <= MaxLevel /\ WsDelay \in Nat
      /\ \A l \in StartLevel .. MaxLevel : WsInterval[l] \in Nat /\ TimeToNext[l] \in Nat
  BY LevelsTakeTime
<1>2. \E f : f = [l \in StartLevel .. MaxLevel |-> TimeToNext[l] + (IF l = StartLevel THEN 0 ELSE f[l - 1])]
  <2>1. \E f : SumsUp(f, StartLevel, MaxLevel, TimeToNext)
    BY <1>1, SumsThereAre
  <2> QED BY <2>1 DEF SumsUp
<1>3. TimeUntil = [l \in StartLevel .. MaxLevel |-> TimeToNext[l] + (IF l = StartLevel THEN 0 ELSE TimeUntil[l - 1])]
  BY <1>2 DEF TimeUntil
<1>4. \A l \in StartLevel .. MaxLevel : TimeUntil[l] = TimeToNext[l] + (IF l = StartLevel THEN 0 ELSE TimeUntil[l - 1])
  BY <1>3
<1>5. \A l \in StartLevel .. MaxLevel : TimeUntil[l] \in Nat
  <2> HIDE DEF TimeUntil
  <2> QED BY <1>1, <1>4, SumsAreNat
<1>6. StartLevel \in StartLevel .. MaxLevel /\ MaxLevel \in StartLevel .. MaxLevel
  BY <1>1
<1>7. TimeUntil[StartLevel] = TimeToNext[StartLevel] + 0
  BY <1>4, <1>6
<1> QED BY <1>1, <1>5, <1>6, <1>7 DEF WsLevels

LEMMA OneLevelIsDue ==
  ASSUME NEW time \in Int, NEW l \in WsLevels, NEW m \in WsLevels, DueAt(time, l), DueAt(time, m)
  PROVE  l = m
<1>1. /\ l \in Int /\ m \in Int /\ StartLevel \in Int /\ MaxLevel \in Int
      /\ \A k \in WsLevels : Threshold(k) \in Int
  BY TimeUntilIs DEF WsLevels, Threshold
<1>2. ~(l < m)
  <2> SUFFICES ASSUME l < m PROVE FALSE
    OBVIOUS
  <2>1. Threshold(l) <= time
    BY <1>1 DEF DueAt, WsLevels
  <2>2. time < Threshold(l)
    BY <1>1 DEF DueAt, WsLevels
  <2> QED BY <1>1, <2>1, <2>2
<1>3. ~(m < l)
  <2> SUFFICES ASSUME m < l PROVE FALSE
    OBVIOUS
  <2>1. Threshold(m) <= time
    BY <1>1 DEF DueAt, WsLevels
  <2>2. time < Threshold(m)
    BY <1>1 DEF DueAt, WsLevels
  <2> QED BY <1>1, <2>1, <2>2
<1> QED BY <1>1, <1>2, <1>3

\* The level of a tick, and the time of the next.
LEMMA LevelRises ==
  ASSUME WsTypes, DueAt(wsTicked, wsLevel)
  PROVE  LevelNow \in WsLevels /\ DueAt(wsNow, LevelNow) /\ Rises[LevelNow] = Threshold(LevelNow)
<1>1. /\ wsLevel \in Nat /\ StartLevel \in Nat /\ MaxLevel \in Nat /\ wsLevel \in StartLevel .. MaxLevel
      /\ wsNow \in Nat /\ wsTicked \in Int /\ wsTicked <= wsNow
      /\ \A k \in WsLevels : TimeUntil[k] \in Nat /\ Threshold(k) \in Int
  BY TimeUntilIs DEF WsTypes, WsLevels, Threshold
<1>2. \A l \in wsLevel .. MaxLevel : Rises[l] = Threshold(l)
  <2> SUFFICES ASSUME NEW l \in wsLevel .. MaxLevel PROVE Rises[l] = Threshold(l)
    OBVIOUS
  <2>1. Rises[l] = wsNextLevel + (TimeUntil[l] - TimeUntil[wsLevel])
    BY DEF Rises
  <2>2. TimeUntil[l] \in Nat /\ TimeUntil[wsLevel] \in Nat /\ WsDelay \in Nat
    BY <1>1, TimeUntilIs DEF WsLevels
  <2>3. wsNextLevel = WsDelay + TimeUntil[wsLevel]
    BY DEF WsTypes, Threshold
  <2> QED BY <2>1, <2>2, <2>3 DEF Threshold
<1> DEFINE T == {l \in wsLevel .. MaxLevel : l = MaxLevel \/ wsNow < Threshold(l)}
<1>3. PICK l \in T : \A m \in T : <<m, l>> \notin OpToRel(<, Nat)
  <2>1. T \subseteq Nat /\ T # {}
    BY <1>1
  <2> HIDE DEF T
  <2> QED BY <2>1, NatLessThanWellFounded, WFMin
<1>4. \A k \in wsLevel .. (l - 1) : wsNow >= Rises[k]
  <2> SUFFICES ASSUME NEW k \in wsLevel .. (l - 1) PROVE wsNow >= Threshold(k)
    BY <1>1, <1>2
  <2>1. k \in wsLevel .. MaxLevel /\ k # MaxLevel /\ k \in Nat /\ l \in Nat /\ k < l /\ k \in WsLevels
    BY <1>1 DEF WsLevels
  <2>2. k \notin T
    <3> HIDE DEF T
    <3> QED BY <1>3, <2>1 DEF OpToRel
  <2> QED BY <1>1, <2>1, <2>2
<1>5. /\ l \in wsLevel .. MaxLevel
      /\ \A k \in wsLevel .. (l - 1) : wsNow >= Rises[k]
      /\ l < MaxLevel => wsNow < Rises[l]
  BY <1>1, <1>2, <1>4
<1>6. /\ LevelNow \in wsLevel .. MaxLevel
      /\ \A k \in wsLevel .. (LevelNow - 1) : wsNow >= Rises[k]
      /\ LevelNow < MaxLevel => wsNow < Rises[LevelNow]
  <2> HIDE DEF T
  <2> QED BY <1>5 DEF LevelNow
<1>7. PICK n \in wsLevel .. MaxLevel : n = LevelNow
  BY <1>6
<1>8. \A k \in StartLevel .. (n - 1) : Threshold(k) <= wsNow
  <2> SUFFICES ASSUME NEW k \in StartLevel .. (n - 1) PROVE Threshold(k) <= wsNow
    OBVIOUS
  <2>0. k \in WsLevels /\ k \in Int /\ Threshold(k) \in Int
    BY <1>1 DEF WsLevels
  <2>1. CASE k < wsLevel
    <3>1. Threshold(k) <= wsTicked
      BY <1>1, <2>0, <2>1 DEF DueAt
    <3> QED BY <1>1, <2>0, <3>1
  <2>2. CASE k >= wsLevel
    <3>1. k \in wsLevel .. (n - 1) /\ k \in wsLevel .. MaxLevel
      BY <1>1, <2>0, <2>2
    <3> QED BY <1>2, <1>6, <1>7, <3>1
  <2> QED BY <1>1, <2>0, <2>1, <2>2
<1>9. n = MaxLevel \/ wsNow < Threshold(n)
  BY <1>1, <1>2, <1>6, <1>7
<1> QED BY <1>1, <1>2, <1>7, <1>8, <1>9 DEF DueAt, WsLevels

\* Where a send is, queue by queue.
WsSpots(q, s) == {i \in DOMAIN q : q[i] = s}
LEMMA PlacesAre ==
  ASSUME NEW s
  PROVE  Places(s) = ({"pending"} \X WsSpots(wsPending, s)) \cup ({"due"} \X WsSpots(wsDue, s)) \cup ({"fired"} \X WsSpots(wsFired, s))
BY DEF Places, Queues, WsSpots

\* Added at the end, or taken from the front.
LEMMA AtAppended ==
  ASSUME NEW S, NEW q \in Seq(S), NEW e \in S, NEW s
  PROVE  WsSpots(Append(q, e), s) = WsSpots(q, s) \cup (IF e = s THEN {Len(q) + 1} ELSE {})
<1>1. PICK more \in Seq(S), n \in Nat :
        /\ more = Append(q, e) /\ n = Len(q) /\ DOMAIN q = 1 .. n /\ DOMAIN more = 1 .. (n + 1)
        /\ \A i \in 1 .. n : more[i] = q[i]
        /\ more[n + 1] = e
  <2>1. /\ Append(q, e) \in Seq(S) /\ Len(q) \in Nat /\ Len(Append(q, e)) = Len(q) + 1
        /\ \A i \in 1 .. Len(q) : Append(q, e)[i] = q[i]
        /\ Append(q, e)[Len(q) + 1] = e
    BY AppendProperties
  <2>2. PICK more \in Seq(S) : more = Append(q, e)
    BY <2>1
  <2> QED BY <2>1, <2>2
<1> QED BY <1>1 DEF WsSpots

LEMMA AtTail ==
  ASSUME NEW S, NEW q \in Seq(S), q # <<>>, NEW s
  PROVE  /\ \A i \in WsSpots(Tail(q), s) : i + 1 \in WsSpots(q, s) /\ i \in Nat
         /\ \A i \in WsSpots(q, s) : i \in Nat /\ (i = 1 \/ i - 1 \in WsSpots(Tail(q), s))
         /\ 1 \in WsSpots(q, s) <=> Head(q) = s
<1>1. PICK rest \in Seq(S), n \in Nat :
        /\ rest = Tail(q) /\ n = Len(q) /\ n > 0 /\ DOMAIN q = 1 .. n /\ DOMAIN rest = 1 .. (n - 1)
        /\ \A i \in 1 .. (n - 1) : rest[i] = q[i + 1]
        /\ Head(q) = q[1]
  <2>1. Tail(q) \in Seq(S) /\ Len(q) \in Nat /\ Len(Tail(q)) = Len(q) - 1 /\ Len(q) > 0 /\ Head(q) = q[1]
    BY HeadTailProperties, EmptySeq
  <2>2. \A i \in 1 .. (Len(q) - 1) : Tail(q)[i] = q[i + 1]
    BY <2>1, HeadTailProperties
  <2>3. PICK rest \in Seq(S), n \in Nat : rest = Tail(q) /\ n = Len(q)
    BY <2>1
  <2>4. DOMAIN q = 1 .. Len(q) /\ DOMAIN rest = 1 .. Len(rest) /\ Len(rest) = n - 1 /\ n > 0
    BY <2>1, <2>3
  <2>5. \A i \in 1 .. (n - 1) : rest[i] = q[i + 1]
    BY <2>2, <2>3
  <2>6. DOMAIN rest = 1 .. (n - 1) /\ DOMAIN q = 1 .. n
    BY <2>3, <2>4
  <2>7. Head(q) = q[1]
    BY <2>1
  <2> QED BY <2>3, <2>4, <2>5, <2>6, <2>7
<1> QED BY <1>1 DEF WsSpots

LEMMA NothingAt == ASSUME NEW s PROVE WsSpots(<<>>, s) = {}
BY DEF WsSpots

\* After the first of a queue is taken.
LEMMA AtRest ==
  ASSUME NEW S, NEW q \in Seq(S), q # <<>>, NEW s
  PROVE  /\ WsSpots(q, s) = {} => Head(q) # s /\ WsSpots(Tail(q), s) = {}
         /\ \A i : WsSpots(q, s) = {i} =>
              WsSpots(Tail(q), s) = IF Head(q) = s THEN {} ELSE {i - 1}
<1>1. /\ \A i \in WsSpots(Tail(q), s) : i + 1 \in WsSpots(q, s) /\ i \in Nat
      /\ \A i \in WsSpots(q, s) : i \in Nat /\ (i = 1 \/ i - 1 \in WsSpots(Tail(q), s))
      /\ 1 \in WsSpots(q, s) <=> Head(q) = s
      /\ \A i \in WsSpots(Tail(q), s) : i > 0
  <2>1. \A i \in WsSpots(Tail(q), s) : i > 0
    <3>1. Tail(q) \in Seq(S)
      BY HeadTailProperties
    <3>2. PICK rest \in Seq(S) : rest = Tail(q)
      BY <3>1
    <3>3. DOMAIN rest = 1 .. Len(rest) /\ Len(rest) \in Nat
      OBVIOUS
    <3> QED BY <3>2, <3>3 DEF WsSpots
  <2> QED BY <2>1, AtTail
<1>2. PICK old, new, first : old = WsSpots(q, s) /\ new = WsSpots(Tail(q), s) /\ first = Head(q)
  OBVIOUS
<1>3. old = {} => first # s /\ new = {}
  BY <1>1, <1>2
<1>4. ASSUME NEW i, old = {i} PROVE new = IF first = s THEN {} ELSE {i - 1}
  <2>1. i \in Nat /\ (i = 1 \/ i - 1 \in new) /\ (i = 1 <=> first = s)
    BY <1>1, <1>2, <1>4
  <2>2. \A j \in new : j \in Nat /\ j > 0 /\ j + 1 = i
    BY <1>1, <1>2, <1>4
  <2>3. CASE i = 1
    BY <2>1, <2>2, <2>3
  <2>4. CASE i # 1
    <3>1. \A j \in new : j = i - 1
      BY <2>1, <2>2
    <3> QED BY <2>1, <2>4, <3>1
  <2> QED BY <2>3, <2>4
<1> QED BY <1>2, <1>3, <1>4

\* One place, queue by queue.
WsSingle(s) ==
  \/ (\E i : WsSpots(wsPending, s) = {i}) /\ WsSpots(wsDue, s) = {} /\ WsSpots(wsFired, s) = {}
  \/ WsSpots(wsPending, s) = {} /\ (\E i : WsSpots(wsDue, s) = {i}) /\ WsSpots(wsFired, s) = {}
  \/ WsSpots(wsPending, s) = {} /\ WsSpots(wsDue, s) = {} /\ (\E i : WsSpots(wsFired, s) = {i})
WsNowhere(s) == WsSpots(wsPending, s) = {} /\ WsSpots(wsDue, s) = {} /\ WsSpots(wsFired, s) = {}

LEMMA OnePlace ==
  ASSUME NEW s
  PROVE  /\ Places(s) = {} <=> WsNowhere(s)
         /\ (\E p \in Places(s) : Places(s) = {p}) <=> WsSingle(s)
<1>1. PICK a, b, c : a = WsSpots(wsPending, s) /\ b = WsSpots(wsDue, s) /\ c = WsSpots(wsFired, s)
  OBVIOUS
<1>2. PICK places : places = Places(s) /\ places = ({"pending"} \X a) \cup ({"due"} \X b) \cup ({"fired"} \X c)
  BY <1>1, PlacesAre
<1>3. places = {} <=> a = {} /\ b = {} /\ c = {}
  <2>1. /\ \A i \in a : <<"pending", i>> \in places
        /\ \A i \in b : <<"due", i>> \in places
        /\ \A i \in c : <<"fired", i>> \in places
    BY <1>2
  <2>2. a = {} /\ b = {} /\ c = {} => places = {}
    BY <1>2
  <2> QED BY <2>1, <2>2
<1>4. ASSUME NEW p \in places, places = {p}
      PROVE  \/ (\E i : a = {i}) /\ b = {} /\ c = {}
             \/ a = {} /\ (\E i : b = {i}) /\ c = {}
             \/ a = {} /\ b = {} /\ (\E i : c = {i})
  <2>1. /\ \A i \in a : p = <<"pending", i>>
        /\ \A i \in b : p = <<"due", i>>
        /\ \A i \in c : p = <<"fired", i>>
    BY <1>2, <1>4
  <2>2. CASE p[1] = "pending" /\ p[2] \in a
    <3>1. a = {p[2]} /\ b = {} /\ c = {}
      BY <2>1, <2>2
    <3> QED BY <3>1
  <2>3. CASE p[1] = "due" /\ p[2] \in b
    <3>1. a = {} /\ b = {p[2]} /\ c = {}
      BY <2>1, <2>3
    <3> QED BY <3>1
  <2>4. CASE p[1] = "fired" /\ p[2] \in c
    <3>1. a = {} /\ b = {} /\ c = {p[2]}
      BY <2>1, <2>4
    <3> QED BY <3>1
  <2> QED BY <1>2, <2>2, <2>3, <2>4
<1>5. ASSUME NEW i, a = {i}, b = {}, c = {} PROVE \E p \in places : places = {p}
  <2>1. places = {<<"pending", i>>}
    BY <1>2, <1>5
  <2> QED BY <2>1
<1>6. ASSUME NEW i, a = {}, b = {i}, c = {} PROVE \E p \in places : places = {p}
  <2>1. places = {<<"due", i>>}
    BY <1>2, <1>6
  <2> QED BY <2>1
<1>7. ASSUME NEW i, a = {}, b = {}, c = {i} PROVE \E p \in places : places = {p}
  <2>1. places = {<<"fired", i>>}
    BY <1>2, <1>7
  <2> QED BY <2>1
<1> QED BY <1>1, <1>2, <1>3, <1>4, <1>5, <1>6, <1>7 DEF WsSingle, WsNowhere

\* A send that was queued is at one place, or lost; and the first thing fired is a wave.
WsOnce ==
  /\ \A s \in wsAsked : IF s \in wsLost THEN WsNowhere(s) ELSE WsSingle(s)
  /\ wsLost \subseteq wsAsked
  /\ wsAt = "firing" => wsFired # <<>>
  /\ wsFired # <<>> => wsFired[1] \in WsLevels
WsInv == WsTypes /\ WsOnce /\ DueAt(wsTicked, wsLevel)

-----------------------------------------------------------------------------
LEMMA SchedulerStarts == ASSUME WsInit PROVE WsInv
<1>1. /\ wsNow = 0 /\ wsLevel = StartLevel /\ wsNextLevel = WsDelay + TimeToNext[StartLevel]
      /\ wsPending = <<>> /\ wsDue = <<>> /\ wsAt = "sleep" /\ wsFired = <<>>
      /\ wsAsked = {} /\ wsTicked = -1 /\ wsLost = {}
  BY DEF WsInit, NotTicked
<1>2. StartLevel \in WsLevels /\ TimeUntil[StartLevel] \in Nat /\ TimeUntil[StartLevel] = TimeToNext[StartLevel] /\ WsDelay \in Nat /\ StartLevel \in Nat
  BY TimeUntilIs DEF WsLevels
<1>3. WsTypes
  BY <1>1, <1>2 DEF WsTypes, Threshold
<1>4. DueAt(wsTicked, wsLevel)
  BY <1>1, <1>2 DEF DueAt, Threshold
<1>5. WsOnce
  BY <1>1 DEF WsOnce
<1> QED BY <1>3, <1>4, <1>5 DEF WsInv

LEMMA MoreIn == ASSUME NEW S, NEW T, S \subseteq T, NEW q \in Seq(S) PROVE q \in Seq(T)
OBVIOUS

LEMMA NotAsked ==
  ASSUME WsTypes, NEW s \in WsSends, s \notin wsAsked
  PROVE  WsNowhere(s)
<1>1. s \notin WsLevels
  BY SendsAreNoLevels DEF WsLevels
<1>2. /\ \A i \in DOMAIN wsPending : wsPending[i] \in wsAsked
      /\ \A i \in DOMAIN wsDue : wsDue[i] \in wsAsked
      /\ \A i \in DOMAIN wsFired : wsFired[i] \in wsAsked \cup WsLevels
  BY DEF WsTypes
<1> QED BY <1>1, <1>2 DEF WsNowhere, WsSpots

LEMMA QueueKeeps == ASSUME WsInv, NEW send \in WsSends, QueueSend(send) PROVE WsInv'
<1>1. /\ WsTypes /\ WsOnce /\ DueAt(wsTicked, wsLevel)
      /\ send \notin wsAsked /\ wsAsked' = wsAsked \cup {send} /\ wsPending' = Append(wsPending, send)
      /\ UNCHANGED <<wsNow, wsLevel, wsNextWave, wsNextLevel, wsDue, wsAt, wsFired, wsTicked, wsLost>>
  BY DEF WsInv, QueueSend
<1>2. WsTypes'
  <2>1. /\ wsPending \in Seq(wsAsked) /\ wsDue \in Seq(wsAsked) /\ wsFired \in Seq(wsAsked \cup WsLevels)
    BY <1>1 DEF WsTypes
  <2>2. wsPending \in Seq(wsAsked') /\ send \in wsAsked'
    BY <1>1, <2>1, MoreIn
  <2>3. wsPending' \in Seq(wsAsked')
    BY <1>1, <2>2, AppendProperties
  <2>4. wsDue \in Seq(wsAsked')
    BY <1>1, <2>1, MoreIn
  <2>5. wsAsked \cup WsLevels \subseteq wsAsked' \cup WsLevels
    BY <1>1
  <2>6. wsFired \in Seq(wsAsked' \cup WsLevels)
    BY <2>1, <2>5, MoreIn
  <2> QED BY <1>1, <2>3, <2>4, <2>6 DEF WsTypes, Threshold, WsLevels
<1>3. ASSUME NEW s \in wsAsked' PROVE (IF s \in wsLost THEN WsNowhere(s) ELSE WsSingle(s))'
  <2>1. /\ WsSpots(wsPending, s)' = WsSpots(wsPending, s) \cup (IF send = s THEN {Len(wsPending) + 1} ELSE {})
        /\ WsSpots(wsDue, s)' = WsSpots(wsDue, s) /\ WsSpots(wsFired, s)' = WsSpots(wsFired, s)
    <3>1. wsPending \in Seq(wsAsked \cup {send})
      BY <1>1, MoreIn DEF WsTypes
    <3>2. WsSpots(Append(wsPending, send), s) = WsSpots(wsPending, s) \cup (IF send = s THEN {Len(wsPending) + 1} ELSE {})
      BY <3>1, AtAppended
    <3> QED BY <1>1, <3>2 DEF WsSpots
  <2>2. CASE s = send
    <3>1. WsNowhere(s)
      BY <1>1, <2>2, NotAsked
    <3>2. WsSpots(wsPending, s)' = {Len(wsPending) + 1} /\ WsSpots(wsDue, s)' = {} /\ WsSpots(wsFired, s)' = {}
      BY <2>1, <2>2, <3>1 DEF WsNowhere
    <3>3. s \notin wsLost'
      BY <1>1, <2>2 DEF WsOnce
    <3> QED BY <3>2, <3>3 DEF WsSingle
  <2>3. CASE s # send
    <3>1. IF s \in wsLost THEN WsNowhere(s) ELSE WsSingle(s)
      BY <1>1, <2>3 DEF WsOnce
    <3> QED BY <1>1, <2>1, <2>3, <3>1 DEF WsNowhere, WsSingle
  <2> QED BY <2>2, <2>3
<1>4. WsOnce'
  BY <1>1, <1>3 DEF WsOnce, WsLevels
<1>5. DueAt(wsTicked, wsLevel)'
  BY <1>1 DEF DueAt, Threshold, WsLevels
<1> QED BY <1>2, <1>4, <1>5 DEF WsInv

LEMMA SendsStay ==
  ASSUME WsOnce, UNCHANGED <<wsPending, wsDue, wsFired, wsAsked, wsLost>>, wsAt' # "firing" \/ wsAt' = wsAt
  PROVE  WsOnce'
<1>1. wsPending' = wsPending /\ wsDue' = wsDue /\ wsFired' = wsFired /\ wsAsked' = wsAsked /\ wsLost' = wsLost
  OBVIOUS
<1>2. ASSUME NEW s \in wsAsked PROVE (IF s \in wsLost THEN WsNowhere(s) ELSE WsSingle(s))'
  <2>1. IF s \in wsLost THEN WsNowhere(s) ELSE WsSingle(s)
    BY DEF WsOnce
  <2>2. WsNowhere(s)' <=> WsNowhere(s)
    BY <1>1 DEF WsNowhere
  <2>3. WsSingle(s)' <=> WsSingle(s)
    BY <1>1 DEF WsSingle
  <2> QED BY <1>1, <2>1, <2>2, <2>3
<1>3. /\ \A s \in wsAsked' : (IF s \in wsLost THEN WsNowhere(s) ELSE WsSingle(s))'
      /\ wsLost' \subseteq wsAsked'
      /\ wsAt' = "firing" => wsFired' # <<>>
      /\ wsFired' # <<>> => wsFired'[1] \in WsLevels
  BY <1>1, <1>2 DEF WsOnce
<1> QED BY <1>3 DEF WsOnce, WsLevels

LEMMA TickKeeps == ASSUME WsInv, Tick PROVE WsInv'
<1>1. /\ WsTypes /\ WsOnce /\ DueAt(wsTicked, wsLevel)
      /\ wsAt = "sleep" /\ wsTicked' = wsNow /\ wsLevel' = LevelNow /\ wsNextLevel' = Rises[LevelNow]
      /\ UNCHANGED <<wsNow, wsAsked, wsLost>>
  BY DEF WsInv, Tick
<1>2. wsLevel' \in WsLevels /\ DueAt(wsNow, wsLevel') /\ wsNextLevel' = Threshold(wsLevel')
  BY <1>1, LevelRises
<1>3. DueAt(wsTicked, wsLevel)'
  BY <1>1, <1>2 DEF DueAt, Threshold, WsLevels
<1>4. /\ wsNow' \in Nat /\ wsTicked' \in Int /\ wsTicked' <= wsNow'
      /\ (wsLevel \in WsLevels)' /\ (wsNextLevel = Threshold(wsLevel))' /\ (wsAsked \subseteq WsSends)'
      /\ wsDue = <<>>
  BY <1>1, <1>2 DEF WsTypes, Threshold, WsLevels
<1>5. wsPending \in Seq(wsAsked) /\ wsFired \in Seq(wsAsked \cup WsLevels)
  BY <1>1 DEF WsTypes
<1>6. CASE /\ wsPending' = <<>> /\ wsDue' = wsPending /\ wsFired' = Append(wsFired, wsLevel') /\ wsAt' = "firing"
  <2>1. wsFired' \in Seq(wsAsked \cup WsLevels) /\ Len(wsFired') = Len(wsFired) + 1 /\ wsFired' # <<>>
        /\ (\A i \in 1 .. Len(wsFired) : wsFired'[i] = wsFired[i]) /\ wsFired'[Len(wsFired) + 1] = wsLevel'
    BY <1>2, <1>5, <1>6, AppendProperties
  <2>2. WsTypes'
    BY <1>1, <1>4, <1>5, <1>6, <2>1 DEF WsTypes, WsLevels
  <2>3. wsFired'[1] \in WsLevels
    <3>1. CASE wsFired = <<>>
      <4>1. Len(wsFired) = 0
        BY <3>1
      <4> QED BY <1>2, <2>1, <4>1
    <3>2. CASE wsFired # <<>>
      <4>1. 1 \in 1 .. Len(wsFired)
        BY <1>5, <3>2, EmptySeq
      <4> QED BY <1>1, <2>1, <3>2, <4>1 DEF WsOnce
    <3> QED BY <3>1, <3>2
  <2>4. ASSUME NEW s \in wsAsked PROVE (IF s \in wsLost THEN WsNowhere(s) ELSE WsSingle(s))'
    <3>1. s # wsLevel'
      BY <1>1, <1>2, SendsAreNoLevels DEF WsTypes, WsLevels
    <3>2. WsSpots(wsFired', s) = WsSpots(wsFired, s)
      <4>1. wsLevel' \in wsAsked \cup WsLevels
        BY <1>2
      <4>2. WsSpots(Append(wsFired, wsLevel'), s) = WsSpots(wsFired, s) \cup (IF wsLevel' = s THEN {Len(wsFired) + 1} ELSE {})
        BY <1>5, <4>1, AtAppended
      <4> QED BY <1>6, <3>1, <4>2
    <3>3. WsSpots(wsPending', s) = {} /\ WsSpots(wsDue', s) = WsSpots(wsPending, s) /\ WsSpots(wsDue, s) = {}
      BY <1>4, <1>6, NothingAt
    <3>4. IF s \in wsLost THEN WsNowhere(s) ELSE WsSingle(s)
      BY <1>1 DEF WsOnce
    <3> QED BY <1>1, <3>2, <3>3, <3>4 DEF WsNowhere, WsSingle
  <2>5. WsOnce'
    BY <1>1, <2>1, <2>3, <2>4 DEF WsOnce, WsLevels
  <2> QED BY <1>3, <2>2, <2>5 DEF WsInv
<1>7. CASE UNCHANGED <<wsPending, wsDue, wsFired, wsAt>>
  <2>1. WsTypes'
    BY <1>1, <1>4, <1>5, <1>7 DEF WsTypes
  <2>2. WsOnce'
    BY <1>1, <1>7, SendsStay
  <2> QED BY <1>3, <2>1, <2>2 DEF WsInv
<1> QED BY <1>6, <1>7 DEF Tick, Drains

LEMMA FireKeeps == ASSUME WsInv, FireSend PROVE WsInv'
<1>1. /\ WsTypes /\ WsOnce /\ DueAt(wsTicked, wsLevel)
      /\ wsAt = "firing" /\ wsDue # <<>> /\ wsDue' = Tail(wsDue)
      /\ UNCHANGED <<wsNow, wsLevel, wsNextWave, wsNextLevel, wsPending, wsAt, wsAsked, wsTicked>>
  BY DEF WsInv, FireSend
<1>2. wsPending \in Seq(wsAsked) /\ wsDue \in Seq(wsAsked) /\ wsFired \in Seq(wsAsked \cup WsLevels)
  BY <1>1 DEF WsTypes
<1>3. PICK first \in wsAsked : first = Head(wsDue)
  BY <1>1, <1>2, HeadTailProperties
<1>4. wsDue' \in Seq(wsAsked)
  BY <1>1, <1>2, HeadTailProperties
<1>5. DueAt(wsTicked, wsLevel)'
  BY <1>1 DEF DueAt, Threshold, WsLevels
<1>6. ASSUME NEW s \in wsAsked
      PROVE  /\ WsSpots(wsPending', s) = WsSpots(wsPending, s)
             /\ WsSpots(wsDue, s) = {} => first # s /\ WsSpots(wsDue', s) = {}
             /\ \A i : WsSpots(wsDue, s) = {i} => WsSpots(wsDue', s) = IF first = s THEN {} ELSE {i - 1}
             /\ IF s \in wsLost THEN WsNowhere(s) ELSE WsSingle(s)
  <2>1. IF s \in wsLost THEN WsNowhere(s) ELSE WsSingle(s)
    BY <1>1 DEF WsOnce
  <2>2. /\ WsSpots(wsDue, s) = {} => first # s /\ WsSpots(wsDue', s) = {}
        /\ \A i : WsSpots(wsDue, s) = {i} => WsSpots(wsDue', s) = IF first = s THEN {} ELSE {i - 1}
    BY <1>1, <1>2, <1>3, AtRest, ZenonT(60)
  <2> QED BY <1>1, <2>1, <2>2
<1>7. CASE wsFired' = Append(wsFired, first) /\ wsLost' = wsLost
  <2>1. wsFired' \in Seq(wsAsked \cup WsLevels) /\ wsFired' # <<>> /\ (\A i \in 1 .. Len(wsFired) : wsFired'[i] = wsFired[i])
    BY <1>2, <1>7, AppendProperties
  <2>2. WsTypes'
    BY <1>1, <1>2, <1>4, <2>1 DEF WsTypes, Threshold, WsLevels
  <2>3. wsFired'[1] \in WsLevels
    <3>1. wsFired # <<>> /\ wsFired[1] \in WsLevels
      BY <1>1 DEF WsOnce
    <3>2. 1 \in 1 .. Len(wsFired)
      BY <1>2, <3>1, EmptySeq
    <3> QED BY <2>1, <3>1, <3>2
  <2>4. ASSUME NEW s \in wsAsked PROVE (IF s \in wsLost THEN WsNowhere(s) ELSE WsSingle(s))'
    <3>1. WsSpots(wsFired', s) = WsSpots(wsFired, s) \cup (IF first = s THEN {Len(wsFired) + 1} ELSE {})
      BY <1>2, <1>7, AtAppended
    <3>2. CASE s \in wsLost
      <4>1. WsSpots(wsPending, s) = {} /\ WsSpots(wsDue, s) = {} /\ WsSpots(wsFired, s) = {}
        BY <1>6, <3>2 DEF WsNowhere
      <4>2. first # s /\ WsSpots(wsPending', s) = {} /\ WsSpots(wsDue', s) = {}
        BY <1>6, <4>1
      <4>3. WsSpots(wsFired', s) = {}
        BY <3>1, <4>1, <4>2
      <4> QED BY <1>7, <3>2, <4>2, <4>3 DEF WsNowhere
    <3>3. CASE s \notin wsLost /\ WsSpots(wsDue, s) = {}
      <4>1. WsSingle(s) /\ first # s /\ WsSpots(wsPending', s) = WsSpots(wsPending, s) /\ WsSpots(wsDue', s) = {}
        BY <1>6, <3>3
      <4>2. WsSpots(wsFired', s) = WsSpots(wsFired, s)
        BY <3>1, <4>1
      <4> QED BY <1>7, <3>3, <4>1, <4>2 DEF WsSingle
    <3>4. CASE s \notin wsLost /\ WsSpots(wsDue, s) # {}
      <4>1. PICK i : WsSpots(wsDue, s) = {i} /\ WsSpots(wsPending, s) = {} /\ WsSpots(wsFired, s) = {}
        BY <1>6, <3>4 DEF WsSingle
      <4>2. CASE first = s
        <5>1. WsSpots(wsPending', s) = {} /\ WsSpots(wsDue', s) = {} /\ WsSpots(wsFired', s) = {Len(wsFired) + 1}
          BY <1>6, <3>1, <4>1, <4>2
        <5> QED BY <1>7, <3>4, <5>1 DEF WsSingle
      <4>3. CASE first # s
        <5>1. WsSpots(wsPending', s) = {} /\ WsSpots(wsDue', s) = {i - 1} /\ WsSpots(wsFired', s) = {}
          BY <1>6, <3>1, <4>1, <4>3
        <5> QED BY <1>7, <3>4, <5>1 DEF WsSingle
      <4> QED BY <4>2, <4>3
    <3> QED BY <3>2, <3>3, <3>4
  <2>5. WsOnce'
    BY <1>1, <1>7, <2>1, <2>3, <2>4 DEF WsOnce, WsLevels
  <2> QED BY <1>5, <2>2, <2>5 DEF WsInv
<1>8. CASE wsLost' = wsLost \cup {first} /\ wsFired' = wsFired
  <2>1. WsTypes'
    BY <1>1, <1>2, <1>4, <1>8 DEF WsTypes, Threshold, WsLevels
  <2>2. ASSUME NEW s \in wsAsked PROVE (IF s \in wsLost THEN WsNowhere(s) ELSE WsSingle(s))'
    <3>1. WsSpots(wsFired', s) = WsSpots(wsFired, s)
      BY <1>8
    <3>2. CASE s \in wsLost
      BY <1>6, <1>8, <3>1, <3>2 DEF WsNowhere
    <3>3. CASE s \notin wsLost /\ WsSpots(wsDue, s) = {}
      BY <1>6, <1>8, <3>1, <3>3 DEF WsSingle
    <3>4. CASE s \notin wsLost /\ WsSpots(wsDue, s) # {}
      <4>1. PICK i : WsSpots(wsDue, s) = {i} /\ WsSpots(wsPending, s) = {} /\ WsSpots(wsFired, s) = {}
        BY <1>6, <3>4 DEF WsSingle
      <4>2. CASE first = s
        <5>1. WsSpots(wsPending', s) = {} /\ WsSpots(wsDue', s) = {} /\ WsSpots(wsFired', s) = {} /\ s \in wsLost'
          BY <1>6, <1>8, <3>1, <4>1, <4>2
        <5> QED BY <5>1 DEF WsNowhere
      <4>3. CASE first # s
        <5>1. WsSpots(wsPending', s) = {} /\ WsSpots(wsDue', s) = {i - 1} /\ WsSpots(wsFired', s) = {} /\ s \notin wsLost'
          BY <1>6, <1>8, <3>1, <3>4, <4>1, <4>3
        <5> QED BY <5>1 DEF WsSingle
      <4> QED BY <4>2, <4>3
    <3> QED BY <3>2, <3>3, <3>4
  <2>3. WsOnce'
    BY <1>1, <1>3, <1>8, <2>2 DEF WsOnce, WsLevels
  <2> QED BY <1>5, <2>1, <2>3 DEF WsInv
<1> QED BY <1>3, <1>7, <1>8 DEF FireSend

LEMMA LoopEndKeeps == ASSUME WsInv, LoopEnds PROVE WsInv'
<1>1. /\ WsTypes /\ WsOnce /\ DueAt(wsTicked, wsLevel)
      /\ wsAt' = "dead" /\ wsDue' = <<>> /\ wsPending' = <<>>
      /\ wsLost' = wsLost \cup ToSet(wsDue) \cup ToSet(wsPending)
      /\ UNCHANGED <<wsNow, wsLevel, wsNextWave, wsNextLevel, wsFired, wsAsked, wsTicked>>
  BY DEF WsInv, LoopEnds
<1>2. WsTypes'
  BY <1>1 DEF WsTypes, Threshold, WsLevels
<1>3. DueAt(wsTicked, wsLevel)'
  BY <1>1 DEF DueAt, Threshold, WsLevels
<1>4. wsPending \in Seq(wsAsked) /\ wsDue \in Seq(wsAsked)
  BY <1>1 DEF WsTypes
<1>5. wsLost' \subseteq wsAsked
  BY <1>1, <1>4 DEF WsOnce, ToSet
<1>6. ASSUME NEW s \in wsAsked PROVE (IF s \in wsLost THEN WsNowhere(s) ELSE WsSingle(s))'
  <2>1. /\ WsSpots(wsPending', s) = {} /\ WsSpots(wsDue', s) = {} /\ WsSpots(wsFired', s) = WsSpots(wsFired, s)
    BY <1>1, NothingAt
  <2>2. s \in wsLost' <=> s \in wsLost \/ WsSpots(wsDue, s) # {} \/ WsSpots(wsPending, s) # {}
    <3>1. (s \in ToSet(wsDue) <=> WsSpots(wsDue, s) # {}) /\ (s \in ToSet(wsPending) <=> WsSpots(wsPending, s) # {})
      BY DEF ToSet, WsSpots
    <3> QED BY <1>1, <3>1
  <2>3. IF s \in wsLost THEN WsNowhere(s) ELSE WsSingle(s)
    BY <1>1 DEF WsOnce
  <2>4. CASE s \in wsLost'
    <3>1. WsSpots(wsFired, s) = {}
      BY <2>2, <2>3, <2>4 DEF WsNowhere, WsSingle
    <3> QED BY <2>1, <2>4, <3>1 DEF WsNowhere
  <2>5. CASE s \notin wsLost'
    <3>1. \E i : WsSpots(wsFired, s) = {i}
      BY <2>2, <2>3, <2>5 DEF WsSingle
    <3> QED BY <2>1, <2>5, <3>1 DEF WsSingle
  <2> QED BY <2>4, <2>5
<1>7. WsOnce'
  BY <1>1, <1>5, <1>6 DEF WsOnce, WsLevels
<1> QED BY <1>2, <1>3, <1>7 DEF WsInv

LEMMA SchedulerKeeps == ASSUME WsInv, [WsNext]_wsVars PROVE WsInv'
<1>1. WsTypes /\ WsOnce /\ DueAt(wsTicked, wsLevel)
  BY DEF WsInv
<1>2. CASE \E s \in WsSends : wsAt # "dead" /\ QueueSend(s)
  BY <1>2, QueueKeeps
<1>3. CASE TimePasses
  <2>1. wsNow' = wsNow + 1
        /\ UNCHANGED <<wsLevel, wsNextWave, wsNextLevel, wsPending, wsDue, wsAt, wsFired, wsAsked, wsTicked, wsLost>>
    BY <1>3 DEF TimePasses
  <2>2. WsTypes'
    BY <1>1, <2>1 DEF WsTypes, Threshold, WsLevels
  <2>3. WsOnce'
    BY <1>1, <2>1, SendsStay
  <2>4. DueAt(wsTicked, wsLevel)'
    BY <1>1, <2>1 DEF DueAt, Threshold, WsLevels
  <2> QED BY <2>2, <2>3, <2>4 DEF WsInv
<1>4. CASE Tick
  BY <1>4, TickKeeps
<1>5. CASE FireSend
  BY <1>5, FireKeeps
<1>6. CASE WsFiredAll
  <2>1. wsDue = <<>> /\ wsAt' = "sleep"
        /\ UNCHANGED <<wsNow, wsLevel, wsNextWave, wsNextLevel, wsPending, wsDue, wsFired, wsAsked, wsTicked, wsLost>>
    BY <1>6 DEF WsFiredAll
  <2>2. WsTypes'
    BY <1>1, <2>1 DEF WsTypes, Threshold, WsLevels
  <2>3. WsOnce'
    BY <1>1, <2>1, SendsStay
  <2>4. DueAt(wsTicked, wsLevel)'
    BY <1>1, <2>1 DEF DueAt, Threshold, WsLevels
  <2> QED BY <2>2, <2>3, <2>4 DEF WsInv
<1>7. CASE LoopEnds
  BY <1>7, LoopEndKeeps
<1>8. CASE UNCHANGED wsVars
  <2>1. UNCHANGED <<wsNow, wsLevel, wsNextWave, wsNextLevel, wsPending, wsDue, wsAt, wsFired, wsAsked, wsTicked, wsLost>>
    BY <1>8 DEF wsVars
  <2>2. WsTypes'
    BY <1>1, <2>1 DEF WsTypes, Threshold, WsLevels
  <2>3. WsOnce'
    BY <1>1, <2>1, SendsStay
  <2>4. DueAt(wsTicked, wsLevel)'
    BY <1>1, <2>1 DEF DueAt, Threshold, WsLevels
  <2> QED BY <2>2, <2>3, <2>4 DEF WsInv
<1> QED BY <1>2, <1>3, <1>4, <1>5, <1>6, <1>7, <1>8 DEF WsNext, WsRunning

LEMMA ScheduleTold == ASSUME WsInv PROVE ScheduleTells
<1>1. WsTypes /\ WsOnce /\ DueAt(wsTicked, wsLevel)
  BY DEF WsInv
<1>2. LevelByClock
  <2>1. /\ wsLevel \in WsLevels /\ wsTicked \in Int
        /\ StartLevel \in Int /\ MaxLevel \in Int
    BY <1>1, TimeUntilIs DEF WsTypes
  <2> DEFINE P(l) == /\ \A k \in StartLevel .. (l - 1) : Threshold(k) <= wsTicked
                     /\ l = MaxLevel \/ wsTicked < Threshold(l)
  <2>2. \A l \in WsLevels : P(l) <=> DueAt(wsTicked, l)
    BY DEF DueAt
  <2>3. \A l \in WsLevels : P(l) => l = wsLevel
    <3> HIDE DEF P
    <3> QED BY <1>1, <2>1, <2>2, OneLevelIsDue
  <2>4. P(wsLevel)
    <3> HIDE DEF P
    <3> QED BY <1>1, <2>1, <2>2
  <2>5. wsLevel = CHOOSE l \in WsLevels : P(l)
    <3> HIDE DEF P
    <3> QED BY <2>1, <2>3, <2>4
  <2> QED BY <2>5 DEF LevelByClock, WsLevels
<1>3. SendsFireOnce
  <2>1. \A s \in wsAsked : IF s \in wsLost THEN Places(s) = {} ELSE \E p \in Places(s) : Places(s) = {p}
    BY <1>1, OnePlace DEF WsOnce
  <2>2. wsFired # <<>> => wsFired[1] \notin WsSends
    BY <1>1, SendsAreNoLevels DEF WsOnce, WsLevels
  <2> QED BY <2>1, <2>2 DEF SendsFireOnce
<1> QED BY <1>2, <1>3 DEF ScheduleTells

\* A queued wave is in one place and fires once, and the level is the one the clock
\* asks for, however late the ticks come (ScheduleTells).
THEOREM ScheduleAlwaysTells == WsSpec => []ScheduleTells
<1>1. WsInit => WsInv
  BY SchedulerStarts
<1>2. WsInv /\ [WsNext]_wsVars => WsInv'
  BY SchedulerKeeps
<1>3. WsInv => ScheduleTells
  BY ScheduleTold
<1> QED BY <1>1, <1>2, <1>3, PTL DEF WsSpec

-----------------------------------------------------------------------------
(* The timers of the attack cycle                                          *)

NwLevels == 1 .. NwMaxLevel
NwTimers == [attack : Int, level : Int, event : Int, warmup : Int]
NwPasts == [since : Nat, events : Nat, paid : Nat, pace : BOOLEAN, curve : BOOLEAN, stepped : Nat,
            changes : Nat, buys : Nat, rounds : Nat]
NwTypes ==
  /\ nwNow \in Nat /\ nwState \in {"paused", "warmup", "running", "game_over"}
  /\ nwLevel \in NwLevels /\ nwIndex \in Nat /\ nwTimer \in NwTimers /\ nwSet \in NwSettings
  /\ nwBought \in Nat /\ nwGone \in [here : Nat, tracked : Nat, enemy : Nat] /\ nwPast \in NwPasts

\* A round that has not begun to run has seen nothing; a running one, no more than
\* the clock; and no attack was stronger than the level.
NwPastFits ==
  /\ nwState = "warmup" => nwIndex = 0 /\ nwPast.events = 0 /\ nwLast.level = 0
  /\ nwState = "running" => nwPast.since <= nwPast.stepped /\ nwPast.stepped <= nwNow
  /\ nwLast.level \in Int /\ nwLast.level <= nwLevel

\* The event to come lies in the window before the attack it belongs to.
NwBeat ==
  nwState = "running" /\ ~nwPast.pace =>
    /\ nwTimer.attack = nwPast.since + nwIndex * nwSet.interval
    /\ nwIndex > 0 => nwTimer.attack - nwSet.interval <= nwPast.stepped
    /\ \/ /\ nwPast.events = nwIndex
          /\ nwTimer.attack <= nwTimer.event /\ nwTimer.event <= nwTimer.attack + nwSet.interval
       \/ /\ nwPast.events = nwIndex - 1
          /\ nwTimer.attack - nwSet.interval <= nwTimer.event /\ nwTimer.event <= nwTimer.attack

\* The level the schedule asks for at a time, and the timer for the next one.
NwDueAt(time, l) ==
  /\ \A k \in 1 .. (l - 1) : LevelDue(k) <= time
  /\ l = NwMaxLevel \/ time < LevelDue(l)
NwCurve ==
  nwState = "running" /\ ~nwPast.curve =>
    nwTimer.level = LevelDue(nwLevel) /\ NwDueAt(nwPast.stepped, nwLevel)
NwInv == NwTypes /\ NwPastFits /\ NwBeat /\ NwCurve /\ BoughtGoesOut

LEMMA UntilIs ==
  ASSUME NEW set \in NwSettings
  PROVE  /\ set.interval \in Nat /\ set.interval > 0 /\ set.offset \in Nat /\ set.offset <= set.interval
         /\ \A l \in NwLevels : NwTimeUntil(set.schedule)[l] \in Nat /\ Padded(set.schedule, l) \in Nat
         /\ NwTimeUntil(set.schedule)[1] = Padded(set.schedule, 1) /\ Padded(set.schedule, 1) > 0
         /\ 1 \in NwLevels /\ NwMaxLevel \in Nat
<1>1. NwMaxLevel \in Nat \ {0} /\ 1 \in NwLevels
  BY SettingsFit DEF NwLevels
<1> DEFINE M == NwMaxLevel
           P == [l \in 1 .. M |-> Padded(set.schedule, l)]
<1>2. \A l \in 1 .. M : P[l] = Padded(set.schedule, l) /\ P[l] \in Nat \ {0}
  BY SettingsFit
<1>3. \E f : f = [l \in 1 .. M |-> Padded(set.schedule, l) + (IF l = 1 THEN 0 ELSE f[l - 1])]
  <2>1. M \in Nat /\ 1 \in Nat /\ 1 <= M /\ \A l \in 1 .. M : P[l] \in Nat
    BY <1>1, <1>2
  <2>2. PICK f : SumsUp(f, 1, M, P)
    <3> HIDE DEF P, M
    <3> QED BY <2>1, SumsThereAre
  <2>3. f = [l \in 1 .. M |-> Padded(set.schedule, l) + (IF l = 1 THEN 0 ELSE f[l - 1])]
    <3>1. \A l \in 1 .. M : P[l] + (IF l = 1 THEN 0 ELSE f[l - 1]) = Padded(set.schedule, l) + (IF l = 1 THEN 0 ELSE f[l - 1])
      BY <1>2
    <3> HIDE DEF P, M
    <3> QED BY <2>2, <3>1 DEF SumsUp
  <2> QED BY <2>3
<1>4. PICK U : /\ U = [l \in 1 .. M |-> Padded(set.schedule, l) + (IF l = 1 THEN 0 ELSE U[l - 1])]
               /\ NwTimeUntil(set.schedule) = U
  BY <1>3 DEF NwTimeUntil
<1>5. \A l \in 1 .. M : U[l] = P[l] + (IF l = 1 THEN 0 ELSE U[l - 1])
  BY <1>2, <1>4
<1>6. \A l \in 1 .. M : U[l] \in Nat
  <2>1. M \in Nat /\ 1 \in Nat /\ \A l \in 1 .. M : P[l] \in Nat
    BY <1>1, <1>2
  <2> HIDE DEF P, M
  <2> QED BY <1>5, <2>1, SumsAreNat
<1>7. set.interval \in Nat \ {0} /\ set.offset \in 0 .. set.interval
  BY SettingsFit
<1>8. \A l \in NwLevels : NwTimeUntil(set.schedule)[l] \in Nat /\ Padded(set.schedule, l) \in Nat
  BY <1>2, <1>4, <1>6 DEF NwLevels
<1>9. NwTimeUntil(set.schedule)[1] = Padded(set.schedule, 1) /\ Padded(set.schedule, 1) > 0
  <2>1. 1 \in 1 .. M /\ U[1] = P[1] + 0 /\ P[1] = Padded(set.schedule, 1) /\ P[1] \in Nat \ {0}
    BY <1>1, <1>2, <1>5 DEF NwLevels
  <2> QED BY <1>4, <2>1
<1> QED BY <1>1, <1>7, <1>8, <1>9

\* The level after a step: reached, and due to the timers.
LEMMA RaisedIs ==
  ASSUME NwTypes
  PROVE  /\ Raised \in nwLevel .. NwMaxLevel /\ Raised \in NwLevels
         /\ \A k \in nwLevel .. (Raised - 1) : LevelTimer(k) <= nwNow
         /\ Raised = NwMaxLevel \/ nwNow < LevelTimer(Raised)
         /\ \A k \in NwLevels : LevelTimer(k) \in Int
<1>1. nwLevel \in Nat /\ nwLevel > 0 /\ NwMaxLevel \in Nat /\ nwLevel <= NwMaxLevel /\ nwNow \in Nat
  BY UntilIs DEF NwTypes, NwLevels
<1>2. \A k \in NwLevels : LevelTimer(k) \in Int
  <2>1. \A k \in NwLevels : NwTimeUntil(nwSet.schedule)[k] \in Nat
    BY UntilIs DEF NwTypes
  <2>2. nwTimer.level \in Int /\ nwLevel \in NwLevels
    BY DEF NwTypes, NwTimers
  <2> QED BY <2>1, <2>2 DEF LevelTimer, DurationUntil
<1> DEFINE T == {l \in nwLevel .. NwMaxLevel : l = NwMaxLevel \/ nwNow < LevelTimer(l)}
<1>3. PICK l \in T : \A m \in T : <<m, l>> \notin OpToRel(<, Nat)
  <2>1. T \subseteq Nat /\ T # {}
    BY <1>1
  <2> HIDE DEF T
  <2> QED BY <2>1, NatLessThanWellFounded, WFMin
<1>4. \A k \in nwLevel .. (l - 1) : nwNow >= LevelTimer(k)
  <2> SUFFICES ASSUME NEW k \in nwLevel .. (l - 1) PROVE nwNow >= LevelTimer(k)
    OBVIOUS
  <2>1. k \in nwLevel .. NwMaxLevel /\ k # NwMaxLevel /\ k \in Nat /\ l \in Nat /\ k < l /\ k \in NwLevels
    BY <1>1 DEF NwLevels
  <2>2. k \notin T
    <3> HIDE DEF T
    <3> QED BY <1>3, <2>1 DEF OpToRel
  <2> QED BY <1>1, <1>2, <2>1, <2>2
<1>5. /\ l \in nwLevel .. NwMaxLevel
      /\ \A k \in nwLevel .. (l - 1) : nwNow >= LevelTimer(k)
      /\ l = NwMaxLevel \/ nwNow < LevelTimer(l)
  BY <1>4
<1>6. /\ Raised \in nwLevel .. NwMaxLevel
      /\ \A k \in nwLevel .. (Raised - 1) : nwNow >= LevelTimer(k)
      /\ Raised = NwMaxLevel \/ nwNow < LevelTimer(Raised)
  <2> HIDE DEF T
  <2> QED BY <1>5 DEF Raised
<1>7. PICK n \in nwLevel .. NwMaxLevel : n = Raised
  BY <1>6
<1>8. n \in NwLevels /\ \A k \in nwLevel .. (n - 1) : k \in NwLevels
  BY <1>1 DEF NwLevels
<1> QED BY <1>1, <1>2, <1>6, <1>7, <1>8

LEMMA OneLevelDue ==
  ASSUME NwTypes, NEW time \in Nat, NEW l \in NwLevels, NEW m \in NwLevels, NwDueAt(time, l), NwDueAt(time, m)
  PROVE  l = m
<1>1. /\ l \in Int /\ m \in Int /\ NwMaxLevel \in Int
      /\ \A k \in NwLevels : LevelDue(k) \in Int
  BY UntilIs DEF NwLevels, LevelDue, DurationUntil, NwTypes, NwPasts
<1>2. ~(l < m)
  <2> SUFFICES ASSUME l < m PROVE FALSE
    OBVIOUS
  <2>1. LevelDue(l) <= time /\ time < LevelDue(l)
    BY <1>1 DEF NwDueAt, NwLevels
  <2> QED BY <1>1, <2>1
<1>3. ~(m < l)
  <2> SUFFICES ASSUME m < l PROVE FALSE
    OBVIOUS
  <2>1. LevelDue(m) <= time /\ time < LevelDue(m)
    BY <1>1 DEF NwDueAt, NwLevels
  <2> QED BY <1>1, <2>1
<1> QED BY <1>1, <1>2, <1>3

-----------------------------------------------------------------------------
\* Records with some of their fields set.
LEMMA PastFields ==
  ASSUME NEW past \in NwPasts
  PROVE  /\ past.since \in Nat /\ past.events \in Nat /\ past.paid \in Nat /\ past.pace \in BOOLEAN /\ past.curve \in BOOLEAN
         /\ past.stepped \in Nat /\ past.changes \in Nat /\ past.buys \in Nat /\ past.rounds \in Nat
BY DEF NwPasts

LEMMA TimersStart == ASSUME NwInit PROVE NwInv
<1>1. /\ nwNow = 0 /\ nwState = "paused" /\ nwLevel = 1 /\ nwIndex = 0 /\ nwSet \in NwSettings /\ nwBought = 0
      /\ nwTimer = [attack |-> 1000, level |-> 1000, event |-> 1000, warmup |-> 1000]
      /\ nwGone = [here |-> 0, tracked |-> 0, enemy |-> 0] /\ nwLast.level = 0
      /\ nwPast = [since |-> 0, events |-> 0, paid |-> 0, pace |-> FALSE, curve |-> FALSE, stepped |-> 0,
                   changes |-> 0, buys |-> 0, rounds |-> 0]
  BY DEF NwInit, Timers0, Never, NothingFired, Past0
<1>2. NwTypes
  BY <1>1, UntilIs DEF NwTypes, NwTimers, NwPasts
<1>3. NwPastFits /\ NwBeat /\ NwCurve /\ BoughtGoesOut
  BY <1>1 DEF NwPastFits, NwBeat, NwCurve, BoughtGoesOut
<1> QED BY <1>2, <1>3 DEF NwInv

\* A start or a reset: the round is wiped.
LEMMA ClearKeeps ==
  ASSUME NwInv, NEW rounds \in Nat, NwClear(rounds), nwState' \in {"paused", "warmup"}, nwTimer' \in NwTimers,
         UNCHANGED <<nwNow, nwSet, nwHq>>
  PROVE  NwInv'
<1>1. NwTypes
  BY DEF NwInv
<1>2. /\ nwLevel' = 1 /\ nwIndex' = 0 /\ nwBought' = 0 /\ nwLast'.level = 0
      /\ nwGone' = [here |-> 0, tracked |-> 0, enemy |-> 0]
      /\ nwPast' = [since |-> 0, events |-> 0, paid |-> 0, pace |-> FALSE, curve |-> FALSE, stepped |-> 0,
                    changes |-> nwPast.changes, buys |-> nwPast.buys, rounds |-> rounds]
  BY DEF NwClear, NothingFired, Past0
<1>3. nwPast' \in NwPasts
  <2>1. nwPast.changes \in Nat /\ nwPast.buys \in Nat
    BY <1>1 DEF NwTypes, NwPasts
  <2> QED BY <1>2, <2>1 DEF NwPasts
<1>4. NwTypes'
  BY <1>1, <1>2, <1>3, UntilIs DEF NwTypes, NwTimers, NwLevels
<1>5. NwPastFits' /\ NwBeat' /\ NwCurve' /\ BoughtGoesOut'
  BY <1>2 DEF NwPastFits, NwBeat, NwCurve, BoughtGoesOut
<1> QED BY <1>4, <1>5 DEF NwInv

LEMMA StartKeeps == ASSUME NwInv, NwStart \/ NwReset PROVE NwInv'
<1>1. nwPast.rounds \in Nat /\ nwPast.rounds + 1 \in Nat /\ nwNow + NwWarmup \in Int
  BY SettingsFit DEF NwInv, NwTypes, NwPasts
<1>2. Timers0 \in NwTimers /\ [Timers0 EXCEPT !.warmup = nwNow + NwWarmup] \in NwTimers
  BY <1>1 DEF Timers0, Never, NwTimers
<1>3. CASE NwStart
  BY <1>1, <1>2, <1>3, ClearKeeps DEF NwStart, WarmupTimer
<1>4. CASE NwReset
  BY <1>1, <1>2, <1>4, ClearKeeps DEF NwReset
<1> QED BY <1>3, <1>4

LEMMA OverKeeps ==
  ASSUME NwInv, GameOver, UNCHANGED <<nwNow, nwIndex, nwSet, nwHq, nwBought, nwGone, nwLast, nwLevel, nwPast>>
  PROVE  NwInv'
<1>1. NwTypes /\ NwPastFits /\ BoughtGoesOut
  BY DEF NwInv
<1>2. nwState' = "game_over" /\ nwTimer' \in NwTimers
  BY DEF GameOver, Timers0, Never, NwTimers
<1>3. NwTypes'
  BY <1>1, <1>2 DEF NwTypes, NwTimers, NwPasts, NwLevels
<1>4. NwPastFits' /\ NwBeat' /\ NwCurve' /\ BoughtGoesOut'
  BY <1>1, <1>2 DEF NwPastFits, NwBeat, NwCurve, BoughtGoesOut
<1> QED BY <1>3, <1>4 DEF NwInv

LEMMA EndWarmupKeeps == ASSUME NwInv, NwEndWarmup PROVE NwInv'
<1>1. NwTypes /\ NwPastFits /\ BoughtGoesOut
  BY DEF NwInv
<1>2. CASE nwHq
  <2>1. /\ nwState = "warmup" /\ nwState' = "running" /\ nwLevel' = 1
        /\ nwTimer' = [nwTimer EXCEPT !.attack = nwNow, !.level = nwNow + Duration(1), !.event = nwNow + nwSet.interval - nwSet.offset]
        /\ nwPast' = [nwPast EXCEPT !.since = nwNow, !.stepped = nwNow]
        /\ UNCHANGED <<nwNow, nwIndex, nwSet, nwHq, nwBought, nwGone, nwLast>>
    BY <1>2 DEF NwEndWarmup
  <2>2. /\ nwNow \in Nat /\ nwSet.interval \in Nat /\ nwSet.interval > 0 /\ nwSet.offset \in Nat /\ nwSet.offset <= nwSet.interval
        /\ Duration(1) = NwTimeUntil(nwSet.schedule)[1] /\ Duration(1) \in Nat /\ Duration(1) > 0 /\ 1 \in NwLevels
    BY <1>1, UntilIs DEF NwTypes, Duration
  <2>3. /\ nwTimer' \in NwTimers /\ nwTimer'.attack = nwNow /\ nwTimer'.level = nwNow + Duration(1)
        /\ nwTimer'.event = nwNow + nwSet.interval - nwSet.offset
    <3>1. PICK l \in Int, e \in Int : l = nwNow + Duration(1) /\ e = nwNow + nwSet.interval - nwSet.offset
      BY <2>2
    <3>2. nwTimer \in NwTimers /\ nwTimer' = [nwTimer EXCEPT !.attack = nwNow, !.level = l, !.event = e]
      BY <1>1, <2>1, <3>1 DEF NwTypes
    <3>3. nwTimer' = [attack |-> nwNow, level |-> l, event |-> e, warmup |-> nwTimer.warmup] /\ nwTimer.warmup \in Int
      BY <3>2 DEF NwTimers
    <3>4. nwNow \in Int
      BY <2>2
    <3>5. nwTimer' \in NwTimers /\ nwTimer'.attack = nwNow /\ nwTimer'.level = l /\ nwTimer'.event = e
      BY <3>3, <3>4 DEF NwTimers
    <3> QED BY <3>1, <3>5
  <2>4. /\ nwPast' \in NwPasts /\ nwPast'.since = nwNow /\ nwPast'.stepped = nwNow /\ nwPast'.events = nwPast.events
        /\ nwPast'.paid = nwPast.paid
    BY <1>1, <2>1, <2>2 DEF NwTypes, NwPasts
  <2>5. NwTypes'
    BY <1>1, <2>1, <2>2, <2>3, <2>4 DEF NwTypes, NwTimers, NwPasts, NwLevels
  <2>6. nwIndex = 0 /\ nwPast.events = 0 /\ nwLast.level = 0
    BY <1>1, <2>1 DEF NwPastFits
  <2>7. NwPastFits'
    BY <2>1, <2>2, <2>4, <2>6 DEF NwPastFits
  <2>8. NwBeat'
    <3>1. nwIndex' = 0 /\ nwPast'.events = 0 /\ nwSet' = nwSet /\ 0 * nwSet.interval = 0
      BY <2>1, <2>2, <2>4, <2>6
    <3>2. nwTimer'.attack = nwPast'.since + nwIndex' * nwSet'.interval
      BY <2>2, <2>3, <2>4, <3>1
    <3>3. nwTimer'.attack <= nwTimer'.event /\ nwTimer'.event <= nwTimer'.attack + nwSet'.interval
      BY <2>1, <2>2, <2>3
    <3> QED BY <3>1, <3>2, <3>3 DEF NwBeat
  <2>9. LevelDue(1)' = nwNow + Duration(1)
    BY <2>1, <2>2, <2>4 DEF LevelDue, DurationUntil
  <2>10. NwCurve'
    BY <2>1, <2>2, <2>3, <2>4, <2>9 DEF NwCurve, NwDueAt
  <2>11. BoughtGoesOut'
    BY <1>1, <2>1, <2>4 DEF BoughtGoesOut
  <2> QED BY <2>5, <2>7, <2>8, <2>10, <2>11 DEF NwInv
<1>3. CASE ~nwHq
  BY <1>3, OverKeeps DEF NwEndWarmup
<1> QED BY <1>2, <1>3

LEMMA NextTimes == ASSUME NEW n \in Nat, NEW k \in Nat PROVE (n + 1) * k = n * k + k /\ n * k \in Nat
OBVIOUS

\* A step in RUNNING: what is due of level, event and attack, each once.
LEMMA RunKeeps == ASSUME NwInv, NwRun PROVE NwInv'
<1>1. NwTypes /\ NwPastFits /\ NwBeat /\ NwCurve /\ BoughtGoesOut
  BY DEF NwInv
<1>2. /\ nwState = "running" /\ nwLevel' = Raised
      /\ nwTimer' = [nwTimer EXCEPT
           !.level = LevelTimer(Raised),
           !.event = IF EventDue THEN nwTimer.event + nwSet.interval ELSE nwTimer.event,
           !.attack = IF AttackDue THEN nwTimer.attack + nwSet.interval ELSE nwTimer.attack]
      /\ nwPast' = [nwPast EXCEPT !.stepped = nwNow, !.events = IF EventDue THEN nwPast.events + 1 ELSE nwPast.events]
      /\ UNCHANGED <<nwNow, nwState, nwSet, nwHq>>
  BY DEF NwRun, NextAttack
<1>3. /\ AttackDue => /\ nwIndex' = nwIndex + 1 /\ nwLast' = WavePlan(Raised) /\ nwGone' = SentOut /\ nwBought' = 0
      /\ ~AttackDue => UNCHANGED <<nwIndex, nwLast, nwGone, nwBought>>
  BY DEF NwRun
<1>4. /\ Raised \in nwLevel .. NwMaxLevel /\ Raised \in NwLevels
      /\ \A k \in nwLevel .. (Raised - 1) : LevelTimer(k) <= nwNow
      /\ Raised = NwMaxLevel \/ nwNow < LevelTimer(Raised)
      /\ LevelTimer(Raised) \in Int
  BY <1>1, RaisedIs
<1>5. /\ nwNow \in Nat /\ nwIndex \in Nat /\ nwTimer.attack \in Int /\ nwTimer.event \in Int /\ nwSet.interval \in Nat
      /\ nwSet.interval > 0 /\ nwPast.events \in Nat /\ nwPast.since \in Nat /\ nwPast.stepped \in Nat
      /\ nwPast.since <= nwPast.stepped /\ nwPast.stepped <= nwNow
  BY <1>1, <1>2, UntilIs DEF NwTypes, NwTimers, NwPasts, NwPastFits
<1>6. /\ nwTimer' \in NwTimers /\ nwTimer'.level = LevelTimer(Raised)
      /\ nwTimer'.event = IF EventDue THEN nwTimer.event + nwSet.interval ELSE nwTimer.event
      /\ nwTimer'.attack = IF AttackDue THEN nwTimer.attack + nwSet.interval ELSE nwTimer.attack
  <2>1. PICK a \in Int, l \in Int, e \in Int :
          /\ a = (IF AttackDue THEN nwTimer.attack + nwSet.interval ELSE nwTimer.attack)
          /\ e = (IF EventDue THEN nwTimer.event + nwSet.interval ELSE nwTimer.event)
          /\ l = LevelTimer(Raised)
    BY <1>4, <1>5
  <2>2. nwTimer \in NwTimers /\ nwTimer' = [nwTimer EXCEPT !.level = l, !.event = e, !.attack = a]
    BY <1>1, <1>2, <2>1 DEF NwTypes
  <2>3. nwTimer' = [attack |-> a, level |-> l, event |-> e, warmup |-> nwTimer.warmup] /\ nwTimer.warmup \in Int
    BY <2>2 DEF NwTimers
  <2>4. nwTimer' \in NwTimers /\ nwTimer'.attack = a /\ nwTimer'.level = l /\ nwTimer'.event = e
    BY <2>3 DEF NwTimers
  <2> QED BY <2>1, <2>4
<1>7. /\ nwPast' \in NwPasts /\ nwPast'.stepped = nwNow /\ nwPast'.since = nwPast.since
      /\ nwPast'.events = IF EventDue THEN nwPast.events + 1 ELSE nwPast.events
      /\ nwPast'.pace = nwPast.pace /\ nwPast'.curve = nwPast.curve /\ nwPast'.paid = nwPast.paid
  <2>1. PICK n \in Nat : n = IF EventDue THEN nwPast.events + 1 ELSE nwPast.events
    BY <1>5
  <2>2. nwPast \in NwPasts /\ nwPast' = [nwPast EXCEPT !.stepped = nwNow, !.events = n]
    BY <1>1, <1>2, <2>1 DEF NwTypes
  <2>3. /\ nwPast' \in NwPasts /\ nwPast'.stepped = nwNow /\ nwPast'.since = nwPast.since /\ nwPast'.events = n
        /\ nwPast'.pace = nwPast.pace /\ nwPast'.curve = nwPast.curve /\ nwPast'.paid = nwPast.paid
    BY <1>5, <2>2 DEF NwPasts
  <2> QED BY <2>1, <2>3
<1>8. /\ nwGone' \in [here : Nat, tracked : Nat, enemy : Nat] /\ nwBought' \in Nat
      /\ nwBought' + nwGone'.here + nwGone'.tracked = nwBought + nwGone.here + nwGone.tracked
      /\ nwGone'.enemy <= nwGone'.here + nwGone'.tracked
  <2>1. /\ nwGone \in [here : Nat, tracked : Nat, enemy : Nat] /\ nwBought \in Nat
        /\ nwGone.enemy <= nwGone.here + nwGone.tracked
    BY <1>1 DEF NwTypes, BoughtGoesOut
  <2>2. CASE AttackDue
    <3>1. PICK self, enemy : self = nwSet.toggles.self /\ enemy = nwSet.toggles.enemy
      OBVIOUS
    <3>2. nwGone' = [nwGone EXCEPT !.here = nwGone.here + (IF self THEN nwBought ELSE 0),
                                   !.tracked = nwGone.tracked + (IF self THEN 0 ELSE nwBought),
                                   !.enemy = nwGone.enemy + (IF enemy THEN nwBought ELSE 0)]
          /\ nwBought' = 0
      BY <1>3, <2>2, <3>1 DEF SentOut
    <3>3. PICK h \in Nat, t \in Nat, e \in Nat :
            /\ h = (IF self THEN nwBought ELSE 0) /\ t = (IF self THEN 0 ELSE nwBought) /\ e = (IF enemy THEN nwBought ELSE 0)
      BY <2>1
    <3>4. h + t = nwBought /\ e <= nwBought
      BY <2>1, <3>3
    <3>5. /\ nwGone' \in [here : Nat, tracked : Nat, enemy : Nat]
          /\ nwGone'.here = nwGone.here + h /\ nwGone'.tracked = nwGone.tracked + t /\ nwGone'.enemy = nwGone.enemy + e
      <4>1. nwGone' = [nwGone EXCEPT !.here = nwGone.here + h, !.tracked = nwGone.tracked + t, !.enemy = nwGone.enemy + e]
        BY <3>2, <3>3
      <4>2. nwGone' = [here |-> nwGone.here + h, tracked |-> nwGone.tracked + t, enemy |-> nwGone.enemy + e]
        BY <2>1, <4>1
      <4> QED BY <2>1, <4>2
    <3> QED BY <2>1, <3>2, <3>4, <3>5
  <2>3. CASE ~AttackDue
    BY <1>3, <2>1, <2>3
  <2> QED BY <2>2, <2>3
<1>9. nwIndex' \in Nat
  BY <1>3, <1>5
<1>10. NwTypes'
  BY <1>1, <1>2, <1>4, <1>6, <1>7, <1>8, <1>9 DEF NwTypes, NwTimers, NwPasts, NwLevels
<1>11. NwPastFits'
  <2>1. nwLast'.level \in Int /\ nwLast'.level <= nwLevel'
    <3>1. CASE AttackDue
      BY <1>2, <1>3, <1>4, <3>1 DEF WavePlan, NwLevels
    <3>2. CASE ~AttackDue
      BY <1>1, <1>2, <1>3, <1>4, <3>2 DEF NwPastFits, NwTypes, NwLevels
    <3> QED BY <3>1, <3>2
  <2> QED BY <1>2, <1>5, <1>7, <2>1 DEF NwPastFits
<1>12. NwBeat'
  <2> SUFFICES ASSUME ~nwPast.pace
               PROVE  /\ nwTimer'.attack = nwPast'.since + nwIndex' * nwSet'.interval
                      /\ nwIndex' > 0 => nwTimer'.attack - nwSet'.interval <= nwPast'.stepped
                      /\ \/ /\ nwPast'.events = nwIndex'
                            /\ nwTimer'.attack <= nwTimer'.event /\ nwTimer'.event <= nwTimer'.attack + nwSet'.interval
                         \/ /\ nwPast'.events = nwIndex' - 1
                            /\ nwTimer'.attack - nwSet'.interval <= nwTimer'.event /\ nwTimer'.event <= nwTimer'.attack
    BY <1>7 DEF NwBeat
  <2>1. /\ nwTimer.attack = nwPast.since + nwIndex * nwSet.interval
        /\ nwIndex > 0 => nwTimer.attack - nwSet.interval <= nwPast.stepped
        /\ \/ /\ nwPast.events = nwIndex
              /\ nwTimer.attack <= nwTimer.event /\ nwTimer.event <= nwTimer.attack + nwSet.interval
           \/ /\ nwPast.events = nwIndex - 1
              /\ nwTimer.attack - nwSet.interval <= nwTimer.event /\ nwTimer.event <= nwTimer.attack
    BY <1>1, <1>2 DEF NwBeat
  <2>2. nwSet' = nwSet /\ (AttackDue <=> nwNow >= nwTimer.attack) /\ (EventDue <=> nwNow >= nwTimer.event)
    BY <1>2 DEF AttackDue, EventDue
  <2>3. nwTimer'.attack = nwPast'.since + nwIndex' * nwSet'.interval
    <3>1. CASE AttackDue
      <4>1. (nwIndex + 1) * nwSet.interval = nwIndex * nwSet.interval + nwSet.interval /\ nwIndex * nwSet.interval \in Nat
        BY <1>5, NextTimes
      <4>2. PICK p \in Nat, q \in Nat : p = nwIndex * nwSet.interval /\ q = (nwIndex + 1) * nwSet.interval
        BY <1>5, <4>1
      <4>3. nwIndex' * nwSet'.interval = q
        BY <1>3, <2>2, <3>1, <4>2
      <4>4. q = p + nwSet.interval /\ nwTimer.attack = nwPast.since + p
        BY <2>1, <4>1, <4>2
      <4>5. nwTimer'.attack = nwTimer.attack + nwSet.interval /\ nwPast'.since = nwPast.since
        BY <1>6, <1>7, <3>1
      <4>6. nwTimer'.attack = nwPast'.since + q
        BY <1>5, <4>4, <4>5
      <4> QED BY <4>3, <4>6
    <3>2. CASE ~AttackDue
      BY <1>3, <1>6, <1>7, <2>1, <2>2, <3>2
    <3> QED BY <3>1, <3>2
  <2>4. nwIndex' > 0 => nwTimer'.attack - nwSet'.interval <= nwPast'.stepped
    <3>1. CASE AttackDue
      BY <1>5, <1>6, <1>7, <2>2, <3>1
    <3>2. CASE ~AttackDue
      BY <1>3, <1>5, <1>6, <1>7, <2>1, <2>2, <3>2
    <3> QED BY <3>1, <3>2
  <2>5. CASE AttackDue /\ EventDue
    <3>1. /\ nwIndex' = nwIndex + 1 /\ nwPast'.events = nwPast.events + 1
          /\ nwTimer'.attack = nwTimer.attack + nwSet.interval /\ nwTimer'.event = nwTimer.event + nwSet.interval
      BY <1>3, <1>6, <1>7, <2>5
    <3> QED BY <1>5, <2>1, <2>2, <2>3, <2>4, <3>1
  <2>6. CASE AttackDue /\ ~EventDue
    <3>1. /\ nwIndex' = nwIndex + 1 /\ nwPast'.events = nwPast.events
          /\ nwTimer'.attack = nwTimer.attack + nwSet.interval /\ nwTimer'.event = nwTimer.event
      BY <1>3, <1>6, <1>7, <2>6
    <3>2. nwNow >= nwTimer.attack /\ ~(nwNow >= nwTimer.event)
      BY <2>2, <2>6
    <3> QED BY <1>5, <2>1, <2>2, <2>3, <2>4, <3>1, <3>2
  <2>7. CASE ~AttackDue /\ EventDue
    <3>1. /\ nwIndex' = nwIndex /\ nwPast'.events = nwPast.events + 1
          /\ nwTimer'.attack = nwTimer.attack /\ nwTimer'.event = nwTimer.event + nwSet.interval
      BY <1>3, <1>6, <1>7, <2>7
    <3>2. ~(nwNow >= nwTimer.attack) /\ nwNow >= nwTimer.event
      BY <2>2, <2>7
    <3> QED BY <1>5, <2>1, <2>2, <2>3, <2>4, <3>1, <3>2
  <2>8. CASE ~AttackDue /\ ~EventDue
    <3>1. /\ nwIndex' = nwIndex /\ nwPast'.events = nwPast.events
          /\ nwTimer'.attack = nwTimer.attack /\ nwTimer'.event = nwTimer.event
      BY <1>3, <1>6, <1>7, <2>8
    <3> QED BY <1>5, <2>1, <2>2, <2>3, <2>4, <3>1
  <2> QED BY <2>5, <2>6, <2>7, <2>8
<1>13. NwCurve'
  <2> SUFFICES ASSUME ~nwPast.curve
               PROVE  nwTimer'.level = LevelDue(nwLevel)' /\ NwDueAt(nwPast.stepped, nwLevel)'
    BY <1>7 DEF NwCurve
  <2>1. nwTimer.level = LevelDue(nwLevel) /\ NwDueAt(nwPast.stepped, nwLevel)
    BY <1>1, <1>2 DEF NwCurve
  <2>2. \A k \in NwLevels : LevelTimer(k) = LevelDue(k) /\ LevelDue(k) \in Int
    <3>1. \A k \in NwLevels : DurationUntil(k) \in Nat
      BY <1>1, UntilIs DEF NwTypes, DurationUntil
    <3>2. nwLevel \in NwLevels
      BY <1>1 DEF NwTypes
    <3> QED BY <1>5, <2>1, <3>1, <3>2 DEF LevelTimer, LevelDue
  <2>3. PICK n \in NwLevels : n = Raised
    BY <1>4
  <2>4. ASSUME NEW k \in 1 .. (n - 1) PROVE LevelDue(k) <= nwNow
    <3>1. k \in NwLevels /\ k \in Int /\ n \in Int /\ nwLevel \in Nat
      <4>1. NwMaxLevel \in Nat /\ nwLevel \in 1 .. NwMaxLevel /\ n \in 1 .. NwMaxLevel
        BY <1>1, UntilIs DEF NwLevels, NwTypes
      <4> QED BY <4>1 DEF NwLevels
    <3>2. CASE k < nwLevel
      <4>1. LevelDue(k) <= nwPast.stepped
        BY <2>1, <3>1, <3>2 DEF NwDueAt
      <4> QED BY <1>5, <2>2, <3>1, <4>1
    <3>3. CASE k >= nwLevel
      <4>1. k \in nwLevel .. (n - 1)
        BY <3>1, <3>3
      <4> QED BY <1>4, <2>2, <2>3, <3>1, <4>1
    <3> QED BY <3>1, <3>2, <3>3
  <2>5. n = NwMaxLevel \/ nwNow < LevelDue(n)
    BY <1>4, <2>2, <2>3
  <2>6. nwPast'.since = nwPast.since /\ nwSet' = nwSet /\ nwLevel' = n /\ nwPast'.stepped = nwNow
        /\ nwTimer'.level = LevelDue(n)
    BY <1>2, <1>6, <1>7, <2>2, <2>3
  <2>7. nwTimer'.level = LevelDue(nwLevel)'
    BY <2>6 DEF LevelDue, DurationUntil
  <2>8. NwDueAt(nwPast.stepped, nwLevel)'
    BY <2>4, <2>5, <2>6 DEF NwDueAt, LevelDue, DurationUntil
  <2> QED BY <2>7, <2>8
<1>14. BoughtGoesOut'
  BY <1>1, <1>7, <1>8 DEF BoughtGoesOut
<1> QED BY <1>10, <1>11, <1>12, <1>13, <1>14 DEF NwInv

LEMMA SyncKeeps == ASSUME NwInv, NwSync PROVE NwInv'
<1>1. NwTypes /\ NwPastFits /\ NwBeat /\ NwCurve /\ BoughtGoesOut
  BY DEF NwInv
<1>2. PICK pace \in BOOLEAN, curve \in BOOLEAN, active \in BOOLEAN :
        /\ pace = (nwSet'.interval # nwSet.interval) /\ curve = (nwSet'.schedule # nwSet.schedule)
        /\ active = (nwState = "running") /\ nwSet' \in NwSettings
        /\ nwTimer' = [nwTimer EXCEPT
             !.attack = IF pace /\ active THEN nwNow + nwSet'.interval ELSE nwTimer.attack,
             !.level = IF curve /\ active THEN nwNow + Padded(nwSet'.schedule, nwLevel) ELSE nwTimer.level]
        /\ nwPast' = [nwPast EXCEPT !.changes = nwPast.changes + 1, !.pace = nwPast.pace \/ (pace /\ active),
                                    !.curve = nwPast.curve \/ (curve /\ active)]
        /\ UNCHANGED <<nwNow, nwState, nwLevel, nwIndex, nwHq, nwBought, nwGone, nwLast>>
  BY DEF NwSync
<1>3. nwSet'.interval \in Nat /\ Padded(nwSet'.schedule, nwLevel) \in Nat
  BY <1>1, <1>2, UntilIs DEF NwTypes
<1>4. /\ nwTimer' \in NwTimers /\ nwTimer'.event = nwTimer.event
      /\ ~(pace /\ active) => nwTimer'.attack = nwTimer.attack
      /\ ~(curve /\ active) => nwTimer'.level = nwTimer.level
  <2>1. PICK a \in Int, l \in Int :
          /\ a = (IF pace /\ active THEN nwNow + nwSet'.interval ELSE nwTimer.attack)
          /\ l = (IF curve /\ active THEN nwNow + Padded(nwSet'.schedule, nwLevel) ELSE nwTimer.level)
    BY <1>1, <1>3 DEF NwTypes, NwTimers
  <2>2. nwTimer \in NwTimers /\ nwTimer' = [nwTimer EXCEPT !.attack = a, !.level = l]
    BY <1>1, <1>2, <2>1 DEF NwTypes
  <2>3. /\ nwTimer' = [attack |-> a, level |-> l, event |-> nwTimer.event, warmup |-> nwTimer.warmup]
        /\ nwTimer.event \in Int /\ nwTimer.warmup \in Int
    BY <2>2 DEF NwTimers
  <2>4. nwTimer' \in NwTimers /\ nwTimer'.event = nwTimer.event /\ nwTimer'.attack = a /\ nwTimer'.level = l
    BY <2>3 DEF NwTimers
  <2> QED BY <2>1, <2>4
<1>5. /\ nwPast' \in NwPasts /\ nwPast'.since = nwPast.since /\ nwPast'.events = nwPast.events /\ nwPast'.paid = nwPast.paid
      /\ nwPast'.stepped = nwPast.stepped
      /\ nwPast'.pace = (nwPast.pace \/ (pace /\ active)) /\ nwPast'.curve = (nwPast.curve \/ (curve /\ active))
  <2>1. nwPast \in NwPasts
    BY <1>1 DEF NwTypes
  <2>2. (nwPast.pace \/ (pace /\ active)) \in BOOLEAN /\ (nwPast.curve \/ (curve /\ active)) \in BOOLEAN /\ nwPast.changes + 1 \in Nat
    BY <2>1, PastFields
  <2>3. PICK n \in Nat, p \in BOOLEAN, c \in BOOLEAN :
          n = nwPast.changes + 1 /\ p = (nwPast.pace \/ (pace /\ active)) /\ c = (nwPast.curve \/ (curve /\ active))
    BY <2>2, Zenon
  <2>4. nwPast' = [nwPast EXCEPT !.changes = n, !.pace = p, !.curve = c]
    BY <1>2, <2>3
  <2>5. /\ nwPast' \in NwPasts /\ nwPast'.since = nwPast.since /\ nwPast'.events = nwPast.events
        /\ nwPast'.paid = nwPast.paid /\ nwPast'.stepped = nwPast.stepped /\ nwPast'.pace = p /\ nwPast'.curve = c
    BY <2>1, <2>4 DEF NwPasts
  <2> QED BY <2>3, <2>5, Zenon
<1>6. NwTypes'
  BY <1>1, <1>2, <1>4, <1>5 DEF NwTypes, NwTimers, NwPasts, NwLevels
<1>7. NwPastFits'
  BY <1>1, <1>2, <1>5 DEF NwPastFits
<1>8. NwBeat'
  <2> SUFFICES ASSUME nwState' = "running", ~nwPast'.pace
               PROVE  /\ nwTimer'.attack = nwPast'.since + nwIndex' * nwSet'.interval
                      /\ nwIndex' > 0 => nwTimer'.attack - nwSet'.interval <= nwPast'.stepped
                      /\ \/ /\ nwPast'.events = nwIndex'
                            /\ nwTimer'.attack <= nwTimer'.event /\ nwTimer'.event <= nwTimer'.attack + nwSet'.interval
                         \/ /\ nwPast'.events = nwIndex' - 1
                            /\ nwTimer'.attack - nwSet'.interval <= nwTimer'.event /\ nwTimer'.event <= nwTimer'.attack
    BY DEF NwBeat
  <2>1. nwState = "running" /\ active /\ ~pace /\ ~nwPast.pace
    BY <1>2, <1>5
  <2>2. nwSet'.interval = nwSet.interval /\ nwTimer'.attack = nwTimer.attack /\ nwIndex' = nwIndex
    BY <1>2, <1>4, <2>1
  <2> QED BY <1>1, <1>4, <1>5, <2>1, <2>2 DEF NwBeat
<1>9. NwCurve'
  <2> SUFFICES ASSUME nwState' = "running", ~nwPast'.curve
               PROVE  nwTimer'.level = LevelDue(nwLevel)' /\ NwDueAt(nwPast.stepped, nwLevel)'
    BY DEF NwCurve
  <2>1. nwState = "running" /\ active /\ ~curve /\ ~nwPast.curve
    BY <1>2, <1>5
  <2>2. nwSet'.schedule = nwSet.schedule /\ nwTimer'.level = nwTimer.level /\ nwLevel' = nwLevel
    BY <1>2, <1>4, <2>1
  <2>3. \A k : LevelDue(k)' = LevelDue(k)
    BY <1>5, <2>2 DEF LevelDue, DurationUntil
  <2>4. nwTimer.level = LevelDue(nwLevel) /\ NwDueAt(nwPast.stepped, nwLevel)
    BY <1>1, <2>1 DEF NwCurve
  <2> QED BY <1>5, <2>2, <2>3, <2>4 DEF NwDueAt, LevelDue, DurationUntil
<1>10. BoughtGoesOut'
  BY <1>1, <1>2, <1>5 DEF BoughtGoesOut
<1> QED BY <1>6, <1>7, <1>8, <1>9, <1>10 DEF NwInv

\* An order, and the world's steps: no timer moves.
LEMMA OthersKeep ==
  ASSUME NwInv, nwNow' \in Nat, nwNow' >= nwNow, nwBought' \in Nat, nwPast' \in NwPasts,
         nwPast'.paid - nwBought' = nwPast.paid - nwBought,
         nwPast'.since = nwPast.since, nwPast'.events = nwPast.events, nwPast'.stepped = nwPast.stepped,
         nwPast'.pace = nwPast.pace, nwPast'.curve = nwPast.curve,
         UNCHANGED <<nwState, nwLevel, nwIndex, nwTimer, nwSet, nwGone, nwLast>>
  PROVE  NwInv'
<1>1. NwTypes /\ NwPastFits /\ NwBeat /\ NwCurve /\ BoughtGoesOut
  BY DEF NwInv
<1>2. NwTypes'
  BY <1>1 DEF NwTypes, NwTimers, NwPasts, NwLevels
<1>3. NwPastFits'
  BY <1>1 DEF NwPastFits, NwTypes, NwPasts
<1>4. NwBeat'
  BY <1>1 DEF NwBeat
<1>5. NwCurve'
  BY <1>1 DEF NwCurve, NwDueAt, LevelDue, DurationUntil
<1>6. BoughtGoesOut'
  <2>1. /\ nwPast.paid \in Nat /\ nwBought \in Nat /\ nwPast'.paid \in Nat
        /\ nwGone.here \in Nat /\ nwGone.tracked \in Nat
    BY <1>1 DEF NwTypes, NwPasts
  <2> QED BY <1>1, <2>1 DEF BoughtGoesOut
<1> QED BY <1>2, <1>3, <1>4, <1>5, <1>6 DEF NwInv

LEMMA TimersKeep == ASSUME NwInv, [NwNext]_nwVars PROVE NwInv'
<1>1. /\ nwNow \in Nat /\ nwBought \in Nat /\ nwPast \in NwPasts /\ nwPast.paid \in Nat /\ nwPast.buys \in Nat
  BY DEF NwInv, NwTypes, NwPasts
<1>2. CASE NwStart \/ NwReset
  BY <1>2, StartKeeps
<1>3. CASE NwEndWarmup
  BY <1>3, EndWarmupKeeps
<1>4. CASE NwHqDead
  BY <1>4, OverKeeps DEF NwHqDead
<1>5. CASE NwRun
  BY <1>5, RunKeeps
<1>6. CASE NwBuy
  <2>1. /\ nwBought' = nwBought + 1 /\ nwPast' = [nwPast EXCEPT !.paid = nwPast.paid + 1, !.buys = nwPast.buys + 1]
        /\ UNCHANGED <<nwNow, nwState, nwLevel, nwIndex, nwTimer, nwSet, nwHq, nwGone, nwLast>>
    BY <1>6 DEF NwBuy
  <2>2. /\ nwPast' \in NwPasts /\ nwPast'.paid = nwPast.paid + 1
        /\ nwPast'.since = nwPast.since /\ nwPast'.events = nwPast.events /\ nwPast'.stepped = nwPast.stepped
        /\ nwPast'.pace = nwPast.pace /\ nwPast'.curve = nwPast.curve
    <3>1. nwPast.paid + 1 \in Nat /\ nwPast.buys + 1 \in Nat
      BY <1>1
    <3> QED BY <1>1, <2>1, <3>1 DEF NwPasts
  <2>3. nwPast'.paid - nwBought' = nwPast.paid - nwBought
    BY <1>1, <2>1, <2>2
  <2> QED BY <1>1, <2>1, <2>2, <2>3, OthersKeep
<1>7. CASE NwSync
  BY <1>7, SyncKeeps
<1>8. CASE NwGame
  BY <1>1, <1>8, OthersKeep DEF NwGame
<1>9. CASE NwTime
  BY <1>1, <1>9, OthersKeep DEF NwTime
<1>10. CASE UNCHANGED nwVars
  BY <1>1, <1>10, OthersKeep DEF nwVars
<1> QED BY <1>2, <1>3, <1>4, <1>5, <1>6, <1>7, <1>8, <1>9, <1>10 DEF NwNext, NwStep, NwStepBlind

LEMMA TimersTold == ASSUME NwInv PROVE TimersTell
<1>1. NwTypes /\ NwPastFits /\ NwBeat /\ NwCurve /\ BoughtGoesOut
  BY DEF NwInv
<1>2. KeepsTheBeat
  <2> SUFFICES ASSUME nwState = "running", ~nwPast.pace
               PROVE  /\ nwTimer.attack = nwPast.since + nwIndex * nwSet.interval
                      /\ nwIndex > 0 => nwPast.since + (nwIndex - 1) * nwSet.interval <= nwPast.stepped
                      /\ nwIndex > 0 => nwPast.events \in {nwIndex - 1, nwIndex}
    BY DEF KeepsTheBeat, EventPerCycle
  <2>1. /\ nwTimer.attack = nwPast.since + nwIndex * nwSet.interval
        /\ nwIndex > 0 => nwTimer.attack - nwSet.interval <= nwPast.stepped
        /\ nwPast.events \in {nwIndex - 1, nwIndex}
    BY <1>1 DEF NwBeat
  <2>2. ASSUME nwIndex > 0 PROVE nwPast.since + (nwIndex - 1) * nwSet.interval <= nwPast.stepped
    <3>1. nwIndex - 1 \in Nat /\ nwIndex \in Nat /\ nwSet.interval \in Nat /\ nwPast.since \in Nat /\ nwPast.stepped \in Nat
      BY <1>1, <2>2, UntilIs DEF NwTypes, NwPasts
    <3>2. PICK m \in Nat : m = nwIndex - 1
      BY <3>1
    <3>3. (m + 1) * nwSet.interval = m * nwSet.interval + nwSet.interval /\ m * nwSet.interval \in Nat
      BY <3>1, NextTimes
    <3>4. nwIndex = m + 1
      BY <3>1, <3>2
    <3>5. nwTimer.attack = nwPast.since + (m + 1) * nwSet.interval /\ nwTimer.attack - nwSet.interval <= nwPast.stepped
      BY <2>1, <2>2, <3>4
    <3>6. PICK p \in Nat : p = m * nwSet.interval
      BY <3>3
    <3>7. nwTimer.attack = nwPast.since + (p + nwSet.interval)
      BY <3>3, <3>5, <3>6
    <3>8. nwPast.since + p <= nwPast.stepped
      BY <3>1, <3>5, <3>7
    <3> QED BY <3>2, <3>6, <3>8
  <2> QED BY <2>1, <2>2
<1>3. LevelFollowsSchedule
  <2> SUFFICES ASSUME nwState = "running", ~nwPast.curve
               PROVE  nwLevel = CHOOSE l \in NwLevels : NwDueAt(nwPast.stepped, l)
    BY <1>1 DEF LevelFollowsSchedule, NwPastFits, NwDueAt, NwLevels
  <2>1. nwLevel \in NwLevels /\ NwDueAt(nwPast.stepped, nwLevel) /\ nwPast.stepped \in Nat
    BY <1>1 DEF NwCurve, NwTypes, NwPasts
  <2>2. \A l \in NwLevels : NwDueAt(nwPast.stepped, l) => l = nwLevel
    BY <1>1, <2>1, OneLevelDue
  <2> QED BY <2>1, <2>2
<1> QED BY <1>1, <1>2, <1>3 DEF TimersTell

\* The attacks keep their beat with an event each, the level is the schedule's, and
\* what was bought goes out once, however late the steps come (TimersTell).
THEOREM TimersAlwaysTell == NwSpec => []TimersTell
<1>1. NwInit => NwInv
  BY TimersStart
<1>2. NwInv /\ [NwNext]_nwVars => NwInv'
  BY TimersKeep
<1>3. NwInv => TimersTell
  BY TimersTold
<1> QED BY <1>1, <1>2, <1>3, PTL DEF NwSpec

-----------------------------------------------------------------------------
(* The network router (NetRouter).                                         *)

Ips == {Ip(c) : c \in Clients}
Maybe == RtBackends \cup {Unnamed}
Flows == [no : Nat, backend : Maybe, named : BOOLEAN, held : Seq(Nat), watch : Nat]
Datagrams == [from : Clients, n : Nat, to : RtBackends]
Routers == [flows : [Clients -> Flows], socks : SUBSET [no : Nat, client : Clients], target : RtBackends,
            learned : [Ips -> Maybe], count : Nat, out : Seq(Datagrams)]
RtTypes ==
  /\ rtFile \in RtBackends /\ router \in Routers /\ rtSent \in [Clients -> Nat]
  /\ rtDue \in SUBSET [client : Clients, flow : Flows] /\ rtScene \in RtScenes

Alone(c) == \A d \in Clients \ {c} : Ip(d) # Ip(c)
Present(r, c) == r.flows[c] # Absent

\* What a flow holds came after all that its client's backends got, and in order.
Waits(r, c, held, sent) ==
  /\ \A i, j \in DOMAIN held : i < j => held[i] < held[j]
  /\ \A k \in DOMAIN held :
       held[k] <= sent[c] /\ \A i \in DOMAIN r.out : r.out[i].from = c => r.out[i].n < held[k]
Ordered(r, sent) ==
  /\ \A i, j \in DOMAIN r.out : i < j /\ r.out[i].from = r.out[j].from => r.out[i].n < r.out[j].n
  /\ \A i \in DOMAIN r.out : r.out[i].n <= sent[r.out[i].from]
  /\ \A c \in Clients : Waits(r, c, r.flows[c].held, sent)

\* A flow that is there is numbered; once decided it holds nothing.
FlowsFit(r) ==
  \A c \in Clients :
    /\ Present(r, c) => r.flows[c].no > 0
    /\ r.flows[c].backend # Unnamed => r.flows[c].held = <<>>
Homed(r) ==
  /\ \A i \in Ips : r.learned[i] = Unnamed \/ \E c \in Clients : Ip(c) = i /\ r.learned[i] = HomeOf[c]
  /\ \A c \in Clients :
       HomeOf[c] # Unnamed /\ Alone(c) /\ r.learned[Ip(c)] # Unnamed /\ Present(r, c)
       => r.flows[c].backend = HomeOf[c]
Watched(r) ==
  ~(rtScene.hold /\ rtScene.drop) =>
    \A s \in r.socks : Present(r, s.client) /\ r.flows[s.client].no = s.no
RouterFits(r, sent) == r \in Routers /\ Ordered(r, sent) /\ FlowsFit(r) /\ Homed(r) /\ Watched(r)

\* The flows to flush are as they were when the flush began, or dropped.
DueFits(r, due, sent) ==
  /\ \A d \in due :
       /\ d.flow.backend = Unnamed /\ d.flow.no > 0 /\ Waits(r, d.client, d.flow.held, sent)
       /\ IF rtScene.drop THEN r.flows[d.client] \in {Absent, d.flow} ELSE r.flows[d.client] = d.flow
  /\ \A d, e \in due : d.client = e.client => d = e
\* Without holds no flow waits between two datagrams.
Settled ==
  ~rtScene.hold => rtDue = {} /\ \A c \in Clients : Present(router, c) => router.flows[c].backend # Unnamed
RtInv == RtTypes /\ RouterFits(router, rtSent) /\ DueFits(router, rtDue, rtSent) /\ Settled

LEMMA AbsentIs ==
  /\ Absent \in Flows /\ Absent.held = <<>> /\ Absent.no = 0 /\ Absent.backend = Unnamed
BY DEF Absent, Flows, Maybe

LEMMA FlowFields ==
  ASSUME NEW flow \in Flows
  PROVE  /\ flow.no \in Nat /\ flow.backend \in Maybe /\ flow.named \in BOOLEAN /\ flow.held \in Seq(Nat) /\ flow.watch \in Nat
BY DEF Flows

LEMMA RouterFields ==
  ASSUME NEW r \in Routers
  PROVE  /\ r.flows \in [Clients -> Flows] /\ r.socks \in SUBSET [no : Nat, client : Clients] /\ r.target \in RtBackends
         /\ r.learned \in [Ips -> Maybe] /\ r.count \in Nat /\ r.out \in Seq(Datagrams)
         /\ r = [flows |-> r.flows, socks |-> r.socks, target |-> r.target, learned |-> r.learned, count |-> r.count, out |-> r.out]
BY DEF Routers

\* What a step of the router's helpers makes of it.
LEMMA DropIs ==
  ASSUME NEW r \in Routers, NEW c \in Clients, Present(r, c)
  PROVE  Drop(r, c) = [flows |-> [r.flows EXCEPT ![c] = Absent], socks |-> {s \in r.socks : s.no # r.flows[c].no},
                       target |-> r.target, learned |-> r.learned, count |-> r.count, out |-> r.out]
BY RouterFields DEF Drop, Present, Routers

LEMMA DropAllIs ==
  ASSUME NEW r \in Routers
  PROVE  DropAll(r) = [flows |-> [c \in Clients |-> Absent],
                       socks |-> {s \in r.socks : \A c \in Clients : r.flows[c] = Absent \/ s.no # r.flows[c].no},
                       target |-> r.target, learned |-> r.learned, count |-> r.count, out |-> r.out]
<1>1. PICK flows, socks : /\ flows = [c \in Clients |-> Absent]
                          /\ socks = {s \in r.socks : \A c \in Clients : r.flows[c] = Absent \/ s.no # r.flows[c].no}
  OBVIOUS
<1>2. DropAll(r) = [r EXCEPT !.flows = flows, !.socks = socks]
  BY <1>1 DEF DropAll
<1> QED BY <1>1, <1>2, RouterFields

LEMMA ResolvedIs ==
  ASSUME NEW r \in Routers, rtFile \in RtBackends
  PROVE  \/ /\ ~rtScene.drop \/ rtFile = r.target
            /\ Resolved(r) = [flows |-> r.flows, socks |-> r.socks, target |-> rtFile, learned |-> r.learned,
                              count |-> r.count, out |-> r.out]
         \/ /\ rtScene.drop
            /\ Resolved(r) = [flows |-> [c \in Clients |-> Absent],
                              socks |-> {s \in r.socks : \A c \in Clients : r.flows[c] = Absent \/ s.no # r.flows[c].no},
                              target |-> rtFile, learned |-> r.learned, count |-> r.count, out |-> r.out]
<1>1. CASE rtFile = r.target
  BY <1>1, RouterFields DEF Resolved
<1>2. CASE rtFile # r.target /\ rtScene.drop
  <2>1. PICK flows, socks : /\ flows = [c \in Clients |-> Absent]
                            /\ socks = {s \in r.socks : \A c \in Clients : r.flows[c] = Absent \/ s.no # r.flows[c].no}
    OBVIOUS
  <2>2. DropAll(r) = [flows |-> flows, socks |-> socks, target |-> r.target, learned |-> r.learned, count |-> r.count, out |-> r.out]
    BY <2>1, DropAllIs
  <2>3. Resolved(r) = [DropAll(r) EXCEPT !.target = rtFile]
    BY <1>2 DEF Resolved
  <2>4. Resolved(r) = [flows |-> flows, socks |-> socks, target |-> rtFile, learned |-> r.learned, count |-> r.count, out |-> r.out]
    BY <2>2, <2>3
  <2> QED BY <1>2, <2>1, <2>4
<1>3. CASE rtFile # r.target /\ ~rtScene.drop
  <2>1. Resolved(r) = [r EXCEPT !.target = rtFile]
    BY <1>3 DEF Resolved
  <2> QED BY <1>3, <2>1, RouterFields
<1> QED BY <1>1, <1>2, <1>3

LEMMA PutIs ==
  ASSUME NEW r \in Routers, NEW c \in Clients, NEW flow \in Flows
  PROVE  Put(r, c, flow) =
           [flows |-> IF Present(r, c) /\ r.flows[c].no = flow.no THEN [r.flows EXCEPT ![c] = flow] ELSE r.flows,
            socks |-> r.socks, target |-> r.target, learned |-> r.learned, count |-> r.count, out |-> r.out]
BY RouterFields DEF Put, Present, Routers

DecidedFlow(flow, backend) == [flow EXCEPT !.backend = backend, !.held = <<>>]
LEMMA DecidedFlowIs ==
  ASSUME NEW flow \in Flows, NEW backend \in RtBackends
  PROVE  /\ DecidedFlow(flow, backend) \in Flows /\ DecidedFlow(flow, backend).no = flow.no
         /\ DecidedFlow(flow, backend).backend = backend /\ DecidedFlow(flow, backend).held = <<>>
<1>1. /\ DecidedFlow(flow, backend).no = flow.no /\ DecidedFlow(flow, backend).backend = backend
      /\ DecidedFlow(flow, backend).held = <<>>
  BY DEF Flows, DecidedFlow
<1>2. backend \in Maybe /\ <<>> \in Seq(Nat)
  BY DEF Maybe
<1>3. DecidedFlow(flow, backend) \in Flows
  BY <1>2 DEF Flows, DecidedFlow
<1> QED BY <1>1, <1>3


-----------------------------------------------------------------------------
\* Flows that go away leave the rest as it was.
LEMMA FewerFit ==
  ASSUME NEW r \in Routers, NEW s \in Routers, NEW sent, RouterFits(r, sent), s.out = r.out, s.learned = r.learned,
         \A c \in Clients : s.flows[c] = r.flows[c] \/ s.flows[c] = Absent,
         Watched(s)
  PROVE  RouterFits(s, sent)
<1>1. Ordered(s, sent)
  <2>1. Ordered(r, sent)
    BY DEF RouterFits
  <2>2. \A c \in Clients : Waits(s, c, s.flows[c].held, sent)
    <3> SUFFICES ASSUME NEW c \in Clients PROVE Waits(s, c, s.flows[c].held, sent)
      OBVIOUS
    <3>1. CASE s.flows[c] = r.flows[c]
      BY <2>1, <3>1 DEF Ordered, Waits
    <3>2. CASE s.flows[c] = Absent
      BY <3>2, AbsentIs DEF Waits
    <3> QED BY <3>1, <3>2
  <2> QED BY <2>1, <2>2 DEF Ordered
<1>2. FlowsFit(s)
  BY AbsentIs DEF RouterFits, FlowsFit, Present
<1>3. Homed(s)
  BY DEF RouterFits, Homed, Present
<1> QED BY <1>1, <1>2, <1>3 DEF RouterFits

LEMMA DropKeeps ==
  ASSUME NEW r \in Routers, NEW c \in Clients, NEW sent, RouterFits(r, sent), Present(r, c)
  PROVE  /\ Drop(r, c) \in Routers /\ RouterFits(Drop(r, c), sent)
         /\ Drop(r, c).flows = [r.flows EXCEPT ![c] = Absent]
<1>1. PICK s : s = Drop(r, c)
  OBVIOUS
<1>2. s = [flows |-> [r.flows EXCEPT ![c] = Absent], socks |-> {k \in r.socks : k.no # r.flows[c].no},
           target |-> r.target, learned |-> r.learned, count |-> r.count, out |-> r.out]
  BY <1>1, DropIs
<1>3. /\ s.flows = [r.flows EXCEPT ![c] = Absent] /\ s.socks = {k \in r.socks : k.no # r.flows[c].no}
      /\ s.out = r.out /\ s.learned = r.learned
  BY <1>2
<1>4. s \in Routers
  <2>1. [r.flows EXCEPT ![c] = Absent] \in [Clients -> Flows]
    BY AbsentIs, RouterFields
  <2>2. {k \in r.socks : k.no # r.flows[c].no} \in SUBSET [no : Nat, client : Clients]
    BY RouterFields
  <2> QED BY <1>2, <2>1, <2>2, RouterFields DEF Routers
<1>5. \A d \in Clients : s.flows[d] = IF d = c THEN Absent ELSE r.flows[d]
  BY <1>3, RouterFields
<1>6. Watched(s)
  <2> SUFFICES ASSUME ~(rtScene.hold /\ rtScene.drop), NEW k \in s.socks
               PROVE  Present(s, k.client) /\ s.flows[k.client].no = k.no
    BY DEF Watched
  <2>1. k \in r.socks /\ k.no # r.flows[c].no /\ k.client \in Clients
    BY <1>3, RouterFields
  <2>2. Present(r, k.client) /\ r.flows[k.client].no = k.no
    BY <2>1 DEF RouterFits, Watched
  <2> QED BY <1>5, <2>1, <2>2 DEF Present
<1>7. RouterFits(s, sent)
  BY <1>3, <1>4, <1>5, <1>6, FewerFit
<1> QED BY <1>1, <1>3, <1>4, <1>7

LEMMA ResolvedKeeps ==
  ASSUME NEW r \in Routers, NEW sent, RouterFits(r, sent), rtFile \in RtBackends, rtScene \in RtScenes
  PROVE  /\ Resolved(r) \in Routers /\ RouterFits(Resolved(r), sent) /\ Resolved(r).target = rtFile
         /\ Resolved(r).learned = r.learned /\ Resolved(r).out = r.out
         /\ Resolved(r).flows = r.flows \/ (rtScene.drop /\ Resolved(r).flows = [c \in Clients |-> Absent])
         /\ rtFile = r.target => Resolved(r).flows = r.flows
<1>1. PICK s : s = Resolved(r)
  OBVIOUS
<1>2. \/ s = [flows |-> r.flows, socks |-> r.socks, target |-> rtFile, learned |-> r.learned,
              count |-> r.count, out |-> r.out]
      \/ /\ rtScene.drop
         /\ s = [flows |-> [c \in Clients |-> Absent],
                 socks |-> {k \in r.socks : \A c \in Clients : r.flows[c] = Absent \/ k.no # r.flows[c].no},
                 target |-> rtFile, learned |-> r.learned, count |-> r.count, out |-> r.out]
  BY <1>1, ResolvedIs
<1>3. \/ s.flows = r.flows /\ s.socks = r.socks
      \/ /\ rtScene.drop /\ s.flows = [c \in Clients |-> Absent]
         /\ s.socks = {k \in r.socks : \A c \in Clients : r.flows[c] = Absent \/ k.no # r.flows[c].no}
  BY <1>2
<1>4. s.out = r.out /\ s.learned = r.learned /\ s.target = rtFile
  BY <1>2
<1>5. s \in Routers
  <2>1. [c \in Clients |-> Absent] \in [Clients -> Flows]
    BY AbsentIs
  <2>2. {k \in r.socks : \A c \in Clients : r.flows[c] = Absent \/ k.no # r.flows[c].no} \in SUBSET [no : Nat, client : Clients]
    BY RouterFields
  <2> QED BY <1>2, <2>1, <2>2, RouterFields DEF Routers
<1>6. \A d \in Clients : s.flows[d] = r.flows[d] \/ s.flows[d] = Absent
  BY <1>3
<1>7. Watched(s)
  <2> SUFFICES ASSUME ~(rtScene.hold /\ rtScene.drop), NEW k \in s.socks
               PROVE  Present(s, k.client) /\ s.flows[k.client].no = k.no
    BY DEF Watched
  <2>1. k \in r.socks /\ k.client \in Clients
    BY <1>3, RouterFields
  <2>2. Present(r, k.client) /\ r.flows[k.client].no = k.no
    BY <2>1 DEF RouterFits, Watched
  <2>3. CASE s.flows = r.flows
    BY <2>2, <2>3 DEF Present
  <2>4. CASE s.socks = {m \in r.socks : \A c \in Clients : r.flows[c] = Absent \/ m.no # r.flows[c].no}
    BY <2>1, <2>2, <2>4 DEF Present
  <2> QED BY <1>3, <2>3, <2>4
<1>8. RouterFits(s, sent)
  BY <1>4, <1>5, <1>6, <1>7, FewerFit
<1>9. rtFile = r.target => s.flows = r.flows
  BY <1>1, RouterFields DEF Resolved
<1> QED BY <1>1, <1>3, <1>4, <1>5, <1>8, <1>9

\* What a flow held goes out behind what its client's backends got before.
HomedBut(r, c) ==
  /\ \A i \in Ips : r.learned[i] = Unnamed \/ \E d \in Clients : Ip(d) = i /\ r.learned[i] = HomeOf[d]
  /\ \A d \in Clients \ {c} :
       HomeOf[d] # Unnamed /\ Alone(d) /\ r.learned[Ip(d)] # Unnamed /\ Present(r, d)
       => r.flows[d].backend = HomeOf[d]
LEMMA DecideKeeps ==
  ASSUME NEW r \in Routers, NEW c \in Clients, NEW flow \in Flows, NEW backend \in RtBackends, NEW new \in Seq(Nat),
         NEW old \in [Clients -> Nat], NEW sent \in [Clients -> Nat], \A d \in Clients : old[d] <= sent[d],
         Ordered(r, old), FlowsFit(r), HomedBut(r, c), Watched(r), Waits(r, c, flow.held \o new, sent), flow.no > 0,
         Present(r, c) => r.flows[c].no = flow.no,
         Present(r, c) /\ HomeOf[c] # Unnamed /\ Alone(c) /\ r.learned[Ip(c)] # Unnamed => backend = HomeOf[c],
         ~(rtScene.hold /\ rtScene.drop) => Present(r, c)
  PROVE  /\ Decide(r, c, flow, backend, new) \in Routers /\ RouterFits(Decide(r, c, flow, backend, new), sent)
         /\ Decide(r, c, flow, backend, new).flows =
              IF Present(r, c) THEN [r.flows EXCEPT ![c] = DecidedFlow(flow, backend)] ELSE r.flows
         /\ Decide(r, c, flow, backend, new).learned = r.learned
         /\ \A i \in DOMAIN r.out : i \in DOMAIN Decide(r, c, flow, backend, new).out
         /\ \A i \in DOMAIN Decide(r, c, flow, backend, new).out :
              \/ i \in DOMAIN r.out /\ Decide(r, c, flow, backend, new).out[i] = r.out[i]
              \/ Decide(r, c, flow, backend, new).out[i].from = c
<1>1. PICK s, send : s = Decide(r, c, flow, backend, new) /\ send = flow.held \o new
  OBVIOUS
<1>2. PICK more : more = [i \in DOMAIN send |-> [from |-> c, n |-> send[i], to |-> backend]]
  OBVIOUS
<1>3. send \in Seq(Nat) /\ Waits(r, c, send, sent)
  BY <1>1, FlowFields
<1>4. s = [flows |-> IF Present(r, c) THEN [r.flows EXCEPT ![c] = DecidedFlow(flow, backend)] ELSE r.flows,
           socks |-> r.socks \cup {[no |-> flow.no, client |-> c]},
           target |-> r.target, learned |-> r.learned, count |-> r.count, out |-> r.out \o more]
  <2>1. s = [flows |-> IF Present(r, c) /\ r.flows[c].no = flow.no
                       THEN [r.flows EXCEPT ![c] = DecidedFlow(flow, backend)] ELSE r.flows,
             socks |-> r.socks \cup {[no |-> flow.no, client |-> c]},
             target |-> r.target, learned |-> r.learned, count |-> r.count, out |-> r.out \o more]
    <3>1. DecidedFlow(flow, backend) \in Flows /\ DecidedFlow(flow, backend).no = flow.no
      BY DecidedFlowIs
    <3>2. PICK p : p = Put(r, c, DecidedFlow(flow, backend))
      OBVIOUS
    <3>3. p = [flows |-> IF Present(r, c) /\ r.flows[c].no = flow.no THEN [r.flows EXCEPT ![c] = DecidedFlow(flow, backend)] ELSE r.flows,
               socks |-> r.socks, target |-> r.target, learned |-> r.learned, count |-> r.count, out |-> r.out]
      BY <3>1, <3>2, PutIs
    <3>4. Decide(r, c, flow, backend, new) =
            [p EXCEPT !.socks = p.socks \cup {[no |-> flow.no, client |-> c]}, !.out = p.out \o more]
      BY <1>1, <1>2, <3>2 DEF Decide, HeldFirst, Datagram, DecidedFlow
    <3>5. s = [flows |-> p.flows, socks |-> p.socks \cup {[no |-> flow.no, client |-> c]}, target |-> p.target,
               learned |-> p.learned, count |-> p.count, out |-> p.out \o more]
      BY <1>1, <3>3, <3>4
    <3>6. /\ p.socks = r.socks /\ p.target = r.target /\ p.learned = r.learned /\ p.count = r.count /\ p.out = r.out
          /\ p.flows = IF Present(r, c) /\ r.flows[c].no = flow.no THEN [r.flows EXCEPT ![c] = DecidedFlow(flow, backend)] ELSE r.flows
      BY <3>3
    <3> QED BY <3>5, <3>6
  <2>2. (Present(r, c) /\ r.flows[c].no = flow.no) <=> Present(r, c)
    OBVIOUS
  <2>3. CASE Present(r, c)
    BY <2>1, <2>2, <2>3
  <2>4. CASE ~Present(r, c)
    BY <2>1, <2>2, <2>4
  <2> QED BY <2>3, <2>4
<1>5. /\ s.flows = (IF Present(r, c) THEN [r.flows EXCEPT ![c] = DecidedFlow(flow, backend)] ELSE r.flows)
      /\ s.socks = r.socks \cup {[no |-> flow.no, client |-> c]} /\ s.learned = r.learned /\ s.out = r.out \o more
  BY <1>4
<1>6. /\ more \in Seq(Datagrams) /\ Len(more) = Len(send)
      /\ \A i \in 1 .. Len(send) : more[i].from = c /\ more[i].n = send[i]
  <2>1. Len(send) \in Nat /\ DOMAIN send = 1 .. Len(send) /\ \A i \in 1 .. Len(send) : send[i] \in Nat
    BY <1>3
  <2>2. \A i \in 1 .. Len(send) : more[i] = [from |-> c, n |-> send[i], to |-> backend] /\ more[i] \in Datagrams
    BY <1>2, <2>1 DEF Datagrams
  <2>3. more = [i \in 1 .. Len(send) |-> more[i]]
    BY <1>2, <2>1
  <2>4. more \in [1 .. Len(send) -> Datagrams]
    BY <2>2, <2>3
  <2> QED BY <2>1, <2>2, <2>4
<1>7. DecidedFlow(flow, backend) \in Flows /\ DecidedFlow(flow, backend).no = flow.no
      /\ DecidedFlow(flow, backend).backend = backend /\ DecidedFlow(flow, backend).held = <<>>
  BY DecidedFlowIs
<1>8. s \in Routers
  <2>1. s.flows \in [Clients -> Flows]
    BY <1>5, <1>7, RouterFields
  <2>2. flow.no \in Nat
    BY FlowFields
  <2>3. s.socks \in SUBSET [no : Nat, client : Clients] /\ s.out \in Seq(Datagrams)
    BY <1>5, <1>6, <2>2, RouterFields
  <2>4. s = [flows |-> s.flows, socks |-> s.socks, target |-> r.target, learned |-> r.learned, count |-> r.count, out |-> s.out]
    BY <1>4
  <2> QED BY <2>1, <2>3, <2>4, RouterFields DEF Routers
<1>9. \A d \in Clients : s.flows[d] = IF d = c /\ Present(r, c) THEN DecidedFlow(flow, backend) ELSE r.flows[d]
  BY <1>5, RouterFields
<1>10. PICK o, q, L, M : o = s.out /\ q = r.out /\ L = Len(r.out) /\ M = Len(send)
  OBVIOUS
<1>20. L \in Nat /\ M \in Nat
  BY <1>3, <1>10, RouterFields
<1>11. /\ DOMAIN q = 1 .. L /\ DOMAIN send = 1 .. M /\ DOMAIN o = 1 .. (L + M)
       /\ \A i \in 1 .. L : o[i] = q[i] /\ o[i] \in Datagrams
       /\ \A i \in 1 .. M : o[L + i].from = c /\ o[L + i].n = send[i] /\ send[i] \in Nat
  <2>1. q \in Seq(Datagrams) /\ more \in Seq(Datagrams) /\ Len(q) = L /\ Len(more) = M /\ o = q \o more
    BY <1>5, <1>6, <1>10, RouterFields
  <2>2. DOMAIN q = 1 .. L /\ DOMAIN o = 1 .. (L + M)
    BY <2>1, ConcatProperties, SMTT(30)
  <2>3. \A i \in 1 .. L : o[i] = q[i] /\ q[i] \in Datagrams
    BY <1>20, <2>1, ConcatProperties
  <2>4. ASSUME NEW i \in 1 .. M PROVE o[L + i] = more[i]
    <3>1. L + i \in 1 .. (L + M) /\ ~(L + i <= L) /\ (L + i) - L = i
      BY <1>20
    <3> QED BY <2>1, <3>1, ConcatProperties
  <2>5. DOMAIN send = 1 .. M /\ \A i \in 1 .. M : send[i] \in Nat
    BY <1>3, <1>10
  <2> QED BY <1>6, <1>10, <2>2, <2>3, <2>4, <2>5, ZenonT(60)
<1>12. /\ \A i, j \in 1 .. L : i < j /\ q[i].from = q[j].from => q[i].n < q[j].n
       /\ \A i \in 1 .. L : q[i].n <= old[q[i].from] /\ q[i].from \in Clients /\ q[i].n \in Nat
       /\ \A d \in Clients : Waits(r, d, r.flows[d].held, old)
  <2>1. Ordered(r, old)
    OBVIOUS
  <2>2. \A i \in 1 .. L : q[i].from \in Clients /\ q[i].n \in Nat
    BY <1>11 DEF Datagrams
  <2> QED BY <1>10, <1>11, <2>1, <2>2 DEF Ordered
<1>13. /\ \A i, j \in 1 .. M : i < j => send[i] < send[j]
       /\ \A i \in 1 .. M : send[i] <= sent[c]
       /\ \A i \in 1 .. L, j \in 1 .. M : q[i].from = c => q[i].n < send[j]
  BY <1>3, <1>10, <1>11 DEF Waits
<1>21. \A i \in 1 .. (L + M) : i \in 1 .. L \/ \E x \in 1 .. M : i = L + x
  <2> SUFFICES ASSUME NEW i \in 1 .. (L + M), i > L PROVE \E x \in 1 .. M : i = L + x
    BY <1>20
  <2>1. i - L \in 1 .. M /\ i = L + (i - L)
    BY <1>20
  <2> QED BY <2>1
<1>22. Ordered(s, sent)
  <2>1. ASSUME NEW i \in 1 .. (L + M), NEW j \in 1 .. (L + M), i < j, o[i].from = o[j].from
        PROVE  o[i].n < o[j].n
    <3>1. CASE i \in 1 .. L /\ j \in 1 .. L
      BY <1>11, <1>12, <2>1, <3>1
    <3>2. CASE i \in 1 .. L /\ \E y \in 1 .. M : j = L + y
      <4>1. PICK y \in 1 .. M : j = L + y
        BY <3>2
      <4>2. o[i] = q[i] /\ o[j].from = c /\ o[j].n = send[y]
        BY <1>11, <3>2, <4>1
      <4> QED BY <1>13, <2>1, <3>2, <4>2
    <3>3. CASE (\E x \in 1 .. M : i = L + x) /\ \E y \in 1 .. M : j = L + y
      <4>1. PICK x \in 1 .. M, y \in 1 .. M : i = L + x /\ j = L + y
        BY <3>3
      <4>2. x < y
        BY <1>20, <2>1, <4>1
      <4>3. o[i].n = send[x] /\ o[j].n = send[y]
        BY <1>11, <4>1
      <4> QED BY <1>13, <4>2, <4>3
    <3>4. CASE (\E x \in 1 .. M : i = L + x) /\ j \in 1 .. L
      BY <1>20, <2>1, <3>4
    <3> QED BY <1>21, <3>1, <3>2, <3>3, <3>4
  <2>2. ASSUME NEW i \in 1 .. (L + M) PROVE o[i].n <= sent[o[i].from]
    <3>1. CASE i \in 1 .. L
      <4>1. o[i].n <= old[o[i].from] /\ o[i].from \in Clients /\ o[i].n \in Nat
        BY <1>11, <1>12, <3>1
      <4>2. old[o[i].from] \in Nat /\ sent[o[i].from] \in Nat /\ old[o[i].from] <= sent[o[i].from]
        BY <4>1
      <4> QED BY <4>1, <4>2
    <3>2. CASE \E x \in 1 .. M : i = L + x
      <4>1. PICK x \in 1 .. M : i = L + x
        BY <3>2
      <4>2. o[i].from = c /\ o[i].n = send[x]
        BY <1>11, <4>1
      <4> QED BY <1>13, <4>2
    <3> QED BY <1>21, <3>1, <3>2
  <2>3. ASSUME NEW d \in Clients PROVE Waits(s, d, s.flows[d].held, sent)
    <3>1. CASE s.flows[d].held = <<>>
      BY <3>1 DEF Waits
    <3>2. CASE d # c
      <4>1. PICK held \in Seq(Nat) : held = r.flows[d].held
        BY RouterFields, FlowFields
      <4>2. s.flows[d].held = held /\ Waits(r, d, held, old)
        BY <1>9, <1>12, <3>2, <4>1
      <4>3. \A k \in DOMAIN held : held[k] <= sent[d]
        BY <4>2 DEF Waits
      <4>4. ASSUME NEW k \in DOMAIN held, NEW i \in 1 .. (L + M), o[i].from = d PROVE o[i].n < held[k]
        <5>1. i \in 1 .. L
          <6>1. CASE \E x \in 1 .. M : i = L + x
            <7>1. PICK x \in 1 .. M : i = L + x
              BY <6>1
            <7> QED BY <1>11, <3>2, <4>4, <7>1
          <6> QED BY <1>21, <6>1
        <5>2. i \in DOMAIN r.out /\ o[i] = r.out[i]
          BY <1>10, <1>11, <5>1
        <5> QED BY <4>2, <4>4, <5>2 DEF Waits
      <4>5. \A i, j \in DOMAIN held : i < j => held[i] < held[j]
        BY <4>2 DEF Waits
      <4> QED BY <1>10, <1>11, <4>2, <4>3, <4>4, <4>5 DEF Waits
    <3>3. CASE d = c
      <4>1. s.flows[d].held = <<>>
        BY <1>7, <1>9, <3>3, AbsentIs DEF Present
      <4> QED BY <3>1, <4>1
    <3> QED BY <3>2, <3>3
  <2> QED BY <1>10, <1>11, <2>1, <2>2, <2>3 DEF Ordered
<1>23. /\ \A i \in DOMAIN r.out : i \in DOMAIN s.out
       /\ \A i \in DOMAIN s.out : (i \in DOMAIN r.out /\ s.out[i] = r.out[i]) \/ s.out[i].from = c
  <2>1. \A i \in 1 .. L : i \in 1 .. (L + M) /\ o[i] = q[i]
    BY <1>11, <1>20
  <2>2. ASSUME NEW i \in 1 .. (L + M), i \notin 1 .. L PROVE o[i].from = c
    <3>1. PICK x \in 1 .. M : i = L + x
      BY <1>21, <2>2
    <3> QED BY <1>11, <3>1
  <2>3. DOMAIN r.out = 1 .. L /\ DOMAIN s.out = 1 .. (L + M)
    BY <1>10, <1>11
  <2> QED BY <1>10, <2>1, <2>2, <2>3
<1>14. FlowsFit(s)
  BY <1>7, <1>9 DEF FlowsFit, Present
<1>15. Homed(s)
  <2>1. HomedBut(r, c)
    OBVIOUS
  <2> SUFFICES ASSUME NEW d \in Clients, HomeOf[d] # Unnamed, Alone(d), s.learned[Ip(d)] # Unnamed, Present(s, d)
               PROVE  s.flows[d].backend = HomeOf[d]
    BY <1>5, <2>1 DEF Homed, HomedBut
  <2>2. CASE d = c /\ Present(r, c)
    BY <1>5, <1>7, <1>9, <2>2
  <2>3. CASE ~(d = c /\ Present(r, c))
    BY <1>5, <1>9, <2>1, <2>3 DEF HomedBut, Present
  <2> QED BY <2>2, <2>3
<1>16. Watched(s)
  <2> SUFFICES ASSUME ~(rtScene.hold /\ rtScene.drop), NEW k \in s.socks
               PROVE  Present(s, k.client) /\ s.flows[k.client].no = k.no
    BY DEF Watched
  <2>1. Present(r, c) /\ r.flows[c].no = flow.no /\ Present(s, c) /\ s.flows[c].no = flow.no
    BY <1>7, <1>9, AbsentIs DEF Present
  <2>2. CASE k = [no |-> flow.no, client |-> c]
    BY <2>1, <2>2
  <2>3. CASE k \in r.socks
    <3>1. k.client \in Clients /\ Present(r, k.client) /\ r.flows[k.client].no = k.no
      BY <2>3, RouterFields DEF Watched
    <3> QED BY <1>9, <2>1, <3>1 DEF Present
  <2> QED BY <1>5, <2>2, <2>3
<1>17. RouterFits(s, sent)
  BY <1>8, <1>22, <1>14, <1>15, <1>16 DEF RouterFits
<1> QED BY <1>1, <1>5, <1>8, <1>17, <1>23

\* A flow that changes but for its number and backend.
LEMMA PutKeeps ==
  ASSUME NEW r \in Routers, NEW c \in Clients, NEW flow \in Flows,
         NEW old \in [Clients -> Nat], NEW sent \in [Clients -> Nat], \A d \in Clients : old[d] <= sent[d],
         RouterFits(r, old), Present(r, c), flow.no = r.flows[c].no, flow.backend = r.flows[c].backend,
         flow.backend # Unnamed => flow.held = <<>>, Waits(r, c, flow.held, sent)
  PROVE  /\ Put(r, c, flow) \in Routers /\ RouterFits(Put(r, c, flow), sent)
         /\ Put(r, c, flow).flows = [r.flows EXCEPT ![c] = flow] /\ Put(r, c, flow).out = r.out
         /\ Put(r, c, flow).learned = r.learned /\ Put(r, c, flow).target = r.target
         /\ Put(r, c, flow).socks = r.socks
<1>1. PICK s : s = Put(r, c, flow)
  OBVIOUS
<1>2. s = [flows |-> [r.flows EXCEPT ![c] = flow],
           socks |-> r.socks, target |-> r.target, learned |-> r.learned, count |-> r.count, out |-> r.out]
  BY <1>1, PutIs
<1>3. /\ s.flows = [r.flows EXCEPT ![c] = flow] /\ s.socks = r.socks /\ s.learned = r.learned /\ s.out = r.out
      /\ s.target = r.target
  BY <1>2
<1>4. s \in Routers
  <2>1. [r.flows EXCEPT ![c] = flow] \in [Clients -> Flows]
    BY RouterFields
  <2> QED BY <1>2, <2>1, RouterFields DEF Routers
<1>5. \A d \in Clients : s.flows[d] = IF d = c THEN flow ELSE r.flows[d]
  BY <1>3, RouterFields
<1>6. flow.no > 0 /\ flow # Absent
  BY AbsentIs DEF RouterFits, FlowsFit
<1>7. Ordered(s, sent)
  <2>1. Ordered(r, old)
    BY DEF RouterFits
  <2>2. ASSUME NEW i \in DOMAIN r.out PROVE r.out[i].n <= sent[r.out[i].from]
    <3>1. r.out[i] \in Datagrams
      BY RouterFields
    <3>2. r.out[i].n \in Nat /\ r.out[i].from \in Clients
      BY <3>1 DEF Datagrams
    <3>3. r.out[i].n <= old[r.out[i].from] /\ old[r.out[i].from] <= sent[r.out[i].from]
      BY <2>1, <3>2 DEF Ordered
    <3> QED BY <3>2, <3>3
  <2>3. ASSUME NEW d \in Clients PROVE Waits(s, d, s.flows[d].held, sent)
    <3>1. CASE d = c
      BY <1>3, <1>5, <3>1 DEF Waits
    <3>2. CASE d # c
      <4>1. PICK held \in Seq(Nat) : held = r.flows[d].held
        BY RouterFields, FlowFields
      <4>2. s.flows[d].held = held /\ Waits(r, d, held, old)
        BY <1>5, <2>1, <3>2, <4>1 DEF Ordered
      <4>3. \A k \in DOMAIN held : held[k] <= sent[d]
        BY <4>2 DEF Waits
      <4> QED BY <1>3, <4>2, <4>3 DEF Waits
    <3> QED BY <3>1, <3>2
  <2> QED BY <1>3, <2>1, <2>2, <2>3 DEF Ordered
<1>8. FlowsFit(s) /\ Homed(s) /\ Watched(s)
  BY <1>3, <1>5, <1>6, RouterFields DEF RouterFits, FlowsFit, Homed, Watched, Present
<1>9. RouterFits(s, sent)
  BY <1>4, <1>7, <1>8 DEF RouterFits
<1> QED BY <1>1, <1>3, <1>4, <1>9

\* The flow a datagram finds or opens.
LEMMA WithFlowKeeps ==
  ASSUME RtTypes, RouterFits(router, rtSent), Settled, NEW c \in Clients
  PROVE  /\ WithFlow(router, c) \in Routers /\ RouterFits(WithFlow(router, c), rtSent) /\ Present(WithFlow(router, c), c)
         /\ ~rtScene.hold /\ WithFlow(router, c).flows[c].backend = Unnamed => WithFlow(router, c).target = rtFile
         /\ Present(router, c) => WithFlow(router, c) = router
         /\ \A d \in Clients \ {c} : \/ WithFlow(router, c).flows[d] = Absent
                                     \/ WithFlow(router, c).flows[d] = router.flows[d]
<1>1. CASE Present(router, c)
  <2>1. WithFlow(router, c) = router
    BY <1>1 DEF WithFlow, Present
  <2> QED BY <1>1, <2>1 DEF RtTypes, Settled
<1>2. CASE ~Present(router, c)
  <2>1. PICK t : t = Resolved(router)
    OBVIOUS
  <2>2. router \in Routers /\ rtSent \in [Clients -> Nat]
    BY DEF RtTypes
  <2>3. /\ t \in Routers /\ RouterFits(t, rtSent) /\ t.target = rtFile /\ t.learned = router.learned
        /\ t.flows = router.flows \/ t.flows = [d \in Clients |-> Absent]
    BY <2>1, <2>2, ResolvedKeeps DEF RtTypes
  <2>4. /\ ~Present(t, c)
        /\ \A d \in Clients \ {c} : t.flows[d] = Absent \/ t.flows[d] = router.flows[d]
    BY <1>2, <2>3 DEF Present
  <2>5. PICK flow : flow = NewFlow(t)
    OBVIOUS
  <2>6. /\ flow \in Flows /\ flow.no = t.count + 1 /\ flow.no \in Nat /\ flow.no > 0 /\ flow.backend = Unnamed
        /\ flow.held = <<>> /\ flow # Absent
    <3>1. t.count \in Nat /\ WatchMax \in Nat
      BY <2>3, RouterFields, NamesAreBackends
    <3>2. flow = [no |-> t.count + 1, backend |-> Unnamed, named |-> FALSE, held |-> <<>>, watch |-> WatchMax]
      BY <2>5 DEF NewFlow
    <3> QED BY <3>1, <3>2, AbsentIs DEF Flows, Maybe
  <2>7. PICK s : s = [t EXCEPT !.count = t.count + 1, !.flows[c] = flow]
    OBVIOUS
  <2>8. PICK flows : flows = [t.flows EXCEPT ![c] = flow]
    OBVIOUS
  <2>9. s = [flows |-> flows, socks |-> t.socks, target |-> t.target, learned |-> t.learned, count |-> t.count + 1, out |-> t.out]
    <3>1. s = [t EXCEPT !.count = t.count + 1, !.flows = flows]
      BY <2>3, <2>7, <2>8 DEF Routers
    <3>2. t = [flows |-> t.flows, socks |-> t.socks, target |-> t.target, learned |-> t.learned, count |-> t.count, out |-> t.out]
      BY <2>3, RouterFields
    <3>3. s = [[flows |-> t.flows, socks |-> t.socks, target |-> t.target, learned |-> t.learned, count |-> t.count, out |-> t.out]
                 EXCEPT !.count = t.count + 1, !.flows = flows]
      BY <3>1, <3>2
    <3> QED BY <3>3
  <2>10. /\ s.flows = flows /\ s.socks = t.socks /\ s.target = rtFile /\ s.learned = t.learned /\ s.out = t.out
         /\ \A d \in Clients : s.flows[d] = IF d = c THEN flow ELSE t.flows[d]
    BY <2>3, <2>8, <2>9, RouterFields
  <2>11. s \in Routers
    <3>1. flows \in [Clients -> Flows] /\ t.count + 1 \in Nat
      BY <2>3, <2>6, <2>8, RouterFields
    <3> QED BY <2>3, <2>9, <3>1, RouterFields DEF Routers
  <2>12. /\ Ordered(s, rtSent) /\ FlowsFit(s) /\ HomedBut(s, c) /\ Watched(s) /\ Present(s, c)
    <3>1. Ordered(t, rtSent) /\ FlowsFit(t) /\ Homed(t) /\ Watched(t)
      BY <2>3 DEF RouterFits
    <3>2. Ordered(s, rtSent)
      <4>1. ASSUME NEW d \in Clients PROVE Waits(s, d, s.flows[d].held, rtSent)
        <5>1. CASE d = c
          BY <2>6, <2>10, <5>1 DEF Waits
        <5>2. CASE d # c
          BY <2>10, <3>1, <5>2 DEF Waits, Ordered
        <5> QED BY <5>1, <5>2
      <4> QED BY <2>10, <3>1, <4>1 DEF Ordered
    <3>3. FlowsFit(s) /\ Present(s, c)
      BY <2>6, <2>10, <3>1 DEF FlowsFit, Present
    <3>4. HomedBut(s, c)
      BY <2>10, <3>1 DEF Homed, HomedBut, Present
    <3>5. Watched(s)
      <4> SUFFICES ASSUME ~(rtScene.hold /\ rtScene.drop), NEW k \in s.socks
                   PROVE  Present(s, k.client) /\ s.flows[k.client].no = k.no
        BY DEF Watched
      <4>1. Present(t, k.client) /\ t.flows[k.client].no = k.no /\ k.client \in Clients
        BY <2>3, <2>10, <3>1, RouterFields DEF Watched
      <4> QED BY <2>4, <2>10, <4>1 DEF Present
    <3> QED BY <3>2, <3>3, <3>4, <3>5
  <2>13. CASE t.learned[Ip(c)] = Unnamed
    <3>1. WithFlow(router, c) = s
      BY <1>2, <2>1, <2>5, <2>7, <2>13 DEF WithFlow, Present
    <3>2. Homed(s)
      BY <2>10, <2>12, <2>13 DEF Homed, HomedBut
    <3>3. RouterFits(s, rtSent)
      BY <2>11, <2>12, <3>2 DEF RouterFits
    <3> QED BY <1>2, <2>4, <2>10, <2>11, <2>12, <3>1, <3>3
  <2>14. CASE t.learned[Ip(c)] # Unnamed
    <3>1. PICK home : home = t.learned[Ip(c)]
      OBVIOUS
    <3>2. PICK w : w = Decide(s, c, flow, home, <<>>)
      OBVIOUS
    <3>3. WithFlow(router, c) = w
      BY <1>2, <2>1, <2>5, <2>7, <2>14, <3>1, <3>2 DEF WithFlow, Present
    <3>4. home \in RtBackends /\ Ip(c) \in Ips
      <4>1. Ip(c) \in Ips
        BY DEF Ips
      <4> QED BY <2>3, <2>14, <3>1, <4>1, RouterFields DEF Maybe
    <3>5. HomeOf[c] # Unnamed /\ Alone(c) => home = HomeOf[c]
      <4>1. PICK d \in Clients : Ip(d) = Ip(c) /\ home = HomeOf[d]
        BY <2>10, <2>12, <2>14, <3>1, <3>4 DEF HomedBut
      <4> QED BY <4>1 DEF Alone
    <3>6. <<>> \in Seq(Nat) /\ Waits(s, c, flow.held \o <<>>, rtSent) /\ \A d \in Clients : rtSent[d] <= rtSent[d]
      <4>1. flow.held \o <<>> = <<>>
        BY <2>6
      <4>2. Waits(s, c, <<>>, rtSent)
        BY DEF Waits
      <4>3. \A d \in Clients : rtSent[d] \in Nat
        BY <2>2
      <4> QED BY <4>1, <4>2, <4>3
    <3>7. /\ w \in Routers /\ RouterFits(w, rtSent) /\ w.flows = [s.flows EXCEPT ![c] = DecidedFlow(flow, home)]
      <4>1. Present(s, c) => s.flows[c].no = flow.no
        BY <2>10
      <4>2. Present(s, c) /\ HomeOf[c] # Unnamed /\ Alone(c) /\ s.learned[Ip(c)] # Unnamed => home = HomeOf[c]
        BY <3>5
      <4>3. ~(rtScene.hold /\ rtScene.drop) => Present(s, c)
        BY <2>12
      <4>4. flow \in Flows /\ flow.no > 0 /\ s \in Routers /\ rtSent \in [Clients -> Nat]
        BY <2>2, <2>6, <2>11
      <4>5. /\ Ordered(s, rtSent) /\ FlowsFit(s) /\ HomedBut(s, c) /\ Watched(s) /\ Present(s, c) /\ home \in RtBackends
            /\ <<>> \in Seq(Nat) /\ Waits(s, c, flow.held \o <<>>, rtSent) /\ \A d \in Clients : rtSent[d] <= rtSent[d]
        BY <2>12, <3>4, <3>6
      <4>6. /\ Decide(s, c, flow, home, <<>>) \in Routers /\ RouterFits(Decide(s, c, flow, home, <<>>), rtSent)
            /\ Decide(s, c, flow, home, <<>>).flows =
                 IF Present(s, c) THEN [s.flows EXCEPT ![c] = DecidedFlow(flow, home)] ELSE s.flows
        BY <4>1, <4>2, <4>3, <4>4, <4>5, DecideKeeps
      <4> QED BY <3>2, <4>5, <4>6
    <3>8. DecidedFlow(flow, home).no = flow.no /\ DecidedFlow(flow, home).backend = home
      BY <2>6, <3>4, DecidedFlowIs
    <3>9. /\ \A d \in Clients : w.flows[d] = IF d = c THEN DecidedFlow(flow, home) ELSE s.flows[d]
      BY <2>11, <3>7, RouterFields
    <3>10. Present(w, c) /\ w.flows[c].backend # Unnamed
      BY <2>6, <3>1, <3>8, <3>9, <2>14, AbsentIs DEF Present
    <3> QED BY <1>2, <2>4, <2>10, <3>3, <3>7, <3>9, <3>10
  <2> QED BY <2>13, <2>14
<1> QED BY <1>1, <1>2

-----------------------------------------------------------------------------
\* A new datagram is the latest of its client's.
LEMMA NextWaits ==
  ASSUME NEW r \in Routers, NEW c \in Clients, NEW old \in [Clients -> Nat], NEW sent \in [Clients -> Nat],
         RouterFits(r, old), old[c] < sent[c]
  PROVE  /\ r.flows[c].held \o <<sent[c]>> \in Seq(Nat)
         /\ Append(r.flows[c].held, sent[c]) = r.flows[c].held \o <<sent[c]>>
         /\ Waits(r, c, r.flows[c].held \o <<sent[c]>>, sent)
         /\ \A i \in DOMAIN r.out : r.out[i].from = c => r.out[i].n < sent[c]
<1>1. PICK held : held = r.flows[c].held
  OBVIOUS
<1>2. PICK L, n : L = Len(held) /\ n = sent[c]
  OBVIOUS
<1>3. PICK more : more = held \o <<n>>
  OBVIOUS
<1>4. held \in Seq(Nat) /\ n \in Nat /\ L \in Nat /\ n = sent[c] /\ old[c] \in Nat /\ old[c] < n
  BY <1>1, <1>2, RouterFields, FlowFields
<1>6. /\ more \in Seq(Nat) /\ DOMAIN more = 1 .. (L + 1) /\ more[L + 1] = n /\ DOMAIN held = 1 .. L
      /\ \A i \in 1 .. L : more[i] = held[i] /\ held[i] \in Nat
      /\ Append(held, n) = more
  <2>1. <<n>> \in Seq(Nat) /\ Len(<<n>>) = 1 /\ <<n>>[1] = n
    BY <1>4
  <2>2. /\ more \in Seq(Nat) /\ Len(more) = L + 1
        /\ \A i \in 1 .. (L + 1) : more[i] = IF i <= L THEN held[i] ELSE <<n>>[i - L]
    BY <1>2, <1>3, <1>4, <2>1, ConcatProperties
  <2>3. Append(held, n) = more
    BY <1>3, <1>4
  <2>4. more[L + 1] = n /\ \A i \in 1 .. L : more[i] = held[i] /\ held[i] \in Nat
    BY <1>2, <1>4, <2>1, <2>2, SMTT(30)
  <2> QED BY <1>2, <1>4, <2>2, <2>3, <2>4
<1>7. Waits(r, c, held, old) /\ \A i \in DOMAIN r.out : r.out[i].n <= old[r.out[i].from]
  BY <1>1 DEF RouterFits, Ordered
<1>8. \A i \in DOMAIN r.out : r.out[i].from = c => r.out[i].n < n
  <2> SUFFICES ASSUME NEW i \in DOMAIN r.out, r.out[i].from = c PROVE r.out[i].n < n
    OBVIOUS
  <2>1. r.out[i] \in Datagrams
    BY RouterFields
  <2>2. r.out[i].n \in Nat /\ r.out[i].n <= old[c]
    BY <1>7, <2>1 DEF Datagrams
  <2> QED BY <1>4, <2>2
<1>9. Waits(r, c, more, sent)
  <2>1. ASSUME NEW k \in 1 .. (L + 1)
        PROVE  more[k] <= sent[c] /\ \A i \in DOMAIN r.out : r.out[i].from = c => r.out[i].n < more[k]
    <3>1. CASE k \in 1 .. L
      <4>1. held[k] \in Nat /\ held[k] <= old[c] /\ more[k] = held[k]
        BY <1>6, <1>7, <3>1 DEF Waits
      <4>2. \A i \in DOMAIN r.out : r.out[i].from = c => r.out[i].n < held[k]
        BY <1>6, <1>7, <3>1 DEF Waits
      <4>3. held[k] <= sent[c]
        BY <1>4, <4>1
      <4> QED BY <4>1, <4>2, <4>3
    <3>2. CASE k = L + 1
      BY <1>4, <1>6, <1>8, <3>2
    <3> QED BY <1>4, <2>1, <3>1, <3>2
  <2>2. ASSUME NEW i \in 1 .. (L + 1), NEW j \in 1 .. (L + 1), i < j PROVE more[i] < more[j]
    <3>1. i \in 1 .. L
      BY <1>4, <2>2
    <3>2. held[i] \in Nat /\ held[i] <= old[c] /\ more[i] = held[i]
      BY <1>6, <1>7, <3>1 DEF Waits
    <3>3. CASE j \in 1 .. L
      BY <1>6, <1>7, <2>2, <3>1, <3>3 DEF Waits
    <3>4. CASE j = L + 1
      BY <1>4, <1>6, <3>2, <3>4
    <3> QED BY <1>4, <3>3, <3>4
  <2> QED BY <1>6, <2>1, <2>2 DEF Waits
<1> QED BY <1>1, <1>2, <1>3, <1>6, <1>8, <1>9

LEMMA OrderedIs ==
  ASSUME NEW r, NEW sent, NEW o, NEW N, r.out = o, DOMAIN r.out = 1 .. N,
         \A i, j \in 1 .. N : i < j /\ o[i].from = o[j].from => o[i].n < o[j].n,
         \A i \in 1 .. N : o[i].n <= sent[o[i].from],
         \A c \in Clients : Waits(r, c, r.flows[c].held, sent)
  PROVE  Ordered(r, sent)
BY DEF Ordered

\* What a datagram finds that is sent at once.
LEMMA SendKeeps ==
  ASSUME NEW r \in Routers, NEW c \in Clients, NEW old \in [Clients -> Nat], NEW sent \in [Clients -> Nat],
         RouterFits(r, old), old[c] < sent[c], \A d \in Clients : old[d] <= sent[d], NEW backend \in RtBackends,
         r.flows[c].held = <<>>, NEW s \in Routers, s.flows = r.flows, s.socks = r.socks, s.learned = r.learned,
         s.out = Append(r.out, Datagram(c, sent[c], backend))
  PROVE  RouterFits(s, sent)
<1>1. PICK o, L, n : o = s.out /\ L = Len(r.out) /\ n = sent[c]
  OBVIOUS
<1>2. n \in Nat /\ \A i \in DOMAIN r.out : r.out[i].from = c => r.out[i].n < n
  <2>1. \A i \in DOMAIN r.out : r.out[i].from = c => r.out[i].n < sent[c]
    BY NextWaits
  <2> QED BY <1>1, <2>1
<1>3. PICK g : g = Datagram(c, n, backend)
  OBVIOUS
<1>4. g \in Datagrams /\ g.from = c /\ g.n = n
  BY <1>2, <1>3 DEF Datagrams, Datagram
<1>5. o = Append(r.out, g)
  BY <1>1, <1>3
<1>6. /\ r.out \in Seq(Datagrams) /\ L \in Nat /\ DOMAIN r.out = 1 .. L
      /\ o \in Seq(Datagrams) /\ DOMAIN o = 1 .. (L + 1) /\ o[L + 1] = g
      /\ \A i \in 1 .. L : o[i] = r.out[i] /\ r.out[i] \in Datagrams
  <2>1. r.out \in Seq(Datagrams) /\ L \in Nat /\ DOMAIN r.out = 1 .. L
    BY <1>1, RouterFields
  <2>2. o \in Seq(Datagrams) /\ Len(o) = L + 1 /\ o[L + 1] = g /\ \A i \in 1 .. L : o[i] = r.out[i]
    BY <1>1, <1>4, <1>5, <2>1, AppendProperties
  <2> QED BY <2>1, <2>2
<1>8. \A i \in 1 .. L : r.out[i].n \in Nat /\ r.out[i].from \in Clients
  BY <1>6 DEF Datagrams
<1>9. Ordered(s, sent)
  <2>1. Ordered(r, old)
    BY DEF RouterFits
  <2>2. ASSUME NEW i \in 1 .. (L + 1), NEW j \in 1 .. (L + 1), i < j, o[i].from = o[j].from PROVE o[i].n < o[j].n
    <3>1. i \in 1 .. L
      BY <1>6, <2>2
    <3>2. CASE j \in 1 .. L
      BY <1>6, <2>1, <2>2, <3>1, <3>2 DEF Ordered
    <3>3. CASE j = L + 1
      BY <1>2, <1>4, <1>6, <2>2, <3>1, <3>3
    <3> QED BY <1>6, <3>2, <3>3
  <2>3. ASSUME NEW i \in 1 .. (L + 1) PROVE o[i].n <= sent[o[i].from]
    <3>1. CASE i \in 1 .. L
      <4>1. o[i].n \in Nat /\ o[i].from \in Clients /\ o[i].n <= old[o[i].from]
        BY <1>6, <1>8, <2>1, <3>1 DEF Ordered
      <4>2. old[o[i].from] \in Nat /\ sent[o[i].from] \in Nat /\ old[o[i].from] <= sent[o[i].from]
        BY <4>1
      <4> QED BY <4>1, <4>2
    <3>2. CASE i = L + 1
      BY <1>1, <1>2, <1>4, <1>6, <3>2
    <3> QED BY <1>6, <3>1, <3>2
  <2>4. ASSUME NEW d \in Clients PROVE Waits(s, d, s.flows[d].held, sent)
    <3>1. CASE d = c
      BY <3>1 DEF Waits
    <3>2. CASE d # c
      <4>1. PICK held \in Seq(Nat) : held = r.flows[d].held
        BY RouterFields, FlowFields
      <4>2. Waits(r, d, held, old) /\ s.flows[d].held = held /\ old[d] \in Nat /\ sent[d] \in Nat /\ old[d] <= sent[d]
        BY <2>1, <3>2, <4>1 DEF Ordered
      <4>3. ASSUME NEW k \in DOMAIN held, NEW i \in 1 .. (L + 1), o[i].from = d PROVE o[i].n < held[k]
        <5>1. i \in 1 .. L
          BY <1>4, <1>6, <3>2, <4>3
        <5> QED BY <1>6, <4>2, <4>3, <5>1 DEF Waits
      <4>4. /\ \A i, j \in DOMAIN held : i < j => held[i] < held[j]
            /\ \A k \in DOMAIN held : held[k] <= old[d] /\ held[k] \in Nat
        BY <4>1, <4>2, SMTT(30) DEF Waits
      <4>7. \A k \in DOMAIN held : held[k] <= sent[d]
        BY <4>2, <4>4
      <4>5. DOMAIN s.out = 1 .. (L + 1) /\ s.out = o
        BY <1>1, <1>6
      <4>6. Waits(s, d, held, sent)
        BY <4>3, <4>4, <4>5, <4>7 DEF Waits
      <4> QED BY <4>2, <4>6
    <3> QED BY <3>1, <3>2
  <2>5. DOMAIN s.out = 1 .. (L + 1) /\ s.out = o
    BY <1>1, <1>6
  <2>6. \A i, j \in 1 .. (L + 1) : i < j /\ o[i].from = o[j].from => o[i].n < o[j].n
    BY <2>2
  <2>7. \A i \in 1 .. (L + 1) : o[i].n <= sent[o[i].from]
    BY <2>3
  <2>8. \A d \in Clients : Waits(s, d, s.flows[d].held, sent)
    BY <2>4
  <2> QED BY <2>5, <2>6, <2>7, <2>8, OrderedIs
<1>10. FlowsFit(s) /\ Homed(s) /\ Watched(s)
  BY DEF RouterFits, FlowsFit, Homed, Watched, Present
<1> QED BY <1>9, <1>10 DEF RouterFits

\* A name that is learned is the client's, and its flow is where it leads.
LEMMA LearnKeeps ==
  ASSUME NEW r \in Routers, NEW c \in Clients, NEW sent, RouterFits(r, sent), HomeOf[c] # Unnamed,
         Present(r, c) => r.flows[c].backend = HomeOf[c],
         NEW s, s = [r EXCEPT !.learned = [r.learned EXCEPT ![Ip(c)] = HomeOf[c]]]
  PROVE  s \in Routers /\ RouterFits(s, sent) /\ s.flows = r.flows /\ s.out = r.out
<1>1. PICK learned : learned = [r.learned EXCEPT ![Ip(c)] = HomeOf[c]]
  OBVIOUS
<1>2. /\ s = [flows |-> r.flows, socks |-> r.socks, target |-> r.target, learned |-> learned, count |-> r.count, out |-> r.out]
      /\ s.flows = r.flows /\ s.socks = r.socks /\ s.learned = learned /\ s.out = r.out
  BY <1>1, RouterFields, SMTT(30)
<1>3. Ip(c) \in Ips /\ HomeOf[c] \in Maybe
  BY NamesAreBackends DEF Ips, Maybe
<1>4. learned \in [Ips -> Maybe] /\ \A i \in Ips : learned[i] = IF i = Ip(c) THEN HomeOf[c] ELSE r.learned[i]
  BY <1>1, <1>3, RouterFields
<1>5. s \in Routers
  BY <1>2, <1>4, RouterFields DEF Routers
<1>6. Homed(s)
  <2>1. Homed(r)
    BY DEF RouterFits
  <2>2. \A i \in Ips : s.learned[i] = Unnamed \/ \E d \in Clients : Ip(d) = i /\ s.learned[i] = HomeOf[d]
    BY <1>2, <1>4, <2>1 DEF Homed
  <2>3. ASSUME NEW d \in Clients, HomeOf[d] # Unnamed, Alone(d), s.learned[Ip(d)] # Unnamed, Present(s, d)
        PROVE  s.flows[d].backend = HomeOf[d]
    <3>1. CASE d = c
      BY <1>2, <2>3, <3>1 DEF Present
    <3>2. CASE d # c
      <4>1. Ip(d) # Ip(c) /\ Ip(d) \in Ips
        BY <2>3, <3>2 DEF Alone, Ips
      <4> QED BY <1>2, <1>4, <2>1, <2>3, <4>1 DEF Homed, Present
    <3> QED BY <3>1, <3>2
  <2> QED BY <2>2, <2>3 DEF Homed
<1>7. Ordered(s, sent) /\ FlowsFit(s) /\ Watched(s)
  BY <1>2 DEF RouterFits, Ordered, Waits, FlowsFit, Watched, Present
<1> QED BY <1>2, <1>5, <1>6, <1>7 DEF RouterFits

\* What was true of fewer datagrams sent is true of more.
LEMMA LaterFits ==
  ASSUME NEW r \in Routers, NEW old \in [Clients -> Nat], NEW sent \in [Clients -> Nat],
         \A d \in Clients : old[d] <= sent[d], RouterFits(r, old)
  PROVE  RouterFits(r, sent)
<1>1. Ordered(r, old)
  BY DEF RouterFits
<1>2. ASSUME NEW i \in DOMAIN r.out PROVE r.out[i].n <= sent[r.out[i].from]
  <2>1. r.out[i] \in Datagrams
    BY RouterFields
  <2>2. r.out[i].n \in Nat /\ r.out[i].from \in Clients
    BY <2>1 DEF Datagrams
  <2>3. r.out[i].n <= old[r.out[i].from] /\ old[r.out[i].from] <= sent[r.out[i].from]
    BY <1>1, <2>2 DEF Ordered
  <2> QED BY <2>2, <2>3
<1>3. ASSUME NEW d \in Clients PROVE Waits(r, d, r.flows[d].held, sent)
  <2>1. PICK held \in Seq(Nat) : held = r.flows[d].held
    BY RouterFields, FlowFields
  <2>2. Waits(r, d, held, old)
    BY <1>1, <2>1 DEF Ordered
  <2>3. ASSUME NEW k \in DOMAIN held PROVE held[k] <= sent[d]
    <3>1. held[k] \in Nat /\ held[k] <= old[d] /\ old[d] <= sent[d] /\ old[d] \in Nat /\ sent[d] \in Nat
      BY <2>1, <2>2, SMTT(30) DEF Waits
    <3> QED BY <3>1
  <2> QED BY <2>1, <2>2, <2>3 DEF Waits
<1>4. Ordered(r, sent)
  BY <1>1, <1>2, <1>3 DEF Ordered
<1> QED BY <1>4 DEF RouterFits

\* A datagram of a flow that waits: its name, more to hold, or the end of the wait.
LEMMA HoldKeeps ==
  ASSUME rtFile \in RtBackends, rtScene \in RtScenes, NEW old \in [Clients -> Nat], NEW sent \in [Clients -> Nat],
         NEW r \in Routers, RouterFits(r, old), NEW c \in Clients, Present(r, c), r.flows[c].backend = Unnamed,
         ~rtScene.hold => r.target = rtFile,
         old[c] < sent[c], \A d \in Clients : old[d] <= sent[d],
         NEW name \in {Unnamed, HomeOf[c]}
  PROVE  \A w : w = Hold(r, c, sent[c], name) =>
           /\ w \in Routers /\ RouterFits(w, sent)
           /\ ~rtScene.hold => w.flows[c].backend # Unnamed
           /\ \A d \in Clients \ {c} : w.flows[d] = Absent \/ w.flows[d] = r.flows[d]
<1> SUFFICES ASSUME NEW w, w = Hold(r, c, sent[c], name)
             PROVE  /\ w \in Routers /\ RouterFits(w, sent)
                    /\ ~rtScene.hold => w.flows[c].backend # Unnamed
                    /\ \A d \in Clients \ {c} : w.flows[d] = Absent \/ w.flows[d] = r.flows[d]
  OBVIOUS
<1>1. PICK flow, held, n : flow = r.flows[c] /\ n = sent[c] /\ held = flow.held \o <<n>>
  OBVIOUS
<1>2. /\ flow \in Flows /\ flow.no > 0 /\ flow.backend = Unnamed /\ flow = r.flows[c]
      /\ Ordered(r, old) /\ FlowsFit(r) /\ Homed(r) /\ Watched(r) /\ HomedBut(r, c)
  BY <1>1, RouterFields DEF RouterFits, FlowsFit, Homed, HomedBut
<1>3. /\ n \in Nat /\ \A d \in Clients : old[d] <= sent[d]
      /\ held \in Seq(Nat) /\ Append(flow.held, n) = held /\ Waits(r, c, held, sent) /\ <<n>> \in Seq(Nat)
  <2>1. /\ r.flows[c].held \o <<sent[c]>> \in Seq(Nat)
        /\ Append(r.flows[c].held, sent[c]) = r.flows[c].held \o <<sent[c]>>
        /\ Waits(r, c, r.flows[c].held \o <<sent[c]>>, sent)
    BY NextWaits
  <2>2. <<n>> \in Seq(Nat) /\ n \in Nat
    BY <1>1
  <2> QED BY <1>1, <2>1, <2>2
<1>4. HomeOf[c] # Unnamed /\ Alone(c) => r.learned[Ip(c)] = Unnamed
  BY <1>1, <1>2 DEF Homed
<1>5. CASE name # Unnamed
  <2>1. PICK known : known = [flow EXCEPT !.named = TRUE]
    OBVIOUS
  <2>2. known \in Flows /\ known.no = flow.no /\ known.held = flow.held
    BY <1>2, <2>1 DEF Flows
  <2>3. name \in RtBackends /\ name = HomeOf[c]
    BY <1>5, NamesAreBackends
  <2>4. w = Decide(r, c, known, name, <<n>>)
    BY <1>1, <1>5, <2>1 DEF Hold
  <2>5. /\ known.no > 0 /\ Present(r, c) /\ (Present(r, c) => r.flows[c].no = known.no)
        /\ (~(rtScene.hold /\ rtScene.drop) => Present(r, c))
        /\ (Present(r, c) /\ HomeOf[c] # Unnamed /\ Alone(c) /\ r.learned[Ip(c)] # Unnamed => name = HomeOf[c])
        /\ Waits(r, c, known.held \o <<n>>, sent)
    BY <1>1, <1>2, <1>3, <2>2, <2>3
  <2>6. /\ Decide(r, c, known, name, <<n>>) \in Routers /\ RouterFits(Decide(r, c, known, name, <<n>>), sent)
        /\ Decide(r, c, known, name, <<n>>).flows =
             IF Present(r, c) THEN [r.flows EXCEPT ![c] = DecidedFlow(known, name)] ELSE r.flows
    <3>1. name \in RtBackends /\ known \in Flows /\ <<n>> \in Seq(Nat)
      BY <1>3, <2>2, <2>3
    <3>2. Ordered(r, old) /\ FlowsFit(r) /\ Watched(r) /\ HomedBut(r, c)
      BY <1>2
    <3> QED BY <2>5, <3>1, <3>2, DecideKeeps
  <2>7. w \in Routers /\ RouterFits(w, sent) /\ w.flows = [r.flows EXCEPT ![c] = DecidedFlow(known, name)]
    BY <2>4, <2>5, <2>6
  <2>8. DecidedFlow(known, name).backend = name
    BY <2>2, <2>3, DecidedFlowIs
  <2>9. w.flows[c].backend = name /\ \A d \in Clients \ {c} : w.flows[d] = r.flows[d]
    BY <2>7, <2>8, RouterFields
  <2> QED BY <1>5, <2>7, <2>9
<1>6. CASE name = Unnamed
  <2>1. PICK more : more = [flow EXCEPT !.held = Append(flow.held, n)]
    OBVIOUS
  <2>2. more \in Flows /\ more.no = flow.no /\ more.backend = Unnamed /\ more.held = held
    BY <1>2, <1>3, <2>1 DEF Flows
  <2>3. PICK s : s = Put(r, c, more)
    OBVIOUS
  <2>4. Waits(r, c, more.held, sent) /\ more.no = r.flows[c].no /\ more.backend = r.flows[c].backend
    BY <1>2, <1>3, <2>2
  <2>5. /\ Put(r, c, more) \in Routers /\ RouterFits(Put(r, c, more), sent)
        /\ Put(r, c, more).flows = [r.flows EXCEPT ![c] = more] /\ Put(r, c, more).target = r.target
        /\ Put(r, c, more).out = r.out
    <3>1. more \in Flows /\ (more.backend # Unnamed => more.held = <<>>) /\ \A d \in Clients : old[d] <= sent[d]
      BY <1>3, <2>2
    <3> QED BY <2>4, <3>1, PutKeeps
  <2>6. /\ s \in Routers /\ RouterFits(s, sent) /\ s.target = r.target /\ s.out = r.out
        /\ \A d \in Clients : s.flows[d] = IF d = c THEN more ELSE r.flows[d]
    BY <2>3, <2>5, RouterFields
  <2>7. CASE rtScene.hold /\ Len(more.held) < HoldMax
    <3>1. w = s
      BY <1>1, <1>6, <2>1, <2>3, <2>7 DEF Hold
    <3> QED BY <2>6, <2>7, <3>1
  <2>8. CASE ~(rtScene.hold /\ Len(more.held) < HoldMax)
    <3>1. PICK t : t = Resolved(s)
      OBVIOUS
    <3>2. w = Decide(t, c, more, t.target, <<>>)
      BY <1>1, <1>6, <2>1, <2>3, <2>8, <3>1 DEF Hold
    <3>3. /\ t \in Routers /\ RouterFits(t, sent) /\ t.target = rtFile /\ t.learned = s.learned /\ t.out = s.out
          /\ t.flows = s.flows \/ (rtScene.drop /\ t.flows = [d \in Clients |-> Absent])
          /\ rtFile = s.target => t.flows = s.flows
      BY <2>6, <3>1, ResolvedKeeps
    <3>4. Ordered(t, sent) /\ FlowsFit(t) /\ Homed(t) /\ HomedBut(t, c) /\ Watched(t)
      BY <3>3 DEF RouterFits, Homed, HomedBut
    <3>5. /\ more.no > 0 /\ t.target \in RtBackends /\ <<>> \in Seq(Nat) /\ more.held \o <<>> = held
      BY <1>2, <1>3, <2>2, <3>3
    <3>6. Waits(t, c, held, sent)
      BY <1>3, <2>6, <3>3 DEF Waits
    <3>7. Present(t, c) => t.flows[c] = more
      BY <2>6, <3>3 DEF Present
    <3>8. Present(t, c) /\ HomeOf[c] # Unnamed /\ Alone(c) /\ t.learned[Ip(c)] # Unnamed => t.target = HomeOf[c]
      BY <2>2, <3>4, <3>7 DEF Homed
    <3>9. ~(rtScene.hold /\ rtScene.drop) => Present(t, c)
      <4>1. Present(s, c)
        BY <1>2, <2>2, <2>6, AbsentIs DEF Present
      <4> QED BY <2>6, <3>3, <4>1 DEF Present
    <3>10. /\ Waits(t, c, more.held \o <<>>, sent) /\ (Present(t, c) => t.flows[c].no = more.no)
           /\ \A d \in Clients : sent[d] <= sent[d]
      <4>1. \A d \in Clients : sent[d] \in Nat
        OBVIOUS
      <4> QED BY <3>5, <3>6, <3>7, <4>1
    <3>11. /\ Decide(t, c, more, t.target, <<>>) \in Routers /\ RouterFits(Decide(t, c, more, t.target, <<>>), sent)
           /\ Decide(t, c, more, t.target, <<>>).flows =
                IF Present(t, c) THEN [t.flows EXCEPT ![c] = DecidedFlow(more, t.target)] ELSE t.flows
      <4>1. more \in Flows /\ t \in Routers
        BY <2>2, <3>3
      <4> QED BY <3>4, <3>5, <3>8, <3>9, <3>10, <4>1, DecideKeeps
    <3>12. /\ w \in Routers /\ RouterFits(w, sent)
           /\ w.flows = IF Present(t, c) THEN [t.flows EXCEPT ![c] = DecidedFlow(more, t.target)] ELSE t.flows
      BY <3>2, <3>11
    <3>13. DecidedFlow(more, t.target).backend = t.target /\ t.target # Unnamed
      BY <2>2, <3>5, DecidedFlowIs, NamesAreBackends
    <3>14. ~rtScene.hold => w.flows[c].backend # Unnamed
      BY <3>3, <3>9, <3>12, <3>13, RouterFields
    <3>15. \A d \in Clients \ {c} : w.flows[d] = t.flows[d]
      <4>1. CASE Present(t, c)
        BY <3>3, <3>12, <4>1, RouterFields, ZenonT(60)
      <4>2. CASE ~Present(t, c)
        <5>1. w.flows = t.flows
          BY <3>12, <4>2
        <5> QED BY <5>1, Zenon
      <4> QED BY <4>1, <4>2
    <3>16. \A d \in Clients \ {c} : t.flows[d] = Absent \/ t.flows[d] = r.flows[d]
      <4>1. CASE t.flows = s.flows
        BY <2>6, <4>1
      <4>2. CASE t.flows = [d \in Clients |-> Absent]
        BY <4>2
      <4> QED BY <3>3, <4>1, <4>2
    <3> QED BY <3>12, <3>14, <3>15, <3>16
  <2> QED BY <2>7, <2>8
<1> QED BY <1>5, <1>6

\* A datagram of a flow that is decided: forwarded, or the name it brings is learned.
LEMMA WatchKeeps ==
  ASSUME NEW old \in [Clients -> Nat], NEW sent \in [Clients -> Nat],
         NEW r \in Routers, RouterFits(r, old), NEW c \in Clients, Present(r, c), r.flows[c].backend # Unnamed,
         old[c] < sent[c], \A d \in Clients : old[d] <= sent[d],
         NEW name \in {Unnamed, HomeOf[c]}
  PROVE  \A w : w = Watch(r, c, sent[c], name) =>
           /\ w \in Routers /\ RouterFits(w, sent)
           /\ Present(w, c) => w.flows[c].backend = r.flows[c].backend
           /\ \A d \in Clients \ {c} : w.flows[d] = r.flows[d]
<1> SUFFICES ASSUME NEW w, w = Watch(r, c, sent[c], name)
             PROVE  /\ w \in Routers /\ RouterFits(w, sent)
                    /\ Present(w, c) => w.flows[c].backend = r.flows[c].backend
                    /\ \A d \in Clients \ {c} : w.flows[d] = r.flows[d]
  OBVIOUS
<1>1. PICK flow, n : flow = r.flows[c] /\ n = sent[c]
  OBVIOUS
<1>2. flow \in Flows /\ flow.no > 0 /\ flow.backend \in RtBackends /\ flow.backend # Unnamed /\ flow.held = <<>>
  BY <1>1, RouterFields, FlowFields DEF RouterFits, FlowsFit, Maybe
<1>3. PICK watches \in BOOLEAN : watches <=> ~flow.named /\ flow.watch > 0
  OBVIOUS
<1>4. PICK seen : seen = IF watches THEN Put(r, c, [flow EXCEPT !.watch = flow.watch - 1, !.named = name # Unnamed]) ELSE r
  OBVIOUS
<1>5. PICK learns : learns = IF watches /\ name # Unnamed THEN [seen EXCEPT !.learned[Ip(c)] = name] ELSE seen
  OBVIOUS
<1>6. w = IF watches /\ name \notin {Unnamed, flow.backend} THEN Drop(learns, c)
          ELSE [learns EXCEPT !.out = Append(learns.out, Datagram(c, n, flow.backend))]
  BY <1>1, <1>3, <1>4, <1>5 DEF Watch, Learned
<1>7. \A d \in Clients : old[d] \in Nat
  OBVIOUS
<1>8. /\ seen \in Routers /\ RouterFits(seen, old) /\ Present(seen, c)
      /\ seen.flows[c].backend = flow.backend /\ seen.flows[c].held = <<>>
      /\ \A d \in Clients \ {c} : seen.flows[d] = r.flows[d]
  <2>1. CASE watches
    <3>1. PICK known \in BOOLEAN : known <=> name # Unnamed
      OBVIOUS
    <3>2. PICK left : left = flow.watch - 1
      OBVIOUS
    <3>3. PICK less : less = [flow EXCEPT !.watch = left, !.named = known]
      OBVIOUS
    <3>4. left \in Nat
      BY <1>2, <1>3, <2>1, <3>2, FlowFields
    <3>5. less \in Flows /\ less.no = flow.no /\ less.backend = flow.backend /\ less.held = <<>>
      BY <1>2, <3>3, <3>4 DEF Flows
    <3>6. known = (name # Unnamed)
      BY <3>1, Zenon
    <3>7. seen = Put(r, c, less)
      BY <1>4, <2>1, <3>2, <3>3, <3>6
    <3>8. Waits(r, c, less.held, old) /\ less.no = r.flows[c].no /\ less.backend = r.flows[c].backend
      BY <1>1, <3>5 DEF Waits
    <3>9. /\ Put(r, c, less) \in Routers /\ RouterFits(Put(r, c, less), old)
          /\ Put(r, c, less).flows = [r.flows EXCEPT ![c] = less]
      <4>1. less \in Flows /\ (less.backend # Unnamed => less.held = <<>>) /\ \A d \in Clients : old[d] <= old[d]
        BY <1>2, <1>7, <3>5
      <4> QED BY <3>8, <4>1, PutKeeps
    <3>10. less # Absent
      BY <1>2, <3>5, AbsentIs
    <3> QED BY <3>5, <3>7, <3>9, <3>10, RouterFields DEF Present
  <2>2. CASE ~watches
    BY <1>1, <1>2, <1>4, <2>2
  <2> QED BY <2>1, <2>2
<1>9. CASE watches /\ name \notin {Unnamed, flow.backend}
  <2>1. name = HomeOf[c] /\ HomeOf[c] # Unnamed
    BY <1>9
  <2>2. PICK gone : gone = Drop(seen, c)
    OBVIOUS
  <2>3. /\ gone \in Routers /\ RouterFits(gone, old) /\ gone.flows = [seen.flows EXCEPT ![c] = Absent]
        /\ gone = [flows |-> [seen.flows EXCEPT ![c] = Absent], socks |-> {s \in seen.socks : s.no # seen.flows[c].no},
                   target |-> seen.target, learned |-> seen.learned, count |-> seen.count, out |-> seen.out]
    BY <1>8, <2>2, DropIs, DropKeeps
  <2>4. ~Present(gone, c)
    BY <1>8, <2>3, RouterFields DEF Present
  <2>5. PICK last : last = [gone EXCEPT !.learned = [gone.learned EXCEPT ![Ip(c)] = HomeOf[c]]]
    OBVIOUS
  <2>6. last \in Routers /\ RouterFits(last, old) /\ last.flows = gone.flows /\ last.out = gone.out
    BY <2>1, <2>3, <2>4, <2>5, LearnKeeps
  <2>7. w = last
    <3>1. PICK learned : learned = [seen.learned EXCEPT ![Ip(c)] = HomeOf[c]]
      OBVIOUS
    <3>2. learns = [seen EXCEPT !.learned = learned]
      BY <1>5, <1>9, <2>1, <3>1
    <3>3. seen = [flows |-> seen.flows, socks |-> seen.socks, target |-> seen.target, learned |-> seen.learned,
                  count |-> seen.count, out |-> seen.out]
      BY <1>8, RouterFields
    <3>4. learns = [flows |-> seen.flows, socks |-> seen.socks, target |-> seen.target, learned |-> learned,
                    count |-> seen.count, out |-> seen.out]
      BY <3>2, <3>3
    <3>5. learned \in [Ips -> Maybe]
      <4>1. HomeOf[c] \in Maybe
        BY NamesAreBackends DEF Maybe
      <4> QED BY <1>8, <3>1, <4>1, RouterFields
    <3>6. learns \in Routers /\ Present(learns, c)
      BY <1>8, <3>4, <3>5, RouterFields DEF Routers, Present
    <3>7. Drop(learns, c) =
            [flows |-> [learns.flows EXCEPT ![c] = Absent], socks |-> {s \in learns.socks : s.no # learns.flows[c].no},
             target |-> learns.target, learned |-> learns.learned, count |-> learns.count, out |-> learns.out]
      BY <3>6, DropIs
    <3>8. /\ learns.flows = seen.flows /\ learns.socks = seen.socks /\ learns.target = seen.target
          /\ learns.learned = learned /\ learns.count = seen.count /\ learns.out = seen.out
      BY <3>4
    <3>9. PICK flows, socks : /\ flows = [seen.flows EXCEPT ![c] = Absent]
                              /\ socks = {s \in seen.socks : s.no # seen.flows[c].no}
      OBVIOUS
    <3>10. w = [flows |-> flows, socks |-> socks, target |-> seen.target, learned |-> learned, count |-> seen.count, out |-> seen.out]
      BY <1>6, <1>9, <3>7, <3>8, <3>9
    <3>11. gone = [flows |-> flows, socks |-> socks, target |-> seen.target, learned |-> seen.learned,
                   count |-> seen.count, out |-> seen.out]
      BY <2>3, <3>9
    <3>12. last = [gone EXCEPT !.learned = learned]
      BY <2>5, <3>1, <3>11
    <3>13. last = [flows |-> flows, socks |-> socks, target |-> seen.target, learned |-> learned, count |-> seen.count, out |-> seen.out]
      BY <3>11, <3>12
    <3> QED BY <3>10, <3>13
  <2>8. RouterFits(w, sent)
    <3>2. w.flows[c] = Absent /\ \A d \in Clients \ {c} : w.flows[d] = r.flows[d]
      BY <1>8, <2>3, <2>6, <2>7, RouterFields
    <3> QED BY <2>6, <2>7, LaterFits
  <2> QED BY <1>8, <2>3, <2>4, <2>6, <2>7, <2>8, RouterFields DEF Present
<1>10. CASE ~(watches /\ name \notin {Unnamed, flow.backend})
  <2>1. /\ learns \in Routers /\ RouterFits(learns, old) /\ learns.flows = seen.flows
    <3>1. CASE watches /\ name # Unnamed
      <4>1. name = HomeOf[c] /\ HomeOf[c] # Unnamed /\ seen.flows[c].backend = HomeOf[c]
        BY <1>8, <1>10, <3>1
      <4>2. learns = [seen EXCEPT !.learned = [seen.learned EXCEPT ![Ip(c)] = HomeOf[c]]]
        BY <1>5, <3>1, <4>1
      <4> QED BY <1>8, <4>1, <4>2, LearnKeeps
    <3>2. CASE ~(watches /\ name # Unnamed)
      BY <1>5, <1>8, <3>2
    <3> QED BY <3>1, <3>2
  <2>2. PICK out : out = Append(learns.out, Datagram(c, n, flow.backend))
    OBVIOUS
  <2>3. w = [learns EXCEPT !.out = out]
    BY <1>6, <1>10, <2>2
  <2>4. learns = [flows |-> learns.flows, socks |-> learns.socks, target |-> learns.target, learned |-> learns.learned,
                  count |-> learns.count, out |-> learns.out]
    BY <2>1, RouterFields
  <2>5. w = [flows |-> learns.flows, socks |-> learns.socks, target |-> learns.target, learned |-> learns.learned,
             count |-> learns.count, out |-> out]
    BY <2>3, <2>4
  <2>6. out \in Seq(Datagrams)
    <3>1. n \in Nat
      BY <1>1
    <3>2. Datagram(c, n, flow.backend) \in Datagrams
      BY <1>2, <3>1 DEF Datagram, Datagrams
    <3> QED BY <2>1, <2>2, <3>2, RouterFields
  <2>7. /\ w.flows = learns.flows /\ w.socks = learns.socks /\ w.learned = learns.learned /\ w.out = out
        /\ w \in Routers
    BY <2>1, <2>5, <2>6, RouterFields DEF Routers
  <2>8. learns.flows[c].held = <<>>
    BY <1>8, <2>1
  <2>9. RouterFits(w, sent)
    <3>1. flow.backend \in RtBackends /\ learns \in Routers /\ RouterFits(learns, old) /\ w \in Routers
      BY <1>2, <2>1, <2>7
    <3>2. w.out = Append(learns.out, Datagram(c, sent[c], flow.backend))
      BY <1>1, <2>2, <2>7
    <3>3. PICK v : v = w
      OBVIOUS
    <3>4. /\ v \in Routers /\ v.flows = learns.flows /\ v.socks = learns.socks /\ v.learned = learns.learned
          /\ v.out = Append(learns.out, Datagram(c, sent[c], flow.backend))
      BY <2>7, <3>1, <3>2, <3>3
    <3>5. RouterFits(v, sent)
      BY <2>8, <3>1, <3>4, SendKeeps
    <3> QED BY <3>3, <3>5
  <2> QED BY <1>1, <1>8, <2>1, <2>7, <2>9 DEF Present
<1> QED BY <1>9, <1>10

\* One flow of flush_held: its target first, then the flow, in the table or not.
LEMMA FlushKeeps ==
  ASSUME RtInv, NEW due \in rtDue, NEW w, w = Decide(Resolved(router), due.client, due.flow, Resolved(router).target, <<>>)
  PROVE  /\ w \in Routers /\ RouterFits(w, rtSent)
         /\ \A d \in Clients : \/ w.flows[d] = Absent \/ w.flows[d] = router.flows[d]
                               \/ d = due.client /\ router.flows[d].backend = Unnamed
         /\ DueFits(w, rtDue \ {due}, rtSent)
<1>1. /\ RouterFits(router, rtSent) /\ router \in Routers /\ rtSent \in [Clients -> Nat] /\ rtFile \in RtBackends
      /\ rtScene \in RtScenes /\ rtDue \in SUBSET [client : Clients, flow : Flows] /\ rtScene.hold
  BY DEF RtInv, RtTypes, Settled
<1>2. PICK c, flow, t : c = due.client /\ flow = due.flow /\ t = Resolved(router)
  OBVIOUS
<1>3. /\ c \in Clients /\ flow \in Flows /\ flow.backend = Unnamed /\ flow.no > 0 /\ Waits(router, c, flow.held, rtSent)
      /\ IF rtScene.drop THEN router.flows[c] \in {Absent, flow} ELSE router.flows[c] = flow
  BY <1>1, <1>2 DEF RtInv, DueFits
<1>4. /\ t \in Routers /\ RouterFits(t, rtSent) /\ t.target = rtFile /\ t.learned = router.learned /\ t.out = router.out
      /\ t.flows = router.flows \/ (rtScene.drop /\ t.flows = [d \in Clients |-> Absent])
  BY <1>1, <1>2, ResolvedKeeps
<1>5. Ordered(t, rtSent) /\ FlowsFit(t) /\ Homed(t) /\ HomedBut(t, c) /\ Watched(t)
  BY <1>4 DEF RouterFits, Homed, HomedBut
<1>6. flow.held \in Seq(Nat) /\ <<>> \in Seq(Nat) /\ flow.held \o <<>> = flow.held /\ t.target \in RtBackends
  BY <1>1, <1>3, <1>4, FlowFields
<1>7. Waits(t, c, flow.held \o <<>>, rtSent)
  <2>1. Waits(t, c, flow.held, rtSent)
    BY <1>3, <1>4 DEF Waits
  <2> QED BY <1>6, <2>1
<1>8. Present(t, c) => t.flows[c] = flow /\ router.flows[c] = flow
  BY <1>3, <1>4 DEF Present
<1>9. (Present(t, c) => t.flows[c].no = flow.no) /\ \A d \in Clients : rtSent[d] <= rtSent[d]
  <2>1. \A d \in Clients : rtSent[d] \in Nat
    BY <1>1
  <2> QED BY <1>8, <2>1
<1>10. Present(t, c) /\ HomeOf[c] # Unnamed /\ Alone(c) /\ t.learned[Ip(c)] # Unnamed => t.target = HomeOf[c]
  BY <1>3, <1>5, <1>8 DEF Homed
<1>11. ~(rtScene.hold /\ rtScene.drop) => Present(t, c)
  <2>1. SUFFICES ASSUME ~rtScene.drop PROVE Present(t, c)
    BY <1>1
  <2>2. router.flows[c] = flow /\ t.flows = router.flows
    BY <1>3, <1>4, <2>1
  <2> QED BY <1>3, <2>2, AbsentIs DEF Present
<1>12. PICK decided : decided = DecidedFlow(flow, t.target)
  OBVIOUS
<1>13. /\ w \in Routers /\ RouterFits(w, rtSent)
       /\ w.flows = IF Present(t, c) THEN [t.flows EXCEPT ![c] = decided] ELSE t.flows
       /\ \A i \in DOMAIN w.out : (i \in DOMAIN t.out /\ w.out[i] = t.out[i]) \/ w.out[i].from = c
  <2>1. /\ Decide(t, c, flow, t.target, <<>>) \in Routers /\ RouterFits(Decide(t, c, flow, t.target, <<>>), rtSent)
        /\ Decide(t, c, flow, t.target, <<>>).flows =
             IF Present(t, c) THEN [t.flows EXCEPT ![c] = DecidedFlow(flow, t.target)] ELSE t.flows
        /\ \A i \in DOMAIN Decide(t, c, flow, t.target, <<>>).out :
              \/ i \in DOMAIN t.out /\ Decide(t, c, flow, t.target, <<>>).out[i] = t.out[i]
              \/ Decide(t, c, flow, t.target, <<>>).out[i].from = c
    <3>1. t \in Routers /\ c \in Clients /\ flow \in Flows /\ flow.no > 0 /\ rtSent \in [Clients -> Nat]
      BY <1>1, <1>3, <1>4
    <3> QED BY <1>5, <1>6, <1>7, <1>9, <1>10, <1>11, <3>1, DecideKeeps
  <2>2. w = Decide(t, c, flow, t.target, <<>>)
    BY <1>2
  <2> QED BY <1>12, <2>1, <2>2
<1>14. \A d \in Clients \ {c} : w.flows[d] = t.flows[d] /\ (w.flows[d] = router.flows[d] \/ (rtScene.drop /\ w.flows[d] = Absent))
  <2> TAKE d \in Clients \ {c}
  <2>1. w.flows[d] = t.flows[d]
    <3>1. CASE Present(t, c)
      <4>1. w.flows = [t.flows EXCEPT ![c] = decided]
        BY <1>13, <3>1
      <4>2. t.flows \in [Clients -> Flows]
        BY <1>4, RouterFields
      <4> QED BY <4>1, <4>2
    <3>2. CASE ~Present(t, c)
      <4>1. w.flows = t.flows
        BY <1>13, <3>2
      <4> QED BY <4>1, Zenon
    <3> QED BY <3>1, <3>2
  <2>2. CASE t.flows = router.flows
    BY <2>1, <2>2
  <2>3. CASE rtScene.drop /\ t.flows = [e \in Clients |-> Absent]
    BY <2>1, <2>3
  <2> QED BY <1>4, <2>1, <2>2, <2>3
<1>15. w.flows[c] = Absent \/ router.flows[c].backend = Unnamed
  <2>1. CASE Present(t, c)
    BY <1>3, <1>8, <2>1
  <2>2. CASE ~Present(t, c)
    <3>1. w.flows = t.flows
      BY <1>13, <2>2
    <3>2. w.flows[c] = t.flows[c]
      BY <3>1, Zenon
    <3> QED BY <2>2, <3>2 DEF Present
  <2> QED BY <2>1, <2>2
<1>16. DueFits(w, rtDue \ {due}, rtSent)
  <2>1. ASSUME NEW e \in rtDue \ {due}
        PROVE  /\ e.flow.backend = Unnamed /\ e.flow.no > 0 /\ Waits(w, e.client, e.flow.held, rtSent)
               /\ IF rtScene.drop THEN w.flows[e.client] \in {Absent, e.flow} ELSE w.flows[e.client] = e.flow
    <3>1. /\ e.client \in Clients /\ e.flow.backend = Unnamed /\ e.flow.no > 0 /\ Waits(router, e.client, e.flow.held, rtSent)
          /\ IF rtScene.drop THEN router.flows[e.client] \in {Absent, e.flow} ELSE router.flows[e.client] = e.flow
          /\ e.client # c
      BY <1>1, <1>2 DEF RtInv, DueFits
    <3>2. IF rtScene.drop THEN w.flows[e.client] \in {Absent, e.flow} ELSE w.flows[e.client] = e.flow
      <4>1. w.flows[e.client] = router.flows[e.client] \/ (rtScene.drop /\ w.flows[e.client] = Absent)
        BY <1>14, <3>1
      <4> QED BY <3>1, <4>1
    <3>3. ASSUME NEW i \in DOMAIN w.out, w.out[i].from = e.client
          PROVE  i \in DOMAIN router.out /\ router.out[i] = w.out[i]
      BY <1>4, <1>13, <3>1, <3>3
    <3>4. Waits(w, e.client, e.flow.held, rtSent)
      BY <3>1, <3>3 DEF Waits
    <3> QED BY <3>1, <3>2, <3>4
  <2>2. \A d, e \in rtDue \ {due} : d.client = e.client => d = e
    BY DEF RtInv, DueFits
  <2> QED BY <2>1, <2>2 DEF DueFits
<1>17. \A d \in Clients : \/ w.flows[d] = Absent \/ w.flows[d] = router.flows[d]
                          \/ d = due.client /\ router.flows[d].backend = Unnamed
  BY <1>2, <1>14, <1>15
<1> QED BY <1>13, <1>16, <1>17

\* One datagram.
LEMMA OnClientKeeps ==
  ASSUME RtInv, NEW c \in Clients, NEW named \in BOOLEAN, OnClient(c, named)
  PROVE  /\ RtInv'
         /\ \A d \in Clients : Present(router, d) /\ Present(router', d) /\ router.flows[d].backend # Unnamed
              => router'.flows[d].backend = router.flows[d].backend
<1>1. /\ RtTypes /\ RouterFits(router, rtSent) /\ Settled /\ router \in Routers /\ rtSent \in [Clients -> Nat]
      /\ rtFile \in RtBackends /\ rtScene \in RtScenes /\ rtDue = {}
  BY DEF RtInv, RtTypes, OnClient
<1>2. PICK r, name : r = WithFlow(router, c) /\ name = IF named THEN HomeOf[c] ELSE Unnamed
  OBVIOUS
<1>3. /\ r \in Routers /\ RouterFits(r, rtSent) /\ Present(r, c)
      /\ ~rtScene.hold /\ r.flows[c].backend = Unnamed => r.target = rtFile
      /\ Present(router, c) => r = router
      /\ \A d \in Clients \ {c} : r.flows[d] = Absent \/ r.flows[d] = router.flows[d]
  BY <1>1, <1>2, WithFlowKeeps
<1>4. /\ rtSent' = [rtSent EXCEPT ![c] = rtSent[c] + 1] /\ UNCHANGED <<rtFile, rtDue, rtScene>>
      /\ router' = IF r.flows[c].backend = Unnamed THEN Hold(r, c, rtSent[c] + 1, name) ELSE Watch(r, c, rtSent[c] + 1, name)
  BY <1>2 DEF OnClient
<1>5. /\ rtSent' \in [Clients -> Nat] /\ rtSent[c] < rtSent'[c] /\ rtSent'[c] = rtSent[c] + 1
      /\ \A d \in Clients : rtSent[d] <= rtSent'[d]
  BY <1>1, <1>4
<1>6. router' = IF r.flows[c].backend = Unnamed THEN Hold(r, c, rtSent'[c], name) ELSE Watch(r, c, rtSent'[c], name)
  <2>1. rtSent'[c] = rtSent[c] + 1
    BY <1>5
  <2> QED BY <1>4, <2>1, Zenon
<1>7. name \in {Unnamed, HomeOf[c]}
  BY <1>2
<1>8. PICK w, sent : w = router' /\ sent = rtSent'
  OBVIOUS
<1>9. sent \in [Clients -> Nat] /\ rtSent[c] < sent[c] /\ \A d \in Clients : rtSent[d] <= sent[d]
  BY <1>5, <1>8
<1>10. /\ w \in Routers /\ RouterFits(w, sent)
       /\ ~rtScene.hold /\ Present(w, c) => w.flows[c].backend # Unnamed
       /\ r.flows[c].backend # Unnamed /\ Present(w, c) => w.flows[c].backend = r.flows[c].backend
       /\ \A d \in Clients \ {c} : w.flows[d] = Absent \/ w.flows[d] = r.flows[d]
  <2>1. CASE r.flows[c].backend = Unnamed
    <3>1. w = Hold(r, c, sent[c], name)
      BY <1>6, <1>8, <2>1, Zenon
    <3>2. /\ rtFile \in RtBackends /\ rtScene \in RtScenes /\ rtSent \in [Clients -> Nat] /\ r \in Routers
          /\ RouterFits(r, rtSent) /\ Present(r, c) /\ (~rtScene.hold => r.target = rtFile)
      BY <1>1, <1>3, <2>1
    <3>3. r.flows[c].backend = Unnamed /\ c \in Clients
      BY <2>1
    <3>4. /\ Hold(r, c, sent[c], name) \in Routers /\ RouterFits(Hold(r, c, sent[c], name), sent)
          /\ ~rtScene.hold => Hold(r, c, sent[c], name).flows[c].backend # Unnamed
          /\ \A d \in Clients \ {c} : \/ Hold(r, c, sent[c], name).flows[d] = Absent
                                      \/ Hold(r, c, sent[c], name).flows[d] = r.flows[d]
      BY <1>7, <1>9, <3>2, <3>3, HoldKeeps
    <3> QED BY <2>1, <3>1, <3>4
  <2>2. CASE r.flows[c].backend # Unnamed
    <3>1. w = Watch(r, c, sent[c], name)
      BY <1>6, <1>8, <2>2, Zenon
    <3>2. rtSent \in [Clients -> Nat] /\ r \in Routers /\ RouterFits(r, rtSent) /\ Present(r, c)
      BY <1>1, <1>3
    <3>3. r.flows[c].backend # Unnamed /\ c \in Clients
      BY <2>2
    <3>4. /\ Watch(r, c, sent[c], name) \in Routers /\ RouterFits(Watch(r, c, sent[c], name), sent)
          /\ Present(Watch(r, c, sent[c], name), c)
               => Watch(r, c, sent[c], name).flows[c].backend = r.flows[c].backend
          /\ \A d \in Clients \ {c} : Watch(r, c, sent[c], name).flows[d] = r.flows[d]
      BY <1>7, <1>9, <3>2, <3>3, WatchKeeps
    <3> QED BY <2>2, <3>1, <3>4
  <2> QED BY <2>1, <2>2
<1>11. /\ router' \in Routers /\ RouterFits(router', rtSent')
       /\ ~rtScene.hold /\ Present(router', c) => router'.flows[c].backend # Unnamed
       /\ \A d \in Clients \ {c} : router'.flows[d] = Absent \/ router'.flows[d] = router.flows[d]
  BY <1>3, <1>8, <1>10
<1>12. RtTypes'
  BY <1>1, <1>4, <1>5, <1>11 DEF RtTypes
<1>13. DueFits(router', rtDue', rtSent')
  BY <1>1, <1>4 DEF DueFits
<1>14. Settled'
  BY <1>1, <1>4, <1>11 DEF Settled, Present
<1>15. ASSUME NEW d \in Clients, Present(router, d), Present(router', d), router.flows[d].backend # Unnamed
       PROVE  router'.flows[d].backend = router.flows[d].backend
  <2>1. CASE d # c
    BY <1>11, <1>15, <2>1 DEF Present
  <2>2. CASE d = c
    <3>1. r = router /\ r.flows[c].backend # Unnamed
      BY <1>3, <1>15, <2>2
    <3>2. Present(w, c) /\ w = router'
      BY <1>8, <1>15, <2>2
    <3>3. w.flows[c].backend = router.flows[c].backend
      BY <1>10, <3>1, <3>2
    <3> QED BY <1>8, <2>2, <3>3
  <2> QED BY <2>1, <2>2
<1>16. RtInv'
  BY <1>4, <1>11, <1>12, <1>13, <1>14 DEF RtInv, RouterFits, Watched, DueFits
<1> QED BY <1>15, <1>16

LEMMA RtInvFirst ==
  ASSUME RtInit
  PROVE  RtInv
<1>1. /\ router.flows = [c \in Clients |-> Absent] /\ router.socks = {} /\ router.target = rtFile /\ router.out = <<>>
      /\ router.learned = [i \in Ips |-> Unnamed] /\ router.count = 0
      /\ router = [flows |-> [c \in Clients |-> Absent], socks |-> {}, target |-> rtFile,
                   learned |-> [i \in Ips |-> Unnamed], count |-> 0, out |-> <<>>]
      /\ rtFile = FirstTarget /\ rtScene \in RtScenes /\ rtSent = [c \in Clients |-> 0] /\ rtDue = {}
  BY DEF RtInit, Ips
<1>2. router \in Routers
  <2>1. /\ [c \in Clients |-> Absent] \in [Clients -> Flows] /\ <<>> \in Seq(Datagrams)
        /\ [i \in Ips |-> Unnamed] \in [Ips -> Maybe] /\ rtFile \in RtBackends
    BY <1>1, AbsentIs, NamesAreBackends DEF Maybe
  <2> QED BY <1>1, <2>1 DEF Routers
<1>3. RtTypes
  BY <1>1, <1>2, NamesAreBackends DEF RtTypes
<1>4. Ordered(router, rtSent)
  <2>1. DOMAIN router.out = {}
    BY <1>1
  <2>2. ASSUME NEW c \in Clients PROVE Waits(router, c, router.flows[c].held, rtSent)
    <3>1. DOMAIN router.flows[c].held = {}
      BY <1>1, AbsentIs
    <3> QED BY <3>1 DEF Waits
  <2> QED BY <2>1, <2>2 DEF Ordered
<1>5. FlowsFit(router) /\ Homed(router) /\ Watched(router)
  <2>1. \A c \in Clients : router.flows[c] = Absent /\ Ip(c) \in Ips
    BY <1>1 DEF Ips
  <2>2. \A i \in Ips : router.learned[i] = Unnamed
    BY <1>1
  <2> QED BY <1>1, <2>1, <2>2, AbsentIs DEF FlowsFit, Homed, Watched, Present
<1>6. DueFits(router, rtDue, rtSent) /\ Settled
  BY <1>1 DEF DueFits, Settled, Present
<1> QED BY <1>2, <1>3, <1>4, <1>5, <1>6 DEF RtInv, RouterFits

\* Nothing the router's own step changes: the watched sockets depend on the scene only.
LEMMA RtInvStep ==
  ASSUME RtInv, [RtNext]_rtVars
  PROVE  /\ RtInv'
         /\ \A c \in Clients : Present(router, c) /\ Present(router', c) /\ router.flows[c].backend # Unnamed
              => router'.flows[c].backend = router.flows[c].backend
<1> DEFINE Stays == \A c \in Clients : Present(router, c) /\ Present(router', c) /\ router.flows[c].backend # Unnamed
                      => router'.flows[c].backend = router.flows[c].backend
<1>1. /\ RtTypes /\ RouterFits(router, rtSent) /\ DueFits(router, rtDue, rtSent) /\ Settled
      /\ router \in Routers /\ rtSent \in [Clients -> Nat]
      /\ rtFile \in RtBackends /\ rtScene \in RtScenes /\ rtDue \in SUBSET [client : Clients, flow : Flows]
  BY DEF RtInv, RtTypes
<1>2. ASSUME NEW c \in Clients, RtReap(c) PROVE RtInv' /\ Stays
  <2>1. rtDue = {} /\ Present(router, c) /\ router' = Drop(router, c) /\ UNCHANGED <<rtFile, rtSent, rtDue, rtScene>>
    BY <1>2 DEF RtReap, Present
  <2>2. router' \in Routers /\ RouterFits(router', rtSent) /\ router'.flows = [router.flows EXCEPT ![c] = Absent]
    BY <1>1, <2>1, DropKeeps
  <2>3. \A d \in Clients : router'.flows[d] = Absent \/ router'.flows[d] = router.flows[d]
    BY <1>1, <2>2, RouterFields
  <2>4. RtTypes' /\ DueFits(router', rtDue', rtSent') /\ Settled'
    <3>1. RtTypes' /\ DueFits(router', rtDue', rtSent')
      BY <1>1, <2>1, <2>2 DEF RtTypes, DueFits
    <3>2. Settled'
      BY <1>1, <2>1, <2>3 DEF Settled, Present
    <3> QED BY <3>1, <3>2
  <2>5. RtInv'
    BY <2>1, <2>2, <2>4 DEF RtInv, RouterFits, Watched, DueFits
  <2>6. Stays
    BY <2>3 DEF Present
  <2> QED BY <2>5, <2>6
<1>3. ASSUME NEW c \in Clients, NEW named \in BOOLEAN, OnClient(c, named) PROVE RtInv' /\ Stays
  BY <1>3, OnClientKeeps
<1>4. CASE FlushHeld
  <2>1. rtDue' \in SUBSET Undecided /\ UNCHANGED <<rtFile, router, rtSent, rtScene>>
    BY <1>4 DEF FlushHeld
  <2>2. ASSUME NEW d \in rtDue'
        PROVE  /\ d \in [client : Clients, flow : Flows] /\ Present(router, d.client)
               /\ d.flow = router.flows[d.client] /\ d.flow.backend = Unnamed
    <3>1. PICK c \in Clients : router.flows[c] # Absent /\ router.flows[c].backend = Unnamed /\ d = [client |-> c, flow |-> router.flows[c]]
      BY <2>1 DEF Undecided
    <3> QED BY <1>1, <3>1, RouterFields DEF Present
  <2>3. DueFits(router, rtDue', rtSent)
    <3>1. ASSUME NEW d \in rtDue'
          PROVE  /\ d.flow.backend = Unnamed /\ d.flow.no > 0 /\ Waits(router, d.client, d.flow.held, rtSent)
                 /\ router.flows[d.client] = d.flow
      BY <1>1, <2>2 DEF RouterFits, FlowsFit, Ordered
    <3>2. ASSUME NEW d \in rtDue', NEW e \in rtDue', d.client = e.client PROVE d = e
      BY <2>2, <3>2
    <3> QED BY <3>1, <3>2 DEF DueFits
  <2>4. Settled'
    <3>1. ~rtScene.hold => rtDue' = {}
      BY <1>1, <2>2 DEF Settled
    <3> QED BY <1>1, <2>1, <3>1 DEF Settled, Present
  <2>5. RtTypes'
    BY <1>1, <2>1, <2>2 DEF RtTypes
  <2> QED BY <1>1, <2>1, <2>3, <2>4, <2>5 DEF RtInv, RouterFits, Watched, DueFits
<1>5. CASE FlushNext
  <2>1. PICK due \in rtDue : /\ router' = Decide(Resolved(router), due.client, due.flow, Resolved(router).target, <<>>)
                             /\ rtDue' = rtDue \ {due} /\ UNCHANGED <<rtFile, rtSent, rtScene>>
    BY <1>5 DEF FlushNext
  <2>2. /\ router' \in Routers /\ RouterFits(router', rtSent)
        /\ \A d \in Clients : \/ router'.flows[d] = Absent \/ router'.flows[d] = router.flows[d]
                              \/ d = due.client /\ router.flows[d].backend = Unnamed
        /\ DueFits(router', rtDue \ {due}, rtSent)
    BY <2>1, FlushKeeps
  <2>3. rtScene.hold
    BY <1>1, <2>1 DEF Settled
  <2>4. RtTypes' /\ Settled'
    BY <1>1, <2>1, <2>2, <2>3 DEF RtTypes, Settled
  <2> QED BY <2>1, <2>2, <2>4 DEF RtInv, RouterFits, Watched, DueFits, Present
<1>6. CASE SwitchTarget
  <2>1. rtFile' \in RtBackends /\ UNCHANGED <<router, rtSent, rtDue, rtScene>>
    BY <1>6 DEF SwitchTarget
  <2> QED BY <1>1, <2>1 DEF RtInv, RtTypes, RouterFits, Watched, DueFits, Settled
<1>7. CASE UNCHANGED rtVars
  <2>1. UNCHANGED <<rtFile, router, rtSent, rtDue, rtScene>>
    BY <1>7 DEF rtVars
  <2> QED BY <1>1, <2>1 DEF RtInv, RtTypes, RouterFits, Watched, DueFits, Settled
<1> QED BY <1>2, <1>3, <1>4, <1>5, <1>6, <1>7 DEF RtNext

LEMMA RtInvAlways == RtSpec => []RtInv
<1>1. RtInit => RtInv
  BY RtInvFirst
<1>2. RtInv /\ [RtNext]_rtVars => RtInv'
  BY RtInvStep
<1> QED BY <1>1, <1>2, PTL DEF RtSpec

\* A backend gets a client's datagrams in the order sent, a name that a flow has
\* carried leads home, and without holds over a switch no socket is lost, for any
\* number of clients, backends, holds, flushes and switches (rbrouter.py:353-432).
THEOREM DatagramsAlwaysLeadHome == RtSpec => []DatagramsLeadHome
<1>1. RtInv => DatagramsLeadHome
  <2> SUFFICES ASSUME RtInv PROVE DatagramsLeadHome
    OBVIOUS
  <2>1. Ordered(router, rtSent) /\ Homed(router) /\ Watched(router)
    BY DEF RtInv, RouterFits
  <2>2. InOrder
    BY <2>1 DEF InOrder, Ordered
  <2>3. NameLeadsHome
    BY <2>1 DEF NameLeadsHome, Homed, Alone, Present
  <2>4. NoLostSocketUnheld
    BY <2>1 DEF NoLostSocketUnheld, NoLostSocket, Watched, Present
  <2> QED BY <2>2, <2>3, <2>4 DEF DatagramsLeadHome
<1> QED BY <1>1, RtInvAlways, PTL

\* No step of the router moves a flow that has a backend to another one: a name that
\* comes too late drops the flow instead (watch_for_name, rbrouter.py:425-444).
THEOREM FlowsAlwaysStay == RtSpec => FlowsStay
<1>1. RtInv /\ [RtNext]_rtVars =>
        [\A c \in Clients :
           /\ router.flows[c] # Absent /\ router'.flows[c] # Absent
           /\ router.flows[c].no = router'.flows[c].no /\ router.flows[c].backend # Unnamed
           => router'.flows[c].backend = router.flows[c].backend]_rtVars
  BY RtInvStep DEF Present
<1> QED BY <1>1, RtInvAlways, PTL DEF RtSpec, FlowsStay
==============================================================================
