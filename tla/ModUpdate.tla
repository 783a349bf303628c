------------------------------- MODULE ModUpdate -------------------------------
\* tools/mod-updater replaces the installed mod by the one of a zip, with a backup
\* and a rollback; tools/mods-guard checks the mods folder it leaves.  Files are
\* copied and removed one by one and anything may fail in between.
EXTENDS Naturals, FiniteSets, Functions

CONSTANTS MuFiles,                  \* the mod's files, "manifest" among them
          MuRuns, MuFaults          \* bounds: updates, errors and kills
ASSUME ManifestIsAFile == "manifest" \in MuFiles

NoFile == 0
Nowhere == [f \in MuFiles |-> NoFile]
Whole(v) == [f \in MuFiles |-> v]

VARIABLES
  mod,             \* the folder mods/rbbattle: the version of each file it has
  modThere,        \* the folder exists
  latest,          \* the version of the zip
  muOptions,       \* of this run: force, backup, where, and whether staging is on another disk
  muAt,            \* where install() is
  muFound,         \* history: the files this run, or the last one, found in the folder
  backup,          \* the copy this run made or is making
  backups,         \* the copies: their files and whether they lie in mods/
  muSaid,          \* what the last run said
  muCount,
  muBroken         \* history: a run was stopped while it removed or moved files and put
                   \* nothing back, and none was installed since
muVars == <<mod, modThere, latest, muOptions, muAt, muFound, backup, backups, muSaid, muCount, muBroken>>

MuOptions == [force : BOOLEAN, backup : BOOLEAN, inMods : BOOLEAN, otherDisk : BOOLEAN]
MuInit ==
  /\ latest = 1 /\ mod \in {Nowhere, Whole(1)} /\ modThere = (mod # Nowhere)
  /\ muOptions \in MuOptions
  /\ muAt = "idle" /\ muFound = mod /\ backup = Nowhere /\ backups = {}
  /\ muSaid = "nothing" /\ muCount = [runs |-> 0, faults |-> 0] /\ muBroken = FALSE

\* Copying and removing go file by file, in any order.
MuRelease == latest < 3 /\ latest' = latest + 1 /\ muAt = "idle"
             /\ UNCHANGED <<mod, modThere, muOptions, muAt, muFound, backup, backups, muSaid, muCount, muBroken>>

\* main and install up to the staging: the manifest alone tells the version.
MuStart ==
  /\ muAt = "idle" /\ muCount.runs < MuRuns /\ muCount' = [muCount EXCEPT !.runs = @ + 1]
  /\ muOptions' \in MuOptions /\ muFound' = mod /\ backup' = Nowhere
  /\ IF mod["manifest"] = latest /\ ~muOptions'.force
     THEN muSaid' = "up-to-date" /\ muAt' = "idle"
     ELSE /\ muSaid' = "working"
          /\ muAt' = IF ~modThere THEN "move" ELSE IF muOptions'.backup THEN "backup" ELSE "remove"
  /\ UNCHANGED <<mod, modThere, latest, backups, muBroken>>

\* copytree to the backup folder; it is complete before anything is removed (bug:
\* the removal starts with the copy).
RemovesAtOnce == backup # Nowhere
RemovesAfter == backup = mod
CopyToBackup ==
  /\ muAt = "backup"
  /\ \E f \in MuFiles : backup[f] # mod[f] /\ backup' = [backup EXCEPT ![f] = mod[f]]
  /\ UNCHANGED <<mod, modThere, latest, muOptions, muAt, muFound, backups, muSaid, muCount, muBroken>>
BackedUp ==
  /\ muAt = "backup" /\ RemovesAfter
  /\ backups' = backups \cup {[files |-> backup, inMods |-> muOptions.inMods]}
  /\ muAt' = "remove"
  /\ UNCHANGED <<mod, modThere, latest, muOptions, muFound, backup, muSaid, muCount, muBroken>>

RemoveFile ==
  /\ muAt = "remove"
  /\ \/ \E f \in MuFiles : mod[f] # NoFile /\ mod' = [mod EXCEPT ![f] = NoFile] /\ UNCHANGED <<modThere, muAt>>
     \/ mod = Nowhere /\ modThere' = FALSE /\ muAt' = "move" /\ UNCHANGED mod
  /\ UNCHANGED <<latest, muOptions, muFound, backup, backups, muSaid, muCount, muBroken>>

\* move: a rename, or across disks a copy.
MoveIn ==
  /\ muAt = "move" /\ modThere' = TRUE
  /\ IF muOptions.otherDisk
     THEN \E f \in MuFiles : mod[f] # latest /\ mod' = [mod EXCEPT ![f] = latest]
     ELSE mod # Whole(latest) /\ mod' = Whole(latest)
  /\ UNCHANGED <<latest, muOptions, muAt, muFound, backup, backups, muSaid, muCount, muBroken>>
MovedIn ==
  /\ muAt = "move" /\ mod = Whole(latest)
  /\ muSaid' = "updated" /\ muAt' = "idle" /\ muBroken' = FALSE
  /\ UNCHANGED <<mod, modThere, latest, muOptions, muFound, backup, backups, muCount>>

\* An error: the backup goes back if the folder is gone; that may fail as well, and
\* then a part of it is there.  A folder half removed or half copied stays.  A kill
\* restores nothing.
RollsBack == muOptions.backup /\ backup # Nowhere /\ ~modThere
MuStops(said, faults) ==
  /\ muAt \in {"backup", "remove", "move"}
  /\ muCount.faults + faults <= MuFaults /\ muCount' = [muCount EXCEPT !.faults = @ + faults]
  /\ muSaid' = said /\ muAt' = "idle"
  /\ UNCHANGED <<latest, muOptions, muFound, backup, backups>>
Leaves == muBroken' = (muBroken \/ muAt \in {"remove", "move"})
MuRestore == RollsBack /\ MuStops("error", 1) /\ mod' = backup /\ modThere' = TRUE /\ UNCHANGED muBroken
MuRestoreFails ==
  /\ RollsBack /\ (MuStops("error", 2) \/ MuStops("killed", 2)) /\ Leaves
  /\ \E copied \in SUBSET MuFiles :
       /\ mod' = [f \in MuFiles |-> IF f \in copied THEN backup[f] ELSE NoFile]
       /\ modThere' = (copied # {}) \/ modThere' = TRUE
MuError == ~RollsBack /\ MuStops("error", 1) /\ Leaves /\ UNCHANGED <<mod, modThere>>
MuKilled == MuStops("killed", 1) /\ Leaves /\ UNCHANGED <<mod, modThere>>

MuWork == CopyToBackup \/ BackedUp \/ RemoveFile \/ MoveIn \/ MovedIn
MuNext == MuRelease \/ MuStart \/ MuWork \/ MuRestore \/ MuRestoreFails \/ MuError \/ MuKilled
MuSpec == MuInit /\ [][MuNext]_muVars
-----------------------------------------------------------------------------
Complete(folder) == folder["manifest"] # NoFile /\ folder = Whole(folder["manifest"])

\* With a backup a whole mod that was there is never lost, wherever a run is stopped: it
\* is whole in its place or in a backup (mod_update.py:300-308).  An error that did not
\* come while files were removed or moved, or after which the backup went back, leaves
\* the folder as it was found (mod_update.py:310-318).
OldVersionIsKept ==
  /\ muOptions.backup /\ Complete(muFound) =>
       mod = muFound \/ \E b \in backups : b.files = muFound
  /\ muSaid = "error" /\ ~muBroken => mod = muFound

\* "updated" is said of a whole mod, and "up-to-date" too, unless a run was stopped while
\* it removed or moved files: the manifest alone tells the version, so that a torn mod
\* which still has its manifest, or has the new one already, counts as up to date.
SaidIsWhole ==
  muSaid = "updated" \/ (muSaid = "up-to-date" /\ ~muBroken) => Complete(mod)

\* An update never loses the mod that was there, nor tells of one that is not whole
\* unless a run was stopped half way.
ModIsKept == OldVersionIsKept /\ SaidIsWhole

\* The guard: no other folder in mods/ has a manifest ("Backups NIE in mods/
\* ablegen", check_mods_dir.py:103).
Strays == {b \in backups : b.inMods /\ b.files["manifest"] # NoFile}
GuardPasses == Strays = {}
=============================================================================
