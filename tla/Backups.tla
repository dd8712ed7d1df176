------------------------------- MODULE Backups -------------------------------
(***************************************************************************)
(* The backups under data/backups: backup_bazaar writes a directory file   *)
(* by file while the application goes on, and may prune older ones;        *)
(* verify_backup restores one in isolation, and scripts/bazaar-restore-    *)
(* test restores the newest into a scratch database.  Runs may overlap and *)
(* may be killed between any two files.                                    *)
(*                                                                         *)
(* Directories are numbered in the order of their timestamps, which is the *)
(* order of their names.  A file is whole, torn by a writer it was copied  *)
(* under, or damaged later.                                                *)
(***************************************************************************)
EXTENDS Integers, FiniteSets

CONSTANTS BackupRuns,  \* runs of the command that may overlap
          PruneKeep,        \* --prune-keep
          MaxBackups,  \* bound: directories made
          MaxWrites,   \* bound: rows inserted meanwhile
          MaxTrouble   \* bound: runs killed, counts that fail, files that decay

ASSUME BackupsAssumption == PruneKeep \in Nat \ {0}

VARIABLES engine,    \* of the database, never changes
          dbRows,      \* rows in the database
          backup,    \* the directories that exist
          lastMade,
          backupRun, \* what each run is doing, in which directory
          trouble    \* how many of these there were

backupVars == <<engine, dbRows, backup, lastMade, backupRun, trouble>>

Parts == {"database", "models"}
NoCount == -1
NotSummed == [p \in Parts |-> "none"]
EmptyDir == [file |-> [p \in Parts |-> "missing"], dumped |-> 0, counted |-> NoCount,
             sums |-> NotSummed, manifest |-> FALSE]
NoRun == [step |-> "idle", dir |-> 0]

BackupsInit ==
    /\ engine \in {"sqlite", "postgresql"} /\ dbRows = 0
    /\ backup = <<>> /\ lastMade = 0
    /\ backupRun = [o \in BackupRuns |-> NoRun]
    /\ trouble = 0

-----------------------------------------------------------------------------
(* What a directory is worth                                               *)

\* A backup of this command; sums come before the manifest.
LooksFinished(d) == backup[d].manifest /\ backup[d].sums # NotSummed

\* Fault: the artifacts are not listed.
SumsMatchDatabase(d) == backup[d].sums["database"] = backup[d].file["database"]

\* SHA256SUMS.txt agrees with the files.
SumsMatch(d) == backup[d].sums = backup[d].file

\* verify_backup restores a copy of a sqlite file, asks for its integrity and
\* compares the counts, if there are any; of a dump it only lists the contents.
RestoredCopyAgrees(d) ==
    engine = "sqlite" => backup[d].counted \in {NoCount, backup[d].dumped}
VerifyPasses(d) ==
    LooksFinished(d) /\ SumsMatch(d) /\ backup[d].file["database"] = "whole"
    /\ RestoredCopyAgrees(d)

\* bazaar-restore-test reads the counts of the manifest, which must be there.
RestoreTestPasses(d) == VerifyPasses(d) /\ backup[d].counted = backup[d].dumped

\* What they are to find out.
Restorable(d) ==
    /\ backup[d].manifest /\ backup[d].file["database"] = "whole"
    /\ backup[d].file["models"] # "damaged"
Undisturbed(d) == backup[d].counted = backup[d].dumped

-----------------------------------------------------------------------------
(* backup_bazaar                                                           *)

Trouble == trouble < MaxTrouble /\ trouble' = trouble + 1
At(o, step) == backupRun[o].step = step
Dir(o) == backupRun[o].dir
GoesTo(o, step) == backupRun' = [backupRun EXCEPT ![o].step = step]
Stored(o, field, x) == backup' = [backup EXCEPT ![Dir(o)] = [@ EXCEPT ![field] = x]]

\* mkdir(exist_ok=False) of a timestamp.
MakeDir(o) ==
    /\ At(o, "idle") /\ lastMade < MaxBackups /\ lastMade' = lastMade + 1
    /\ backup' = [d \in DOMAIN backup \cup {lastMade'} |->
                    IF d = lastMade' THEN EmptyDir ELSE backup[d]]
    /\ backupRun' = [backupRun EXCEPT ![o] = [step |-> "copy", dir |-> lastMade']]
    /\ UNCHANGED <<engine, dbRows, trouble>>

\* pg_dump and copy2 both begin with what is there now.
BeginCopy(o) ==
    /\ At(o, "copy") /\ GoesTo(o, "copying") /\ Stored(o, "dumped", dbRows)
    /\ UNCHANGED <<engine, dbRows, lastMade, trouble>>

\* pg_dump's snapshot stays; a file that is written to while it is copied may
\* be a state of neither time.
EndCopy(o) ==
    /\ At(o, "copying") /\ GoesTo(o, "models")
    /\ \E state \in IF engine = "sqlite" /\ dbRows # backup[Dir(o)].dumped
                      THEN {"whole", "torn"} ELSE {"whole"},
          n \in IF engine = "sqlite" THEN backup[Dir(o)].dumped..dbRows
                ELSE {backup[Dir(o)].dumped} :
         backup' = [backup EXCEPT ![Dir(o)] =
                      [@ EXCEPT !.file["database"] = state, !.dumped = n]]
    /\ UNCHANGED <<engine, dbRows, lastMade, trouble>>

\* joblib.dump writes artifacts in place, so one may be half a model; no check
\* looks inside.
CopyModels(o) ==
    /\ At(o, "models") /\ GoesTo(o, "count")
    /\ backup' = [backup EXCEPT ![Dir(o)].file["models"] = "copied"]
    /\ UNCHANGED <<engine, dbRows, lastMade, trouble>>

\* _snapshot_row_counts, which may fail and leave no counts.
CountRows(o) ==
    /\ At(o, "count") /\ GoesTo(o, "sum")
    /\ \/ Stored(o, "counted", dbRows) /\ UNCHANGED trouble
       \/ Stored(o, "counted", NoCount) /\ Trouble
    /\ UNCHANGED <<engine, dbRows, lastMade>>

SumFiles(o) ==
    /\ At(o, "sum") /\ GoesTo(o, "manifest") /\ Stored(o, "sums", backup[Dir(o)].file)
    /\ UNCHANGED <<engine, dbRows, lastMade, trouble>>

WriteManifest(o) ==
    /\ At(o, "manifest") /\ GoesTo(o, "prune") /\ Stored(o, "manifest", TRUE)
    /\ UNCHANGED <<engine, dbRows, lastMade, trouble>>

Finished == {d \in DOMAIN backup : LooksFinished(d)}
\* candidates[:-keep]
TooOld == {d \in Finished : Cardinality({e \in Finished : e > d}) >= PruneKeep}

\* With --prune-keep or without it.
Prune(o) ==
    /\ At(o, "prune") /\ backupRun' = [backupRun EXCEPT ![o] = NoRun]
    /\ \E gone \in {TooOld, {}} : backup' = [d \in DOMAIN backup \ gone |-> backup[d]]
    /\ UNCHANGED <<engine, dbRows, lastMade, trouble>>

-----------------------------------------------------------------------------
(* What happens meanwhile                                                  *)

InsertRows ==
    /\ dbRows < MaxWrites /\ dbRows' = dbRows + 1
    /\ UNCHANGED <<engine, backup, lastMade, backupRun, trouble>>

KillBackup(o) ==
    /\ ~At(o, "idle") /\ Trouble
    /\ backupRun' = [backupRun EXCEPT ![o] = NoRun]
    /\ UNCHANGED <<engine, dbRows, backup, lastMade>>

\* A file changes after it was summed.
Decay(d, p) ==
    /\ backup[d].sums # NotSummed /\ Trouble
    /\ backup' = [backup EXCEPT ![d].file[p] = "damaged"]
    /\ UNCHANGED <<engine, dbRows, lastMade, backupRun>>

BackupsNext ==
    \/ \E o \in BackupRuns :
         \/ MakeDir(o) \/ BeginCopy(o) \/ EndCopy(o) \/ CopyModels(o) \/ CountRows(o)
         \/ SumFiles(o) \/ WriteManifest(o) \/ Prune(o) \/ KillBackup(o)
    \/ \E d \in DOMAIN backup, p \in Parts : Decay(d, p)
    \/ InsertRows

BackupsSpec == BackupsInit /\ [][BackupsNext]_backupVars
-----------------------------------------------------------------------------

Good == {d \in DOMAIN backup : Restorable(d)}
Bad == {d \in DOMAIN backup : backup[d].manifest} \ Good

\* A backup that is verified can be restored, one that can be restored and was
\* not written over while it was made passes, and pruning, which counts
\* unverified backups too, leaves one that can be restored unless as many as it
\* keeps cannot (verify_backup.py, backup_bazaar.py, docs/RUNBOOKS.md).
LastGoodStays ==
    /\ [](\A d \in DOMAIN backup :
            /\ VerifyPasses(d) \/ RestoreTestPasses(d) => Restorable(d)
            /\ Restorable(d) /\ Undisturbed(d) => VerifyPasses(d) /\ RestoreTestPasses(d))
    /\ [][Good # {} /\ Cardinality(Bad) < PruneKeep /\ trouble' = trouble
            => Good' # {}]_backupVars
=============================================================================
