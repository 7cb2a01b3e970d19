--------------------------- MODULE WorkspaceBackup ---------------------------
(* The offline copies of the workspace (packages/session/workspace_backup.py *)
(* run by apps/api/workspace_admin.py): the database and the two file trees  *)
(* are copied into a backup with a manifest, and a restore replaces them one *)
(* after the other, having copied what it replaces.  They share nothing with *)
(* an upgrade of the schema (Migrations) but the database that must survive  *)
(* both.                                                                     *)
EXTENDS Migrations, Sequences

CONSTANTS
    Works,        \* what users can have saved
    NoWork,       \* an empty part
    Partial,      \* a tree of which some files are missing
    MaxBackups    \* bound: directories in the backup root

ASSUME BackupAssumption ==
    /\ NoWork \notin Works /\ Partial \notin Works /\ NoWork # Partial
    /\ MaxBackups \in Nat

VARIABLES
    saved,      \* what users had last: after a save, after a restore that finished
    database,   \* chatbi.db
    log,        \* its -wal: what a service that was killed had committed to it
    datasets,   \* the tree of data set files
    artifacts,  \* the tree of reports and charts
    service,    \* "up" or "down"; the caller vouches for it (--service-stopped)
    root,       \* the directories of the backup root
    admin       \* the command that runs: its stage and the backup it restores

backupVars == <<saved, database, log, datasets, artifacts, service, root, admin>>
liveVars == <<saved, database, log, datasets, artifacts>>
-----------------------------------------------------------------------------
Parts == Works \cup {NoWork, Partial}
Workspaces == [database : Parts, datasets : Parts, artifacts : Parts]
Copies == [work : Workspaces, verified : BOOLEAN]
NoAdmin == [stage |-> "none"]
AdminStages == {"none", "verified", "kept", "replaced", "clean", "datasets", "artifacts",
           "last"}

BackupTypeOK ==
    /\ saved \in Workspaces
    /\ database \in Parts /\ log \in Parts
    /\ datasets \in Parts /\ artifacts \in Parts
    /\ service \in {"up", "down"}
    /\ \A n \in DOMAIN root : n \in 1..MaxBackups /\ root[n] \in Copies
    /\ admin.stage \in AdminStages
    /\ admin.stage # "none" => admin.source \in Workspaces

BackupInit ==
    /\ database = NoWork /\ log = NoWork
    /\ datasets = NoWork /\ artifacts = NoWork
    /\ saved = [database |-> NoWork, datasets |-> NoWork, artifacts |-> NoWork]
    /\ service = "up"
    /\ root = <<>>
    /\ admin = NoAdmin

(* What SQLite reads: the pages in the log hide those of the file, of        *)
(* whatever database it is.                                                  *)
Read == IF log = NoWork THEN database ELSE log

Live == [database |-> Read, datasets |-> datasets, artifacts |-> artifacts]

\* Mutant: the database file is copied without what its log holds.
CopyFile(verified) == [work |-> [Live EXCEPT !.database = database], verified |-> verified]

\* _copy_tree and _sqlite_backup, which reads through SQLite
Copy(verified) == [work |-> Live, verified |-> verified]

Stopped == service = "down" /\ admin.stage = "none"
-----------------------------------------------------------------------------
\* Users save files and their rows; the rows are in the log at first.
Save(work) ==
    /\ service = "up"
    /\ log' = work
    /\ datasets' = IF datasets = Partial THEN Partial ELSE work
    /\ artifacts' = IF artifacts = Partial THEN Partial ELSE work
    /\ saved' = [database |-> work, datasets |-> datasets', artifacts |-> artifacts']
    /\ UNCHANGED <<database, service, root, admin>>

\* The last connection is closed: the log is checkpointed.
StopService ==
    /\ service = "up"
    /\ service' = "down"
    /\ database' = Read /\ log' = NoWork
    /\ UNCHANGED <<saved, datasets, artifacts, root, admin>>

KillService ==
    /\ service = "up"
    /\ service' = "down"
    /\ UNCHANGED <<liveVars, root, admin>>

StartService ==
    /\ Stopped
    /\ service' = "up"
    /\ UNCHANGED <<liveVars, root, admin>>

(* backup_workspace: the directory appears with its manifest, or not at all. *)
Backup ==
    /\ Stopped /\ Len(root) < MaxBackups
    /\ root' = Append(root, Copy(TRUE))
    /\ UNCHANGED <<liveVars, service, admin>>
-----------------------------------------------------------------------------
\* restore_workspace: the source must be a backup that verifies.
Verify(n) ==
    /\ Stopped /\ root[n].verified
    /\ admin' = [stage |-> "verified", source |-> root[n].work]
    /\ UNCHANGED <<liveVars, service, root>>

ComesTo(stage) == admin' = [admin EXCEPT !.stage = stage]
From(stage) == admin.stage = stage

\* pre-restore-*: no manifest, so it is not a backup that verifies.
Quarantine ==
    /\ From("verified") /\ Len(root) < MaxBackups
    /\ root' = Append(root, Copy(FALSE))
    /\ ComesTo("kept")
    /\ UNCHANGED <<liveVars, service>>

ReplaceDatabase ==
    /\ From("kept")
    /\ database' = admin.source.database
    /\ ComesTo("replaced")
    /\ UNCHANGED <<saved, log, datasets, artifacts, service, root>>

\* _remove_sqlite_sidecars
RemoveLog ==
    /\ From("replaced")
    /\ log' = NoWork
    /\ ComesTo("clean")
    /\ UNCHANGED <<saved, database, datasets, artifacts, service, root>>

\* _replace_tree: the files are removed, then copied, one by one.
ReplaceDatasets ==
    /\ \/ From("clean") /\ datasets' = Partial /\ ComesTo("datasets")
       \/ From("datasets") /\ datasets' = admin.source.datasets /\ ComesTo("artifacts")
    /\ UNCHANGED <<saved, database, log, artifacts, service, root>>

ReplaceArtifacts ==
    /\ \/ From("artifacts") /\ artifacts' = Partial /\ ComesTo("last") /\ UNCHANGED saved
       \/ /\ From("last")
          /\ artifacts' = admin.source.artifacts
          /\ saved' = [Live EXCEPT !.artifacts = artifacts']
          /\ admin' = NoAdmin
    /\ UNCHANGED <<database, log, datasets, service, root>>

\* A step fails, or the command is killed.
Abort ==
    /\ admin.stage # "none"
    /\ admin' = NoAdmin
    /\ UNCHANGED <<liveVars, service, root>>

BackupNext ==
    \/ \E work \in Works : Save(work)
    \/ StopService \/ KillService \/ StartService \/ Backup
    \/ \E n \in DOMAIN root : Verify(n)
    \/ Quarantine \/ ReplaceDatabase \/ RemoveLog \/ ReplaceDatasets \/ ReplaceArtifacts
    \/ Abort

BackupSpec == BackupInit /\ [][BackupNext]_backupVars
-----------------------------------------------------------------------------
(* What users had last is never gone: it is the workspace, or whole in a     *)
(* directory of the backup root, whatever restores overwrote it and wherever *)
(* they stopped ("a restore first makes a pre-restore-* copy of what it      *)
(* overwrites", README).                                                     *)
SavedKept == Live = saved \/ \E n \in DOMAIN root : root[n].work = saved

(* A restore that comes to its last step has put back what the backup holds, *)
(* even over a database whose service was killed.                            *)
Restored ==
    From("last") => Read = admin.source.database /\ datasets = admin.source.datasets

(* A restore neither loses what was there nor leaves it in what it restores. *)
RestoreSafe == SavedKept /\ Restored

(* What is in the database survives upgrades and rollbacks that stop half    *)
(* way, and restores at every point: it is there, or in a copy beside it.    *)
DatabaseSafe == Recoverable /\ RestoreSafe
=============================================================================
