----------------------------- MODULE Migrations -----------------------------
(* The schema of the workspace database (packages/session/migrations): a     *)
(* process that starts brings it to the current version, one transaction per *)
(* version, and an offline tool takes it back to version 1, for an earlier   *)
(* release to serve.                                                         *)
EXTENDS Naturals, FiniteSets

CONSTANTS
    Processes,   \* processes that open the database for writing
    Current,     \* CURRENT_SCHEMA_VERSION
    Altering,    \* versions that add columns to tables of version 1 (v6)
    Holdings,    \* what the tables of version 1 can hold
    RunRows,     \* what the tables added since can hold: task runs and what belongs to them
    Unfinished,  \* of these, what holds a run that is not over
    Nothing,     \* what a new database holds
    MaxCopies    \* bound: different copies of the database beside it

ASSUME MigrationAssumption ==
    /\ Current \in Nat /\ Current >= 2
    /\ Altering \subseteq 2..Current
    /\ Unfinished \subseteq RunRows
    /\ Nothing \notin Holdings /\ Nothing \notin RunRows
    /\ MaxCopies \in Nat

VARIABLES
    version,     \* PRAGMA user_version
    tables,      \* versions whose tables, indexes and triggers exist
    columns,     \* versions whose columns of older tables exist
    registry,    \* rows of schema_migrations
    rows,        \* what the rows of version 1 say
    tasks,       \* what the rows of the added tables say
    copies,      \* copies of the database file: the backups and exports beside it
    start,       \* what each starting process found and does next
    exported     \* the rollback has exported the database and not yet rolled it back

migVars == <<version, tables, columns, registry, rows, tasks, copies, start, exported>>
-----------------------------------------------------------------------------
SchemaVersions == 0..Current
Held == Holdings \cup {Nothing}
Recorded == RunRows \cup {Nothing}
Snapshots == [version : SchemaVersions, columns : SUBSET Altering, rows : Held, tasks : Recorded]
Down == [stage |-> "down", found |-> 0, next |-> 0]

MigTypeOK ==
    /\ version \in SchemaVersions /\ rows \in Held /\ tasks \in Recorded
    /\ tables \subseteq 1..Current /\ columns \subseteq Altering
    /\ registry \subseteq 2..Current
    /\ copies \subseteq Snapshots
    /\ start \in [Processes -> [stage : {"down", "found", "applying", "open"},
                                found : SchemaVersions, next : 0..Current + 1]]
    /\ exported \in BOOLEAN

\* A new workspace, or one that an earlier release left at its version.
MigInit ==
    /\ version \in SchemaVersions
    /\ tables = 1..version /\ columns = Altering \cap (1..version)
    /\ registry = 2..version
    /\ rows \in (IF version = 0 THEN {Nothing} ELSE Holdings)
    /\ tasks \in (IF version < 2 THEN {Nothing} ELSE Recorded)
    /\ copies = {}
    /\ start = [p \in Processes |-> Down]
    /\ exported = FALSE

databaseVars == <<version, tables, columns, registry, rows, tasks>>

AllDown == \A p \in Processes : start[p].stage = "down"
Becomes(p, state) == start' = [start EXCEPT ![p] = state]

\* A copy of the database file as it is, as far as there is room.
Snapshot == [version |-> version, columns |-> columns, rows |-> rows, tasks |-> tasks]
Copied ==
    /\ Cardinality(copies \cup {Snapshot}) <= MaxCopies
    /\ copies' = copies \cup {Snapshot}
-----------------------------------------------------------------------------
(* migrate_database reads the version and refuses tables without one and     *)
(* versions the registry does not vouch for.  A new database is created by   *)
(* one process: several API processes must not share it.                     *)
Inspect(p) ==
    /\ start[p].stage = "down"
    /\ ~exported
    /\ version = 0 => tables = {} /\ AllDown
    /\ 2..version \subseteq registry
    /\ Becomes(p, [stage |-> IF version = Current THEN "open" ELSE "found",
                   found |-> version, next |-> 0])
    /\ UNCHANGED <<databaseVars, copies, exported>>

\* executescript(create_v1)
CreateV1(p) ==
    /\ start[p].stage = "found" /\ start[p].found = 0
    /\ version' = 1 /\ tables' = tables \cup {1}
    /\ Becomes(p, [stage |-> "applying", found |-> 0, next |-> 2])
    /\ UNCHANGED <<columns, registry, rows, tasks, copies, exported>>

\* _backup_database: the copy of whatever the file holds by now.
CopyDatabase(p) ==
    /\ start[p].stage = "found" /\ start[p].found # 0
    /\ Copied
    /\ Becomes(p, [stage |-> "applying", found |-> start[p].found, next |-> start[p].found + 1])
    /\ UNCHANGED <<databaseVars, exported>>

(* _apply_vN: the tables, the row that registers them and the version are    *)
(* one transaction; a column or a registration that exists already fails it, *)
(* and the process does not start.                                           *)
Applies(v) == v \notin registry /\ v \notin columns

Apply(p) ==
    LET next == start[p].next
    IN /\ start[p].stage = "applying"
       /\ \/ /\ Applies(next)
             /\ version' = next
             /\ tables' = tables \cup {next}
             /\ columns' = columns \cup (Altering \cap {next})
             /\ registry' = registry \cup {next}
             /\ Becomes(p, [start[p] EXCEPT !.stage = IF next = Current THEN "open" ELSE @,
                                            !.next = next + 1])
          \/ /\ ~Applies(next)
             /\ Becomes(p, Down)
             /\ UNCHANGED <<version, tables, columns, registry>>
       /\ UNCHANGED <<rows, tasks, copies, exported>>

\* The service writes its rows.
Serve(p, content, runs) ==
    /\ start[p].stage = "open"
    /\ rows' = content /\ tasks' = runs
    /\ UNCHANGED <<version, tables, columns, registry, copies, start, exported>>

\* An earlier release serves a database of its version, after a rollback for instance.
ServeEarlier(content, runs) ==
    /\ AllDown /\ ~exported
    /\ version \in 1..Current - 1
    /\ rows' = content
    /\ tasks' = IF version = 1 THEN Nothing ELSE runs
    /\ UNCHANGED <<version, tables, columns, registry, copies, start, exported>>

\* The process dies, at any point of the migration, or is stopped.
Stop(p) ==
    /\ start[p].stage # "down"
    /\ Becomes(p, Down)
    /\ UNCHANGED <<databaseVars, copies, exported>>
-----------------------------------------------------------------------------
(* downgrade_v2_to_v1, with every service stopped: it refuses while a run is *)
(* not over and exports the database; then it drops every added table, with  *)
(* its rows, in one transaction.  Columns added to older tables stay.        *)
Export ==
    /\ AllDown /\ ~exported /\ version >= 2
    /\ tasks \notin Unfinished
    /\ Copied
    /\ exported' = TRUE
    /\ UNCHANGED <<databaseVars, start>>

Downgrade ==
    /\ exported
    /\ tables' = {1} /\ registry' = {} /\ version' = 1
    /\ tasks' = Nothing
    /\ exported' = FALSE
    /\ UNCHANGED <<columns, rows, copies, start>>

\* The tool dies between the two.
ExportOnly ==
    /\ exported
    /\ exported' = FALSE
    /\ UNCHANGED <<databaseVars, copies, start>>

MigNext ==
    \/ \E p \in Processes :
          \/ Inspect(p) \/ CreateV1(p) \/ CopyDatabase(p) \/ Apply(p) \/ Stop(p)
          \/ \E content \in Holdings, runs \in Recorded : Serve(p, content, runs)
    \/ \E content \in Holdings, runs \in Recorded : ServeEarlier(content, runs)
    \/ Export \/ Downgrade \/ ExportOnly

MigSpec == MigInit /\ [][MigNext]_migVars
-----------------------------------------------------------------------------
(* The version says what is there, wherever a migration stopped and whoever  *)
(* ran beside it: its tables and registrations exactly, and its columns.     *)
Accounted ==
    /\ tables = 1..version /\ registry = 2..version
    /\ Altering \cap (1..version) \subseteq columns

(* The next start can go on, through every version ahead, from wherever one  *)
(* stopped; only a rollback has left columns behind that no start gets past  *)
(* (ALTER TABLE fails on a column that is there), and then an export of the  *)
(* version that added them is beside the database, which a start can go on   *)
(* from.                                                                     *)
GoesOn ==
    \A v \in version + 1..Current :
        Applies(v) \/ \E c \in copies : c.version >= v /\ c.columns \subseteq 1..c.version

(* What an upgrade or a rollback is about to change is in a copy beside the  *)
(* database first, whatever an earlier release wrote since the copies of     *)
(* other starts; and a rollback drops no run that is not over.               *)
CopiedFirst ==
    /\ \A p \in Processes :
          start[p].stage = "applying" /\ Applies(start[p].next)
              => \/ rows = Nothing /\ tasks = Nothing
                 \/ \E c \in copies : c.rows = rows /\ c.tasks = tasks /\ c.version <= version
    /\ exported => Snapshot \in copies /\ tasks \notin Unfinished

(* Wherever a migration or a rollback stops, the database can be started     *)
(* again or replaced by a copy that can, and what is changed is in a copy.   *)
Recoverable == Accounted /\ GoesOn /\ CopiedFirst
=============================================================================
