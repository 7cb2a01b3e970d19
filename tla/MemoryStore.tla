----------------------------- MODULE MemoryStore -----------------------------
(* The long-term memories of one project (packages/session/memory_store.py): *)
(* every method is one BEGIN IMMEDIATE transaction, and clients send the     *)
(* version they saw.  A reference a question makes to a memory is resolved   *)
(* in several reads (memory_refs.py), kept in the plan of the run, and       *)
(* restored when the run goes on after a restart.                            *)
EXTENDS Naturals, Sequences, FiniteSets

CONSTANTS
    Memories,      \* what a memory is about: tenant, project, scope and semantic_key
    Contents,      \* what it can say, with source, confidence and validity
    Targets,       \* data sets and artifacts it can be linked to
    Keys,          \* idempotency keys
    Runs,          \* runs that take a snapshot and resolve a reference
    MaxVersions,   \* bound: versions of a memory
    Missing        \* no record, no snapshot, no target

ASSUME MemoryAssumption ==
    /\ MaxVersions \in Nat
    /\ Missing \notin Contents \cup Targets \cup Runs

VARIABLES
    records,     \* memory_records: the versions of a memory, oldest first
    links,       \* memory_links of each version
    expired,     \* versions whose expires_at has passed
    operations,  \* memory_operations: what an idempotency key was used for
    snapshots,   \* memory_snapshots and their items, by run
    reference,   \* what each run knows of the memory its question names
    stage        \* how far it is

memVars == <<records, links, expired, operations, snapshots, reference, stage>>
-----------------------------------------------------------------------------
Versions == 1..MaxVersions
Status == {"active", "conflict", "superseded", "deleted"}
Records == [content : Contents, status : Status, supersedes : {0} \cup Versions,
            conflictsWith : {0} \cup Versions]
Requests == [type : {"remember", "revise", "delete"}, memory : Memories,
             version : {0} \cup Versions, content : Contents \cup {Missing}]
ReferenceStages == {"new", "snapshot", "read", "resolved", "unresolved", "restarted", "reread",
           "restored", "denied"}

MemTypeOK ==
    /\ records \in [Memories -> Seq(Records)]
    /\ \A m \in Memories : Len(records[m]) <= MaxVersions
    /\ links \in [Memories -> [Versions -> SUBSET Targets]]
    /\ expired \subseteq Memories \X Versions
    /\ operations \in [Keys -> [request : Requests, result : Versions] \cup {Missing}]
    /\ DOMAIN snapshots = Runs
    /\ \A r \in Runs : snapshots[r] # Missing =>
           snapshots[r] \subseteq Memories \X Versions \X Contents
    /\ stage \in [Runs -> ReferenceStages]

NoReference == [memory |-> Missing, version |-> 0, override |-> FALSE, target |-> Missing]

MemInit ==
    /\ records = [m \in Memories |-> <<>>]
    /\ links = [m \in Memories |-> [v \in Versions |-> {}]]
    /\ expired = {}
    /\ operations = [k \in Keys |-> Missing]
    /\ snapshots = [r \in Runs |-> Missing]
    /\ reference = [r \in Runs |-> NoReference]
    /\ stage = [r \in Runs |-> "new"]

referenceVars == <<reference, stage>>
With(m, status) == {v \in DOMAIN records[m] : records[m][v].status = status}
-----------------------------------------------------------------------------
(* _operation_replay: the key answers its own request again and refuses      *)
(* another; neither changes anything.                                        *)
New(k) == operations[k] = Missing

Logged(k, request, v) ==
    operations' = [operations EXCEPT ![k] = [request |-> request, result |-> v]]

Version(content, status, supersedes, conflictsWith) ==
    [content |-> content, status |-> status, supersedes |-> supersedes,
     conflictsWith |-> conflictsWith]

\* _next_version
NextVersion(m) == Len(records[m]) + 1

(* _remember: beside an active record that says something else the new one   *)
(* is a conflict.                                                            *)
Remember(m, content, k) ==
    LET request == [type |-> "remember", memory |-> m, version |-> 0, content |-> content]
        active == With(m, "active")
    IN /\ New(k)
       /\ \/ \E v \in active :
                /\ records[m][v].content = content
                /\ Logged(k, request, v)
                /\ UNCHANGED records
          \/ /\ \A v \in active : records[m][v].content # content
             /\ NextVersion(m) \in Versions
             /\ records' = [records EXCEPT ![m] = Append(@,
                    IF active = {} THEN Version(content, "active", 0, 0)
                    ELSE Version(content, "conflict", 0, CHOOSE v \in active : TRUE))]
             /\ Logged(k, request, NextVersion(m))
       /\ UNCHANGED <<links, expired, snapshots, referenceVars>>

\* Mutant: a client that saw an older version is not refused.
AnyVersion(m) == DOMAIN records[m]

\* The versions a revision can be of: the status and version checks of _revise.
Revisable(m) == With(m, "active")

(* _revise: the client names the version it saw; the new version closes the  *)
(* conflicts and takes over the links (_copy_links).                         *)
Revise(m, v, content, k) ==
    LET request == [type |-> "revise", memory |-> m, version |-> v, content |-> content]
        Closed(u) == u = v \/ records[m][u].status = "conflict"
    IN /\ New(k)
       /\ v \in Revisable(m)
       /\ \/ /\ records[m][v].content = content
             /\ Logged(k, request, v)
             /\ UNCHANGED <<records, links>>
          \/ /\ records[m][v].content # content
             /\ NextVersion(m) \in Versions
             /\ records' = [records EXCEPT ![m] = Append(
                    [u \in DOMAIN @ |-> IF Closed(u) THEN [@[u] EXCEPT !.status = "superseded"]
                                        ELSE @[u]],
                    Version(content, "active", v, 0))]
             /\ links' = [links EXCEPT ![m][NextVersion(m)] = links[m][v]]
             /\ Logged(k, request, NextVersion(m))
       /\ UNCHANGED <<expired, snapshots, referenceVars>>

\* _soft_delete
SoftDelete(m, v, k) ==
    /\ New(k)
    /\ v \in With(m, "active") \cup With(m, "conflict")
    /\ records' = [records EXCEPT ![m][v].status = "deleted"]
    /\ Logged(k, [type |-> "delete", memory |-> m, version |-> v, content |-> Missing], v)
    /\ UNCHANGED <<links, expired, snapshots, referenceVars>>

\* _add_link: to a record of any status; a second time it changes nothing.
AddLink(m, v, target) ==
    /\ v \in DOMAIN records[m] /\ target \notin links[m][v]
    /\ links' = [links EXCEPT ![m][v] = @ \cup {target}]
    /\ UNCHANGED <<records, expired, operations, snapshots, referenceVars>>

\* Time passes the expires_at of a version; its status stays.
Expire(m, v) ==
    /\ v \in DOMAIN records[m] /\ <<m, v>> \notin expired
    /\ expired' = expired \cup {<<m, v>>}
    /\ UNCHANGED <<records, links, operations, snapshots, referenceVars>>
-----------------------------------------------------------------------------
\* _list_records: active, valid and confident enough.
Selected ==
    {<<p[1], p[2], records[p[1]][p[2]].content>> :
        p \in {q \in Memories \X Versions : q[2] \in With(q[1], "active") /\ q \notin expired}}

(* _create_snapshot: a run keeps its first one, which a run that is planned  *)
(* again reads back.                                                         *)
CreateSnapshot(r) ==
    /\ stage[r] = "new"
    /\ snapshots' = [snapshots EXCEPT ![r] = IF @ = Missing THEN Selected ELSE @]
    /\ stage' = [stage EXCEPT ![r] = "snapshot"]
    /\ UNCHANGED <<records, links, expired, operations, reference>>

\* _record_gate_reason
Usable(m, v) == v \in With(m, "active") /\ <<m, v>> \notin expired

Snapshotted(r, m, v) == \E s \in snapshots[r] : s[1] = m /\ s[2] = v

(* resolve, its first reads: the question names an alias, or one record by   *)
(* its memory_id, which overrides a conflict.                                *)
ReadRecords(r, m, override) ==
    /\ stage[r] = "snapshot"
    /\ \E v \in Versions :
        /\ Usable(m, v) /\ Snapshotted(r, m, v)
        /\ override \/ With(m, "conflict") = {}
        /\ reference' = [reference EXCEPT ![r] = [memory |-> m, version |-> v,
                                                  override |-> override, target |-> Missing]]
    /\ stage' = [stage EXCEPT ![r] = "read"]
    /\ UNCHANGED <<records, links, expired, operations, snapshots>>

\* resolve, when no record is eligible: the user is asked.
Unresolved(r, m) ==
    /\ stage[r] = "snapshot"
    /\ \/ \A v \in Versions : ~(Usable(m, v) /\ Snapshotted(r, m, v))
       \/ With(m, "conflict") # {}
    /\ stage' = [stage EXCEPT ![r] = "unresolved"]
    /\ UNCHANGED <<records, links, expired, operations, snapshots, reference>>

\* _binding: the links are read on their own; the memory must have exactly one.
Linked(r) == links[reference[r].memory][reference[r].version]

Bind(r) ==
    /\ stage[r] = "read"
    /\ \/ \E target \in Targets :
            /\ Linked(r) = {target}
            /\ reference' = [reference EXCEPT ![r].target = target]
            /\ stage' = [stage EXCEPT ![r] = "resolved"]
       \/ /\ Cardinality(Linked(r)) # 1
          /\ stage' = [stage EXCEPT ![r] = "unresolved"]
          /\ UNCHANGED reference
    /\ UNCHANGED <<records, links, expired, operations, snapshots>>

\* The run goes on in a new host with the assumptions its plan holds.
Restart(r) ==
    /\ stage[r] \in {"resolved", "restored"}
    /\ stage' = [stage EXCEPT ![r] = "restarted"]
    /\ UNCHANGED <<records, links, expired, operations, snapshots, reference>>

\* restore, its first reads.
Restorable(r) ==
    LET m == reference[r].memory
        v == reference[r].version
    IN /\ Usable(m, v)
       /\ <<m, v, records[m][v].content>> \in snapshots[r]
       /\ reference[r].override \/ With(m, "conflict") = {}

Reread(r) ==
    /\ stage[r] = "restarted"
    /\ stage' = [stage EXCEPT ![r] = IF Restorable(r) THEN "reread" ELSE "denied"]
    /\ UNCHANGED <<records, links, expired, operations, snapshots, reference>>

\* restore, the links: the hash of the binding covers its target.
Rebind(r) ==
    /\ stage[r] = "reread"
    /\ stage' = [stage EXCEPT ![r] = IF Linked(r) = {reference[r].target} THEN "restored"
                                     ELSE "denied"]
    /\ UNCHANGED <<records, links, expired, operations, snapshots, reference>>

MemNext ==
    \/ \E m \in Memories, k \in Keys, c \in Contents :
          \/ Remember(m, c, k)
          \/ \E v \in Versions : Revise(m, v, c, k)
    \/ \E m \in Memories, k \in Keys, v \in Versions : SoftDelete(m, v, k)
    \/ \E m \in Memories, v \in Versions :
          Expire(m, v) \/ \E target \in Targets : AddLink(m, v, target)
    \/ \E r \in Runs : CreateSnapshot(r) \/ Bind(r) \/ Restart(r) \/ Reread(r) \/ Rebind(r)
    \/ \E r \in Runs, m \in Memories :
          Unresolved(r, m) \/ \E override \in BOOLEAN : ReadRecords(r, m, override)

MemSpec == MemInit /\ [][MemNext]_memVars
-----------------------------------------------------------------------------
(* The history of a memory does not fork: at most one version is active      *)
(* (idx_memory_records_active_semantic never has to refuse one), no two      *)
(* versions supersede the same one, and a conflict is with an older version. *)
OneHistory ==
    \A m \in Memories :
        /\ Cardinality(With(m, "active")) <= 1
        /\ \A u, v \in DOMAIN records[m] :
              u # v /\ records[m][u].supersedes # 0
                  => records[m][u].supersedes # records[m][v].supersedes
        /\ \A v \in DOMAIN records[m] :
              records[m][v].supersedes < v /\ records[m][v].conflictsWith < v
=============================================================================
