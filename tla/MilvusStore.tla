----------------------------- MODULE MilvusStore -----------------------------
(* The index of the knowledge base on Milvus (packages/rag/milvus_store.py)  *)
(* and the retrievals that read it (packages/rag/retriever.py).  An update   *)
(* writes a collection of its own, loads it and publishes it, by a pointer   *)
(* file for Milvus Lite or an alias for a server; the collection before it   *)
(* is kept for a rollback and older ones are dropped.  A process keeps the   *)
(* active collection in memory from the moment it opened the store.  Lite is *)
(* opened by one process at a time; a server serves the API and the scripts  *)
(* kb_rebuild.py and kb_admin.py beside each other.                          *)
EXTENDS Naturals, FiniteSets, FiniteSetsExt

CONSTANTS
    Openers,        \* processes: the API and one script
    API,            \* the one that answers retrievals
    Beside,         \* whether a script may run while the API does
    Sources,        \* documents
    Queries,        \* retrievals at a time
    MaxConcurrent,  \* of them reading
    MaxQueued,      \* of them waiting
    MaxCandidates,  \* bound: collections made
    Unset           \* no previous collection

ASSUME MilvusAssumption ==
    /\ API \in Openers /\ Beside \in BOOLEAN
    /\ MaxConcurrent \in Nat \ {0} /\ MaxQueued \in Nat /\ MaxCandidates \in Nat
    /\ Unset \notin Nat

VARIABLES
    lite,         \* the deployment: Milvus Lite, or a server
    collections,  \* those that exist, by age, with the documents they hold
    made,         \* how many were created
    pointed,      \* what is published: the pointer file, or the alias and Unset
    memory,       \* of each process: _collection and _previous_collection
    job,          \* what each process does in its _write_lock
    reads,        \* retrievals
    may,          \* what the index may hold, by what those who changed it were told
    whole         \* collections an update published, on the ground of such a collection

milvusVars == <<lite, collections, made, pointed, memory, job, reads, may, whole>>
-----------------------------------------------------------------------------
(* Collection 0 is the base collection, which nothing creates any more.      *)
Generation == 1..MaxCandidates
Holds(g) == IF g \in DOMAIN collections THEN collections[g] ELSE {}
NotOpen == [open |-> FALSE, active |-> 0, previous |-> Unset]
NoUpdate == [op |-> "none", docs |-> {}]
NoJob == [op |-> NoUpdate, at |-> "idle", docs |-> {}, candidate |-> 0, base |-> 0,
          drops |-> {}, before |-> {}]
Unread == [stage |-> "idle", pinned |-> 0]

\* An update: documents added, documents removed, or all replaced by those given.
Updates == [op : {"add", "remove", "full"}, docs : SUBSET Sources]
Effect(u, docs) ==
    CASE u.op = "add" -> docs \cup u.docs
      [] u.op = "remove" -> docs \ u.docs
      [] u.op = "full" -> u.docs
      [] u.op = "none" -> docs

\* _infer_previous: the youngest of the others.
Inferred(active) ==
    LET others == DOMAIN collections \ {active}
    IN  IF others = {} THEN Unset ELSE Max(others)

\* _resolve_active_state
Resolved ==
    IF lite /\ pointed.active \in DOMAIN collections
    THEN [active |-> pointed.active,
          previous |-> IF pointed.previous \in DOMAIN collections THEN pointed.previous
                       ELSE Inferred(pointed.active)]
    ELSE IF lite THEN [active |-> 0, previous |-> Inferred(0)]
    ELSE [active |-> pointed.active, previous |-> Inferred(pointed.active)]

Published == Holds(Resolved.active)

\* Made by updates alone, each complete, from the empty index or from documents given in full.
Whole(g) == g \in whole \cup {0}

\* What a cleanup of process p leaves: besides keep, what its own readers have pinned.
Spared(p, keep) ==
    IF p # API THEN keep
    ELSE keep \cup {reads[q].pinned : q \in {r \in Queries : reads[r].stage = "reading"}}

MilvusInit ==
    /\ lite \in BOOLEAN
    /\ collections = <<>> /\ made = 0
    /\ pointed = [active |-> 0, previous |-> Unset]
    /\ memory = [p \in Openers |-> NotOpen]
    /\ job = [p \in Openers |-> NoJob]
    /\ reads = [q \in Queries |-> Unread]
    /\ may = {{}} /\ whole = {}

OpenStore(p) ==
    /\ ~memory[p].open
    /\ \A q \in Openers : memory[q].open => Beside /\ ~lite
    /\ memory' = [memory EXCEPT ![p] = [open |-> TRUE, active |-> Resolved.active,
                                        previous |-> Resolved.previous]]
    /\ UNCHANGED <<lite, collections, made, pointed, job, reads, may, whole>>

\* The process ends, between two requests or at any point of one.
Quit(p) ==
    /\ memory[p].open
    /\ memory' = [memory EXCEPT ![p] = NotOpen]
    /\ job' = [job EXCEPT ![p] = NoJob]
    /\ reads' = IF p = API THEN [q \in Queries |-> Unread] ELSE reads
    /\ UNCHANGED <<lite, collections, made, pointed, may, whole>>

Step(p, state) == job' = [job EXCEPT ![p] = state]
-----------------------------------------------------------------------------
(* replace_documents.                                                        *)

\* The chunks of the active collection are read and merged with the new ones; there is
\* nothing to do when that leaves an index that was never built empty.
BeginUpdate(p, u) ==
    /\ memory[p].open /\ job[p].at = "idle"
    /\ LET docs == Effect(u, Holds(memory[p].active))
       IN  IF docs = {} /\ memory[p].active \notin DOMAIN collections
           THEN /\ may' = {Effect(u, d) : d \in may}
                /\ UNCHANGED job
           ELSE /\ may' = may \cup {Effect(u, d) : d \in may}
                /\ Step(p, [NoJob EXCEPT !.op = u, !.at = "create", !.docs = docs,
                                         !.base = memory[p].active, !.before = may])
    /\ UNCHANGED <<lite, collections, made, pointed, memory, reads, whole>>

CreateCandidate(p) ==
    /\ job[p].at = "create" /\ made < MaxCandidates
    /\ made' = made + 1
    /\ collections' = [g \in DOMAIN collections \cup {made'} |-> Holds(g)]
    /\ Step(p, [job[p] EXCEPT !.at = "insert", !.candidate = made'])
    /\ UNCHANGED <<lite, pointed, memory, reads, may, whole>>

InsertChunks(p) ==
    /\ job[p].at = "insert" /\ job[p].candidate \in DOMAIN collections
    /\ collections' = [collections EXCEPT ![job[p].candidate] = job[p].docs]
    /\ Step(p, [job[p] EXCEPT !.at = "publish"])
    /\ UNCHANGED <<lite, made, pointed, memory, reads, may, whole>>

Publishes(active, previous) ==
    pointed' = [active |-> active, previous |-> IF lite THEN previous ELSE Unset]

PublishCandidate(p) ==
    /\ job[p].at = "publish" /\ job[p].candidate \in DOMAIN collections
    /\ Publishes(job[p].candidate, job[p].base)
    /\ Step(p, [job[p] EXCEPT !.at = "adopt"])
    /\ whole' = IF job[p].op.op = "full" \/ Whole(job[p].base) THEN whole \cup {job[p].candidate}
                ELSE whole
    /\ UNCHANGED <<lite, collections, made, memory, reads, may>>

\* Mutant: an error after the publication is reported as a failed update too.
UpdateFailsLate(p) ==
    /\ job[p].at \in {"create", "insert", "publish", "adopt"}
    /\ \/ collections' = [g \in DOMAIN collections \ {job[p].candidate} |-> collections[g]]
       \/ UNCHANGED collections
    /\ may' = job[p].before
    /\ job' = [job EXCEPT ![p] = NoJob]
    /\ UNCHANGED <<lite, made, pointed, memory, reads, whole>>

\* An error before the publication: the candidate is dropped, unless that fails too.
UpdateFails(p) ==
    /\ job[p].at \in {"create", "insert", "publish"}
    /\ \/ collections' = [g \in DOMAIN collections \ {job[p].candidate} |-> collections[g]]
       \/ UNCHANGED collections
    /\ may' = job[p].before
    /\ job' = [job EXCEPT ![p] = NoJob]
    /\ UNCHANGED <<lite, made, pointed, memory, reads, whole>>

\* _cleanup_generations lists the collections to drop, after the process took over the new.
CleanUp(p, keep) ==
    Step(p, [job[p] EXCEPT !.at = "drop", !.drops = DOMAIN collections \ Spared(p, keep)])

Adopt(p) ==
    /\ job[p].at = "adopt"
    /\ memory' = [memory EXCEPT ![p].active = job[p].candidate, ![p].previous = job[p].base]
    /\ CleanUp(p, {job[p].candidate, job[p].base})
    /\ UNCHANGED <<lite, collections, made, pointed, reads, may, whole>>

DropNext(p) ==
    /\ job[p].at = "drop" /\ job[p].drops # {}
    /\ \E g \in job[p].drops :
          /\ collections' = [k \in DOMAIN collections \ {g} |-> collections[k]]
          /\ Step(p, [job[p] EXCEPT !.drops = @ \ {g}])
    /\ UNCHANGED <<lite, made, pointed, memory, reads, may, whole>>

\* The caller is answered when all are dropped or one could not be.
Return(p) ==
    /\ job[p].at = "drop"
    /\ may' = {Effect(job[p].op, d) : d \in may}
    /\ job' = [job EXCEPT ![p] = NoJob]
    /\ UNCHANGED <<lite, collections, made, pointed, memory, reads, whole>>
-----------------------------------------------------------------------------
(* kb_admin.py                                                               *)

\* The previous collection is whatever _infer_previous found: one that was published before,
\* whose state of the index is back, or what a crash or a failed update left.
RollBack(p) ==
    /\ memory[p].open /\ p # API /\ job[p].at = "idle"
    /\ memory[p].previous \in DOMAIN collections
    /\ Publishes(memory[p].previous, memory[p].active)
    /\ memory' = [memory EXCEPT ![p].active = memory[p].previous,
                                ![p].previous = memory[p].active]
    /\ may' = IF Whole(memory[p].previous) THEN {Holds(memory[p].previous)} ELSE may
    /\ UNCHANGED <<lite, collections, made, job, reads, whole>>

\* cleanup --retain n keeps the youngest beside the active and the previous one.
Retained(p, n) ==
    LET sure == {memory[p].active} \cup ({memory[p].previous} \ {Unset})
        others == DOMAIN collections \ sure
        youngest == {g \in others : Cardinality({k \in others : k > g}) < n - Cardinality(sure)}
    IN  sure \cup youngest

CleanUpGenerations(p, n) ==
    /\ memory[p].open /\ p # API /\ job[p].at = "idle"
    /\ CleanUp(p, Retained(p, n))
    /\ UNCHANGED <<lite, collections, made, pointed, memory, reads, may, whole>>
-----------------------------------------------------------------------------
(* HybridRetriever.retrieve: a bounded queue, and within the capacity a      *)
(* snapshot, under which every search goes to one collection.                *)
InStage(stage) == {q \in Queries : reads[q].stage = stage}

Admit(q) ==
    /\ memory[API].open /\ reads[q].stage = "idle"
    /\ Cardinality(InStage("queued") \cup InStage("reading")) < MaxConcurrent + MaxQueued
    /\ reads' = [reads EXCEPT ![q].stage = "queued"]
    /\ UNCHANGED <<lite, collections, made, pointed, memory, job, may, whole>>

PinSnapshot(q) ==
    /\ reads[q].stage = "queued"
    /\ Cardinality(InStage("reading")) < MaxConcurrent
    /\ reads' = [reads EXCEPT ![q] = [stage |-> "reading", pinned |-> memory[API].active]]
    /\ UNCHANGED <<lite, collections, made, pointed, memory, job, may, whole>>

\* The search is over, or the wait for it took too long.
Leaves(q) ==
    /\ reads[q].stage # "idle"
    /\ reads' = [reads EXCEPT ![q] = Unread]
    /\ UNCHANGED <<lite, collections, made, pointed, memory, job, may, whole>>

MilvusNext ==
    \/ \E p \in Openers :
          \/ OpenStore(p) \/ Quit(p)
          \/ CreateCandidate(p) \/ InsertChunks(p) \/ PublishCandidate(p) \/ UpdateFails(p)
          \/ Adopt(p) \/ DropNext(p) \/ Return(p)
          \/ RollBack(p)
          \/ \E n \in 2..3 : CleanUpGenerations(p, n)
          \/ \E u \in Updates : BeginUpdate(p, u)
    \/ \E q \in Queries : Admit(q) \/ PinSnapshot(q) \/ Leaves(q)

MilvusSpec == MilvusInit /\ [][MilvusNext]_milvusVars
-----------------------------------------------------------------------------
MilvusTypeOK ==
    /\ lite \in BOOLEAN /\ made \in 0..MaxCandidates
    /\ DOMAIN collections \subseteq 1..made
    /\ \A g \in DOMAIN collections : collections[g] \subseteq Sources
    /\ pointed \in [active : 0..made, previous : (0..made) \cup {Unset}]
    /\ memory \in [Openers -> [open : BOOLEAN, active : 0..made, previous : (0..made) \cup {Unset}]]
    /\ \A p \in Openers : job[p].at \in {"idle", "create", "insert", "publish", "adopt", "drop"}
    /\ reads \in [Queries -> [stage : {"idle", "queued", "reading"}, pinned : 0..made]]
    /\ may \subseteq SUBSET Sources /\ may # {}
    /\ whole \subseteq 1..made

(* A retrieval reads one collection from its count to its last search:       *)
(* whatever is published, cleaned up or given up meanwhile, the collection   *)
(* it has pinned is there.                                                   *)
ReadsStand ==
    \A q \in Queries :
        reads[q].stage = "reading" /\ reads[q].pinned # 0 =>
            reads[q].pinned \in DOMAIN collections

(* What is published, and what each process serves, is a state of the index  *)
(* that those who changed it can account for: every update that was reported *)
(* done is in it, none that was reported failed, and one that died with its  *)
(* process is there in full or not at all.  The exception is a rollback to   *)
(* what an update that crashed or failed left behind, which the code cannot  *)
(* tell from the collection before: nothing is said of that collection, nor  *)
(* of those additions and removals build on it, until all documents are      *)
(* replaced or a collection that updates published is rolled back to.        *)
AllOrNothing ==
    /\ Whole(Resolved.active) => Published \in may
    /\ \A p \in Openers :
          memory[p].open /\ Whole(memory[p].active) => Holds(memory[p].active) \in may

MilvusSound == ReadsStand /\ AllOrNothing

\* A script runs while the API is down, or the reverse.
OneAtATime == \A p, q \in Openers : memory[p].open /\ memory[q].open => p = q

(* retrieval_snapshot "pins the physical collection and keeps cleanups from  *)
(* dropping a generation a retrieval still uses" (packages/rag/              *)
(* milvus_store.py:156): no cleanup has a pinned collection on its list.     *)
CleanupSparesReads ==
    \A p \in Openers : \A q \in Queries :
        reads[q].stage = "reading" => reads[q].pinned \notin job[p].drops
=============================================================================
