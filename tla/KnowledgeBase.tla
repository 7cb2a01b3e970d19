---------------------------- MODULE KnowledgeBase ----------------------------
(* The knowledge base (packages/rag): originals in a manifest that is the    *)
(* source of truth (source_store.py), and the index derived from them, a     *)
(* file per generation and a pointer to the one that is served (store.py,    *)
(* LocalKnowledgeStore).  A request of routers/kb.py takes several steps in  *)
(* the thread pool of the API (lifecycle.sync_documents), beside others and  *)
(* beside one run at a time of scripts/kb_admin.py in a process of its own.  *)
EXTENDS Naturals, FiniteSets, FiniteSetsExt

CONSTANTS
    Documents,       \* sources
    Texts,        \* what an original can say
    Callers,        \* requests the API serves at a time
    Seed,            \* the files of kb_docs_dir
    Absent,          \* no such document
    MaxGenerations   \* bound: index generations written

ASSUME KnowledgeAssumption ==
    /\ Absent \notin Texts \cup Callers
    /\ Seed \in [Documents -> Texts \cup {Absent}]
    /\ MaxGenerations \in Nat \ {0}

VARIABLES
    manifest,     \* SourceDocumentStore: what each source says
    bootstrapped, \* its generation is no longer "empty"
    generations,  \* the files of generations/, by age
    created,      \* how many were written
    pointer,      \* active.json
    store,        \* the API's LocalKnowledgeStore: _active_generation, _previous_, _chunks
    writer,       \* the request in its _write_lock and the chunks it writes
    requests,     \* what each request has read and how far it is
    kbAdmin,        \* the kb_admin process: what it loaded when it opened the store
    undisturbed   \* requests nothing else ran beside so far

kbVars == <<manifest, bootstrapped, generations, created, pointer, store, writer, requests,
            kbAdmin, undisturbed>>
-----------------------------------------------------------------------------
Index == [Documents -> Texts \cup {Absent}]
Empty == [d \in Documents |-> Absent]
Pointed(p) == {p.active, p.previous} \ {0}
Pointers == [active : Nat, previous : Nat]
Closed == [open |-> FALSE, active |-> 0, previous |-> 0]
NoWriter == [request |-> Absent, chunks |-> Empty]
Idle == [type |-> "none", stage |-> "idle", input |-> Empty, existing |-> Empty]

KBTypeOK ==
    /\ manifest \in Index /\ bootstrapped \in BOOLEAN
    /\ created \in 1..MaxGenerations
    /\ DOMAIN generations \subseteq 1..created
    /\ \A g \in DOMAIN generations : generations[g] \in Index
    /\ pointer \in Pointers /\ Pointed(pointer) \subseteq 1..created
    /\ store.chunks \in Index /\ writer.chunks \in Index
    /\ \A q \in Callers :
          /\ requests[q].type \in {"none", "ingest", "rebuild", "delete"}
          /\ requests[q].input \in Index /\ requests[q].existing \in Index

KBInit ==
    /\ manifest = Empty
    /\ bootstrapped \in BOOLEAN
    /\ generations = [g \in {1} |-> Empty] /\ created = 1
    /\ pointer = [active |-> 1, previous |-> 0]
    /\ store = [active |-> 1, previous |-> 0, chunks |-> Empty]
    /\ writer = NoWriter
    /\ requests = [q \in Callers |-> Idle]
    /\ kbAdmin = Closed
    /\ undisturbed = {}

sourceVars == <<manifest, bootstrapped>>
indexVars == <<generations, created, pointer>>

Proceed(q, stage) == requests' = [requests EXCEPT ![q].stage = stage]
ProceedWith(q, stage, input) ==
    requests' = [requests EXCEPT ![q].stage = stage, ![q].input = input]
Finish(q) == requests' = [requests EXCEPT ![q] = Idle]
Running == {q \in Callers : requests[q].stage # "idle"}

Begin(q, type, stage, input) ==
    /\ requests[q].stage = "idle"
    /\ requests' = [requests EXCEPT ![q] =
          [type |-> type, stage |-> stage, input |-> input, existing |-> Empty]]
    /\ undisturbed' = IF Running = {} THEN {q} ELSE {}

(* _refresh_from_disk: the reader's store follows the pointer, waiting for   *)
(* the write lock; a generation that is gone is an error.                    *)
Refreshed ==
    IF pointer.active = store.active THEN store
    ELSE [active |-> pointer.active, previous |-> pointer.previous,
          chunks |-> generations[pointer.active]]

Refresh ==
    /\ writer = NoWriter
    /\ pointer.active \in DOMAIN generations
    /\ store' = Refreshed
-----------------------------------------------------------------------------
\* ingest: the original is published before anything is embedded.
Ingest(q, d, content) ==
    /\ Begin(q, "ingest", "published", [Empty EXCEPT ![d] = content])
    /\ manifest' = [manifest EXCEPT ![d] = content]
    /\ bootstrapped' = TRUE
    /\ UNCHANGED <<indexVars, store, writer, kbAdmin>>

(* _collect_rebuild_docs: the status, the documents, and, in an empty        *)
(* repository, the seed directory instead of them.                           *)
RebuildStatus(q) ==
    /\ Begin(q, "rebuild", IF bootstrapped THEN "documents" ELSE "seed", Empty)
    /\ UNCHANGED <<sourceVars, indexVars, store, writer, kbAdmin>>

RebuildDocuments(q) ==
    /\ requests[q].stage = "documents"
    /\ ProceedWith(q, "published", manifest)
    /\ UNCHANGED <<sourceVars, indexVars, store, writer, kbAdmin, undisturbed>>

\* publish(full=True)
PublishSeed(q) ==
    /\ requests[q].stage = "seed"
    /\ manifest' = Seed /\ bootstrapped' = TRUE
    /\ ProceedWith(q, "published", Seed)
    /\ UNCHANGED <<indexVars, store, writer, kbAdmin, undisturbed>>

\* rebuild with a path: the same directory replaces the originals at once.
RebuildPath(q) ==
    /\ Begin(q, "rebuild", "published", Seed)
    /\ manifest' = Seed /\ bootstrapped' = TRUE
    /\ UNCHANGED <<indexVars, store, writer, kbAdmin>>

(* delete_document: the index must know the document, the original goes      *)
(* first.                                                                    *)
DeleteKnown(q, d) ==
    /\ Refresh
    /\ store'.chunks[d] # Absent
    /\ Begin(q, "delete", "known", [Empty EXCEPT ![d] = store'.chunks[d]])
    /\ UNCHANGED <<sourceVars, indexVars, writer, kbAdmin>>

Concerned(q) == {d \in Documents : requests[q].input[d] # Absent}

DeleteSource(q) ==
    /\ requests[q].stage = "known"
    /\ manifest' = [d \in Documents |-> IF d \in Concerned(q) THEN Absent ELSE manifest[d]]
    /\ Proceed(q, "embedded")
    /\ UNCHANGED <<bootstrapped, indexVars, store, writer, kbAdmin, undisturbed>>
-----------------------------------------------------------------------------
\* sync_documents: what is indexed now decides what has to be embedded.
ReadExisting(q) ==
    /\ requests[q].stage = "published"
    /\ Refresh
    /\ requests' = [requests EXCEPT ![q].stage = "embedding", ![q].existing = store'.chunks]
    /\ UNCHANGED <<sourceVars, indexVars, writer, kbAdmin, undisturbed>>

Changed(q) ==
    {d \in Concerned(q) : requests[q].type = "delete" \/ requests[q].type = "rebuild"
                              \/ requests[q].input[d] # requests[q].existing[d]}

\* chunk_and_embed; the index is not touched when it fails.
Embed(q) ==
    /\ requests[q].stage = "embedding"
    /\ IF requests[q].type = "ingest" /\ Changed(q) = {} THEN Finish(q)
       ELSE Proceed(q, "embedded")
    /\ UNCHANGED <<sourceVars, indexVars, store, writer, kbAdmin, undisturbed>>

EmbedFails(q) ==
    /\ requests[q].stage = "embedding"
    /\ Finish(q)
    /\ UNCHANGED <<sourceVars, indexVars, store, writer, kbAdmin, undisturbed>>

\* Mutant: a full rebuild keeps the documents it was not given.
MergedOver(q) ==
    [d \in Documents |-> IF d \notin Changed(q) THEN store.chunks[d]
                         ELSE IF requests[q].type = "delete" THEN Absent
                         ELSE requests[q].input[d]]

(* replace_documents merges into _chunks as they are under the write lock,     *)
(* not as sync_documents read them, and does not follow the pointer.         *)
Merged(q) ==
    [d \in Documents |->
        IF requests[q].type = "rebuild" THEN requests[q].input[d]
        ELSE IF d \notin Changed(q) THEN store.chunks[d]
        ELSE IF requests[q].type = "delete" THEN Absent ELSE requests[q].input[d]]

\* _write_generation
WriteGeneration(q) ==
    /\ requests[q].stage = "embedded"
    /\ writer = NoWriter
    /\ created < MaxGenerations
    /\ created' = created + 1
    /\ generations' = [g \in DOMAIN generations \cup {created'} |->
                          IF g = created' THEN Merged(q) ELSE generations[g]]
    /\ writer' = [request |-> q, chunks |-> Merged(q)]
    /\ Proceed(q, "written")
    /\ UNCHANGED <<sourceVars, pointer, store, kbAdmin, undisturbed>>

\* _write_pointer, the previous generation being the one this store served.
WritePointer(q) ==
    /\ writer.request = q
    /\ pointer' = [active |-> created, previous |-> store.active]
    /\ store' = [active |-> created, previous |-> store.active,
                 chunks |-> writer.chunks]
    /\ writer' = NoWriter
    /\ Finish(q)
    /\ UNCHANGED <<sourceVars, generations, created, kbAdmin, undisturbed>>

\* A retrieval follows the pointer and reads the chunks it finds.
Retrieve ==
    /\ Refresh /\ store' # store
    /\ UNCHANGED <<sourceVars, indexVars, writer, requests, kbAdmin, undisturbed>>

\* The API dies and starts again: LocalKnowledgeStore._load.
RestartApi ==
    /\ pointer.active \in DOMAIN generations
    /\ store' = [active |-> pointer.active, previous |-> pointer.previous,
                 chunks |-> generations[pointer.active]]
    /\ writer' = NoWriter
    /\ requests' = [q \in Callers |-> Idle]
    /\ undisturbed' = {}
    /\ UNCHANGED <<sourceVars, indexVars, kbAdmin>>
-----------------------------------------------------------------------------
\* kb_admin opens the store and acts on what it loaded.
AdminOpen ==
    /\ ~kbAdmin.open
    /\ pointer.active \in DOMAIN generations
    /\ kbAdmin' = [open |-> TRUE, active |-> pointer.active, previous |-> pointer.previous]
    /\ UNCHANGED <<sourceVars, indexVars, store, writer, requests, undisturbed>>

\* rollback
AdminRollback ==
    /\ kbAdmin.open /\ kbAdmin.previous \in DOMAIN generations
    /\ pointer' = [active |-> kbAdmin.previous, previous |-> kbAdmin.active]
    /\ kbAdmin' = Closed
    /\ undisturbed' = {}
    /\ UNCHANGED <<sourceVars, generations, created, store, writer, requests>>

(* cleanup_generations(retain=2): what this process takes for the active and *)
(* the previous generation, and the newest until there are two.              *)
Kept ==
    LET named == Pointed(kbAdmin)
        others == DOMAIN generations \ named
    IN IF Cardinality(named) < 2 /\ others # {} THEN named \cup {Max(others)} ELSE named

AdminCleanup ==
    /\ kbAdmin.open
    /\ generations' = [g \in DOMAIN generations \cap Kept |-> generations[g]]
    /\ kbAdmin' = Closed
    /\ UNCHANGED <<sourceVars, created, pointer, store, writer, requests, undisturbed>>

KBNext ==
    \/ \E q \in Callers :
          \/ \E d \in Documents : DeleteKnown(q, d) \/ \E c \in Texts : Ingest(q, d, c)
          \/ RebuildStatus(q) \/ RebuildDocuments(q) \/ PublishSeed(q) \/ RebuildPath(q)
          \/ DeleteSource(q) \/ ReadExisting(q) \/ Embed(q) \/ EmbedFails(q)
          \/ WriteGeneration(q) \/ WritePointer(q)
    \/ Retrieve \/ RestartApi
    \/ AdminOpen \/ AdminRollback \/ AdminCleanup

KBSpec == KBInit /\ [][KBNext]_kbVars
-----------------------------------------------------------------------------
(* A rebuild that nothing runs beside leaves the index saying what the       *)
(* originals say, whatever failed, crashed or crossed before it: the comment *)
(* of ingest and delete_document that a later rebuild repairs the index.     *)
Heals ==
    [][\A q \in undisturbed \cap undisturbed' :
          requests[q].type = "rebuild" /\ pointer' # pointer
              => store'.chunks = manifest']_kbVars
=============================================================================
