------------------------------ MODULE Workspace ------------------------------
(* One project of the workspace: the rows SessionStore keeps, each method a  *)
(* transaction (packages/session/store.py), its cache of conversations       *)
(* (cache.py), and the data set files beside the database.  The requests of  *)
(* routers/workspace.py and upload.py run in threads of the API, several     *)
(* steps each.                                                               *)
EXTENDS Naturals, Sequences

CONSTANTS
    Conversations,
    Datasets,
    Readers,       \* requests under way at a time
    Capacity,      \* the cache's
    MaxWrites,     \* bound: what a conversation says one after the other
    Nobody

ASSUME WorkspaceAssumption ==
    /\ Capacity \in Nat \ {0}
    /\ MaxWrites \in Nat \ {0}
    /\ Nobody \notin Conversations \cup Datasets

VARIABLES
    project,     \* its row is there
    content,     \* the rows of a conversation: its title, messages and artifacts; 0: deleted
    registered,  \* datasets: the rows
    uses,        \* artifacts.dataset_ref
    files,       \* the parquet files and their metadata
    fresh,       \* references not given out yet
    cache,       \* ConversationCache._items, least recently used first
    served,      \* what each request knows and how far it is
    crashed      \* the API has died before

wsVars == <<project, content, registered, uses, files, fresh, cache, served, crashed>>
rowVars == <<project, content, registered, uses>>
-----------------------------------------------------------------------------
About(stage, c, datasets) ==
    [stage |-> stage, conversation |-> c, seen |-> 0, datasets |-> datasets]
RowsOf(c) == [stage |-> "read", conversation |-> c, seen |-> content[c], datasets |-> {}]
Unserved == About("idle", Nobody, {})

Request == [stage : {"idle", "missed", "read", "written", "parsed", "checked", "listed", "deleted",
                     "cleared"},
            conversation : Conversations \cup {Nobody}, seen : 0..MaxWrites,
            datasets : SUBSET Datasets]
CacheItem == [conversation : Conversations, content : 0..MaxWrites]

WsTypeOK ==
    /\ project \in BOOLEAN
    /\ content \in [Conversations -> 0..MaxWrites]
    /\ registered \subseteq Datasets /\ files \subseteq Datasets /\ fresh \subseteq Datasets
    /\ uses \subseteq Conversations \X registered
    /\ cache \in Seq(CacheItem) /\ Len(cache) <= Capacity
    /\ \A i, j \in DOMAIN cache : i # j => cache[i].conversation # cache[j].conversation
    /\ served \in [Readers -> Request]
    /\ crashed \in BOOLEAN

WsInit ==
    /\ project = TRUE
    /\ content = [c \in Conversations |-> 1]
    /\ registered = {} /\ uses = {} /\ files = {}
    /\ fresh = Datasets
    /\ cache = <<>>
    /\ served = [r \in Readers |-> Unserved]
    /\ crashed = FALSE

At(r, stage) == served[r].stage = stage
Becoming(r, request) == served' = [served EXCEPT ![r] = request]
Reaches(r, stage) == served' = [served EXCEPT ![r].stage = stage]
Served(r) == Becoming(r, Unserved)
Exists(c) == content[c] # 0

Cached(c) == {i \in DOMAIN cache : cache[i].conversation = c}

\* _items.pop(conversation_id, None)
Without(c) ==
    LET i == CHOOSE j \in Cached(c) : TRUE
    IN IF Cached(c) = {} THEN cache
       ELSE [k \in 1..(Len(cache) - 1) |-> IF k < i THEN cache[k] ELSE cache[k + 1]]

\* Mutant: nothing is evicted.
EveryItem(items) == items

\* popitem(last=False), until the capacity is kept
Newest(items) ==
    IF Len(items) <= Capacity THEN items
    ELSE SubSeq(items, Len(items) - Capacity + 1, Len(items))
-----------------------------------------------------------------------------
(* load_conversation_context: a hit makes the item the most recently used; a *)
(* miss reads one snapshot of the rows and puts it, under no lock of its own.*)
Hit(c) ==
    /\ \E i \in Cached(c) : cache' = Append(Without(c), cache[i])
    /\ UNCHANGED <<rowVars, files, fresh, served, crashed>>

Miss(r, c) ==
    /\ At(r, "idle") /\ Cached(c) = {}
    /\ Becoming(r, About("missed", c, {}))
    /\ UNCHANGED <<rowVars, files, fresh, cache, crashed>>

ReadRows(r) ==
    LET c == served[r].conversation
    IN /\ At(r, "missed")
       /\ Becoming(r, IF Exists(c) THEN RowsOf(c) ELSE Unserved)
       /\ UNCHANGED <<rowVars, files, fresh, cache, crashed>>

Put(r) ==
    LET c == served[r].conversation
    IN /\ At(r, "read")
       /\ cache' = Newest(Append(Without(c), [conversation |-> c, content |-> served[r].seen]))
       /\ Served(r)
       /\ UNCHANGED <<rowVars, files, fresh, crashed>>
-----------------------------------------------------------------------------
(* append_message, start_user_turn, update_conversation, create_artifact     *)
(* with the data set it is about: the rows, then the cache.                  *)
Changes(c) == content[c] < MaxWrites /\ content' = [content EXCEPT ![c] = @ + 1]

Write(r, c, about) ==
    /\ At(r, "idle") /\ Exists(c)
    /\ about \subseteq registered
    /\ Changes(c)
    /\ uses' = uses \cup ({c} \X about)
    /\ Becoming(r, About("written", c, {}))
    /\ UNCHANGED <<project, registered, files, fresh, cache, crashed>>

Invalidate(r) ==
    /\ At(r, "written")
    /\ cache' = Without(served[r].conversation)
    /\ Served(r)
    /\ UNCHANGED <<rowVars, files, fresh, crashed>>

\* delete_conversation, with its artifacts and runs
DeleteConversation(r, c) ==
    /\ At(r, "idle") /\ Exists(c)
    /\ content' = [content EXCEPT ![c] = 0]
    /\ uses' = {u \in uses : u[1] # c}
    /\ Becoming(r, About("written", c, {}))
    /\ UNCHANGED <<project, registered, files, fresh, cache, crashed>>
-----------------------------------------------------------------------------
(* upload_excel: parse_excel writes the file under a new reference,          *)
(* record_profile_upload the row, the messages and the artifact at once.     *)
Parse(r, c, d) ==
    /\ At(r, "idle") /\ Exists(c) /\ d \in fresh
    /\ fresh' = fresh \ {d}
    /\ files' = files \cup {d}
    /\ Becoming(r, About("parsed", c, {d}))
    /\ UNCHANGED <<rowVars, cache, crashed>>

RecordUpload(r) ==
    LET c == served[r].conversation
    IN /\ At(r, "parsed") /\ Exists(c)
       /\ Changes(c)
       /\ registered' = registered \cup served[r].datasets
       /\ uses' = uses \cup ({c} \X served[r].datasets)
       /\ Reaches(r, "written")
       /\ UNCHANGED <<project, files, fresh, cache, crashed>>

\* Mutant: a failed upload leaves its file.
UploadLeft(r) ==
    /\ At(r, "parsed")
    /\ Served(r)
    /\ UNCHANGED <<rowVars, files, fresh, cache, crashed>>

\* infer_schema fails, or the conversation is gone: the finally clause.
UploadFails(r) ==
    /\ At(r, "parsed")
    /\ files' = files \ served[r].datasets
    /\ Served(r)
    /\ UNCHANGED <<rowVars, fresh, cache, crashed>>
-----------------------------------------------------------------------------
\* delete_dataset of the router: dataset_usage is a read of its own.
CheckUsage(r, d, force) ==
    /\ At(r, "idle") /\ d \in registered
    /\ force \/ \A u \in uses : u[2] # d
    /\ Becoming(r, About("checked", Nobody, {d}))
    /\ UNCHANGED <<rowVars, files, fresh, cache, crashed>>

(* store.delete_dataset: artifacts lose the reference (ON DELETE SET NULL),  *)
(* which changes what their conversations say.                               *)
DeleteRow(r) ==
    LET gone == served[r].datasets
        Concerned(c) == \E u \in uses : u[1] = c /\ u[2] \in gone
    IN /\ At(r, "checked")
       /\ \/ /\ gone \subseteq registered
             /\ \A c \in Conversations : Concerned(c) => content[c] < MaxWrites
             /\ content' = [c \in Conversations |->
                               IF Concerned(c) THEN content[c] + 1 ELSE content[c]]
             /\ registered' = registered \ gone
             /\ uses' = {u \in uses : u[2] \notin gone}
             /\ Reaches(r, "deleted")
          \/ /\ ~(gone \subseteq registered)
             /\ Served(r)
             /\ UNCHANGED <<content, registered, uses>>
       /\ UNCHANGED <<project, files, fresh, cache, crashed>>

\* delete_project lists the files, then deletes the rows of all tables.
ListDatasets(r) ==
    /\ At(r, "idle") /\ project
    /\ Becoming(r, About("listed", Nobody, registered))
    /\ UNCHANGED <<rowVars, files, fresh, cache, crashed>>

DeleteProject(r) ==
    /\ At(r, "listed")
    /\ \/ /\ project
          /\ project' = FALSE
          /\ content' = [c \in Conversations |-> 0]
          /\ registered' = {} /\ uses' = {}
          /\ Reaches(r, "deleted")
       \/ /\ ~project
          /\ Served(r)
          /\ UNCHANGED rowVars
    /\ UNCHANGED <<files, fresh, cache, crashed>>

Clear(r) ==
    /\ At(r, "deleted")
    /\ cache' = <<>>
    /\ Reaches(r, "cleared")
    /\ UNCHANGED <<rowVars, files, fresh, crashed>>

\* _delete_dataset_files_safely
DeleteFiles(r) ==
    /\ At(r, "cleared")
    /\ files' = files \ served[r].datasets
    /\ Served(r)
    /\ UNCHANGED <<rowVars, fresh, cache, crashed>>

Crash ==
    /\ cache' = <<>>
    /\ served' = [r \in Readers |-> Unserved]
    /\ crashed' = TRUE
    /\ UNCHANGED <<rowVars, files, fresh>>

WsNext ==
    \/ \E c \in Conversations : Hit(c)
    \/ \E r \in Readers :
          \/ ReadRows(r) \/ Put(r) \/ Invalidate(r) \/ RecordUpload(r) \/ UploadFails(r)
          \/ DeleteRow(r) \/ ListDatasets(r) \/ DeleteProject(r) \/ Clear(r) \/ DeleteFiles(r)
          \/ \E c \in Conversations :
                \/ Miss(r, c) \/ DeleteConversation(r, c)
                \/ \E about \in SUBSET Datasets : Write(r, c, about)
                \/ \E d \in Datasets : Parse(r, c, d)
          \/ \E d \in Datasets, force \in BOOLEAN : CheckUsage(r, d, force)
    \/ Crash

WsSpec == WsInit /\ [][WsNext]_wsVars
-----------------------------------------------------------------------------
(* A data set the project lists can be read: its file is written before its  *)
(* row and outlives it, whoever deletes what in between and wherever the API *)
(* dies.                                                                     *)
RowsHaveFiles == registered \subseteq files

(* No file is left behind: while the project lives and the API has not died, *)
(* a file without a row is one that a request under way will register or     *)
(* delete.                                                                   *)
FilesHaveRows ==
    project /\ ~crashed =>
        files \ registered \subseteq UNION {served[r].datasets : r \in Readers}

(* The files and the rows of the data sets stay in step.                     *)
FilesMatch == RowsHaveFiles /\ FilesHaveRows

(* When no request is under way, what is cached of a conversation is what is *)
(* stored: "SQLite is always the source of truth; the store invalidates an   *)
(* item when its messages or artifacts change" (cache.py:14).                *)
CacheFresh ==
    (\A r \in Readers : At(r, "idle"))
        => \A i \in DOMAIN cache : cache[i].content = content[cache[i].conversation]
=============================================================================
