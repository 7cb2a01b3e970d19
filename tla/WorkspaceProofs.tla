--------------------------- MODULE WorkspaceProofs ---------------------------
(* Proofs about Workspace, References and Compaction: the rows and the files *)
(* of the data sets stay in step, for any number of requests, conversations  *)
(* and data sets and any capacity of the cache; the words of a request keep  *)
(* what they stand for, and a run the view it is shown of its conversation.  *)
EXTENDS Workspace, Compaction, FiniteSetTheorems, SequenceTheorems, WellFoundedInduction, TLAPS

(* The data set of an upload that has written its file and no row yet is     *)
(* known to that request alone: the reference is new, and nothing lists it.  *)
Private ==
    \A r \in Readers :
        At(r, "parsed") =>
            /\ served[r].datasets \subseteq files
            /\ served[r].datasets \cap registered = {}
            /\ \A q \in Readers : q # r => served[q].datasets \cap served[r].datasets = {}

\* A request about a conversation knows which, and one that reads it no more.
Addressed ==
    \A r \in Readers :
        /\ served[r].stage \in {"missed", "read", "written", "parsed"}
              => served[r].conversation \in Conversations
        /\ served[r].stage \in {"missed", "read"} => served[r].datasets = {}

\* A reference that is not given out has no file, and no request knows it.
Unused ==
    /\ fresh \cap files = {}
    /\ \A r \in Readers : served[r].datasets \cap fresh = {}

\* A request deletes files only of data sets whose rows are gone, for good.
Gone ==
    \A r \in Readers :
        At(r, "deleted") \/ At(r, "cleared") => served[r].datasets \cap registered = {}

\* FilesHaveRows, with the requests that have a file to register or delete
Owners == {r \in Readers : At(r, "parsed") \/ At(r, "deleted") \/ At(r, "cleared")}
Owned ==
    project /\ ~crashed =>
        \A d \in files \ registered : \E r \in Owners : d \in served[r].datasets

WsInv ==
    /\ WsTypeOK
    /\ Addressed
    /\ Private
    /\ Unused
    /\ Gone
    /\ RowsHaveFiles
    /\ Owned
-----------------------------------------------------------------------------
(* The cache: a sequence of items of different conversations.                *)
Items(items) ==
    /\ items \in Seq(CacheItem)
    /\ \A i, j \in DOMAIN items : i # j => items[i].conversation # items[j].conversation

\* What _items.pop leaves has no item of the conversation and is no longer.
LEMMA WithoutItems ==
    ASSUME WsTypeOK, NEW c \in Conversations
    PROVE  /\ Items(Without(c))
           /\ \A i \in DOMAIN Without(c) : Without(c)[i].conversation # c
           /\ Len(Without(c)) <= Len(cache)
           /\ Cached(c) # {} => Len(Without(c)) < Len(cache)
<1>1. /\ Items(cache) /\ Len(cache) \in Nat /\ DOMAIN cache = 1..Len(cache)
      /\ \A k \in 1..Len(cache) : cache[k] \in CacheItem
  BY DEF WsTypeOK, Items
<1>2. CASE Cached(c) = {}
  BY <1>1, <1>2 DEF Without, Cached
<1>3. CASE Cached(c) # {}
  <2> DEFINE i == CHOOSE j \in Cached(c) : TRUE
             n == Len(cache) - 1
             left == [k \in 1..n |-> IF k < i THEN cache[k] ELSE cache[k + 1]]
  <2>1. i \in 1..Len(cache) /\ cache[i].conversation = c
    BY <1>1, <1>3 DEF Cached
  <2>2. Without(c) = left
    BY <1>3 DEF Without
  <2> HIDE DEF i
  <2>3. n \in Nat /\ \A k \in 1..n : left[k] \in CacheItem
    BY <1>1, <2>1
  <2>4. left \in Seq(CacheItem) /\ Len(left) = n /\ DOMAIN left = 1..n
    BY <2>3, SeqDef
  <2>5. \A k \in 1..n : \E l \in 1..Len(cache) \ {i} :
            left[k] = cache[l] /\ l = IF k < i THEN k ELSE k + 1
    BY <1>1, <2>1
  <2>6. \A k \in 1..n : left[k].conversation # c
    BY <1>1, <2>1, <2>5 DEF Items
  <2>7. \A k, l \in 1..n : k # l => left[k].conversation # left[l].conversation
    <3>1. ASSUME NEW k \in 1..n, NEW l \in 1..n, k # l
          PROVE  left[k].conversation # left[l].conversation
      <4>1. PICK x \in 1..Len(cache) \ {i} :
                left[k] = cache[x] /\ x = IF k < i THEN k ELSE k + 1
        BY <2>5
      <4>2. PICK y \in 1..Len(cache) \ {i} :
                left[l] = cache[y] /\ y = IF l < i THEN l ELSE l + 1
        BY <2>5
      <4>3. x # y
        BY <2>1, <3>1, <4>1, <4>2
      <4>4. QED
        BY <1>1, <4>1, <4>2, <4>3 DEF Items
    <3>2. QED
      BY <3>1
  <2> HIDE DEF left
  <2>8. QED
    BY <1>1, <1>3, <2>2, <2>4, <2>6, <2>7 DEF Items
<1>4. QED
  BY <1>2, <1>3

\* An item put last, of a conversation the rest has none of
LEMMA AppendItems ==
    ASSUME NEW items, Items(items), NEW item \in CacheItem,
           \A i \in DOMAIN items : items[i].conversation # item.conversation
    PROVE  Items(Append(items, item)) /\ Len(Append(items, item)) = Len(items) + 1
<1> DEFINE all == Append(items, item)
<1>1. /\ all \in Seq(CacheItem) /\ Len(all) = Len(items) + 1 /\ Len(items) \in Nat
      /\ \A i \in 1..Len(items) : all[i] = items[i]
      /\ all[Len(items) + 1] = item
      /\ DOMAIN items = 1..Len(items)
  BY AppendProperties DEF Items
<1>2. DOMAIN all = 1..(Len(items) + 1)
  BY <1>1
<1> HIDE DEF all
<1>3. \A i, j \in DOMAIN all : i # j => all[i].conversation # all[j].conversation
  BY <1>1, <1>2 DEF Items
<1>4. QED
  BY <1>1, <1>3 DEF Items, all

\* The eviction leaves the newest items, Capacity at most.
LEMMA NewestItems ==
    ASSUME NEW items, Items(items)
    PROVE  Items(Newest(items)) /\ Len(Newest(items)) <= Capacity
<1>1. Capacity \in Nat /\ Len(items) \in Nat /\ DOMAIN items = 1..Len(items)
  BY WorkspaceAssumption DEF Items
<1>2. CASE Len(items) <= Capacity
  BY <1>2 DEF Newest
<1>3. CASE Len(items) > Capacity
  <2> DEFINE first == Len(items) - Capacity + 1
             left == SubSeq(items, first, Len(items))
  <2>1. Newest(items) = left /\ first \in 1..Len(items)
    BY <1>1, <1>3, WorkspaceAssumption DEF Newest
  <2>2. /\ left \in Seq(CacheItem) /\ Len(left) = Capacity
        /\ \A i \in 1..Capacity : left[i] = items[first + i - 1]
    BY <1>1, <1>3, <2>1, SubSeqProperties DEF Items
  <2>3. DOMAIN left = 1..Capacity
    BY <2>2
  <2> HIDE DEF left
  <2>4. \A i \in 1..Capacity : first + i - 1 \in 1..Len(items)
    BY <1>1, <1>3
  <2>5. \A i, j \in DOMAIN left : i # j => left[i].conversation # left[j].conversation
    <3>1. ASSUME NEW i \in 1..Capacity, NEW j \in 1..Capacity, i # j
          PROVE  left[i].conversation # left[j].conversation
      <4>1. first + i - 1 # first + j - 1 /\ first \in Int
        BY <1>1, <2>1, <3>1
      <4>2. left[i] = items[first + i - 1] /\ left[j] = items[first + j - 1]
        BY <2>2
      <4>3. first + i - 1 \in DOMAIN items /\ first + j - 1 \in DOMAIN items
        BY <1>1, <2>4
      <4>4. QED
        BY <4>1, <4>2, <4>3 DEF Items
    <3>2. QED
      BY <2>3, <3>1
  <2>6. QED
    BY <1>1, <2>1, <2>2, <2>5 DEF Items
<1>4. QED
  BY <1>1, <1>2, <1>3
-----------------------------------------------------------------------------
(* Steps that move the cache, or a request, and no data set.                 *)
LEMMA HitKeeps ==
    ASSUME WsInv, NEW c \in Conversations, Hit(c)
    PROVE  WsInv'
<1> USE DEF WsInv
<1>1. PICK i \in Cached(c) : cache' = Append(Without(c), cache[i])
  BY DEF Hit
<1>2. cache[i] \in CacheItem /\ cache[i].conversation = c
  BY DEF Cached, WsTypeOK
<1>3. Items(Append(Without(c), cache[i])) /\ Len(Append(Without(c), cache[i])) = Len(Without(c)) + 1
  BY <1>2, WithoutItems, AppendItems
<1>4. Len(Without(c)) < Len(cache) /\ Len(Without(c)) \in Nat /\ Len(cache) \in Nat
  BY WithoutItems DEF Items, WsTypeOK
<1>5. Items(cache') /\ Len(cache') <= Capacity
  BY <1>1, <1>3, <1>4, WorkspaceAssumption DEF WsTypeOK
<1>6. QED
  BY <1>5 DEF Hit, rowVars, WsTypeOK, Items, Addressed, Private, Unused, Gone,
     RowsHaveFiles, Owned, Owners, At

(* A request that has deleted nothing yet becomes one that knows data sets  *)
(* with rows, or none.                                                       *)
LEMMA LooksKeeps ==
    ASSUME WsInv, NEW r \in Readers, NEW request \in Request,
           ~At(r, "parsed"), ~At(r, "deleted"), ~At(r, "cleared"),
           request.datasets \subseteq registered,
           request.stage \notin {"parsed", "deleted", "cleared"},
           request.stage \in {"missed", "read", "written"}
               => request.conversation \in Conversations,
           request.stage \in {"missed", "read"} => request.datasets = {},
           Becoming(r, request), UNCHANGED <<project, files, fresh, registered, crashed>>,
           Items(cache'), Len(cache') <= Capacity,
           content' \in [Conversations -> 0..MaxWrites],
           uses' \subseteq Conversations \X registered
    PROVE  WsInv'
<1> USE DEF WsInv
<1>1. /\ served' \in [Readers -> Request] /\ served'[r] = request
      /\ \A q \in Readers \ {r} : served'[q] = served[q]
  BY DEF Becoming, WsTypeOK
<1>2. WsTypeOK'
  BY <1>1 DEF WsTypeOK, Items
<1>3. Addressed' /\ Private' /\ Unused' /\ Gone' /\ RowsHaveFiles'
  BY <1>1 DEF Addressed, Private, Unused, Gone, RowsHaveFiles, At
<1>4. Owned'
  BY <1>1 DEF Owned, Owners, At
<1>5. QED
  BY <1>2, <1>3, <1>4

LEMMA IdlesKeeps ==
    ASSUME WsInv, NEW r \in Readers, ~At(r, "parsed"), ~At(r, "deleted"), ~At(r, "cleared"),
           Served(r), UNCHANGED <<rowVars, files, fresh, cache, crashed>>
    PROVE  WsInv'
<1>1. /\ Unserved \in Request /\ Unserved.stage = "idle" /\ Unserved.datasets = {}
  BY WorkspaceAssumption DEF Unserved, About, Request
<1>2. Items(cache) /\ Len(cache) <= Capacity /\ content \in [Conversations -> 0..MaxWrites]
      /\ uses \subseteq Conversations \X registered
  BY DEF WsInv, WsTypeOK, Items
<1>3. QED
  BY <1>1, <1>2, LooksKeeps DEF Served, rowVars

(* Steps that touch the data sets.                                           *)
LEMMA ParseKeeps ==
    ASSUME WsInv, NEW r \in Readers, NEW c \in Conversations, NEW d \in Datasets, Parse(r, c, d)
    PROVE  WsInv'
<1> USE DEF WsInv
<1> DEFINE request == About("parsed", c, {d})
<1>1. /\ d \in fresh /\ fresh' = fresh \ {d} /\ files' = files \cup {d}
      /\ UNCHANGED <<project, content, registered, uses, cache, crashed>>
      /\ served' = [served EXCEPT ![r] = request]
      /\ ~At(r, "parsed") /\ ~At(r, "deleted") /\ ~At(r, "cleared")
  BY DEF Parse, Becoming, rowVars, At
<1>2. request \in Request
  BY WorkspaceAssumption DEF Request, About
<1>3. /\ served' \in [Readers -> Request] /\ served'[r] = request
      /\ \A q \in Readers \ {r} : served'[q] = served[q]
  BY <1>1, <1>2 DEF WsTypeOK
<1>4. request.stage = "parsed" /\ request.datasets = {d} /\ request.conversation = c
  BY DEF About
<1> HIDE DEF request
<1>5. WsTypeOK'
  BY <1>1, <1>3 DEF WsTypeOK
<1>6. d \notin files /\ d \notin registered /\ \A q \in Readers : d \notin served[q].datasets
  BY <1>1 DEF Unused, RowsHaveFiles
<1>7. Addressed' /\ Private' /\ Unused' /\ Gone' /\ RowsHaveFiles'
  BY <1>1, <1>3, <1>4, <1>6 DEF Addressed, Private, Unused, Gone, RowsHaveFiles, At
<1>8. Owned'
  BY <1>1, <1>3, <1>4 DEF Owned, Owners, At
<1>9. QED
  BY <1>5, <1>7, <1>8

LEMMA RecordUploadKeeps ==
    ASSUME WsInv, NEW r \in Readers, RecordUpload(r)
    PROVE  WsInv'
<1> USE DEF WsInv
<1> DEFINE c == served[r].conversation
           mine == served[r].datasets
<1>1. /\ At(r, "parsed") /\ content[c] # 0
      /\ content[c] < MaxWrites /\ content' = [content EXCEPT ![c] = @ + 1]
      /\ registered' = registered \cup mine /\ uses' = uses \cup ({c} \X mine)
      /\ served' = [served EXCEPT ![r].stage = "written"]
      /\ UNCHANGED <<project, files, fresh, cache, crashed>>
  BY DEF RecordUpload, Exists, Changes, Reaches
<1>2. /\ served' \in [Readers -> Request]
      /\ served'[r].stage = "written" /\ served'[r].datasets = mine
      /\ \A q \in Readers \ {r} : served'[q] = served[q]
  BY <1>1 DEF WsTypeOK, Request
<1>3. c \in Conversations
  BY <1>1 DEF Addressed, At
<1>4. mine \subseteq Datasets
  BY DEF WsTypeOK, Request
<1>5. WsTypeOK'
  <2>1. content' \in [Conversations -> 0..MaxWrites]
    BY <1>1, <1>3, WorkspaceAssumption DEF WsTypeOK
  <2>2. uses' \subseteq Conversations \X registered'
    BY <1>1, <1>3 DEF WsTypeOK
  <2>3. QED
    BY <1>1, <1>2, <1>4, <2>1, <2>2 DEF WsTypeOK
<1>6. Addressed' /\ Private' /\ Unused' /\ Gone' /\ RowsHaveFiles'
  BY <1>1, <1>2 DEF Addressed, Private, Unused, Gone, RowsHaveFiles, At
<1>7. Owned'
  BY <1>1, <1>2 DEF Owned, Owners, At
<1>8. QED
  BY <1>5, <1>6, <1>7

LEMMA UploadFailsKeeps ==
    ASSUME WsInv, NEW r \in Readers, UploadFails(r)
    PROVE  WsInv'
<1> USE DEF WsInv
<1>1. /\ At(r, "parsed") /\ files' = files \ served[r].datasets
      /\ served' = [served EXCEPT ![r] = Unserved]
      /\ UNCHANGED <<project, content, registered, uses, fresh, cache, crashed>>
  BY DEF UploadFails, Served, Becoming, rowVars
<1>2. /\ served' \in [Readers -> Request] /\ served'[r] = Unserved
      /\ Unserved.stage = "idle" /\ Unserved.datasets = {}
      /\ \A q \in Readers \ {r} : served'[q] = served[q]
  BY <1>1, WorkspaceAssumption DEF WsTypeOK, Request, Unserved, About
<1>3. WsTypeOK'
  BY <1>1, <1>2 DEF WsTypeOK
<1>4. Addressed' /\ Private' /\ Unused' /\ Gone' /\ RowsHaveFiles'
  BY <1>1, <1>2 DEF Addressed, Private, Unused, Gone, RowsHaveFiles, At
<1>5. Owned'
  BY <1>1, <1>2 DEF Owned, Owners, At
<1>6. QED
  BY <1>3, <1>4, <1>5

LEMMA CheckUsageKeeps ==
    ASSUME WsInv, NEW r \in Readers, NEW d \in Datasets, NEW force \in BOOLEAN,
           CheckUsage(r, d, force)
    PROVE  WsInv'
<1> DEFINE request == About("checked", Nobody, {d})
<1>1. /\ d \in registered /\ At(r, "idle") /\ Becoming(r, request)
      /\ UNCHANGED <<project, content, registered, uses, files, fresh, cache, crashed>>
  BY DEF CheckUsage, rowVars
<1>2. request \in Request /\ request.stage = "checked" /\ request.datasets \subseteq registered
  BY <1>1, WorkspaceAssumption DEF About, Request, WsInv, WsTypeOK
<1> HIDE DEF request
<1>3. Items(cache) /\ Len(cache) <= Capacity /\ content \in [Conversations -> 0..MaxWrites]
      /\ uses \subseteq Conversations \X registered
  BY DEF WsInv, WsTypeOK, Items
<1>4. QED
  BY <1>1, <1>2, <1>3, LooksKeeps DEF At

LEMMA ListDatasetsKeeps ==
    ASSUME WsInv, NEW r \in Readers, ListDatasets(r)
    PROVE  WsInv'
<1> DEFINE request == About("listed", Nobody, registered)
<1>1. /\ At(r, "idle") /\ Becoming(r, request)
      /\ UNCHANGED <<project, content, registered, uses, files, fresh, cache, crashed>>
  BY DEF ListDatasets, rowVars
<1>2. request \in Request /\ request.stage = "listed" /\ request.datasets \subseteq registered
  BY <1>1, WorkspaceAssumption DEF About, Request, WsInv, WsTypeOK
<1> HIDE DEF request
<1>3. Items(cache) /\ Len(cache) <= Capacity /\ content \in [Conversations -> 0..MaxWrites]
      /\ uses \subseteq Conversations \X registered
  BY DEF WsInv, WsTypeOK, Items
<1>4. QED
  BY <1>1, <1>2, <1>3, LooksKeeps DEF At

LEMMA DeleteRowKeeps ==
    ASSUME WsInv, NEW r \in Readers, DeleteRow(r)
    PROVE  WsInv'
<1> USE DEF WsInv
<1> DEFINE gone == served[r].datasets
<1>1. At(r, "checked") /\ UNCHANGED <<project, files, fresh, cache, crashed>>
  BY DEF DeleteRow
<1>2. CASE Served(r) /\ UNCHANGED <<content, registered, uses>>
  BY <1>1, <1>2, IdlesKeeps DEF At, rowVars
<1>3. CASE /\ gone \subseteq registered
           /\ content' \in [Conversations -> 0..MaxWrites]
           /\ registered' = registered \ gone
           /\ uses' = {u \in uses : u[2] \notin gone}
           /\ Reaches(r, "deleted")
  <2>1. /\ served' \in [Readers -> Request]
        /\ served'[r].stage = "deleted" /\ served'[r].datasets = gone
        /\ \A q \in Readers \ {r} : served'[q] = served[q]
    BY <1>3 DEF WsTypeOK, Request, Reaches
  <2>2. uses' \subseteq Conversations \X registered'
    BY <1>3 DEF WsTypeOK
  <2>3. WsTypeOK'
    BY <1>1, <1>3, <2>1, <2>2 DEF WsTypeOK
  <2>4. Addressed' /\ Private' /\ Unused' /\ Gone' /\ RowsHaveFiles'
    BY <1>1, <1>3, <2>1 DEF Addressed, Private, Unused, Gone, RowsHaveFiles, At
  <2>5. Owned'
    BY <1>1, <1>3, <2>1 DEF Owned, Owners, At
  <2>6. QED
    BY <2>3, <2>4, <2>5
<1>4. QED
  <2> DEFINE Concerned(c) == \E u \in uses : u[1] = c /\ u[2] \in gone
             changed == [c \in Conversations |->
                            IF Concerned(c) THEN content[c] + 1 ELSE content[c]]
  <2>1. \/ Served(r) /\ UNCHANGED <<content, registered, uses>>
        \/ /\ gone \subseteq registered
           /\ \A c \in Conversations : Concerned(c) => content[c] < MaxWrites
           /\ content' = changed
           /\ registered' = registered \ gone
           /\ uses' = {u \in uses : u[2] \notin gone}
           /\ Reaches(r, "deleted")
    BY DEF DeleteRow
  <2> HIDE DEF Concerned
  <2>2. (\A c \in Conversations : Concerned(c) => content[c] < MaxWrites)
            => changed \in [Conversations -> 0..MaxWrites]
    BY WorkspaceAssumption DEF WsTypeOK
  <2> HIDE DEF changed, gone
  <2>3. QED
    BY <1>2, <1>3, <2>1, <2>2

LEMMA DeleteProjectKeeps ==
    ASSUME WsInv, NEW r \in Readers, DeleteProject(r)
    PROVE  WsInv'
<1> USE DEF WsInv
<1>1. At(r, "listed") /\ UNCHANGED <<files, fresh, cache, crashed>>
  BY DEF DeleteProject
<1>2. CASE Served(r) /\ UNCHANGED rowVars
  BY <1>1, <1>2, IdlesKeeps DEF At
<1>3. CASE /\ project' = FALSE
           /\ content' = [c \in Conversations |-> 0]
           /\ registered' = {} /\ uses' = {}
           /\ Reaches(r, "deleted")
  <2>1. /\ served' \in [Readers -> Request]
        /\ served'[r].stage = "deleted" /\ served'[r].datasets = served[r].datasets
        /\ \A q \in Readers \ {r} : served'[q] = served[q]
    BY <1>3 DEF WsTypeOK, Request, Reaches
  <2>2. WsTypeOK'
    <3>1. 0 \in 0..MaxWrites
      BY WorkspaceAssumption
    <3>2. content' \in [Conversations -> 0..MaxWrites]
      BY <1>3, <3>1
    <3>3. registered' \subseteq Datasets /\ uses' \subseteq Conversations \X registered'
      BY <1>3
    <3>4. project' \in BOOLEAN
      BY <1>3
    <3>5. QED
      BY <1>1, <2>1, <3>2, <3>3, <3>4 DEF WsTypeOK
  <2>3. Addressed' /\ Private' /\ Unused' /\ Gone' /\ RowsHaveFiles'
    BY <1>1, <1>3, <2>1 DEF Addressed, Private, Unused, Gone, RowsHaveFiles, At
  <2>4. Owned'
    BY <1>3 DEF Owned
  <2>5. QED
    BY <2>2, <2>3, <2>4
<1>4. QED
  BY <1>2, <1>3 DEF DeleteProject

LEMMA ClearKeeps ==
    ASSUME WsInv, NEW r \in Readers, Clear(r)
    PROVE  WsInv'
<1> USE DEF WsInv
<1>1. /\ At(r, "deleted") /\ cache' = <<>>
      /\ served' = [served EXCEPT ![r].stage = "cleared"]
      /\ UNCHANGED <<project, content, registered, uses, files, fresh, crashed>>
  BY DEF Clear, Reaches, rowVars
<1>2. /\ served' \in [Readers -> Request]
      /\ served'[r].stage = "cleared" /\ served'[r].datasets = served[r].datasets
      /\ \A q \in Readers \ {r} : served'[q] = served[q]
  BY <1>1 DEF WsTypeOK, Request
<1>3. WsTypeOK'
  BY <1>1, <1>2, WorkspaceAssumption DEF WsTypeOK
<1>4. Addressed' /\ Private' /\ Unused' /\ Gone' /\ RowsHaveFiles'
  BY <1>1, <1>2 DEF Addressed, Private, Unused, Gone, RowsHaveFiles, At
<1>5. Owned'
  BY <1>1, <1>2 DEF Owned, Owners, At
<1>6. QED
  BY <1>3, <1>4, <1>5

\* Whoever else deletes or registers, no row needs the files deleted here.
LEMMA DeleteFilesKeeps ==
    ASSUME WsInv, NEW r \in Readers, DeleteFiles(r)
    PROVE  WsInv'
<1> USE DEF WsInv
<1>1. /\ At(r, "cleared") /\ files' = files \ served[r].datasets
      /\ served' = [served EXCEPT ![r] = Unserved]
      /\ UNCHANGED <<project, content, registered, uses, fresh, cache, crashed>>
  BY DEF DeleteFiles, Served, Becoming, rowVars
<1>2. /\ served' \in [Readers -> Request] /\ served'[r] = Unserved
      /\ Unserved.stage = "idle" /\ Unserved.datasets = {}
      /\ \A q \in Readers \ {r} : served'[q] = served[q]
  BY <1>1, WorkspaceAssumption DEF WsTypeOK, Request, Unserved, About
<1>3. WsTypeOK'
  BY <1>1, <1>2 DEF WsTypeOK
<1>4. Addressed' /\ Unused' /\ Gone' /\ RowsHaveFiles'
  BY <1>1, <1>2 DEF Addressed, Unused, Gone, RowsHaveFiles, At
<1>5. Private'
  <2>1. ASSUME NEW q \in Readers, served'[q].stage = "parsed"
        PROVE  q # r /\ served[q].stage = "parsed"
                 /\ served[r].datasets \cap served[q].datasets = {}
    BY <1>1, <1>2, <2>1 DEF Private, At
  <2>2. QED
    BY <1>1, <1>2, <2>1 DEF Private, At
<1>6. Owned'
  BY <1>1, <1>2 DEF Owned, Owners, At
<1>7. QED
  BY <1>3, <1>4, <1>5, <1>6

LEMMA CrashKeeps ==
    ASSUME WsInv, Crash
    PROVE  WsInv'
<1> USE DEF WsInv
<1>1. /\ cache' = <<>> /\ served' = [r \in Readers |-> Unserved] /\ crashed' = TRUE
      /\ UNCHANGED <<project, content, registered, uses, files, fresh>>
  BY DEF Crash, rowVars
<1>2. /\ Unserved \in Request /\ Unserved.stage = "idle" /\ Unserved.datasets = {}
  BY WorkspaceAssumption DEF Request, Unserved, About
<1>3. WsTypeOK'
  BY <1>1, <1>2, WorkspaceAssumption DEF WsTypeOK
<1>4. Addressed' /\ Private' /\ Unused' /\ Gone' /\ RowsHaveFiles' /\ Owned'
  BY <1>1, <1>2 DEF Addressed, Private, Unused, Gone, RowsHaveFiles, Owned, At
<1>5. QED
  BY <1>3, <1>4
-----------------------------------------------------------------------------
(* Steps of the requests about a conversation.                               *)
LEMMA WriteKeeps ==
    ASSUME WsInv, NEW r \in Readers, NEW c \in Conversations, NEW about \in SUBSET Datasets,
           Write(r, c, about)
    PROVE  WsInv'
<1> DEFINE request == About("written", c, {})
<1>1. request \in Request /\ request.stage = "written" /\ request.datasets = {}
      /\ request.conversation = c
  BY WorkspaceAssumption DEF Request, About
<1> HIDE DEF request
<1>2. /\ At(r, "idle") /\ Becoming(r, request) /\ about \subseteq registered
      /\ content[c] < MaxWrites /\ content' = [content EXCEPT ![c] = @ + 1]
      /\ uses' = uses \cup ({c} \X about)
      /\ UNCHANGED <<project, registered, files, fresh, cache, crashed>>
  BY DEF Write, Changes, request
<1>3. /\ content' \in [Conversations -> 0..MaxWrites]
      /\ uses' \subseteq Conversations \X registered
      /\ Items(cache) /\ Len(cache) <= Capacity
  BY <1>2, WorkspaceAssumption DEF WsInv, WsTypeOK, Items
<1>4. QED
  BY <1>1, <1>2, <1>3, LooksKeeps DEF At

LEMMA DeleteConversationKeeps ==
    ASSUME WsInv, NEW r \in Readers, NEW c \in Conversations, DeleteConversation(r, c)
    PROVE  WsInv'
<1> DEFINE request == About("written", c, {})
<1>1. request \in Request /\ request.stage = "written" /\ request.datasets = {}
      /\ request.conversation = c
  BY WorkspaceAssumption DEF Request, About
<1> HIDE DEF request
<1>2. /\ At(r, "idle") /\ Becoming(r, request)
      /\ content' = [content EXCEPT ![c] = 0] /\ uses' = {u \in uses : u[1] # c}
      /\ UNCHANGED <<project, registered, files, fresh, cache, crashed>>
  BY DEF DeleteConversation, request
<1>3. /\ content' \in [Conversations -> 0..MaxWrites]
      /\ uses' \subseteq Conversations \X registered
      /\ Items(cache) /\ Len(cache) <= Capacity
  BY <1>2, WorkspaceAssumption DEF WsInv, WsTypeOK, Items
<1>4. QED
  BY <1>1, <1>2, <1>3, LooksKeeps DEF At

LEMMA InvalidateKeeps ==
    ASSUME WsInv, NEW r \in Readers, Invalidate(r)
    PROVE  WsInv'
<1>1. served[r].conversation \in Conversations
  BY DEF Invalidate, WsInv, Addressed, At
<1>2. /\ At(r, "written") /\ Becoming(r, Unserved)
      /\ cache' = Without(served[r].conversation)
      /\ UNCHANGED <<project, content, registered, uses, files, fresh, crashed>>
  BY DEF Invalidate, Served, rowVars
<1>3. Items(cache') /\ Len(cache') <= Len(cache) /\ Len(cache) <= Capacity
  BY <1>1, <1>2, WithoutItems DEF WsInv, WsTypeOK
<1>4. Len(cache') \in Nat /\ Len(cache) \in Nat /\ Capacity \in Nat
  BY <1>3, WorkspaceAssumption DEF Items, WsInv, WsTypeOK
<1>5. /\ Len(cache') <= Capacity
      /\ content' \in [Conversations -> 0..MaxWrites]
      /\ uses' \subseteq Conversations \X registered
  BY <1>2, <1>3, <1>4 DEF WsInv, WsTypeOK
<1>6. Unserved \in Request /\ Unserved.stage = "idle" /\ Unserved.datasets = {}
  BY WorkspaceAssumption DEF Request, Unserved, About
<1>7. QED
  BY <1>2, <1>3, <1>5, <1>6, LooksKeeps DEF At

LEMMA PutKeeps ==
    ASSUME WsInv, NEW r \in Readers, Put(r)
    PROVE  WsInv'
<1> DEFINE c == served[r].conversation
           item == [conversation |-> c, content |-> served[r].seen]
           items == Append(Without(c), item)
<1>1. c \in Conversations /\ item \in CacheItem /\ item.conversation = c
  BY DEF Put, WsInv, WsTypeOK, Request, CacheItem, Addressed, At
<1>2. /\ At(r, "read") /\ Becoming(r, Unserved) /\ cache' = Newest(items)
      /\ UNCHANGED <<project, content, registered, uses, files, fresh, crashed>>
  BY DEF Put, Served, rowVars
<1> HIDE DEF item, c
<1>3. Items(items)
  BY <1>1, WithoutItems, AppendItems DEF WsInv
<1> HIDE DEF items
<1>4. Items(cache') /\ Len(cache') <= Capacity
  BY <1>2, <1>3, NewestItems
<1>5. /\ content' \in [Conversations -> 0..MaxWrites]
      /\ uses' \subseteq Conversations \X registered
  BY <1>2 DEF WsInv, WsTypeOK
<1>6. Unserved \in Request /\ Unserved.stage = "idle" /\ Unserved.datasets = {}
  BY WorkspaceAssumption DEF Request, Unserved, About
<1>7. QED
  BY <1>2, <1>4, <1>5, <1>6, LooksKeeps DEF At

\* Miss and ReadRows
LEMMA ReadKeeps ==
    ASSUME WsInv, NEW r \in Readers, NEW c \in Conversations, Miss(r, c) \/ ReadRows(r)
    PROVE  WsInv'
<1>1. Items(cache) /\ Len(cache) <= Capacity /\ content \in [Conversations -> 0..MaxWrites]
      /\ uses \subseteq Conversations \X registered
  BY DEF WsInv, WsTypeOK, Items
<1>2. CASE Miss(r, c)
  <2> DEFINE request == About("missed", c, {})
  <2>1. request \in Request /\ request.stage = "missed" /\ request.datasets = {}
        /\ request.conversation = c
    BY WorkspaceAssumption DEF Request, About
  <2>2. At(r, "idle") /\ Becoming(r, request)
        /\ UNCHANGED <<project, content, registered, uses, files, fresh, cache, crashed>>
    BY <1>2 DEF Miss, rowVars
  <2> HIDE DEF request
  <2>3. QED
    BY <1>1, <2>1, <2>2, LooksKeeps DEF At
<1>3. CASE ReadRows(r)
  <2> DEFINE of == served[r].conversation
  <2>1. At(r, "missed") /\ UNCHANGED <<rowVars, files, fresh, cache, crashed>>
    BY <1>3 DEF ReadRows
  <2>2. CASE Served(r)
    BY <2>1, <2>2, IdlesKeeps DEF At
  <2>3. CASE Becoming(r, RowsOf(of))
    <3>1. of \in Conversations /\ content[of] \in 0..MaxWrites
      BY <2>1 DEF WsInv, WsTypeOK, Addressed, At
    <3>2. RowsOf(of) \in Request /\ RowsOf(of).stage = "read" /\ RowsOf(of).conversation = of
          /\ RowsOf(of).datasets = {}
      BY <3>1 DEF Request, RowsOf
    <3>3. QED
      BY <1>1, <2>1, <2>3, <3>1, <3>2, LooksKeeps DEF At, rowVars
  <2>4. QED
    BY <1>3, <2>2, <2>3 DEF ReadRows, Served
<1>4. QED
  BY <1>2, <1>3
-----------------------------------------------------------------------------
LEMMA WsStart == WsInit => WsInv
<1> SUFFICES ASSUME WsInit PROVE WsInv
  OBVIOUS
<1>1. Unserved \in Request /\ Unserved.stage = "idle" /\ Unserved.datasets = {}
  BY WorkspaceAssumption DEF Request, Unserved, About
<1>2. WsTypeOK
  <2>1. 1 \in 0..MaxWrites /\ Len(cache) <= Capacity /\ cache \in Seq(CacheItem)
    BY WorkspaceAssumption DEF WsInit
  <2>2. content \in [Conversations -> 0..MaxWrites] /\ served \in [Readers -> Request]
    BY <1>1, <2>1 DEF WsInit
  <2>3. project \in BOOLEAN /\ crashed \in BOOLEAN
    BY DEF WsInit
  <2>4. /\ registered \subseteq Datasets /\ files \subseteq Datasets /\ fresh \subseteq Datasets
        /\ uses \subseteq Conversations \X registered
        /\ DOMAIN cache = {}
    BY DEF WsInit
  <2>5. QED
    BY <2>1, <2>2, <2>3, <2>4 DEF WsTypeOK
<1>3. Addressed /\ Private /\ Unused /\ Gone /\ RowsHaveFiles /\ Owned
  BY <1>1 DEF WsInit, Addressed, Private, Unused, Gone, RowsHaveFiles, Owned, At
<1>4. QED
  BY <1>2, <1>3 DEF WsInv

LEMMA WsKeeps == WsInv /\ [WsNext]_wsVars => WsInv'
<1> SUFFICES ASSUME WsInv, [WsNext]_wsVars PROVE WsInv'
  OBVIOUS
<1>1. CASE \E c \in Conversations : Hit(c)
  BY <1>1, HitKeeps
<1>2. CASE \E r \in Readers :
              \/ ReadRows(r) \/ Put(r) \/ Invalidate(r) \/ RecordUpload(r) \/ UploadFails(r)
              \/ DeleteRow(r) \/ ListDatasets(r) \/ DeleteProject(r) \/ Clear(r) \/ DeleteFiles(r)
  <2>1. PICK r \in Readers :
              \/ ReadRows(r) \/ Put(r) \/ Invalidate(r) \/ RecordUpload(r) \/ UploadFails(r)
              \/ DeleteRow(r) \/ ListDatasets(r) \/ DeleteProject(r) \/ Clear(r) \/ DeleteFiles(r)
    BY <1>2
  <2>2. ReadRows(r) => served[r].conversation \in Conversations
    BY DEF ReadRows, WsInv, Addressed, At
  <2>3. QED
    BY <2>1, <2>2, ReadKeeps, PutKeeps, InvalidateKeeps, RecordUploadKeeps, UploadFailsKeeps,
       DeleteRowKeeps, ListDatasetsKeeps, DeleteProjectKeeps, ClearKeeps, DeleteFilesKeeps
<1>3. CASE \E r \in Readers, c \in Conversations :
              \/ Miss(r, c) \/ DeleteConversation(r, c)
              \/ \E about \in SUBSET Datasets : Write(r, c, about)
              \/ \E d \in Datasets : Parse(r, c, d)
  BY <1>3, ReadKeeps, DeleteConversationKeeps, WriteKeeps, ParseKeeps
<1>4. CASE \E r \in Readers, d \in Datasets, force \in BOOLEAN : CheckUsage(r, d, force)
  BY <1>4, CheckUsageKeeps
<1>5. CASE Crash
  BY <1>5, CrashKeeps
<1>6. CASE UNCHANGED wsVars
  BY <1>6 DEF wsVars, WsInv, WsTypeOK, Addressed, Private, Unused, Gone, RowsHaveFiles, Owned,
              Owners, At
<1>7. QED
  BY <1>1, <1>2, <1>3, <1>4, <1>5, <1>6 DEF WsNext

(* The rows, the files, the cache and the requests are what store.py,        *)
(* cache.py and the routers keep, and every file without a row has a request *)
(* that answers for it.                                                      *)
THEOREM WorkspaceSound == WsSpec => []WsInv
<1>1. QED
  BY WsStart, WsKeeps, PTL DEF WsSpec

(* The files and the rows of the data sets stay in step, whatever uploads    *)
(* and deletions meet (upload.py, workspace.py, store.delete_dataset): a row *)
(* has its file, and no file is left behind while the project lives and the  *)
(* API has not died.                                                         *)
THEOREM FilesAndRowsMatch == WsSpec => []FilesMatch
<1>1. WsInv => FilesMatch
  <2> SUFFICES ASSUME WsInv PROVE FilesMatch
    OBVIOUS
  <2>1. project /\ ~crashed =>
            \A d \in files \ registered : \E r \in Owners : d \in served[r].datasets
    BY DEF WsInv, Owned
  <2>2. Owners \subseteq Readers
    BY DEF Owners
  <2>3. FilesHaveRows
    BY <2>1, <2>2 DEF FilesHaveRows
  <2>4. QED
    BY <2>3 DEF FilesMatch, WsInv
<1>2. QED
  BY <1>1, WorkspaceSound, PTL
-----------------------------------------------------------------------------
(* References, for any words, files, charts and runs: the inductive          *)
(* invariant.  What is in doubt has no targets.                              *)
Settled(refs) ==
    /\ refs = [status |-> refs.status, targets |-> refs.targets]
    /\ refs.status \in RefStatuses
    /\ refs.status = "resolved" <=> refs.targets # {}

ReferencesTyped ==
    /\ host = [stage |-> host.stage, words |-> host.words, refs |-> host.refs]
    /\ Settled(host.refs)
    /\ inquiry = [status |-> inquiry.status, words |-> inquiry.words,
                  contract |-> inquiry.contract, plan |-> inquiry.plan,
                  planned |-> inquiry.planned, answered |-> inquiry.answered]
    /\ inquiry.answered \in BOOLEAN

\* A host that plans a second time has its answer.
AgainAnswered == host.stage = "again" => inquiry.answered

\* A run was planned with nothing in doubt, and the plan carries what is resolved.
PlannedClear ==
    TurnIn({"running", "paused"}) =>
        \/ inquiry.planned = "no_reference"
        \/ inquiry.planned = "resolved" /\ inquiry.plan # {}

\* A host that goes on with a planned run has resolved what the plan resolved.
ResumedClear ==
    host.stage = "loaded" /\ TurnIn({"running"}) /\ inquiry.planned # "no_reference"
        => host.refs.status = "resolved"

ReferencesInv ==
    /\ ReferencesTyped
    /\ AgainAnswered
    /\ PlannedClear
    /\ ResumedClear
    /\ ReferencesStand
-----------------------------------------------------------------------------
\* What resolve returns, whatever the words and the catalogue are.
LEMMA Resolves ==
    ASSUME NEW words PROVE Settled(ResolveWords(words))
BY DEF ResolveWords, Settled, RefStatuses

\* What a host that takes over goes by: it has the targets, or there is none.
LEMMA Restores ==
    ASSUME NEW targets, targets # {}
    PROVE  \/ Restoring(targets) = NoHost
           \/ Restoring(targets) = [stage |-> "loaded", words |-> {},
                                    refs |-> [status |-> "resolved", targets |-> targets]]
BY DEF Restoring, Taking, NoHost

LEMMA Takes ==
    ASSUME NEW refs, Settled(refs)
    PROVE  Taking(refs) = [stage |-> "loaded", words |-> {}, refs |-> refs]
<1>1. NoHost = [stage |-> "none", words |-> {}, refs |-> NoRefs]
  BY DEF NoHost
<1>2. [NoHost EXCEPT !.stage = "loaded"] = [stage |-> "loaded", words |-> {}, refs |-> NoRefs]
  BY <1>1
<1>3. Taking(refs) = [[stage |-> "loaded", words |-> {}, refs |-> NoRefs] EXCEPT !.refs = refs]
  BY <1>1, <1>2 DEF Taking
<1> QED
  BY <1>3

LEMMA ReferencesKept == ReferencesInv /\ [ReferencesNext]_refVars => ReferencesInv'
<1> SUFFICES ASSUME ReferencesInv, [ReferencesNext]_refVars PROVE ReferencesInv'
  OBVIOUS
<1> USE DEF ReferencesInv, TurnIn, catalogue
<1>1. ASSUME UNCHANGED <<inquiry, host>> PROVE ReferencesInv'
  BY <1>1 DEF ReferencesTyped, AgainAnswered, PlannedClear, ResumedClear, ReferencesStand
<1>2. ASSUME NEW words \in Wordings, ResolveRequest(words) PROVE ReferencesInv'
  <2>1. /\ UNCHANGED inquiry
        /\ host' = [stage |-> "resolved", words |-> words, refs |-> ResolveWords(words)]
    BY <1>2 DEF ResolveRequest
  <2> QED
    BY <2>1, Resolves DEF ReferencesTyped, AgainAnswered, PlannedClear, ResumedClear,
       ReferencesStand
<1>3. CASE StartTurn
  <2>1. /\ host' = [stage |-> "loaded", words |-> {}, refs |-> host.refs]
        /\ inquiry' = [status |-> "planning", words |-> host.words,
                       contract |-> Bound(host.refs), plan |-> {}, planned |-> "none",
                       answered |-> FALSE]
    BY <1>3 DEF StartTurn, ReferencesTyped, EndedTurn
  <2>2. Bound(host.refs) = host.refs.targets
    BY DEF Bound, ReferencesTyped, Settled
  <2> QED
    BY <2>1, <2>2 DEF ReferencesTyped, AgainAnswered, PlannedClear, ResumedClear, ReferencesStand
<1>4. ASSUME NEW other \in BOOLEAN, PlanTurn(other) PROVE ReferencesInv'
  <2>1. PICK st \in {"waiting_user", "running"} :
           /\ inquiry' = [inquiry EXCEPT !.plan = Bound(host.refs), !.planned = host.refs.status,
                                         !.status = st]
           /\ st = "running" => host.refs.status \notin {"ambiguous", "unresolved"}
           /\ \/ host' = NoHost
              \/ /\ host' = [host EXCEPT !.stage =
                                 IF st = "waiting_user" THEN "awaiting" ELSE "working"]
                 /\ host.stage = "loaded" \/ inquiry.answered
    BY <1>4 DEF PlanTurn, AgainAnswered
  <2>2. inquiry' = [status |-> st, words |-> inquiry.words, contract |-> inquiry.contract,
                    plan |-> host.refs.targets, planned |-> host.refs.status,
                    answered |-> inquiry.answered]
    BY <2>1 DEF ReferencesTyped, Settled, Bound
  <2>3. Settled(host.refs) /\ inquiry.answered \in BOOLEAN
    BY DEF ReferencesTyped
  <2>4. PlannedClear'
    <3>1. st = "running" => host.refs.status \in {"no_reference", "resolved"}
      BY <2>1, <2>3 DEF Settled, RefStatuses
    <3>2. host.refs.status = "resolved" => host.refs.targets # {}
      BY <2>3 DEF Settled
    <3> QED
      BY <2>2, <3>1, <3>2 DEF PlannedClear
  <2>5. CASE host' = NoHost
    <3>1. host' = [stage |-> "none", words |-> {}, refs |-> NoRefs] /\ Settled(NoRefs)
      BY <2>5 DEF NoHost, NoRefs, Settled, RefStatuses
    <3> QED
      BY <2>2, <2>3, <2>4, <3>1 DEF ReferencesTyped, AgainAnswered, ResumedClear, ReferencesStand
  <2>6. CASE /\ host' = [host EXCEPT !.stage =
                            IF st = "waiting_user" THEN "awaiting" ELSE "working"]
             /\ host.stage = "loaded" \/ inquiry.answered
    <3>1. PICK stage \in {"awaiting", "working"} :
             /\ host' = [stage |-> stage, words |-> host.words, refs |-> host.refs]
             /\ stage = "working" => st = "running"
      BY <2>1, <2>6 DEF ReferencesTyped
    <3>2. ReferencesTyped' /\ AgainAnswered' /\ ResumedClear'
      BY <2>2, <2>3, <3>1 DEF ReferencesTyped, AgainAnswered, ResumedClear
    <3>3. ReferencesStand'
      BY <2>1, <2>2, <2>3, <2>6, <3>1 DEF ReferencesStand, Settled, RefStatuses, ReferencesTyped
    <3> QED
      BY <2>4, <3>2, <3>3
  <2> QED
    BY <2>1, <2>5, <2>6
<1>5. ASSUME NEW answer, AnswerTurn(answer) PROVE ReferencesInv'
  <2>1. inquiry' = [status |-> "planning", words |-> inquiry.words, contract |-> inquiry.contract,
                    plan |-> inquiry.plan, planned |-> inquiry.planned, answered |-> TRUE]
    BY <1>5 DEF AnswerTurn, ReferencesTyped
  <2>2. PICK refs : Settled(refs) /\ (host' = [host EXCEPT !.stage = "again", !.refs = refs]
                                     \/ host' = Taking(refs)
                                     \/ host' = NoHost)
    <3>1. Settled(ResolveWords(inquiry.words \cup answer))
      BY Resolves
    <3>2. \A targets : targets # {} => Settled([status |-> "resolved", targets |-> targets])
      BY DEF Settled, RefStatuses
    <3> QED
      BY <1>5, <3>1, <3>2 DEF AnswerTurn, Restoring
  <2>3. PICK stage \in {"again", "loaded", "none"} :
           \E words, given :
              /\ Settled(given)
              /\ host' = [stage |-> stage, words |-> words, refs |-> given]
    <3>1. Settled(NoRefs)
      BY DEF Settled, NoRefs, RefStatuses
    <3>2. CASE host' = [host EXCEPT !.stage = "again", !.refs = refs]
      <4>1. host' = [stage |-> "again", words |-> host.words, refs |-> refs]
        BY <3>2 DEF ReferencesTyped
      <4> QED
        BY <2>2, <4>1
    <3>3. CASE host' = Taking(refs)
      BY <2>2, <3>3, Takes
    <3>4. CASE host' = NoHost
      BY <3>1, <3>4 DEF NoHost
    <3> QED
      BY <2>2, <3>2, <3>3, <3>4
  <2> QED
    BY <2>1, <2>3 DEF ReferencesTyped, AgainAnswered, PlannedClear, ResumedClear, ReferencesStand
<1>6. CASE ResumeTurn
  <2>1. inquiry' = [status |-> "running", words |-> inquiry.words, contract |-> inquiry.contract,
                    plan |-> inquiry.plan, planned |-> inquiry.planned,
                    answered |-> inquiry.answered]
    BY <1>6 DEF ResumeTurn, ReferencesTyped
  <2>2. \/ inquiry.planned = "no_reference"
        \/ inquiry.planned = "resolved" /\ inquiry.plan # {}
    BY <1>6 DEF ResumeTurn, PlannedClear
  <2>3. PICK stage \in {"loaded", "none"} : \E refs :
           /\ Settled(refs)
           /\ host' = [stage |-> stage, words |-> {}, refs |-> refs]
           /\ stage = "loaded" =>
                 /\ inquiry.contract # {} => refs.targets = inquiry.contract
                 /\ inquiry.plan # {} => refs.status = "resolved"
    <3>1. Settled(NoRefs) /\ NoHost = [stage |-> "none", words |-> {}, refs |-> NoRefs]
      BY DEF Settled, NoRefs, RefStatuses, NoHost
    <3>2. \A targets : targets # {} => Settled([status |-> "resolved", targets |-> targets])
      BY DEF Settled, RefStatuses
    <3>3. ASSUME NEW targets, targets # {}, host' = Restoring(targets),
                 inquiry.contract # {} => targets = inquiry.contract
          PROVE  \E stage \in {"loaded", "none"} : \E refs :
                    /\ Settled(refs)
                    /\ host' = [stage |-> stage, words |-> {}, refs |-> refs]
                    /\ stage = "loaded" =>
                          /\ inquiry.contract # {} => refs.targets = inquiry.contract
                          /\ inquiry.plan # {} => refs.status = "resolved"
      <4>1. CASE host' = NoHost
        BY <3>1, <4>1
      <4>2. CASE host' = [stage |-> "loaded", words |-> {},
                          refs |-> [status |-> "resolved", targets |-> targets]]
        <5> DEFINE given == [status |-> "resolved", targets |-> targets]
        <5>1. /\ Settled(given) /\ given.status = "resolved" /\ given.targets = targets
              /\ host' = [stage |-> "loaded", words |-> {}, refs |-> given]
          BY <3>2, <3>3, <4>2
        <5> HIDE DEF given
        <5> QED
          BY <3>3, <5>1
      <4> QED
        BY <3>3, <4>1, <4>2, Restores
    <3>4. CASE inquiry.contract # {}
      BY <1>6, <3>3, <3>4 DEF ResumeTurn, Resumed
    <3>5. ASSUME inquiry.contract = {}, NEW now, now = ResolveWords(inquiry.words),
                 now.status = "resolved" \/ inquiry.plan = {}, host' = Taking(now)
          PROVE  \E stage \in {"loaded", "none"} : \E refs :
                    /\ Settled(refs)
                    /\ host' = [stage |-> stage, words |-> {}, refs |-> refs]
                    /\ stage = "loaded" =>
                          /\ inquiry.contract # {} => refs.targets = inquiry.contract
                          /\ inquiry.plan # {} => refs.status = "resolved"
      <4>1. Settled(now)
        BY <3>5, Resolves
      <4>2. host' = [stage |-> "loaded", words |-> {}, refs |-> now]
        BY <3>5, <4>1, Takes
      <4> QED
        BY <3>5, <4>1, <4>2
    <3>6. CASE inquiry.contract = {} /\ host' = Restoring(inquiry.plan) /\ inquiry.plan # {}
      BY <3>3, <3>6
    <3> QED
      BY <1>6, <3>4, <3>5, <3>6 DEF ResumeTurn, Resumed
  <2>4. ReferencesTyped' /\ AgainAnswered' /\ PlannedClear'
    BY <2>1, <2>2, <2>3 DEF ReferencesTyped, AgainAnswered, PlannedClear
  <2>5. ResumedClear' /\ ReferencesStand'
    BY <2>1, <2>2, <2>3 DEF ResumedClear, ReferencesStand
  <2> QED
    BY <2>4, <2>5
<1>7. CASE GoOn
  <2>1. /\ host' = [stage |-> "working", words |-> host.words, refs |-> host.refs]
        /\ UNCHANGED inquiry
    BY <1>7 DEF GoOn, ReferencesTyped
  <2> QED
    BY <1>7, <2>1 DEF GoOn, ReferencesTyped, AgainAnswered, PlannedClear, ResumedClear,
       ReferencesStand
<1>8. CASE EndTurn \/ CrashHost
  <2>1. /\ host' = [stage |-> "none", words |-> {}, refs |-> NoRefs] /\ Settled(NoRefs)
    BY <1>8 DEF EndTurn, CrashHost, NoHost, NoRefs, Settled, RefStatuses
  <2>2. \/ UNCHANGED inquiry
        \/ inquiry' = EndedTurn
        \/ /\ inquiry.status = "running"
           /\ inquiry' = [status |-> "paused", words |-> inquiry.words,
                          contract |-> inquiry.contract, plan |-> inquiry.plan,
                          planned |-> inquiry.planned, answered |-> inquiry.answered]
    BY <1>8 DEF EndTurn, CrashHost, ReferencesTyped
  <2>3. ReferencesTyped' /\ PlannedClear'
    <3>1. CASE UNCHANGED inquiry
      BY <2>1, <3>1 DEF ReferencesTyped, PlannedClear
    <3>2. CASE inquiry' = EndedTurn
      BY <2>1, <3>2 DEF EndedTurn, ReferencesTyped, PlannedClear
    <3>3. CASE /\ inquiry.status = "running"
               /\ inquiry' = [status |-> "paused", words |-> inquiry.words,
                              contract |-> inquiry.contract, plan |-> inquiry.plan,
                              planned |-> inquiry.planned, answered |-> inquiry.answered]
      BY <2>1, <3>3 DEF ReferencesTyped, PlannedClear
    <3> QED
      BY <2>2, <3>1, <3>2, <3>3
  <2>4. AgainAnswered' /\ ResumedClear' /\ ReferencesStand'
    BY <2>1 DEF AgainAnswered, ResumedClear, ReferencesStand
  <2> QED
    BY <2>3, <2>4
<1> QED
  BY <1>1, <1>2, <1>3, <1>4, <1>5, <1>6, <1>7, <1>8
     DEF ReferencesNext, refVars, Upload, RemoveDataset, DrawChart

(* A request that names a thing is carried out on that thing, whatever files *)
(* come and go and whichever host goes on with it: for any words, files,     *)
(* charts and runs.                                                          *)
THEOREM WordsKeepTheirMeaning == ReferencesSpec => []ReferencesStand
<1>1. ReferencesInit => ReferencesInv
  BY DEF ReferencesInit, NoHost, NoRefs, EndedTurn, ReferencesInv, ReferencesTyped, Settled,
     RefStatuses, AgainAnswered, PlannedClear, TurnIn, ResumedClear, ReferencesStand
<1>2. ReferencesInv => ReferencesStand
  BY DEF ReferencesInv
<1> QED
  BY <1>1, <1>2, ReferencesKept, PTL DEF ReferencesSpec
-----------------------------------------------------------------------------
(* Compaction, for any settings and any number of messages and runs: the     *)
(* inductive invariant.                                                      *)
Views == 0..Len(versions)
Compactions == [covered : Seq(Nat), by : Settings]
ReaderRows == [status : {"planning", "waiting_user", "running", "paused", "ended"},
            snapshot : SUBSET Views, opened : SUBSET Views]

CompactionTyped ==
    /\ settings \in Settings
    /\ talk \in Seq(Nat)
    /\ late \in SUBSET (0..Len(talk))
    /\ versions \in Seq(Compactions)
    /\ reader \in ReaderRows
    /\ shown \in [view : Views, window : SUBSET Nat]

\* What the first host of a run saw is the snapshot of the run.
OneView ==
    /\ reader.opened = reader.snapshot
    /\ reader.opened = {} \/ \E v \in Views : reader.opened = {v}

(* What a version covers stays behind the newest messages its settings keep: *)
(* an upload that comes late comes among them, or before.                    *)
StaysBehind(v) ==
    \A k \in DOMAIN versions[v].covered :
        \E j \in 1..Len(talk) - versions[v].by.keep : talk[j] = versions[v].covered[k]
StayBehind == \A v \in DOMAIN versions : StaysBehind(v)

CompactionInv ==
    /\ CompactionTyped
    /\ OneView
    /\ StayBehind
    /\ ContextSound
-----------------------------------------------------------------------------
LEMMA NewestOne ==
    ASSUME NEW m \in Nat, NEW S \in SUBSET (1..m), S # {}
    PROVE  Max(S) \in S
<1> DEFINE T == {m - g : g \in S}
<1>1. T \subseteq Nat /\ T # {}
  <2>1. \A g \in S : m - g \in Nat
    OBVIOUS
  <2>2. QED
    BY <2>1
<1>2. PICK t \in T : \A u \in T : ~(<<u, t>> \in OpToRel(<, Nat))
  BY <1>1, NatLessThanWellFounded, WFMin
<1>3. \A u \in T : ~(u < t)
  BY <1>1, <1>2 DEF OpToRel
<1>4. PICK g \in S : t = m - g
  OBVIOUS
<1>5. \A h \in S : g >= h
  BY <1>3, <1>4
<1>6. QED
  BY <1>4, <1>5 DEF Max

\* What the steps of a run leave alone, while it is shown what it was shown.
LEMMA CoveredKept ==
    ASSUME CompactionTyped, NEW c \in Compactions,
           versions' = versions \/ versions' = Append(versions, c)
    PROVE  /\ versions' \in Seq(Compactions) /\ Views \subseteq Views'
           /\ \A v \in Views : Covered(v)' = Covered(v)
           /\ \A v \in DOMAIN versions : versions'[v] = versions[v]
<1>1. versions \in Seq(Compactions) /\ Len(versions) \in Nat
  BY DEF CompactionTyped
<1>2. CASE versions' = versions
  BY <1>1, <1>2 DEF Views, Covered
<1>3. CASE versions' = Append(versions, c)
  <2>1. /\ Len(versions') = Len(versions) + 1 /\ versions' \in Seq(Compactions)
        /\ \A v \in 1..Len(versions) : versions'[v] = versions[v]
    BY <1>1, <1>3
  <2> QED
    BY <1>1, <2>1 DEF Views, Covered
<1> QED
  BY <1>2, <1>3

\* What is written between two messages moves the later ones on.
LEMMA Between ==
    ASSUME NEW s \in Seq(Nat), NEW at \in 0..Len(s), NEW more \in Seq(Nat)
    PROVE  LET all == SubSeq(s, 1, at) \o more \o SubSeq(s, at + 1, Len(s))
           IN /\ all \in Seq(Nat) /\ Len(all) = Len(s) + Len(more)
              /\ \A i \in 1..at : all[i] = s[i]
              /\ \A i \in 1..Len(s) - at : all[at + Len(more) + i] = s[at + i]
<1> DEFINE head == SubSeq(s, 1, at)
           front == head \o more
           tail == SubSeq(s, at + 1, Len(s))
           all == front \o tail
<1>1. Len(s) \in Nat /\ Len(more) \in Nat /\ at \in Nat /\ at <= Len(s)
  OBVIOUS
<1>2. /\ head \in Seq(Nat) /\ Len(head) = at
      /\ \A i \in 1..at : head[i] = s[i]
  BY <1>1, SubSeqProperties
<1>3. /\ tail \in Seq(Nat) /\ Len(tail) = Len(s) - at
      /\ \A i \in 1..Len(s) - at : tail[i] = s[at + i]
  <2>1. at + 1 \in Int /\ Len(s) \in Int /\ \A i \in at + 1..Len(s) : s[i] \in Nat
    BY <1>1
  <2>2. /\ tail \in Seq(Nat)
        /\ Len(tail) = IF at + 1 <= Len(s) THEN Len(s) - (at + 1) + 1 ELSE 0
        /\ \A i \in 1..Len(s) - (at + 1) + 1 : tail[i] = s[at + 1 + i - 1]
    BY <2>1, SubSeqProperties
  <2> DEFINE n == Len(s)
  <2>3. n \in Nat /\ at \in Nat /\ at <= n
    BY <1>1
  <2>4. /\ tail \in Seq(Nat) /\ Len(tail) = IF at + 1 <= n THEN n - (at + 1) + 1 ELSE 0
        /\ \A i \in 1..n - (at + 1) + 1 : tail[i] = s[at + 1 + i - 1]
    BY <2>2
  <2> HIDE DEF tail, n
  <2>5. Len(tail) = n - at
    BY <2>3, <2>4
  <2>6. ASSUME NEW i \in 1..n - at PROVE tail[i] = s[at + i]
    <3>1. i \in 1..n - (at + 1) + 1 /\ at + 1 + i - 1 = at + i
      BY <2>3
    <3>2. QED
      BY <2>4, <3>1
  <2> QED
    BY <2>4, <2>5, <2>6 DEF n
<1> HIDE DEF head, tail
<1>4. /\ front \in Seq(Nat) /\ Len(front) = Len(head) + Len(more)
      /\ \A i \in 1..Len(head) + Len(more) :
            front[i] = IF i <= Len(head) THEN head[i] ELSE more[i - Len(head)]
  BY <1>2, ConcatProperties
<1> HIDE DEF front
<1>5. \A i \in 1..at : front[i] = s[i]
  BY <1>1, <1>2, <1>4
<1>6. /\ all \in Seq(Nat) /\ Len(all) = Len(front) + Len(tail)
      /\ \A i \in 1..Len(front) + Len(tail) :
            all[i] = IF i <= Len(front) THEN front[i] ELSE tail[i - Len(front)]
  <2>1. front \in Seq(Nat) /\ tail \in Seq(Nat)
    BY <1>3, <1>4
  <2> QED
    BY <2>1, ConcatProperties
<1> HIDE DEF all
<1>7. Len(all) = Len(s) + Len(more)
  BY <1>1, <1>2, <1>3, <1>4, <1>6
<1>8. ASSUME NEW i \in 1..at
      PROVE  all[i] = s[i]
  <2>0. Len(front) = at + Len(more) /\ Len(tail) = Len(s) - at
    BY <1>2, <1>3, <1>4
  <2>1. i \in 1..Len(front) + Len(tail) /\ i <= Len(front)
    BY <1>1, <2>0
  <2>2. all[i] = front[i]
    BY <1>6, <2>1
  <2> QED
    BY <1>5, <2>2
<1>9. ASSUME NEW i \in 1..Len(s) - at
      PROVE  all[at + Len(more) + i] = s[at + i]
  <2>0. Len(front) = at + Len(more) /\ Len(tail) = Len(s) - at
    BY <1>2, <1>3, <1>4
  <2> DEFINE k == Len(more)
             n == Len(s)
  <2>a. k \in Nat /\ n \in Nat /\ at \in Nat /\ i \in 1..n - at
    BY <1>1
  <2>b. Len(front) = at + k /\ Len(tail) = n - at
    BY <2>0
  <2> HIDE DEF k, n
  <2> DEFINE j == at + k + i
  <2>c. j \in 1..(at + k) + (n - at) /\ ~(j <= at + k) /\ j - (at + k) = i
    BY <2>a
  <2> HIDE DEF j
  <2>1. j \in 1..Len(front) + Len(tail) /\ ~(j <= Len(front)) /\ j - Len(front) = i
    BY <2>b, <2>c
  <2>2. all[j] = IF j <= Len(front) THEN front[j] ELSE tail[j - Len(front)]
    BY <1>6, <2>1
  <2>3. all[at + k + i] = tail[i]
    BY <2>1, <2>2 DEF j
  <2> QED
    BY <1>3, <2>3 DEF k
<1> QED
  BY <1>6, <1>7, <1>8, <1>9 DEF all, front, head, tail

\* So every version stays behind, when messages are written where they belong.
LEMMA TalkGrows ==
    ASSUME CompactionInv, UNCHANGED versions,
           NEW at \in 0..Len(talk), NEW more \in Seq(Nat),
           talk' = SubSeq(talk, 1, at) \o more \o SubSeq(talk, at + 1, Len(talk))
    PROVE  talk' \in Seq(Nat) /\ Len(talk') = Len(talk) + Len(more) /\ StayBehind'
<1>1. talk \in Seq(Nat) /\ Len(talk) \in Nat /\ Len(more) \in Nat /\ at \in Nat /\ at <= Len(talk)
  BY DEF CompactionInv, CompactionTyped
<1>2. /\ talk' \in Seq(Nat) /\ Len(talk') = Len(talk) + Len(more)
      /\ \A i \in 1..at : talk'[i] = talk[i]
      /\ \A i \in 1..Len(talk) - at : talk'[at + Len(more) + i] = talk[at + i]
  BY <1>1, Between
<1>3. StayBehind'
  <2>0. Len(talk') = Len(talk) + Len(more)
    BY <1>2
  <2> SUFFICES ASSUME NEW v \in DOMAIN versions, NEW k \in DOMAIN versions[v].covered
               PROVE  \E j \in 1..Len(talk') - versions[v].by.keep :
                         talk'[j] = versions[v].covered[k]
    BY DEF StayBehind, StaysBehind
  <2>1. PICK j \in 1..Len(talk) - versions[v].by.keep : talk[j] = versions[v].covered[k]
    BY DEF CompactionInv, StayBehind, StaysBehind
  <2>2. versions[v].by.keep \in Nat
    <3>1. versions \in Seq(Compactions)
      BY DEF CompactionInv, CompactionTyped
    <3>2. versions[v] \in Compactions
      BY <3>1, LenProperties, ElementOfSeq
    <3> QED
      BY <3>2, CompactionAssumption DEF Compactions
  <2> DEFINE kept == versions[v].by.keep
             old == Len(talk)
             added == Len(more)
  <2>3. kept \in Nat /\ old \in Nat /\ added \in Nat /\ at \in Nat
        /\ j \in Nat /\ 1 <= j /\ j <= old - kept
    BY <1>1, <2>2
  <2>4. Len(talk') = old + added
    BY <2>0
  <2> HIDE DEF kept, old, added
  <2>5. CASE j <= at
    <3>1. j \in 1..at /\ j \in 1..(old + added) - kept
      BY <2>3, <2>5
    <3>2. talk'[j] = talk[j]
      BY <1>2, <3>1
    <3> QED
      BY <2>1, <2>4, <3>1, <3>2 DEF kept
  <2>6. CASE j > at
    <3>1. j + added \in 1..(old + added) - kept
      BY <2>3
    <3>2. j - at \in 1..old - at /\ at + added + (j - at) = j + added /\ at + (j - at) = j
      BY <2>3, <2>6
    <3>3. talk'[at + added + (j - at)] = talk[at + (j - at)]
      BY <1>2, <3>2 DEF old, added
    <3>4. talk'[j + added] = talk[j]
      BY <3>2, <3>3
    <3> QED
      BY <2>1, <2>4, <3>1, <3>4 DEF kept
  <2>7. j <= at \/ j > at
    BY <2>3
  <2> QED
    BY <2>5, <2>6, <2>7
<1> QED
  BY <1>2, <1>3

LEMMA TalkGoesOn ==
    ASSUME CompactionInv, UNCHANGED versions,
           talk' = talk \/ talk' = Append(talk, NewMessage)
    PROVE  talk' \in Seq(Nat) /\ Len(talk') \in Nat /\ Len(talk') >= Len(talk) /\ StayBehind'
<1>1. talk \in Seq(Nat) /\ Len(talk) \in Nat
  BY DEF CompactionInv, CompactionTyped
<1>2. CASE talk' = talk
  BY <1>1, <1>2 DEF CompactionInv, StayBehind, StaysBehind
<1>3. CASE talk' = Append(talk, NewMessage)
  <2>1. /\ talk' \in Seq(Nat) /\ Len(talk') = Len(talk) + 1
        /\ \A i \in 1..Len(talk) : talk'[i] = talk[i]
    BY <1>1, <1>3 DEF NewMessage
  <2>2. ASSUME NEW v \in DOMAIN versions, NEW k \in DOMAIN versions[v].covered
        PROVE  \E j \in 1..Len(talk') - versions[v].by.keep :
                  talk'[j] = versions[v].covered[k]
    <3>1. PICK j \in 1..Len(talk) - versions[v].by.keep : talk[j] = versions[v].covered[k]
      BY DEF CompactionInv, StayBehind, StaysBehind
    <3>2. versions[v].by.keep \in Nat
      <4>1. versions \in Seq(Compactions)
        BY DEF CompactionInv, CompactionTyped
      <4>2. versions[v] \in Compactions
        BY <4>1, LenProperties, ElementOfSeq
      <4> QED
        BY <4>2, CompactionAssumption DEF Compactions
    <3> DEFINE kept == versions[v].by.keep
    <3>3. kept \in Nat /\ j \in 1..Len(talk) - kept
      BY <3>2
    <3> HIDE DEF kept
    <3>4. j \in 1..Len(talk) /\ j \in 1..(Len(talk) + 1) - kept
      BY <1>1, <3>3
    <3> QED
      BY <2>1, <3>1, <3>4 DEF kept
  <2> QED
    BY <1>1, <2>1, <2>2 DEF StayBehind, StaysBehind
<1> QED
  BY <1>2, <1>3

\* The steps that neither sum up nor load.
LEMMA Frames ==
    ASSUME CompactionInv, UNCHANGED versions, settings' \in Settings,
           talk' \in Seq(Nat) /\ Len(talk') \in Nat /\ Len(talk') >= Len(talk) /\ StayBehind',
           late' \in SUBSET (0..Len(talk')),
           reader' \in ReaderRows /\ reader'.opened = reader'.snapshot,
           \/ reader'.opened = {} /\ reading' \notin {"loaded", "working"}
           \/ reader'.opened = reader.opened
              /\ (reading' \in {"loaded", "working"} => reading \in {"loaded", "working"} /\ shown' = shown),
           shown' \in {shown, NothingShown}
    PROVE  CompactionInv'
<1>1. /\ versions \in Seq(Compactions) /\ Len(versions) \in Nat
      /\ reader \in ReaderRows /\ shown \in [view : Views, window : SUBSET Nat]
  BY DEF CompactionInv, CompactionTyped
<1>2. Views' = Views /\ \A v \in Views : Covered(v)' = Covered(v)
  BY DEF Views, Covered
<1>3. ReaderRows' = ReaderRows
  BY <1>2 DEF ReaderRows
<1>4. shown' \in [view : Views, window : SUBSET Nat]
  BY <1>1 DEF NothingShown, Views
<1>5. CompactionTyped'
  BY <1>1, <1>2, <1>3, <1>4 DEF CompactionTyped, Compactions
<1>6. OneView'
  BY <1>2 DEF CompactionInv, OneView
<1>7. ViewStands'
  BY <1>1, <1>2 DEF CompactionInv, ContextSound, ViewStands
<1>8. CoverageGrows'
  BY DEF CompactionInv, ContextSound, CoverageGrows, Covered
<1> QED
  BY <1>5, <1>6, <1>7, <1>8 DEF CompactionInv, ContextSound

\* What is summed up for the first time covers more than what was, and more of it.
LEMMA CompactStep == CompactionInv /\ Compact => CompactionInv'
<1> SUFFICES ASSUME CompactionInv, Compact PROVE CompactionInv'
  OBVIOUS
<1> DEFINE new == [covered |-> Older, by |-> settings]
<1> HIDE DEF new
<1>1. /\ versions \in Seq(Compactions) /\ Len(versions) \in Nat
      /\ talk \in Seq(Nat) /\ Len(talk) \in Nat
      /\ settings \in Settings /\ settings.keep \in Nat
      /\ reader \in ReaderRows
      /\ shown \in [view : Views, window : SUBSET Nat]
  BY CompactionAssumption DEF CompactionInv, CompactionTyped
<1>2. UNCHANGED <<settings, talk, late, readings, reader>> /\ reading' = "compacted"
  BY DEF Compact
<1>3. Due => /\ Older \in Seq(Nat)
             /\ Len(Older) = Len(talk) - settings.keep
             /\ \A i \in 1..Len(talk) - settings.keep : Older[i] = talk[i]
  <2> DEFINE end == Len(talk) - settings.keep
  <2>1. Due => end \in 1..Len(talk)
    BY <1>1 DEF Due
  <2> HIDE DEF end
  <2>2. Due => /\ SubSeq(talk, 1, end) \in Seq(Nat) /\ Len(SubSeq(talk, 1, end)) = end
               /\ \A i \in 1..end : SubSeq(talk, 1, end)[i] = talk[i]
    BY <1>1, <2>1, SubSeqProperties
  <2> QED
    BY <2>2 DEF end, Older
<1>4. /\ versions' \in Seq(Compactions)
      /\ Views \subseteq Views'
      /\ \A v \in Views : Covered(v)' = Covered(v)
      /\ \A v \in DOMAIN versions : versions'[v] = versions[v]
      /\ \/ versions' = versions
         \/ Due /\ Same = {} /\ versions' = Append(versions, new)
  <2>1. CASE Due /\ Same = {}
    <3>1. new \in Compactions /\ versions' = Append(versions, new)
      BY <1>1, <1>3, <2>1 DEF Compactions, Compact, new
    <3> QED
      BY <2>1, <3>1, CoveredKept DEF CompactionInv
  <2>2. CASE ~(Due /\ Same = {})
    <3>1. versions' = versions
      BY <2>2 DEF Compact
    <3>2. Views' = Views /\ \A v \in Views : Covered(v)' = Covered(v)
      BY <3>1 DEF Views, Covered
    <3>3. /\ versions' \in Seq(Compactions) /\ Views \subseteq Views'
          /\ \A v \in DOMAIN versions : versions'[v] = versions[v]
      BY <1>1, <3>1, <3>2
    <3>4. \A v \in Views : Covered(v)' = Covered(v)
      BY <3>2
    <3> QED
      BY <3>1, <3>3, <3>4
  <2> QED
    BY <2>1, <2>2
<1>5. Len(versions') \in Nat
  BY <1>4
<1>6. shown' \in [view : Views', window : SUBSET Nat]
  <2>1. shown' = [shown EXCEPT !.view = IF Due /\ Same # {} THEN Max(Same) ELSE Len(versions')]
    BY DEF Compact
  <2>2. Same \in SUBSET (1..Len(versions))
    BY <1>1 DEF Same
  <2>3. Same # {} => Max(Same) \in Views
    <3>1. Same # {} => Max(Same) \in Same
      BY <1>1, <2>2, NewestOne
    <3>2. \A v \in Same : v \in 0..Len(versions)
      BY <1>1, <2>2
    <3> QED
      BY <3>1, <3>2 DEF Views
  <2>4. Len(versions') \in Views'
    BY <1>5 DEF Views
  <2> QED
    BY <1>1, <1>4, <2>1, <2>3, <2>4
<1>7. CompactionTyped'
  <2>1. reader' \in ReaderRows'
    BY <1>1, <1>2, <1>4 DEF ReaderRows
  <2> QED
    BY <1>1, <1>2, <1>4, <1>6, <2>1 DEF CompactionInv, CompactionTyped, Compactions
<1>8. OneView'
  BY <1>2, <1>4 DEF CompactionInv, OneView
<1>9. ViewStands'
  BY <1>2 DEF ViewStands
<1>10. CASE versions' = versions
  <2>1. StayBehind'
    BY <1>2, <1>10 DEF CompactionInv, StayBehind, StaysBehind
  <2>2. CoverageGrows'
    BY <1>10 DEF CompactionInv, ContextSound, CoverageGrows, Covered
  <2> QED
    BY <1>7, <1>8, <1>9, <2>1, <2>2 DEF CompactionInv, ContextSound
<1>11. CASE Due /\ Same = {} /\ versions' = Append(versions, new)
  <2> DEFINE last == Len(versions) + 1
  <2>1. /\ DOMAIN versions = 1..Len(versions) /\ DOMAIN versions' = 1..last
        /\ last \notin DOMAIN versions /\ versions'[last] = new
        /\ \A v \in DOMAIN versions' : v \in DOMAIN versions \/ v = last
    BY <1>1, <1>4, <1>11
  <2>2. new.covered = Older /\ new.by = settings
    BY DEF new
  <2>3. StayBehind'
    <3>1. \A v \in DOMAIN versions : StaysBehind(v)'
      BY <1>2, <1>4 DEF CompactionInv, StayBehind, StaysBehind
    <3>2. \A k \in DOMAIN Older : \E j \in 1..Len(talk) - settings.keep : talk[j] = Older[k]
      BY <1>3, <1>11
    <3>3. ASSUME NEW v \in DOMAIN versions', v = last PROVE StaysBehind(v)'
      BY <1>2, <2>1, <2>2, <3>2, <3>3 DEF StaysBehind
    <3> QED
      BY <2>1, <3>1, <3>3 DEF StayBehind
  <2>4. CoverageGrows'
    <3> SUFFICES ASSUME NEW v \in DOMAIN versions', NEW w \in DOMAIN versions',
                        v < w, versions'[v].by = versions'[w].by
                 PROVE  ToSet(Covered(v)') \subseteq ToSet(Covered(w)') /\ Covered(v)' # Covered(w)'
      BY DEF CoverageGrows
    <3>1. v \in DOMAIN versions
      BY <1>1, <2>1
    <3>2. CASE w \in DOMAIN versions
      <4>1. versions[v].by = versions[w].by
        BY <1>4, <3>1, <3>2
      <4>2. ToSet(Covered(v)) \subseteq ToSet(Covered(w)) /\ Covered(v) # Covered(w)
        BY <3>1, <3>2, <4>1 DEF CompactionInv, ContextSound, CoverageGrows
      <4>3. v \in Views /\ w \in Views
        BY <1>1, <3>1, <3>2 DEF Views
      <4>4. Covered(v)' = Covered(v) /\ Covered(w)' = Covered(w)
        BY <1>4, <4>3
      <4> QED
        BY <4>2, <4>4
    <3>3. CASE w = last
      <4>1. versions[v].by = settings
        BY <1>4, <2>1, <2>2, <3>1, <3>3
      <4>2. Covered(v)' = versions[v].covered /\ Covered(w)' = Older
        <5>1. Covered(v)' = versions'[v].covered /\ Covered(w)' = versions'[w].covered
          BY <1>1, <2>1, <3>1, <3>3 DEF Covered
        <5> QED
          BY <1>4, <2>1, <2>2, <3>1, <3>3, <5>1
      <4>3. versions[v].covered # Older
        <5>1. versions[v] \in Compactions
          BY <1>1, <3>1, LenProperties, ElementOfSeq
        <5>2. versions[v] = [covered |-> versions[v].covered, by |-> versions[v].by]
          BY <5>1 DEF Compactions
        <5> QED
          BY <1>11, <3>1, <4>1, <5>2 DEF Same
      <4>4. ASSUME NEW k \in DOMAIN versions[v].covered
            PROVE  versions[v].covered[k] \in ToSet(Older)
        <5>1. PICK j \in 1..Len(talk) - settings.keep : talk[j] = versions[v].covered[k]
          BY <3>1, <4>1 DEF CompactionInv, StayBehind, StaysBehind
        <5>2. j \in DOMAIN Older /\ Older[j] = versions[v].covered[k]
          BY <1>3, <1>11, <5>1
        <5> QED
          BY <5>2 DEF ToSet
      <4> QED
        BY <4>2, <4>3, <4>4 DEF ToSet
    <3> QED
      BY <2>1, <3>2, <3>3
  <2> QED
    BY <1>7, <1>8, <1>9, <2>3, <2>4 DEF CompactionInv, ContextSound
<1> QED
  BY <1>4, <1>10, <1>11

LEMMA LoadStep == CompactionInv /\ LoadContext => CompactionInv'
<1> SUFFICES ASSUME CompactionInv, LoadContext PROVE CompactionInv'
  OBVIOUS
<1>1. /\ reader \in ReaderRows
      /\ shown \in [view : Views, window : SUBSET Nat]
      /\ talk \in Seq(Nat)
  BY DEF CompactionInv, CompactionTyped
<1>2. PICK view \in Frozen(shown.view) : shown' = [view |-> view, window |-> Window(view)]
  BY DEF LoadContext
<1>3. Frozen(shown.view) = {view} /\ view \in Views
  BY <1>1, <1>2 DEF Frozen, CompactionInv, OneView
<1>4. UNCHANGED <<settings, talk, late, versions, readings>>
  BY DEF LoadContext
<1>5. reader' = [reader EXCEPT !.snapshot = {view}, !.opened = {view}]
  BY <1>1, <1>3 DEF LoadContext, Frozen, CompactionInv, OneView
<1>6. Window(view) \subseteq Nat /\ ToSet(Covered(view)) \cap Window(view) = {}
  <2>1. \A i \in DOMAIN talk : talk[i] \in Nat
    BY <1>1, LenProperties, ElementOfSeq
  <2> QED
    BY <2>1 DEF Window
<1>7. CompactionTyped'
  <2>1. Views' = Views
    BY <1>4 DEF Views
  <2>2. reader' \in ReaderRows'
    BY <1>1, <1>3, <1>5, <2>1 DEF ReaderRows
  <2>3. shown' \in [view : Views', window : SUBSET Nat]
    BY <1>2, <1>3, <1>6, <2>1
  <2> QED
    BY <1>4, <2>2, <2>3 DEF CompactionInv, CompactionTyped, Compactions
<1>8. OneView'
  BY <1>1, <1>3, <1>4, <1>5 DEF OneView, Views
<1>9. ViewStands'
  BY <1>1, <1>2, <1>4, <1>5, <1>6 DEF ViewStands, Covered
<1>10. StayBehind' /\ CoverageGrows'
  BY <1>4 DEF CompactionInv, ContextSound, StayBehind, StaysBehind, CoverageGrows, Covered
<1> QED
  BY <1>7, <1>8, <1>9, <1>10 DEF CompactionInv, ContextSound

LEMMA ContextInit == CompactionInit => CompactionInv
<1> SUFFICES ASSUME CompactionInit PROVE CompactionInv
  OBVIOUS
<1>1. versions = <<>> /\ talk = <<>> /\ late = {} /\ reading = "none" /\ settings \in Settings
  BY DEF CompactionInit
<1>2. Views = {0}
  BY <1>1 DEF Views
<1>3. CompactionTyped /\ OneView
  BY <1>1, <1>2 DEF CompactionInit, CompactionTyped, OneView, ReaderRows, NoReader, NothingShown
<1> QED
  BY <1>1, <1>3 DEF CompactionInv, StayBehind, ContextSound, ViewStands, CoverageGrows

LEMMA UploadsKeepContext == CompactionInv /\ (StampUpload \/ CommitUpload) => CompactionInv'
<1> SUFFICES ASSUME CompactionInv, StampUpload \/ CommitUpload PROVE CompactionInv'
  OBVIOUS
<1>1. /\ talk \in Seq(Nat) /\ Len(talk) \in Nat /\ late \in SUBSET (0..Len(talk))
      /\ settings \in Settings
  BY DEF CompactionInv, CompactionTyped
<1>2. UNCHANGED <<settings, versions, readings, reader, reading, shown>>
  BY DEF StampUpload, CommitUpload
<1>3. /\ talk' \in Seq(Nat) /\ Len(talk') \in Nat /\ Len(talk') >= Len(talk) /\ StayBehind'
      /\ late' \in SUBSET (0..Len(talk'))
  <2>1. CASE StampUpload
    BY <1>1, <1>2, <2>1, TalkGoesOn DEF StampUpload
  <2>2. CASE CommitUpload
    <3> DEFINE more == <<NewMessage, NewMessage + 1>>
    <3>1. PICK at \in late :
             talk' = SubSeq(talk, 1, at) \o more \o SubSeq(talk, at + 1, Len(talk))
      BY <2>2 DEF CommitUpload
    <3>2. at \in 0..Len(talk) /\ more \in Seq(Nat) /\ Len(more) = 2
      BY <1>1, <3>1 DEF NewMessage
    <3> HIDE DEF more
    <3>3. talk' \in Seq(Nat) /\ Len(talk') = Len(talk) + Len(more) /\ StayBehind'
      BY <1>2, <3>1, <3>2, TalkGrows
    <3>4. late' = {}
      BY <2>2 DEF CommitUpload
    <3> QED
      BY <1>1, <3>2, <3>3, <3>4
  <2> QED
    BY <2>1, <2>2
<1>4. /\ versions \in Seq(Compactions)
      /\ reader \in ReaderRows
      /\ shown \in [view : Views, window : SUBSET Nat]
  BY DEF CompactionInv, CompactionTyped
<1>5. Views' = Views /\ \A v \in Views : Covered(v)' = Covered(v)
  BY <1>2 DEF Views, Covered
<1>6. CompactionTyped'
  BY <1>1, <1>2, <1>3, <1>4, <1>5 DEF CompactionTyped, Compactions, ReaderRows
<1>7. OneView'
  BY <1>2, <1>5 DEF CompactionInv, OneView
<1>8. ViewStands'
  BY <1>2, <1>4, <1>5 DEF CompactionInv, ContextSound, ViewStands
<1>9. CoverageGrows'
  BY <1>2 DEF CompactionInv, ContextSound, CoverageGrows, Covered
<1> QED
  BY <1>3, <1>6, <1>7, <1>8, <1>9 DEF CompactionInv, ContextSound

LEMMA ReaderSteps ==
    CompactionInv /\ (\/ StartReader \/ ResumeReader
                      \/ \E asks \in BOOLEAN : PlanReader(asks)
                      \/ \E answers \in BOOLEAN : EndReader(answers)
                      \/ \E s \in Settings : RestartReader(s))
        => CompactionInv'
<1> SUFFICES ASSUME CompactionInv,
                    \/ StartReader \/ ResumeReader
                    \/ \E asks \in BOOLEAN : PlanReader(asks)
                    \/ \E answers \in BOOLEAN : EndReader(answers)
                    \/ \E s \in Settings : RestartReader(s)
             PROVE  CompactionInv'
  OBVIOUS
<1>1. /\ talk \in Seq(Nat) /\ Len(talk) \in Nat /\ late \in SUBSET (0..Len(talk))
      /\ settings \in Settings /\ reader \in ReaderRows /\ reader.opened = reader.snapshot
  BY DEF CompactionInv, CompactionTyped, OneView
<1>2. NoReader \in ReaderRows /\ NoReader.opened = {} /\ NoReader.snapshot = {}
  BY DEF NoReader, ReaderRows
<1>3. ASSUME NEW s \in {"planning", "waiting_user", "running", "paused"}
      PROVE  /\ [reader EXCEPT !.status = s] \in ReaderRows
             /\ [reader EXCEPT !.status = s].opened = reader.opened
             /\ [reader EXCEPT !.status = s].snapshot = reader.snapshot
             /\ [NoReader EXCEPT !.status = s] \in ReaderRows
             /\ [NoReader EXCEPT !.status = s].opened = {}
             /\ [NoReader EXCEPT !.status = s].snapshot = {}
  BY <1>1, <1>2 DEF ReaderRows, NoReader
<1> DEFINE TalkOn == talk' = talk \/ talk' = Append(talk, NewMessage)
           ReaderOn == /\ reader' \in ReaderRows /\ reader'.opened = reader'.snapshot
                       /\ \/ reader'.opened = {} /\ reading' \notin {"loaded", "working"}
                          \/ reader'.opened = reader.opened
                             /\ (reading' \in {"loaded", "working"} => reading = "loaded" /\ shown' = shown)
                       /\ shown' \in {shown, NothingShown}
           Rest == /\ UNCHANGED versions /\ settings' \in Settings /\ late' \in {late, {}}
<1>4. Rest /\ TalkOn /\ ReaderOn
  <2>1. CASE StartReader
    BY <1>1, <1>3, <2>1 DEF StartReader
  <2>2. CASE ResumeReader
    BY <1>1, <1>3, <2>2 DEF ResumeReader
  <2>3. ASSUME NEW asks \in BOOLEAN, PlanReader(asks) PROVE Rest /\ TalkOn /\ ReaderOn
    BY <1>1, <1>3, <2>3 DEF PlanReader
  <2>4. ASSUME NEW answers \in BOOLEAN, EndReader(answers) PROVE Rest /\ TalkOn /\ ReaderOn
    BY <1>1, <1>2, <2>4 DEF EndReader
  <2>5. ASSUME NEW s \in Settings, RestartReader(s) PROVE Rest /\ TalkOn /\ ReaderOn
    <3>1. Rest /\ TalkOn /\ reading' = "none" /\ shown' = NothingShown
      BY <2>5 DEF RestartReader
    <3>2. reader' = NoReader \/ reader' = [reader EXCEPT !.status = "paused"] \/ reader' = reader
      BY <2>5 DEF RestartReader
    <3> QED
      BY <1>1, <1>2, <1>3, <3>1, <3>2
  <2> QED
    BY <2>1, <2>2, <2>3, <2>4, <2>5
<1>5. talk' \in Seq(Nat) /\ Len(talk') \in Nat /\ Len(talk') >= Len(talk) /\ StayBehind'
  BY <1>4, TalkGoesOn
<1>6. late' \in SUBSET (0..Len(talk'))
  BY <1>1, <1>4, <1>5
<1> QED
  BY <1>4, <1>5, <1>6, Frames
-----------------------------------------------------------------------------
(* For any settings, whenever uploads come and processes start: all hosts of *)
(* a run see the conversation through the compaction its first host saw      *)
(* (create_snapshot keeps the first), no message is shown twice, and no      *)
(* later compaction of the same settings loses what an earlier one covers    *)
(* (CompactionStore.compact_if_needed).                                      *)
THEOREM ViewsStand == CompactionSpec => []CompactionInv
<1>1. CompactionInit => CompactionInv
  BY ContextInit
<1>2. CompactionInv /\ [CompactionNext]_compactionVars => CompactionInv'
  <2> SUFFICES ASSUME CompactionInv, [CompactionNext]_compactionVars PROVE CompactionInv'
    OBVIOUS
  <2>1. CASE CompactionNext
    BY <2>1, UploadsKeepContext, ReaderSteps, CompactStep, LoadStep DEF CompactionNext
  <2>2. CASE UNCHANGED compactionVars
    <3>1. /\ UNCHANGED <<settings, talk, late, versions, reader, reading, shown>>
      BY <2>2 DEF compactionVars
    <3>2. /\ settings \in Settings /\ late \in SUBSET (0..Len(talk)) /\ reader \in ReaderRows
          /\ reader.opened = reader.snapshot
      BY DEF CompactionInv, CompactionTyped, OneView
    <3>3. talk' \in Seq(Nat) /\ Len(talk') \in Nat /\ Len(talk') >= Len(talk) /\ StayBehind'
      BY <3>1, TalkGoesOn
    <3>4. /\ settings' \in Settings /\ late' \in SUBSET (0..Len(talk')) /\ reader' \in ReaderRows
          /\ reader'.opened = reader'.snapshot /\ reader'.opened = reader.opened
          /\ shown' \in {shown, NothingShown}
          /\ reading' \in {"loaded", "working"} => reading \in {"loaded", "working"} /\ shown' = shown
      BY <3>1, <3>2
    <3> QED
      BY <3>1, <3>3, <3>4, Frames
  <2> QED
    BY <2>1, <2>2
<1> QED
  BY <1>1, <1>2, PTL DEF CompactionSpec

(* So a run works on what it was asked of, in the words of its whole         *)
(* conversation: what its words refer to stands (ReferenceResolver), and so  *)
(* does the view it is shown (agent_loop._history_messages).                 *)
THEOREM ContextsKept == ReferencesSpec /\ CompactionSpec => []ContextKept
<1>1. CompactionInv => ContextSound
  BY DEF CompactionInv
<1> QED
  BY <1>1, ViewsStand, WordsKeepTheirMeaning, PTL DEF ContextKept
=============================================================================
