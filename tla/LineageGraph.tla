---------------------------- MODULE LineageGraph ----------------------------
(* Where a figure comes from: the rows that LineageStore assembles its graph *)
(* from (packages/session/lineage.py), the transactions that write and       *)
(* delete them, and the triggers that keep a data set's descent when its row *)
(* goes (migrations/v6.py and v11.py).  The readiness probe refuses a        *)
(* database whose rows contradict each other.                                *)
EXTENDS Naturals, Sequences

CONSTANTS
    Projects,
    Chats,         \* conversations; a run is known by its conversation, which has one
    Tables,        \* references of data sets: a fresh uuid each
    Invocations,   \* tool_invocations, each with its evidence and its artifact
    Names,         \* file names
    NoRef          \* SQL's NULL, and the row that is not there

ASSUME GraphAssumption ==
    /\ NoRef \notin Projects \cup Chats \cup Tables \cup Invocations
    /\ Tables \cap Invocations = {}

VARIABLES
    home,      \* conversations: the project of each, while it is there
    stored,    \* datasets
    anchors,   \* dataset_lineage_anchors
    edges,     \* dataset_lineage_edges
    born,      \* created_at of every reference ever given out; 0: not yet
    clock,
    invoked,   \* tool_invocations; evidence: those that succeeded
    pieces,    \* artifacts, by the call that made it, or the data set it profiles
    claimed    \* claim_evidence, by run

lineageVars == <<home, stored, anchors, edges, born, clock, invoked, pieces, claimed>>
-----------------------------------------------------------------------------
DatasetRow == [project : Projects, name : Names, parent : Tables \cup {NoRef},
               lineage : Tables \cup {NoRef}]
Anchor == [project : Projects, name : Names, parent : Tables \cup {NoRef}, deleted : BOOLEAN]
Edge == [child : Tables, parent : Tables, ordinal : Nat]
CallStatus == {"running", "succeeded", "failed", "unknown"}
CallRow == [chat : Chats, reads : SUBSET Tables, status : CallStatus]
Piece == [chat : Chats, dataset : Tables \cup {NoRef}, lineage : Tables \cup {NoRef}]

ASSUME RowAssumption == NoRef \notin DatasetRow \cup Anchor \cup CallRow \cup Piece

LineageTypeOK ==
    /\ home \in [Chats -> Projects \cup {NoRef}]
    /\ stored \in [Tables -> DatasetRow \cup {NoRef}]
    /\ anchors \in [Tables -> Anchor \cup {NoRef}]
    /\ edges \subseteq Edge
    /\ born \in [Tables -> Nat] /\ clock \in Nat
    /\ invoked \in [Invocations -> CallRow \cup {NoRef}]
    /\ pieces \in [Invocations \cup Tables -> Piece \cup {NoRef}]
    /\ claimed \in [Chats -> SUBSET SUBSET Invocations]

LineageInit ==
    /\ home \in [Chats -> Projects \cup {NoRef}]
    /\ stored = [t \in Tables |-> NoRef] /\ anchors = [t \in Tables |-> NoRef]
    /\ edges = {}
    /\ born = [t \in Tables |-> 0] /\ clock = 0
    /\ invoked = [i \in Invocations |-> NoRef]
    /\ pieces = [a \in Invocations \cup Tables |-> NoRef]
    /\ claimed = [c \in Chats |-> {}]

Listed(p) == {t \in Tables : stored[t] # NoRef /\ stored[t].project = p}
Anchored(p) == {t \in Tables : anchors[t] # NoRef /\ anchors[t].project = p}
Open(i) == invoked[i] # NoRef /\ invoked[i].status = "running"
EvidenceOf(c) == {i \in Invocations : invoked[i] # NoRef /\ invoked[i].chat = c
                                                    /\ invoked[i].status = "succeeded"}
-----------------------------------------------------------------------------
(* The parents of register_dataset: read before the insert, which a deletion *)
(* can come in between.  The foreign key of the row asks for the first again,*)
(* the trigger of the edges for the anchors of the others.                   *)
ParentsFit(p, parents) ==
    /\ \A j, k \in DOMAIN parents : parents[j] = parents[k] => j = k
    /\ \A k \in DOMAIN parents :
          parents[k] \in (IF k = 1 THEN Listed(p) ELSE Anchored(p))

(* INSERT INTO datasets, with what its triggers add: the anchor, and the edge*)
(* to the first parent.                                                      *)
Register(t, p, n, parents) ==
    LET first == IF parents = <<>> THEN NoRef ELSE Head(parents)
    IN /\ born[t] = 0
       /\ ParentsFit(p, parents)
       /\ born' = [born EXCEPT ![t] = clock + 1]
       /\ clock' = clock + 1
       /\ stored' = [stored EXCEPT
             ![t] = [project |-> p, name |-> n, parent |-> first, lineage |-> first]]
       /\ anchors' = [anchors EXCEPT
             ![t] = [project |-> p, name |-> n, parent |-> first, deleted |-> FALSE]]
       /\ edges' = edges \cup {[child |-> t, parent |-> parents[k], ordinal |-> k - 1] :
                                  k \in DOMAIN parents}

\* record_profile_upload: the data set and the artifact of its profile
UploadTable(c, t, n) ==
    /\ home[c] # NoRef
    /\ Register(t, home[c], n, <<>>)
    /\ pieces' = [pieces EXCEPT ![t] = [chat |-> c, dataset |-> t, lineage |-> t]]
    /\ UNCHANGED <<home, invoked, claimed>>

(* The row of a call, or of one that is refused, keeps whatever references   *)
(* the model wrote in its arguments.                                         *)
RecordCall(i, c, reads, status) ==
    /\ home[c] # NoRef /\ invoked[i] = NoRef
    /\ invoked' = [invoked EXCEPT ![i] = [chat |-> c, reads |-> reads, status |-> status]]
    /\ UNCHANGED <<home, stored, anchors, edges, born, clock, pieces, claimed>>

\* A transformation or a join registers what it made, before it is committed.
Derive(i, t, n, parents) ==
    /\ Open(i)
    /\ \A k \in DOMAIN parents : parents[k] \in invoked[i].reads
    /\ parents # <<>>
    /\ Register(t, home[invoked[i].chat], n, parents)
    /\ UNCHANGED <<home, invoked, pieces, claimed>>

(* commit_tool_success: an artifact about a data set that is not the         *)
(* project's is about none.                                                  *)
Produce(i, about, made) ==
    LET c == invoked[i].chat
        d == IF about \in Listed(home[c]) THEN about ELSE NoRef
    IN /\ Open(i)
       /\ invoked' = [invoked EXCEPT ![i].status = "succeeded"]
       /\ pieces' = IF made
                       THEN [pieces EXCEPT ![i] = [chat |-> c, dataset |-> d, lineage |-> d]]
                       ELSE pieces
       /\ UNCHANGED <<home, stored, anchors, edges, born, clock, claimed>>

CloseCall(i, status) ==
    /\ Open(i)
    /\ invoked' = [invoked EXCEPT ![i].status = status]
    /\ UNCHANGED <<home, stored, anchors, edges, born, clock, pieces, claimed>>

\* replace_claims: all the claims of the run, from evidence of the run only
ReplaceClaims(c, drafts) ==
    /\ home[c] # NoRef
    /\ \A draft \in drafts : draft \subseteq EvidenceOf(c)
    /\ claimed' = [claimed EXCEPT ![c] = drafts]
    /\ UNCHANGED <<home, stored, anchors, edges, born, clock, invoked, pieces>>
-----------------------------------------------------------------------------
\* The anchor follows the row's name while there is a row.
Rename(t, n) ==
    /\ stored[t] # NoRef
    /\ stored' = [stored EXCEPT ![t].name = n]
    /\ anchors' = [anchors EXCEPT ![t].name = n]
    /\ UNCHANGED <<home, edges, born, clock, invoked, pieces, claimed>>

\* ON DELETE SET NULL of datasets.parent_ref and artifacts.dataset_ref
WithoutRows(gone) ==
    [t \in Tables |->
        IF t \in gone \/ stored[t] = NoRef THEN NoRef
        ELSE IF stored[t].parent \in gone THEN [stored[t] EXCEPT !.parent = NoRef]
        ELSE stored[t]]

WithoutUse(gone, closed) ==
    [a \in Invocations \cup Tables |->
        IF pieces[a] = NoRef THEN NoRef
        ELSE IF pieces[a].chat \in closed THEN NoRef
        ELSE IF pieces[a].dataset \in gone THEN [pieces[a] EXCEPT !.dataset = NoRef]
        ELSE pieces[a]]

\* Mutant: the descent of a data set goes with its row.
ForgetTable(t) ==
    /\ stored[t] # NoRef
    /\ stored' = WithoutRows({t})
    /\ anchors' = [anchors EXCEPT ![t] = [@ EXCEPT !.deleted = TRUE]]
    /\ edges' = {e \in edges : e.child # t /\ e.parent # t}
    /\ pieces' = WithoutUse({t}, {})
    /\ UNCHANGED <<home, born, clock, invoked, claimed>>

(* delete_dataset: the trigger marks the anchor, which stays, as do its      *)
(* edges and what artifacts remember of it.                                  *)
DeleteTable(t) ==
    /\ stored[t] # NoRef
    /\ stored' = WithoutRows({t})
    /\ anchors' = [anchors EXCEPT ![t] = [@ EXCEPT !.deleted = TRUE]]
    /\ pieces' = WithoutUse({t}, {})
    /\ UNCHANGED <<home, edges, born, clock, invoked, claimed>>

\* What goes with a conversation: its run with all its rows, and its artifacts
CloseChats(closed) ==
    /\ home' = [c \in Chats |-> IF c \in closed THEN NoRef ELSE home[c]]
    /\ invoked' = [i \in Invocations |->
          IF invoked[i] # NoRef /\ invoked[i].chat \in closed THEN NoRef ELSE invoked[i]]
    /\ claimed' = [c \in Chats |-> IF c \in closed THEN {} ELSE claimed[c]]

CloseChat(c) ==
    /\ home[c] # NoRef
    /\ CloseChats({c})
    /\ pieces' = WithoutUse({}, {c})
    /\ UNCHANGED <<stored, anchors, edges, born, clock>>

(* delete_project: the runs first, then everything that cascades from the    *)
(* project, the anchors included.                                            *)
CloseProject(p) ==
    LET closed == {c \in Chats : home[c] = p}
        gone == Anchored(p)
    IN /\ CloseChats(closed)
       /\ stored' = WithoutRows(Listed(p))
       /\ anchors' = [t \in Tables |-> IF t \in gone THEN NoRef ELSE anchors[t]]
       /\ edges' = {e \in edges : e.child \notin gone /\ e.parent \notin gone}
       /\ pieces' = WithoutUse(Listed(p), closed)
       /\ UNCHANGED <<born, clock>>

Descents == {<<t>> : t \in Tables} \cup {<<t, u>> : t, u \in Tables}

LineageNext ==
    \/ \E c \in Chats :
          \/ CloseChat(c)
          \/ \E t \in Tables, n \in Names : UploadTable(c, t, n)
          \/ \E i \in Invocations, reads \in SUBSET Tables, status \in {"running", "failed"} :
                RecordCall(i, c, reads, status)
          \/ \E drafts \in SUBSET (SUBSET Invocations \ {{}}) : ReplaceClaims(c, drafts)
    \/ \E i \in Invocations :
          \/ \E t \in Tables, n \in Names, parents \in Descents : Derive(i, t, n, parents)
          \/ \E about \in Tables \cup {NoRef}, made \in BOOLEAN : Produce(i, about, made)
          \/ \E status \in {"failed", "unknown"} : CloseCall(i, status)
    \/ \E t \in Tables : DeleteTable(t) \/ \E n \in Names : Rename(t, n)
    \/ \E p \in Projects : CloseProject(p)

LineageSpec == LineageInit /\ [][LineageNext]_lineageVars
-----------------------------------------------------------------------------
(* build_graph: what a project, or one of its conversations, shows.          *)
Scope(p, c) == {d \in Chats : home[d] = p /\ c \in {d, NoRef}}
CallsIn(scope) == {i \in Invocations : invoked[i] # NoRef /\ invoked[i].chat \in scope}
PiecesIn(scope) == {a \in DOMAIN pieces : pieces[a] # NoRef /\ pieces[a].chat \in scope}
Referred(scope) ==
    ({pieces[a].lineage : a \in PiecesIn(scope)} \ {NoRef})
        \cup UNION {invoked[i].reads : i \in CallsIn(scope)}

Parents(p, t) == IF t \in Anchored(p) THEN {e.parent : e \in {f \in edges : f.child = t}} ELSE {}

\* Mutant: the parents of what the conversation names are not followed.
NamedOnly(p, start) == start

\* The frontier of the loop: everything the start descends from.
AncestryOf(p, start) ==
    {t \in Tables : \A T \in SUBSET Tables :
        start \subseteq T /\ (\A u \in T : Parents(p, u) \subseteq T) => t \in T}

Visible(p, c) == IF c = NoRef THEN Anchored(p) ELSE AncestryOf(p, Referred(Scope(p, c)))

OwnTables(p, c) == Visible(p, c) \cap Anchored(p)
TablesShown(p, c) ==
    OwnTables(p, c) \cup (UNION {Parents(p, t) : t \in OwnTables(p, c)})
        \cup Referred(Scope(p, c))

GraphNodes(p, c) ==
    LET scope == Scope(p, c)
    IN ({"dataset"} \X TablesShown(p, c)) \cup ({"analysis"} \X CallsIn(scope))
           \cup ({"artifact"} \X PiecesIn(scope))
           \cup ({"evidence"} \X UNION {EvidenceOf(d) : d \in scope})
           \cup UNION {{<<"claim", d, k>> : k \in claimed[d]} : d \in scope}

DescentEdges(p, c) ==
    UNION {{<<<<"dataset", u>>, <<"dataset", t>>>> : u \in Parents(p, t)} : t \in OwnTables(p, c)}
Used(scope, i) ==
    invoked[i].reads \cup (IF i \in PiecesIn(scope) THEN {pieces[i].lineage} \ {NoRef} ELSE {})
InputEdges(scope) ==
    UNION {{<<<<"dataset", t>>, <<"analysis", i>>>> : t \in Used(scope, i)} : i \in CallsIn(scope)}
OutputEdges(scope) ==
    {<<<<"analysis", i>>, <<"artifact", i>>>> : i \in CallsIn(scope) \cap PiecesIn(scope)}
ProfileEdges(scope) ==
    {<<<<"dataset", pieces[a].lineage>>, <<"artifact", a>>>> :
        a \in {b \in PiecesIn(scope) \ CallsIn(scope) : pieces[b].lineage # NoRef}}
SourceOf(scope, i) == IF i \in PiecesIn(scope) THEN "artifact" ELSE "analysis"
EvidenceEdges(scope) ==
    UNION {{<<<<SourceOf(scope, i), i>>, <<"evidence", i>>>> : i \in EvidenceOf(d)} : d \in scope}
ClaimEdges(d) ==
    UNION {{<<<<"evidence", i>>, <<"claim", d, k>>>> : i \in k} : k \in claimed[d]}

GraphEdges(p, c) ==
    LET scope == Scope(p, c)
    IN DescentEdges(p, c) \cup InputEdges(scope) \cup OutputEdges(scope)
           \cup ProfileEdges(scope) \cup EvidenceEdges(scope)
           \cup UNION {ClaimEdges(d) : d \in scope}
-----------------------------------------------------------------------------
ClaimsAtHome == \A c \in Chats : \A claim \in claimed[c] : claim \subseteq EvidenceOf(c)
CallsAtHome ==
    \A i \in Invocations :
        pieces[i] # NoRef => invoked[i] # NoRef /\ invoked[i].chat = pieces[i].chat
PiecesAtHome ==
    \A a \in Invocations \cup Tables :
        pieces[a] # NoRef /\ pieces[a].lineage # NoRef
            => pieces[a].lineage \in Anchored(home[pieces[a].chat])
EdgesAtHome == \A e \in edges : \E p \in Projects : {e.child, e.parent} \subseteq Anchored(p)

\* What a row, an artifact and an edge say is what the anchor says.
RowsMatch ==
    \A t \in Tables : stored[t] # NoRef =>
        /\ anchors[t] # NoRef /\ ~anchors[t].deleted
        /\ stored[t].project = anchors[t].project /\ stored[t].name = anchors[t].name
        /\ stored[t].lineage = anchors[t].parent
PiecesMatch ==
    \A a \in Invocations \cup Tables :
        pieces[a] # NoRef => pieces[a].dataset \in {pieces[a].lineage, NoRef}
EdgesMatch ==
    \A t \in Tables : anchors[t] # NoRef =>
        {e.parent : e \in {f \in edges : f.child = t /\ f.ordinal = 0}}
            = {anchors[t].parent} \ {NoRef}

\* No data set descends from itself: among any, one has none of them for parent.
NoCycle ==
    \A T \in SUBSET Tables : T # {} =>
        \E t \in T : \A e \in edges : e.child = t => e.parent \notin T

(* _integrity_issues finds nothing, whatever is renamed and deleted in       *)
(* whatever order: a database that became degraded would keep the service    *)
(* from becoming ready (readiness_status, store.py:222).                     *)
LineageWhole ==
    /\ ClaimsAtHome /\ CallsAtHome /\ PiecesAtHome /\ EdgesAtHome
    /\ RowsMatch /\ PiecesMatch /\ EdgesMatch
    /\ NoCycle

(* What a claim says can be followed back to the data: the evidence it names,*)
(* the call and the artifact behind it, the data sets it read and all those  *)
(* they descend from, the deleted ones too.  No edge leads out of the graph. *)
Traced ==
    \A p \in Projects, c \in Chats \cup {NoRef} :
        /\ \A e \in GraphEdges(p, c) : e[1] \in GraphNodes(p, c) /\ e[2] \in GraphNodes(p, c)
        /\ \A t \in TablesShown(p, c) : \A u \in Parents(p, t) :
              <<<<"dataset", u>>, <<"dataset", t>>>> \in GraphEdges(p, c)
        /\ \A d \in Scope(p, c) : \A k \in claimed[d] : \A i \in k :
              LET E == GraphEdges(p, c)
              IN /\ <<<<"evidence", i>>, <<"claim", d, k>>>> \in E
                 /\ \/ <<<<"analysis", i>>, <<"evidence", i>>>> \in E
                    \/ /\ <<<<"analysis", i>>, <<"artifact", i>>>> \in E
                       /\ <<<<"artifact", i>>, <<"evidence", i>>>> \in E
                 /\ \A t \in invoked[i].reads : <<<<"dataset", t>>, <<"analysis", i>>>> \in E

(* The rows bear out every figure that is shown.                             *)
Traceable == LineageWhole /\ Traced

SameDescent ==
    \A t \in Tables : anchors[t] # NoRef /\ anchors'[t] # NoRef =>
        /\ anchors'[t].parent = anchors[t].parent
        /\ {e \in edges' : e.child = t} = {e \in edges : e.child = t}
        /\ anchors[t].deleted => anchors'[t] = anchors[t]

(* Descent is for good: it changes only by the deletion of the project.      *)
DescentKept == [][SameDescent]_lineageVars
=============================================================================
