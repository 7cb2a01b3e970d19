---------------------------- MODULE LineageProofs ----------------------------
(* The rows that lineage is read from contradict each other at no time       *)
(* (LineageWhole of LineageGraph.tla), and descent is for good               *)
(* (DescentKept), for any number of projects, conversations, data sets and   *)
(* calls.                                                                    *)
EXTENDS LineageGraph, SequenceTheorems, WellFoundedInduction, TLAPS

\* A call is of a conversation that is there.
Housed == \A i \in Invocations : invoked[i] # NoRef => home[invoked[i].chat] \in Projects

(* Only a reference that was given out has an anchor, and a parent was given *)
(* out before its child: descent follows created_at.                         *)
Dated ==
    /\ \A t \in Tables : anchors[t] # NoRef => born[t] \in 1..clock
    /\ \A t \in Tables : born[t] <= clock
    /\ \A e \in edges : born[e.parent] < born[e.child]

LineageInv ==
    /\ LineageTypeOK
    /\ ClaimsAtHome /\ CallsAtHome /\ PiecesAtHome /\ EdgesAtHome
    /\ RowsMatch /\ PiecesMatch /\ EdgesMatch
    /\ Housed
    /\ Dated
-----------------------------------------------------------------------------
(* Among finitely or infinitely many data sets, one was given out first.     *)
LEMMA DatedNoCycle == ASSUME LineageTypeOK, Dated PROVE NoCycle
<1> SUFFICES ASSUME NEW T \in SUBSET Tables, T # {}
             PROVE  \E t \in T : \A e \in edges : e.child = t => e.parent \notin T
  BY DEF NoCycle
<1> DEFINE dates == {born[t] : t \in T}
<1>1. dates \subseteq Nat /\ dates # {}
  BY DEF LineageTypeOK
<1> HIDE DEF dates
<1>2. PICK x \in dates : \A y \in dates : ~(<<y, x>> \in OpToRel(<, Nat))
  BY <1>1, WFMin, NatLessThanWellFounded
<1>3. \A y \in dates : ~(y < x)
  BY <1>1, <1>2 DEF OpToRel
<1>4. PICK t \in T : born[t] = x
  BY <1>2 DEF dates
<1>5. \A u \in T : ~(born[u] < born[t])
  BY <1>3, <1>4 DEF dates
<1>6. QED
  BY <1>4, <1>5 DEF Dated

(* The row of a new data set, with what its triggers add.                    *)
LEMMA RegisterFacts ==
    ASSUME LineageInv, NEW t \in Tables, NEW p \in Projects, NEW n \in Names,
           NEW parents \in Seq(Tables), Register(t, p, n, parents)
    PROVE  /\ stored' \in [Tables -> DatasetRow \cup {NoRef}]
           /\ anchors' \in [Tables -> Anchor \cup {NoRef}]
           /\ edges' \subseteq Edge
           /\ born' \in [Tables -> Nat] /\ clock' \in Nat
           /\ RowsMatch' /\ EdgesMatch' /\ EdgesAtHome' /\ Dated'
           /\ SameDescent
           /\ Anchored(p)' = Anchored(p) \cup {t}
           /\ \A q \in Projects \ {p} : Anchored(q)' = Anchored(q)
<1> USE DEF LineageInv
<1> DEFINE first == IF parents = <<>> THEN NoRef ELSE Head(parents)
           row == [project |-> p, name |-> n, parent |-> first, lineage |-> first]
           anchor == [project |-> p, name |-> n, parent |-> first, deleted |-> FALSE]
           new == {[child |-> t, parent |-> parents[k], ordinal |-> k - 1] : k \in DOMAIN parents}
<1>1. /\ born[t] = 0 /\ ParentsFit(p, parents)
      /\ born' = [born EXCEPT ![t] = clock + 1] /\ clock' = clock + 1
      /\ stored' = [stored EXCEPT ![t] = row]
      /\ anchors' = [anchors EXCEPT ![t] = anchor]
      /\ edges' = edges \cup new
  BY DEF Register
<1>2. /\ first \in Tables \cup {NoRef}
      /\ parents # <<>> => 1 \in DOMAIN parents /\ first = parents[1]
  <2>1. CASE parents = <<>>
    BY <2>1
  <2>2. CASE parents # <<>>
    <3>1. Len(parents) \in Nat \ {0} /\ DOMAIN parents = 1..Len(parents) /\ Head(parents) = parents[1]
      BY <2>2, EmptySeq
    <3>2. QED
      BY <2>2, <3>1
  <2>3. QED
    BY <2>1, <2>2
<1> HIDE DEF first
<1>3. row \in DatasetRow /\ anchor \in Anchor /\ row # NoRef /\ anchor # NoRef
  <2>1. row \in DatasetRow
    BY <1>2 DEF DatasetRow
  <2>2. anchor \in Anchor
    BY <1>2 DEF Anchor
  <2>3. QED
    BY <2>1, <2>2, RowAssumption
<1>4. /\ row.project = p /\ row.name = n /\ row.lineage = first
      /\ anchor.project = p /\ anchor.name = n /\ anchor.parent = first /\ ~anchor.deleted
  OBVIOUS
<1> HIDE DEF row, anchor
<1>5. \A k \in DOMAIN parents : parents[k] \in Tables /\ k \in Nat \ {0} /\ parents[k] \in Anchored(p)
  <2>1. \A u \in Listed(p) : u \in Anchored(p)
    BY DEF Listed, Anchored, RowsMatch
  <2>2. QED
    BY <1>1, <2>1 DEF ParentsFit, Listed, Anchored
<1>6. \A e \in new : /\ e \in Edge /\ e.child = t /\ e.parent \in Anchored(p)
                     /\ e.ordinal = 0 => e.parent = first
  BY <1>2, <1>5 DEF Edge
<1>7. (first # NoRef) <=> \E e \in new : e.ordinal = 0 /\ e.parent = first
  <2>1. CASE first = NoRef
    BY <1>6, <2>1, GraphAssumption DEF Anchored
  <2>2. CASE first # NoRef
    <3>1. parents # <<>>
      BY <2>2 DEF first
    <3> DEFINE e == [child |-> t, parent |-> parents[1], ordinal |-> 1 - 1]
    <3>2. e \in new
      BY <1>2, <3>1
    <3>3. e.ordinal = 0 /\ e.parent = first
      BY <1>2, <3>1
    <3>4. QED
      BY <2>2, <3>2, <3>3
  <2>3. QED
    BY <2>1, <2>2
<1> HIDE DEF new
<1>8. anchors[t] = NoRef /\ stored[t] = NoRef /\ \A e \in edges : e.child # t /\ e.parent # t
  BY <1>1 DEF Dated, RowsMatch, EdgesAtHome, Anchored, LineageTypeOK
<1>9. /\ stored' \in [Tables -> DatasetRow \cup {NoRef}] /\ anchors' \in [Tables -> Anchor \cup {NoRef}]
      /\ stored'[t] = row /\ anchors'[t] = anchor
      /\ \A u \in Tables \ {t} : stored'[u] = stored[u] /\ anchors'[u] = anchors[u]
  BY <1>1, <1>3 DEF LineageTypeOK
<1>10. edges' \subseteq Edge /\ born' \in [Tables -> Nat] /\ clock' \in Nat
  BY <1>1, <1>6 DEF LineageTypeOK
<1>11. Anchored(p)' = Anchored(p) \cup {t} /\ \A q \in Projects \ {p} : Anchored(q)' = Anchored(q)
  BY <1>3, <1>4, <1>8, <1>9 DEF Anchored
<1>12. EdgesAtHome'
  <2>1. \A q \in Projects : Anchored(q) \subseteq Anchored(q)'
    BY <1>11
  <2>2. \A e \in edges : \E q \in Projects : {e.child, e.parent} \subseteq Anchored(q)
    BY DEF EdgesAtHome
  <2>3. QED
    BY <1>1, <1>6, <1>11, <2>1, <2>2 DEF EdgesAtHome
<1>13. Dated'
  <2>1. born'[t] = clock + 1 /\ \A u \in Tables \ {t} : born'[u] = born[u]
    BY <1>1 DEF LineageTypeOK
  <2>2. clock \in Nat /\ \A u \in Tables : born[u] \in Nat /\ born[u] <= clock
    BY DEF LineageTypeOK, Dated
  <2>3. \A u \in Tables : born'[u] <= clock'
    BY <1>1, <2>1, <2>2
  <2>4. \A u \in Tables : anchors'[u] # NoRef => born'[u] \in 1..clock'
    BY <1>1, <1>9, <2>1, <2>2 DEF Dated
  <2>5. \A e \in edges' : born'[e.parent] < born'[e.child]
    <3>1. \A e \in edges : born'[e.parent] < born'[e.child]
      BY <1>8, <2>1 DEF Dated, LineageTypeOK, Edge
    <3>2. \A e \in new : born'[e.parent] < born'[e.child]
      <4>1. \A e \in new : e.parent \in Tables /\ e.parent # t
        BY <1>6, <1>8 DEF Anchored
      <4>2. QED
        BY <1>6, <2>1, <2>2, <4>1
    <3>3. QED
      BY <1>1, <3>1, <3>2
  <2>6. QED
    BY <2>3, <2>4, <2>5 DEF Dated
<1>14. \A u \in Tables \ {t} : {e \in edges' : e.child = u} = {e \in edges : e.child = u}
  BY <1>1, <1>6
<1>15. SameDescent
  BY <1>8, <1>9, <1>14 DEF SameDescent
<1>16. RowsMatch'
  BY <1>3, <1>4, <1>9 DEF RowsMatch
<1>17. EdgesMatch'
  <2>1. ASSUME NEW u \in Tables, anchors'[u] # NoRef
        PROVE  {e.parent : e \in {f \in edges' : f.child = u /\ f.ordinal = 0}}
                   = {anchors'[u].parent} \ {NoRef}
    <3>1. CASE u # t
      <4>1. {f \in edges' : f.child = u /\ f.ordinal = 0} = {f \in edges : f.child = u /\ f.ordinal = 0}
        BY <1>1, <1>6, <3>1
      <4>2. QED
        BY <1>9, <2>1, <3>1, <4>1 DEF EdgesMatch
    <3>2. CASE u = t
      <4>1. {f \in edges' : f.child = t /\ f.ordinal = 0} = {f \in new : f.ordinal = 0}
        BY <1>1, <1>6, <1>8
      <4>2. {e.parent : e \in {f \in new : f.ordinal = 0}} = {first} \ {NoRef}
        <5>1. ASSUME NEW e \in new, e.ordinal = 0 PROVE e.parent = first /\ first # NoRef
          BY <1>6, <1>7, <5>1
        <5>2. QED
          BY <1>7, <5>1
      <4>3. QED
        BY <1>4, <1>9, <3>2, <4>1, <4>2
    <3>3. QED
      BY <3>1, <3>2
  <2>2. QED
    BY <2>1 DEF EdgesMatch
<1>18. QED
  BY <1>9, <1>10, <1>11, <1>12, <1>13, <1>15, <1>16, <1>17
-----------------------------------------------------------------------------
\* What the anchors are of: projects
LEMMA AnchoredInProjects ==
    ASSUME LineageTypeOK, NEW q, NEW t \in Anchored(q)
    PROVE  q \in Projects
BY DEF Anchored, LineageTypeOK, Anchor

LEMMA UploadKeeps ==
    ASSUME LineageInv, NEW c \in Chats, NEW t \in Tables, NEW n \in Names, UploadTable(c, t, n)
    PROVE  LineageInv' /\ SameDescent
<1> USE DEF LineageInv
<1> DEFINE piece == [chat |-> c, dataset |-> t, lineage |-> t]
<1>1. PICK p \in Projects : p = home[c]
  BY DEF UploadTable, LineageTypeOK
<1>2. /\ Register(t, p, n, <<>>) /\ <<>> \in Seq(Tables)
      /\ pieces' = [pieces EXCEPT ![t] = piece]
      /\ UNCHANGED <<home, invoked, claimed>>
  BY <1>1 DEF UploadTable
<1>3. /\ stored' \in [Tables -> DatasetRow \cup {NoRef}] /\ anchors' \in [Tables -> Anchor \cup {NoRef}]
      /\ edges' \subseteq Edge /\ born' \in [Tables -> Nat] /\ clock' \in Nat
      /\ RowsMatch' /\ EdgesMatch' /\ EdgesAtHome' /\ Dated' /\ SameDescent
      /\ Anchored(p)' = Anchored(p) \cup {t}
      /\ \A q \in Projects \ {p} : Anchored(q)' = Anchored(q)
  BY <1>2, RegisterFacts
<1>4. /\ piece \in Piece /\ piece.chat = c /\ piece.dataset = t /\ piece.lineage = t
  BY DEF Piece
<1> HIDE DEF piece
<1>5. /\ pieces' \in [Invocations \cup Tables -> Piece \cup {NoRef}] /\ pieces'[t] = piece
      /\ \A a \in (Invocations \cup Tables) \ {t} : pieces'[a] = pieces[a]
  BY <1>2, <1>4 DEF LineageTypeOK
<1>6. LineageTypeOK'
  BY <1>2, <1>3, <1>5 DEF LineageTypeOK
<1>7. ClaimsAtHome' /\ Housed'
  BY <1>2 DEF ClaimsAtHome, EvidenceOf, Housed
<1>8. CallsAtHome'
  BY <1>2, <1>5, GraphAssumption DEF CallsAtHome
<1>9. PiecesMatch'
  BY <1>4, <1>5 DEF PiecesMatch
<1>10. PiecesAtHome'
  <2>1. ASSUME NEW a \in (Invocations \cup Tables) \ {t}, pieces[a] # NoRef,
               pieces[a].lineage # NoRef
        PROVE  LET u == pieces[a].lineage
               IN u \in Tables /\ anchors'[u] # NoRef /\ anchors'[u].project = home[pieces[a].chat]
    <3>1. pieces[a].lineage \in Anchored(home[pieces[a].chat])
      BY <2>1 DEF PiecesAtHome
    <3>2. PICK q \in Projects : q = home[pieces[a].chat]
      BY <3>1, AnchoredInProjects
    <3>3. PICK u \in Anchored(q) : u = pieces[a].lineage
      BY <3>1, <3>2
    <3>4. u \in Anchored(q)'
      BY <1>3, <3>2, <3>3
    <3>5. QED
      BY <3>2, <3>3, <3>4 DEF Anchored
  <2>2. t \in Anchored(p)'
    BY <1>3
  <2>3. QED
    BY <1>1, <1>2, <1>4, <1>5, <2>1, <2>2 DEF PiecesAtHome, Anchored
<1>11. QED
  BY <1>3, <1>6, <1>7, <1>8, <1>9, <1>10

LEMMA DeriveKeeps ==
    ASSUME LineageInv, NEW i \in Invocations, NEW t \in Tables, NEW n \in Names,
           NEW parents \in Seq(Tables), Derive(i, t, n, parents)
    PROVE  LineageInv' /\ SameDescent
<1> USE DEF LineageInv
<1> DEFINE p == home[invoked[i].chat]
<1>1. /\ p \in Projects /\ Register(t, p, n, parents)
      /\ UNCHANGED <<home, invoked, pieces, claimed>>
  BY DEF Derive, Open, Housed
<1> HIDE DEF p
<1>2. /\ stored' \in [Tables -> DatasetRow \cup {NoRef}] /\ anchors' \in [Tables -> Anchor \cup {NoRef}]
      /\ edges' \subseteq Edge /\ born' \in [Tables -> Nat] /\ clock' \in Nat
      /\ RowsMatch' /\ EdgesMatch' /\ EdgesAtHome' /\ Dated' /\ SameDescent
  BY <1>1, RegisterFacts
<1>3. LineageTypeOK'
  BY <1>1, <1>2 DEF LineageTypeOK
<1>4. ClaimsAtHome' /\ Housed' /\ CallsAtHome' /\ PiecesMatch'
  BY <1>1 DEF ClaimsAtHome, EvidenceOf, Housed, CallsAtHome, PiecesMatch
<1>5. PiecesAtHome'
  <2>1. \A u \in Tables : anchors[u] # NoRef => anchors'[u] = anchors[u]
    <3>1. born[t] = 0 /\ \A u \in Tables \ {t} : anchors'[u] = anchors[u]
      BY <1>1 DEF Register, LineageTypeOK
    <3>2. anchors[t] = NoRef
      BY <3>1 DEF Dated, LineageTypeOK
    <3>3. QED
      BY <3>1, <3>2
  <2>2. QED
    BY <1>1, <2>1 DEF PiecesAtHome, Anchored
<1>6. QED
  BY <1>2, <1>3, <1>4, <1>5
-----------------------------------------------------------------------------
(* Steps that leave the data sets and their descent alone.                   *)
Untouched == UNCHANGED <<home, stored, anchors, edges, born, clock>>

LEMMA UntouchedKeeps ==
    ASSUME LineageInv, Untouched
    PROVE  RowsMatch' /\ EdgesMatch' /\ EdgesAtHome' /\ Dated' /\ SameDescent
<1>1. RowsMatch' /\ EdgesMatch' /\ Dated'
  BY DEF Untouched, LineageInv, RowsMatch, EdgesMatch, Dated
<1>2. EdgesAtHome'
  BY DEF Untouched, LineageInv, EdgesAtHome, Anchored
<1>3. SameDescent
  BY DEF Untouched, SameDescent
<1>4. QED
  BY <1>1, <1>2, <1>3

LEMMA RecordCallKeeps ==
    ASSUME LineageInv, NEW i \in Invocations, NEW c \in Chats, NEW reads \in SUBSET Tables,
           NEW status \in {"running", "failed"}, RecordCall(i, c, reads, status)
    PROVE  LineageInv' /\ SameDescent
<1> USE DEF LineageInv
<1> DEFINE row == [chat |-> c, reads |-> reads, status |-> status]
<1>1. /\ home[c] \in Projects /\ invoked[i] = NoRef /\ invoked' = [invoked EXCEPT ![i] = row]
      /\ Untouched /\ UNCHANGED <<pieces, claimed>>
  BY DEF RecordCall, Untouched, LineageTypeOK
<1>2. row \in CallRow /\ row.chat = c
  BY DEF CallRow, CallStatus
<1> HIDE DEF row
<1>3. /\ invoked' \in [Invocations -> CallRow \cup {NoRef}] /\ invoked'[i] = row
      /\ \A j \in Invocations \ {i} : invoked'[j] = invoked[j]
  BY <1>1, <1>2 DEF LineageTypeOK
<1>4. LineageTypeOK'
  BY <1>1, <1>3 DEF LineageTypeOK, Untouched
<1>5. ClaimsAtHome'
  BY <1>1, <1>3 DEF ClaimsAtHome, EvidenceOf
<1>6. CallsAtHome' /\ PiecesAtHome' /\ PiecesMatch' /\ Housed'
  BY <1>1, <1>2, <1>3 DEF CallsAtHome, PiecesAtHome, PiecesMatch, Housed, Untouched, Anchored
<1>7. QED
  BY <1>1, <1>4, <1>5, <1>6, UntouchedKeeps

LEMMA CloseCallKeeps ==
    ASSUME LineageInv, NEW i \in Invocations, NEW status \in {"failed", "unknown"},
           CloseCall(i, status)
    PROVE  LineageInv' /\ SameDescent
<1> USE DEF LineageInv
<1>1. /\ invoked[i] # NoRef /\ invoked[i].status = "running"
      /\ invoked' = [invoked EXCEPT ![i].status = status]
      /\ Untouched /\ UNCHANGED <<pieces, claimed>>
  BY DEF CloseCall, Open, Untouched
<1>2. /\ invoked' \in [Invocations -> CallRow \cup {NoRef}]
      /\ invoked'[i] \in CallRow /\ invoked'[i].chat = invoked[i].chat
      /\ \A j \in Invocations \ {i} : invoked'[j] = invoked[j]
  BY <1>1 DEF LineageTypeOK, CallRow, CallStatus
<1>3. LineageTypeOK'
  BY <1>1, <1>2 DEF LineageTypeOK, Untouched
<1>4. ClaimsAtHome'
  BY <1>1, <1>2 DEF ClaimsAtHome, EvidenceOf
<1>5. CallsAtHome' /\ PiecesAtHome' /\ PiecesMatch' /\ Housed'
  BY <1>1, <1>2, RowAssumption
     DEF CallsAtHome, PiecesAtHome, PiecesMatch, Housed, Untouched, Anchored
<1>6. QED
  BY <1>1, <1>3, <1>4, <1>5, UntouchedKeeps

LEMMA ReplaceClaimsKeeps ==
    ASSUME LineageInv, NEW c \in Chats, NEW drafts \in SUBSET SUBSET Invocations,
           ReplaceClaims(c, drafts)
    PROVE  LineageInv' /\ SameDescent
<1> USE DEF LineageInv
<1>1. /\ \A draft \in drafts : draft \subseteq EvidenceOf(c)
      /\ claimed' = [claimed EXCEPT ![c] = drafts]
      /\ Untouched /\ UNCHANGED <<invoked, pieces>>
  BY DEF ReplaceClaims, Untouched
<1>2. LineageTypeOK'
  BY <1>1 DEF LineageTypeOK, Untouched
<1>3. ClaimsAtHome'
  BY <1>1 DEF ClaimsAtHome, EvidenceOf, LineageTypeOK
<1>4. CallsAtHome' /\ PiecesAtHome' /\ PiecesMatch' /\ Housed'
  BY <1>1 DEF CallsAtHome, PiecesAtHome, PiecesMatch, Housed, Untouched, Anchored
<1>5. QED
  BY <1>1, <1>2, <1>3, <1>4, UntouchedKeeps

LEMMA ProduceKeeps ==
    ASSUME LineageInv, NEW i \in Invocations, NEW about \in Tables \cup {NoRef},
           NEW made \in BOOLEAN, Produce(i, about, made)
    PROVE  LineageInv' /\ SameDescent
<1> USE DEF LineageInv
<1> DEFINE c == invoked[i].chat
           d == IF about \in Listed(home[c]) THEN about ELSE NoRef
           piece == [chat |-> c, dataset |-> d, lineage |-> d]
<1>1. /\ invoked[i] # NoRef /\ invoked[i].status = "running"
      /\ invoked' = [invoked EXCEPT ![i].status = "succeeded"]
      /\ pieces' = [pieces EXCEPT ![i] = piece] \/ UNCHANGED pieces
      /\ Untouched /\ UNCHANGED claimed
  BY DEF Produce, Open, Untouched
<1>2. /\ invoked' \in [Invocations -> CallRow \cup {NoRef}]
      /\ invoked'[i] \in CallRow /\ invoked'[i].chat = c
      /\ \A j \in Invocations \ {i} : invoked'[j] = invoked[j]
      /\ c \in Chats
  BY <1>1 DEF LineageTypeOK, CallRow, CallStatus
<1>3. d \in Tables \cup {NoRef} /\ (d # NoRef => d \in Anchored(home[c]))
  BY DEF RowsMatch, Listed, Anchored
<1> HIDE DEF c, d
<1>4. piece \in Piece /\ piece.chat = c /\ piece.dataset = d /\ piece.lineage = d
  BY <1>2, <1>3 DEF Piece
<1> HIDE DEF piece
<1>5. /\ pieces' \in [Invocations \cup Tables -> Piece \cup {NoRef}]
      /\ pieces'[i] \in {piece, pieces[i]}
      /\ \A a \in (Invocations \cup Tables) \ {i} : pieces'[a] = pieces[a]
  BY <1>1, <1>4 DEF LineageTypeOK
<1>6. LineageTypeOK'
  BY <1>1, <1>2, <1>5 DEF LineageTypeOK, Untouched
<1>7. ClaimsAtHome'
  BY <1>1, <1>2, RowAssumption DEF ClaimsAtHome, EvidenceOf
<1>8. CallsAtHome'
  BY <1>1, <1>2, <1>4, <1>5, RowAssumption DEF CallsAtHome, c
<1>9. PiecesAtHome' /\ PiecesMatch'
  BY <1>1, <1>3, <1>4, <1>5 DEF PiecesAtHome, PiecesMatch, Untouched, Anchored
<1>10. Housed'
  BY <1>1, <1>2 DEF Housed, Untouched, c
<1>11. QED
  BY <1>1, <1>6, <1>7, <1>8, <1>9, <1>10, UntouchedKeeps
-----------------------------------------------------------------------------
LEMMA RenameKeeps ==
    ASSUME LineageInv, NEW t \in Tables, NEW n \in Names, Rename(t, n)
    PROVE  LineageInv' /\ SameDescent
<1> USE DEF LineageInv
<1>1. /\ stored[t] # NoRef
      /\ stored' = [stored EXCEPT ![t].name = n] /\ anchors' = [anchors EXCEPT ![t].name = n]
      /\ UNCHANGED <<home, edges, born, clock, invoked, pieces, claimed>>
  BY DEF Rename
<1>2. stored[t] \in DatasetRow /\ anchors[t] \in Anchor /\ anchors[t] # NoRef /\ ~anchors[t].deleted
  BY <1>1 DEF LineageTypeOK, RowsMatch
<1>3. /\ stored' \in [Tables -> DatasetRow \cup {NoRef}]
      /\ stored'[t] \in DatasetRow /\ stored'[t].name = n
      /\ stored'[t].project = stored[t].project /\ stored'[t].lineage = stored[t].lineage
      /\ \A u \in Tables \ {t} : stored'[u] = stored[u]
  BY <1>1, <1>2 DEF LineageTypeOK, DatasetRow
<1>4. /\ anchors' \in [Tables -> Anchor \cup {NoRef}]
      /\ anchors'[t] \in Anchor /\ anchors'[t].name = n
      /\ anchors'[t].project = anchors[t].project /\ anchors'[t].parent = anchors[t].parent
      /\ anchors'[t].deleted = anchors[t].deleted
      /\ \A u \in Tables \ {t} : anchors'[u] = anchors[u]
  BY <1>1, <1>2 DEF LineageTypeOK, Anchor
<1>5. anchors'[t] # NoRef /\ stored'[t] # NoRef
  BY <1>3, <1>4, RowAssumption
<1>6. \A q : Anchored(q)' = Anchored(q)
  BY <1>2, <1>4, <1>5 DEF Anchored
<1>7. LineageTypeOK'
  BY <1>1, <1>3, <1>4 DEF LineageTypeOK
<1>8. ClaimsAtHome' /\ CallsAtHome' /\ PiecesMatch' /\ Housed'
  BY <1>1 DEF ClaimsAtHome, EvidenceOf, CallsAtHome, PiecesMatch, Housed
<1>9. PiecesAtHome' /\ EdgesAtHome'
  BY <1>1, <1>2, <1>4, <1>5 DEF PiecesAtHome, EdgesAtHome, Anchored
<1>10. RowsMatch'
  BY <1>1, <1>2, <1>3, <1>4, <1>5 DEF RowsMatch
<1>11. EdgesMatch'
  BY <1>1, <1>2, <1>4 DEF EdgesMatch
<1>12. Dated'
  BY <1>1, <1>2, <1>4 DEF Dated
<1>13. SameDescent
  BY <1>1, <1>2, <1>4 DEF SameDescent
<1>14. QED
  BY <1>7, <1>8, <1>9, <1>10, <1>11, <1>12, <1>13

(* What the foreign keys leave when rows and conversations go.               *)
LEMMA RowsLeft ==
    ASSUME LineageInv, NEW gone \in SUBSET Tables, stored' = WithoutRows(gone)
    PROVE  /\ stored' \in [Tables -> DatasetRow \cup {NoRef}]
           /\ \A t \in Tables : stored'[t] # NoRef =>
                 /\ t \notin gone /\ stored[t] # NoRef /\ stored'[t].project = stored[t].project
                 /\ stored'[t].name = stored[t].name /\ stored'[t].lineage = stored[t].lineage
<1> USE DEF LineageInv
<1>1. ASSUME NEW t \in Tables, stored[t] # NoRef
      PROVE  LET row == [stored[t] EXCEPT !.parent = NoRef]
             IN /\ row \in DatasetRow /\ row.project = stored[t].project
                /\ row.name = stored[t].name /\ row.lineage = stored[t].lineage
  <2>1. stored[t] \in DatasetRow
    BY <1>1 DEF LineageTypeOK
  <2>2. QED
    BY <2>1 DEF DatasetRow
<1>2. stored' \in [Tables -> DatasetRow \cup {NoRef}]
  BY <1>1 DEF WithoutRows, LineageTypeOK
<1>3. ASSUME NEW t \in Tables, stored'[t] # NoRef
      PROVE  /\ t \notin gone /\ stored[t] # NoRef /\ stored'[t].project = stored[t].project
             /\ stored'[t].name = stored[t].name /\ stored'[t].lineage = stored[t].lineage
  BY <1>1, <1>3 DEF WithoutRows
<1>4. QED
  BY <1>2, <1>3

LEMMA PiecesLeft ==
    ASSUME LineageInv, NEW gone, NEW closed, pieces' = WithoutUse(gone, closed)
    PROVE  /\ pieces' \in [Invocations \cup Tables -> Piece \cup {NoRef}]
           /\ \A a \in Invocations \cup Tables : pieces'[a] # NoRef =>
                 /\ pieces[a] # NoRef /\ pieces[a].chat \in Chats \ closed
                 /\ pieces'[a].chat = pieces[a].chat /\ pieces'[a].lineage = pieces[a].lineage
                 /\ pieces'[a].dataset \in {pieces[a].dataset, NoRef}
<1> USE DEF LineageInv
<1>1. ASSUME NEW a \in Invocations \cup Tables, pieces[a] # NoRef
      PROVE  LET piece == [pieces[a] EXCEPT !.dataset = NoRef]
             IN /\ piece \in Piece /\ piece.chat = pieces[a].chat /\ pieces[a].chat \in Chats
                /\ piece.lineage = pieces[a].lineage /\ piece.dataset = NoRef
  <2>1. pieces[a] \in Piece
    BY <1>1 DEF LineageTypeOK
  <2>2. QED
    BY <2>1 DEF Piece
<1>2. pieces' \in [Invocations \cup Tables -> Piece \cup {NoRef}]
  BY <1>1 DEF WithoutUse, LineageTypeOK
<1>3. ASSUME NEW a \in Invocations \cup Tables, pieces'[a] # NoRef
      PROVE  /\ pieces[a] # NoRef /\ pieces[a].chat \in Chats \ closed
             /\ pieces'[a].chat = pieces[a].chat /\ pieces'[a].lineage = pieces[a].lineage
             /\ pieces'[a].dataset \in {pieces[a].dataset, NoRef}
  BY <1>1, <1>3 DEF WithoutUse
<1>4. QED
  BY <1>2, <1>3

\* An artifact that stays is where it was, and so is what it is about.
LEMMA PiecesStay ==
    ASSUME LineageTypeOK, PiecesAtHome,
           \A a \in Invocations \cup Tables :
               pieces'[a] # NoRef /\ pieces'[a].lineage # NoRef =>
                   /\ pieces[a] # NoRef /\ pieces'[a].lineage = pieces[a].lineage
                   /\ home'[pieces'[a].chat] = home[pieces[a].chat]
                   /\ \A t \in Anchored(home[pieces[a].chat]) :
                         anchors'[t] # NoRef /\ anchors'[t].project = anchors[t].project
    PROVE  PiecesAtHome'
<1>1. ASSUME NEW a \in Invocations \cup Tables, pieces'[a] # NoRef, pieces'[a].lineage # NoRef
      PROVE  LET t == pieces'[a].lineage
             IN t \in Tables /\ anchors'[t] # NoRef /\ anchors'[t].project = home'[pieces'[a].chat]
  <2>1. pieces[a].lineage \in Anchored(home[pieces[a].chat])
    BY <1>1 DEF PiecesAtHome
  <2>2. pieces[a].lineage \in Tables /\ anchors[pieces[a].lineage].project = home[pieces[a].chat]
    BY <2>1 DEF Anchored
  <2>3. QED
    BY <1>1, <2>1, <2>2
<1>2. QED
  BY <1>1 DEF PiecesAtHome, Anchored

LEMMA DeleteTableKeeps ==
    ASSUME LineageInv, NEW t \in Tables, DeleteTable(t)
    PROVE  LineageInv' /\ SameDescent
<1> USE DEF LineageInv
<1>1. /\ stored[t] # NoRef
      /\ stored' = WithoutRows({t}) /\ pieces' = WithoutUse({t}, {})
      /\ anchors' = [anchors EXCEPT ![t] = [@ EXCEPT !.deleted = TRUE]]
      /\ UNCHANGED <<home, edges, born, clock, invoked, claimed>>
  BY DEF DeleteTable
<1>2. anchors[t] \in Anchor /\ anchors[t] # NoRef /\ ~anchors[t].deleted
  BY <1>1 DEF LineageTypeOK, RowsMatch
<1>3. /\ anchors' \in [Tables -> Anchor \cup {NoRef}]
      /\ anchors'[t] \in Anchor /\ anchors'[t].project = anchors[t].project
      /\ anchors'[t].parent = anchors[t].parent
      /\ \A u \in Tables \ {t} : anchors'[u] = anchors[u]
  <2> DEFINE anchor == [anchors[t] EXCEPT !.deleted = TRUE]
  <2>1. anchor \in Anchor /\ anchor.project = anchors[t].project /\ anchor.parent = anchors[t].parent
    BY <1>2 DEF Anchor
  <2>2. anchors' = [anchors EXCEPT ![t] = anchor]
    BY <1>1
  <2> HIDE DEF anchor
  <2>3. QED
    BY <2>1, <2>2 DEF LineageTypeOK
<1>4. anchors'[t] # NoRef
  BY <1>3, RowAssumption
<1>5. /\ stored' \in [Tables -> DatasetRow \cup {NoRef}]
      /\ \A u \in Tables : stored'[u] # NoRef =>
            /\ u # t /\ stored[u] # NoRef /\ stored'[u].project = stored[u].project
            /\ stored'[u].name = stored[u].name /\ stored'[u].lineage = stored[u].lineage
      /\ pieces' \in [Invocations \cup Tables -> Piece \cup {NoRef}]
      /\ \A a \in Invocations \cup Tables : pieces'[a] # NoRef =>
            /\ pieces[a] # NoRef /\ pieces'[a].chat = pieces[a].chat
            /\ pieces'[a].lineage = pieces[a].lineage
            /\ pieces'[a].dataset \in {pieces[a].dataset, NoRef}
  <2>1. PICK gone \in SUBSET Tables : gone = {t}
    OBVIOUS
  <2>2. stored' = WithoutRows(gone) /\ pieces' = WithoutUse(gone, {})
    BY <1>1, <2>1
  <2>3. /\ stored' \in [Tables -> DatasetRow \cup {NoRef}]
        /\ \A u \in Tables : stored'[u] # NoRef =>
              /\ u \notin gone /\ stored[u] # NoRef /\ stored'[u].project = stored[u].project
              /\ stored'[u].name = stored[u].name /\ stored'[u].lineage = stored[u].lineage
    BY <2>2, RowsLeft
  <2>4. PICK closed \in SUBSET Chats : closed = {}
    OBVIOUS
  <2>5. pieces' = WithoutUse(gone, closed)
    BY <2>2, <2>4
  <2>6. /\ pieces' \in [Invocations \cup Tables -> Piece \cup {NoRef}]
        /\ \A a \in Invocations \cup Tables : pieces'[a] # NoRef =>
              /\ pieces[a] # NoRef /\ pieces'[a].chat = pieces[a].chat
              /\ pieces'[a].lineage = pieces[a].lineage
              /\ pieces'[a].dataset \in {pieces[a].dataset, NoRef}
    BY <2>5, PiecesLeft
  <2>7. QED
    BY <2>1, <2>3, <2>6
<1>6. LineageTypeOK'
  BY <1>1, <1>3, <1>5 DEF LineageTypeOK
<1>7. ClaimsAtHome' /\ Housed'
  BY <1>1 DEF ClaimsAtHome, EvidenceOf, Housed
<1>8. CallsAtHome' /\ PiecesMatch'
  BY <1>1, <1>5 DEF CallsAtHome, PiecesMatch
<1>9. \A u \in Tables : anchors[u] # NoRef =>
          anchors'[u] # NoRef /\ anchors'[u].project = anchors[u].project
  BY <1>2, <1>3, <1>4
<1>10. PiecesAtHome' /\ EdgesAtHome'
  <2>1. PiecesAtHome'
    BY <1>1, <1>5, <1>9, PiecesStay DEF Anchored
  <2>2. ASSUME NEW e \in edges'
        PROVE  \E q \in Projects : {e.child, e.parent} \subseteq
                   {u \in Tables : anchors'[u] # NoRef /\ anchors'[u].project = q}
    <3>1. PICK q \in Projects : {e.child, e.parent} \subseteq Anchored(q)
      BY <1>1 DEF EdgesAtHome
    <3>2. QED
      BY <1>9, <3>1 DEF Anchored
  <2>3. QED
    BY <2>1, <2>2 DEF EdgesAtHome, Anchored
<1>11. RowsMatch'
  BY <1>3, <1>5 DEF RowsMatch
<1>12. EdgesMatch' /\ Dated'
  BY <1>1, <1>2, <1>3 DEF EdgesMatch, Dated
<1>13. SameDescent
  BY <1>1, <1>2, <1>3 DEF SameDescent
<1>14. QED
  BY <1>6, <1>7, <1>8, <1>10, <1>11, <1>12, <1>13

\* Conversations go with their runs; the calls of others stay as they are.
LEMMA CloseChatsFacts ==
    ASSUME LineageInv, NEW closed \in SUBSET Chats, CloseChats(closed),
           NEW gone, pieces' = WithoutUse(gone, closed)
    PROVE  /\ home' \in [Chats -> Projects \cup {NoRef}]
           /\ \A c \in Chats \ closed : home'[c] = home[c]
           /\ invoked' \in [Invocations -> CallRow \cup {NoRef}]
           /\ pieces' \in [Invocations \cup Tables -> Piece \cup {NoRef}]
           /\ claimed' \in [Chats -> SUBSET SUBSET Invocations]
           /\ ClaimsAtHome' /\ CallsAtHome' /\ PiecesMatch' /\ Housed'
           /\ \A a \in Invocations \cup Tables : pieces'[a] # NoRef =>
                 /\ pieces[a] # NoRef /\ pieces[a].chat \in Chats \ closed
                 /\ pieces'[a].chat = pieces[a].chat
                 /\ pieces'[a].lineage = pieces[a].lineage
<1> USE DEF LineageInv
<1>1. /\ home' = [c \in Chats |-> IF c \in closed THEN NoRef ELSE home[c]]
      /\ invoked' = [i \in Invocations |->
            IF invoked[i] # NoRef /\ invoked[i].chat \in closed THEN NoRef ELSE invoked[i]]
      /\ claimed' = [c \in Chats |-> IF c \in closed THEN {} ELSE claimed[c]]
  BY DEF CloseChats
<1>2. /\ home' \in [Chats -> Projects \cup {NoRef}]
      /\ \A c \in Chats \ closed : home'[c] = home[c]
      /\ invoked' \in [Invocations -> CallRow \cup {NoRef}]
      /\ claimed' \in [Chats -> SUBSET SUBSET Invocations]
  BY <1>1 DEF LineageTypeOK
<1>3. /\ \A i \in Invocations : invoked'[i] # NoRef =>
            invoked'[i] = invoked[i] /\ invoked[i].chat \in Chats \ closed
      /\ \A i \in Invocations : invoked[i] # NoRef /\ invoked[i].chat \notin closed =>
            invoked'[i] = invoked[i]
  BY <1>1 DEF LineageTypeOK, CallRow
<1>4. /\ pieces' \in [Invocations \cup Tables -> Piece \cup {NoRef}]
      /\ \A a \in Invocations \cup Tables : pieces'[a] # NoRef =>
            /\ pieces[a] # NoRef /\ pieces[a].chat \in Chats \ closed
            /\ pieces'[a].chat = pieces[a].chat /\ pieces'[a].lineage = pieces[a].lineage
            /\ pieces'[a].dataset \in {pieces[a].dataset, NoRef}
  BY PiecesLeft
<1>5. ClaimsAtHome'
  <2>1. ASSUME NEW c \in Chats, NEW claim \in claimed'[c], NEW i \in claim
        PROVE  i \in EvidenceOf(c)'
    <3>1. c \notin closed /\ claim \in claimed[c]
      BY <1>1, <2>1
    <3>2. i \in EvidenceOf(c)
      BY <3>1 DEF ClaimsAtHome
    <3>3. QED
      BY <1>3, <3>1, <3>2 DEF EvidenceOf
  <2>2. QED
    BY <2>1 DEF ClaimsAtHome
<1>6. CallsAtHome'
  BY <1>3, <1>4 DEF CallsAtHome
<1>7. PiecesMatch'
  BY <1>4 DEF PiecesMatch
<1>8. Housed'
  BY <1>2, <1>3 DEF Housed
<1>9. QED
  BY <1>2, <1>4, <1>5, <1>6, <1>7, <1>8

LEMMA CloseChatKeeps ==
    ASSUME LineageInv, NEW c \in Chats, CloseChat(c)
    PROVE  LineageInv' /\ SameDescent
<1> USE DEF LineageInv
<1>1. /\ CloseChats({c}) /\ pieces' = WithoutUse({}, {c})
      /\ {c} \in SUBSET Chats
      /\ UNCHANGED <<stored, anchors, edges, born, clock>>
  BY DEF CloseChat
<1>2. /\ home' \in [Chats -> Projects \cup {NoRef}]
      /\ \A d \in Chats \ {c} : home'[d] = home[d]
      /\ invoked' \in [Invocations -> CallRow \cup {NoRef}]
      /\ pieces' \in [Invocations \cup Tables -> Piece \cup {NoRef}]
      /\ claimed' \in [Chats -> SUBSET SUBSET Invocations]
      /\ ClaimsAtHome' /\ CallsAtHome' /\ PiecesMatch' /\ Housed'
      /\ \A a \in Invocations \cup Tables : pieces'[a] # NoRef =>
            /\ pieces[a] # NoRef /\ pieces[a].chat \in Chats \ {c}
            /\ pieces'[a].chat = pieces[a].chat
            /\ pieces'[a].lineage = pieces[a].lineage
  BY <1>1, CloseChatsFacts
<1>3. LineageTypeOK'
  BY <1>1, <1>2 DEF LineageTypeOK
<1>4. PiecesAtHome'
  BY <1>1, <1>2, PiecesStay DEF Anchored
<1>5. RowsMatch' /\ EdgesMatch' /\ Dated'
  BY <1>1 DEF RowsMatch, EdgesMatch, Dated
<1>6. EdgesAtHome'
  BY <1>1 DEF EdgesAtHome, Anchored
<1>7. SameDescent
  BY <1>1 DEF SameDescent
<1>8. QED
  BY <1>2, <1>3, <1>4, <1>5, <1>6, <1>7

\* Only the anchors of the project go, and descent never leaves a project.
LEMMA CloseProjectKeeps ==
    ASSUME LineageInv, NEW p \in Projects, CloseProject(p)
    PROVE  LineageInv' /\ SameDescent
<1> USE DEF LineageInv
<1> DEFINE closed == {c \in Chats : home[c] = p}
           gone == Anchored(p)
<1>1. /\ CloseChats(closed) /\ pieces' = WithoutUse(Listed(p), closed)
      /\ stored' = WithoutRows(Listed(p))
      /\ anchors' = [t \in Tables |-> IF t \in gone THEN NoRef ELSE anchors[t]]
      /\ edges' = {e \in edges : e.child \notin gone /\ e.parent \notin gone}
      /\ UNCHANGED <<born, clock>>
      /\ closed \in SUBSET Chats /\ Listed(p) \in SUBSET Tables
  BY DEF CloseProject, Listed
<1>2. /\ home' \in [Chats -> Projects \cup {NoRef}]
      /\ \A d \in Chats \ closed : home'[d] = home[d]
      /\ invoked' \in [Invocations -> CallRow \cup {NoRef}]
      /\ pieces' \in [Invocations \cup Tables -> Piece \cup {NoRef}]
      /\ claimed' \in [Chats -> SUBSET SUBSET Invocations]
      /\ ClaimsAtHome' /\ CallsAtHome' /\ PiecesMatch' /\ Housed'
      /\ \A a \in Invocations \cup Tables : pieces'[a] # NoRef =>
            /\ pieces[a] # NoRef /\ pieces[a].chat \in Chats \ closed
            /\ pieces'[a].chat = pieces[a].chat
            /\ pieces'[a].lineage = pieces[a].lineage
  <2> HIDE DEF closed
  <2>1. QED
    BY <1>1, CloseChatsFacts
<1>3. /\ stored' \in [Tables -> DatasetRow \cup {NoRef}]
      /\ \A t \in Tables : stored'[t] # NoRef =>
            /\ t \notin Listed(p) /\ stored[t] # NoRef /\ stored'[t].project = stored[t].project
            /\ stored'[t].name = stored[t].name /\ stored'[t].lineage = stored[t].lineage
  BY <1>1, RowsLeft
<1>4. /\ anchors' \in [Tables -> Anchor \cup {NoRef}]
      /\ \A t \in Tables : anchors'[t] # NoRef => anchors'[t] = anchors[t] /\ t \notin gone
      /\ \A t \in Tables \ gone : anchors'[t] = anchors[t]
      /\ \A t \in Tables \ gone : anchors[t] # NoRef => anchors[t].project # p
  BY <1>1 DEF LineageTypeOK, Anchored
<1>5. \A e \in edges : e.child \in gone <=> e.parent \in gone
  BY DEF EdgesAtHome, Anchored
<1>6. \A t \in Tables \ gone : {e \in edges' : e.child = t} = {e \in edges : e.child = t}
  BY <1>1, <1>5
<1>7. \A q \in Projects \ {p} : Anchored(q) \subseteq Tables \ gone
  BY DEF Anchored
<1>8. LineageTypeOK'
  BY <1>1, <1>2, <1>3, <1>4 DEF LineageTypeOK
<1>9. PiecesAtHome'
  <2>1. ASSUME NEW a \in Invocations \cup Tables, pieces'[a] # NoRef, pieces'[a].lineage # NoRef
        PROVE  /\ home'[pieces'[a].chat] = home[pieces[a].chat]
               /\ \A t \in Anchored(home[pieces[a].chat]) : anchors'[t] = anchors[t]
    <3>1. pieces[a].lineage \in Anchored(home[pieces[a].chat])
      BY <1>2, <2>1 DEF PiecesAtHome
    <3>2. home[pieces[a].chat] \in Projects \ {p}
      BY <1>2, <2>1, <3>1, AnchoredInProjects
    <3>3. QED
      BY <1>2, <1>4, <1>7, <2>1, <3>2
  <2>2. QED
    BY <1>2, <2>1, PiecesStay DEF Anchored
<1>10. EdgesAtHome'
  <2>1. ASSUME NEW e \in edges' PROVE \E q \in Projects : {e.child, e.parent} \subseteq Anchored(q)'
    <3>1. e \in edges /\ e.child \in Tables \ gone /\ e.parent \in Tables \ gone
      BY <1>1 DEF EdgesAtHome, Anchored
    <3>2. QED
      BY <1>4, <3>1 DEF EdgesAtHome, Anchored
  <2>2. QED
    BY <2>1 DEF EdgesAtHome
<1>11. RowsMatch'
  <2>1. ASSUME NEW t \in Tables, stored'[t] # NoRef PROVE t \notin gone
    BY <1>3, <2>1 DEF RowsMatch, Listed, Anchored
  <2>2. QED
    BY <1>3, <1>4, <2>1 DEF RowsMatch
<1>12. EdgesMatch'
  <2>1. ASSUME NEW t \in Tables, anchors'[t] # NoRef
        PROVE  {e.parent : e \in {f \in edges' : f.child = t /\ f.ordinal = 0}}
                   = {anchors'[t].parent} \ {NoRef}
    <3>1. t \notin gone /\ anchors'[t] = anchors[t] /\ anchors[t] # NoRef
      BY <1>4, <2>1
    <3>2. {f \in edges' : f.child = t /\ f.ordinal = 0} = {f \in edges : f.child = t /\ f.ordinal = 0}
      BY <1>1, <1>5, <3>1
    <3>3. QED
      BY <3>1, <3>2 DEF EdgesMatch
  <2>2. QED
    BY <2>1 DEF EdgesMatch
<1>13. Dated'
  BY <1>1, <1>4 DEF Dated
<1>14. SameDescent
  BY <1>4, <1>6 DEF SameDescent
<1>15. QED
  BY <1>2, <1>8, <1>9, <1>10, <1>11, <1>12, <1>13, <1>14
-----------------------------------------------------------------------------
LEMMA LineageStart == LineageInit => LineageInv
<1> SUFFICES ASSUME LineageInit PROVE LineageInv
  OBVIOUS
<1>1. LineageTypeOK
  BY DEF LineageInit, LineageTypeOK
<1>2. ClaimsAtHome /\ CallsAtHome /\ PiecesAtHome /\ EdgesAtHome
  BY DEF LineageInit, ClaimsAtHome, CallsAtHome, PiecesAtHome, EdgesAtHome
<1>3. RowsMatch /\ PiecesMatch /\ EdgesMatch /\ Housed /\ Dated
  BY DEF LineageInit, RowsMatch, PiecesMatch, EdgesMatch, Housed, Dated
<1>4. QED
  BY <1>1, <1>2, <1>3 DEF LineageInv

LEMMA LineageKeeps == LineageInv /\ [LineageNext]_lineageVars => LineageInv' /\ [SameDescent]_lineageVars
<1> SUFFICES ASSUME LineageInv, [LineageNext]_lineageVars PROVE LineageInv' /\ [SameDescent]_lineageVars
  OBVIOUS
<1>1. CASE UNCHANGED lineageVars
  <2>1. LineageTypeOK'
    BY <1>1 DEF lineageVars, LineageInv, LineageTypeOK
  <2>2. ClaimsAtHome' /\ CallsAtHome' /\ PiecesAtHome' /\ EdgesAtHome'
    BY <1>1 DEF lineageVars, LineageInv, ClaimsAtHome, EvidenceOf, CallsAtHome, PiecesAtHome,
                EdgesAtHome, Anchored
  <2>3. RowsMatch' /\ PiecesMatch' /\ EdgesMatch' /\ Housed' /\ Dated'
    BY <1>1 DEF lineageVars, LineageInv, RowsMatch, PiecesMatch, EdgesMatch, Housed, Dated
  <2>4. QED
    BY <1>1, <2>1, <2>2, <2>3 DEF LineageInv
<1>2. CASE \E c \in Chats :
              \/ CloseChat(c)
              \/ \E t \in Tables, n \in Names : UploadTable(c, t, n)
              \/ \E i \in Invocations, reads \in SUBSET Tables, status \in {"running", "failed"} :
                    RecordCall(i, c, reads, status)
              \/ \E drafts \in SUBSET (SUBSET Invocations \ {{}}) : ReplaceClaims(c, drafts)
  BY <1>2, CloseChatKeeps, UploadKeeps, RecordCallKeeps, ReplaceClaimsKeeps
<1>3. CASE \E i \in Invocations :
              \/ \E t \in Tables, n \in Names, parents \in Descents : Derive(i, t, n, parents)
              \/ \E about \in Tables \cup {NoRef}, made \in BOOLEAN : Produce(i, about, made)
              \/ \E status \in {"failed", "unknown"} : CloseCall(i, status)
  <2>1. Descents \subseteq Seq(Tables)
    <3>1. ASSUME NEW t \in Tables, NEW u \in Tables
          PROVE  <<t>> \in Seq(Tables) /\ <<t, u>> \in Seq(Tables)
      OBVIOUS
    <3>2. ASSUME NEW d \in Descents PROVE d \in Seq(Tables)
      <4>1. (\E t \in Tables : d = <<t>>) \/ (\E t \in Tables, u \in Tables : d = <<t, u>>)
        BY DEF Descents
      <4>2. QED
        BY <3>1, <4>1
    <3>3. QED
      BY <3>2
  <2>2. QED
    BY <1>3, <2>1, DeriveKeeps, ProduceKeeps, CloseCallKeeps
<1>4. CASE \E t \in Tables : DeleteTable(t) \/ \E n \in Names : Rename(t, n)
  BY <1>4, DeleteTableKeeps, RenameKeeps
<1>5. CASE \E p \in Projects : CloseProject(p)
  BY <1>5, CloseProjectKeeps
<1>6. QED
  BY <1>1, <1>2, <1>3, <1>4, <1>5 DEF LineageNext

(* The rows of the lineage are what store.py and its triggers write, each in *)
(* its own project, and descent follows the order of creation.               *)
THEOREM LineageSound == LineageSpec => []LineageInv
<1>1. QED
  BY LineageStart, LineageKeeps, PTL DEF LineageSpec

(* _integrity_issues of lineage.py finds nothing at any time: no edge out of *)
(* the project, no row that disagrees with its anchor, no cycle.             *)
THEOREM LineageNeverDegraded == LineageSpec => []LineageWhole
<1>1. LineageInv => LineageWhole
  BY DatedNoCycle DEF LineageInv, LineageWhole
<1>2. QED
  BY <1>1, LineageSound, PTL

(* What a data set descends from changes only by the deletion of its         *)
(* project (the triggers of v6.py and v11.py).                               *)
THEOREM DescentIsForGood == LineageSpec => DescentKept
<1>1. QED
  BY LineageKeeps, LineageSound, PTL DEF LineageSpec, DescentKept
-----------------------------------------------------------------------------
(* The graph that is shown.                                                  *)
LEMMA ShownTables ==
    ASSUME LineageTypeOK, NEW p \in Projects, NEW c \in Chats \cup {NoRef}
    PROVE  /\ Referred(Scope(p, c)) \subseteq TablesShown(p, c)
           /\ OwnTables(p, c) \subseteq TablesShown(p, c)
           /\ \A t \in OwnTables(p, c) : Parents(p, t) \subseteq TablesShown(p, c)
           /\ \A t \in TablesShown(p, c) : Parents(p, t) # {} => t \in OwnTables(p, c)
<1>1. Anchored(p) \subseteq Tables
  BY DEF Anchored
<1>2. \A t : Parents(p, t) # {} => t \in Anchored(p)
  BY DEF Parents
<1>3. ASSUME NEW t \in Referred(Scope(p, c)), t \in Anchored(p) PROVE t \in Visible(p, c)
  BY <1>1, <1>3 DEF Visible, AncestryOf
<1>4. ASSUME NEW s \in OwnTables(p, c), NEW t \in Parents(p, s), t \in Anchored(p)
      PROVE  t \in Visible(p, c)
  <2>1. CASE c = NoRef
    BY <1>4, <2>1 DEF Visible
  <2>2. CASE c # NoRef
    <3> DEFINE start == Referred(Scope(p, c))
    <3>1. Visible(p, c) = AncestryOf(p, start)
      BY <2>2 DEF Visible
    <3> HIDE DEF start
    <3>2. ASSUME NEW T \in SUBSET Tables, start \subseteq T, \A u \in T : Parents(p, u) \subseteq T
          PROVE  t \in T
      <4>1. s \in T
        BY <1>4, <3>1, <3>2 DEF AncestryOf, OwnTables
      <4>2. QED
        BY <1>4, <3>2, <4>1
    <3>3. QED
      BY <1>1, <1>4, <3>1, <3>2 DEF AncestryOf
  <2>3. QED
    BY <2>1, <2>2
<1>5. ASSUME NEW t \in TablesShown(p, c), Parents(p, t) # {} PROVE t \in OwnTables(p, c)
  <2>1. t \in Anchored(p)
    BY <1>2, <1>5
  <2>2. \/ t \in OwnTables(p, c)
        \/ \E s \in OwnTables(p, c) : t \in Parents(p, s)
        \/ t \in Referred(Scope(p, c))
    BY <1>5 DEF TablesShown
  <2>3. QED
    BY <1>3, <1>4, <2>1, <2>2 DEF OwnTables
<1>6. ASSUME NEW t \in OwnTables(p, c) PROVE Parents(p, t) \subseteq TablesShown(p, c)
  BY DEF TablesShown
<1>7. Referred(Scope(p, c)) \subseteq TablesShown(p, c) /\ OwnTables(p, c) \subseteq TablesShown(p, c)
  BY DEF TablesShown
<1>8. QED
  BY <1>5, <1>6, <1>7

LEMMA ShownNodes ==
    ASSUME NEW p, NEW c
    PROVE  LET scope == Scope(p, c)
           IN /\ \A t \in TablesShown(p, c) : <<"dataset", t>> \in GraphNodes(p, c)
              /\ \A i \in CallsIn(scope) : <<"analysis", i>> \in GraphNodes(p, c)
              /\ \A a \in PiecesIn(scope) : <<"artifact", a>> \in GraphNodes(p, c)
              /\ \A d \in scope : \A i \in EvidenceOf(d) : <<"evidence", i>> \in GraphNodes(p, c)
              /\ \A d \in scope : \A k \in claimed[d] : <<"claim", d, k>> \in GraphNodes(p, c)
BY DEF GraphNodes

\* What is used, and what evidence comes from, is in the graph.
LEMMA ShownInScope ==
    ASSUME NEW scope \in SUBSET Chats
    PROVE  /\ \A i \in CallsIn(scope) : invoked[i].reads \subseteq Referred(scope)
           /\ \A a \in PiecesIn(scope) :
                 pieces[a].lineage # NoRef => pieces[a].lineage \in Referred(scope)
           /\ \A d \in scope : EvidenceOf(d) \subseteq CallsIn(scope)
<1>1. \A i \in CallsIn(scope) : invoked[i].reads \subseteq Referred(scope)
  BY DEF Referred
<1>2. \A a \in PiecesIn(scope) : pieces[a].lineage # NoRef => pieces[a].lineage \in Referred(scope)
  BY DEF Referred
<1>3. \A d \in scope : EvidenceOf(d) \subseteq CallsIn(scope)
  BY DEF EvidenceOf, CallsIn
<1>4. QED
  BY <1>1, <1>2, <1>3

\* Where an edge leads from and to
LEMMA ShownEdges ==
    ASSUME LineageTypeOK, ClaimsAtHome, NEW p \in Projects, NEW c \in Chats \cup {NoRef},
           NEW e \in GraphEdges(p, c)
    PROVE  e[1] \in GraphNodes(p, c) /\ e[2] \in GraphNodes(p, c)
<1>1. PICK scope \in SUBSET Chats : scope = Scope(p, c)
  BY DEF Scope
<1> DEFINE N == GraphNodes(p, c)
<1>2. /\ \A t \in TablesShown(p, c) : <<"dataset", t>> \in N
      /\ \A i \in CallsIn(scope) : <<"analysis", i>> \in N
      /\ \A a \in PiecesIn(scope) : <<"artifact", a>> \in N
      /\ \A d \in scope : \A i \in EvidenceOf(d) : <<"evidence", i>> \in N
      /\ \A d \in scope : \A k \in claimed[d] : <<"claim", d, k>> \in N
  BY <1>1, ShownNodes
<1> HIDE DEF N
<1>3. CASE e \in DescentEdges(p, c)
  <2>1. PICK t \in OwnTables(p, c) :
            \E u \in Parents(p, t) : e = <<<<"dataset", u>>, <<"dataset", t>>>>
    BY <1>3 DEF DescentEdges
  <2>2. t \in TablesShown(p, c) /\ Parents(p, t) \subseteq TablesShown(p, c)
    BY <2>1, ShownTables
  <2>3. QED
    BY <1>2, <2>1, <2>2 DEF N
<1>4. CASE e \in InputEdges(scope)
  <2>1. PICK i \in CallsIn(scope) :
            \E t \in Used(scope, i) : e = <<<<"dataset", t>>, <<"analysis", i>>>>
    BY <1>4 DEF InputEdges
  <2>2. Used(scope, i) \subseteq Referred(scope)
    BY <2>1, ShownInScope DEF Used
  <2>3. Used(scope, i) \subseteq TablesShown(p, c)
    BY <1>1, <2>2, ShownTables
  <2>4. QED
    BY <1>2, <2>1, <2>3 DEF N
<1>5. CASE e \in OutputEdges(scope)
  <2>1. PICK i \in CallsIn(scope) \cap PiecesIn(scope) :
            e = <<<<"analysis", i>>, <<"artifact", i>>>>
    BY <1>5 DEF OutputEdges
  <2>2. QED
    BY <1>2, <2>1 DEF N
<1>6. CASE e \in ProfileEdges(scope)
  <2>1. PICK a \in PiecesIn(scope) : /\ pieces[a].lineage # NoRef
                                     /\ e = <<<<"dataset", pieces[a].lineage>>, <<"artifact", a>>>>
    BY <1>6 DEF ProfileEdges
  <2>2. pieces[a].lineage \in TablesShown(p, c)
    BY <1>1, <2>1, ShownInScope, ShownTables
  <2>3. QED
    BY <1>2, <2>1, <2>2 DEF N
<1>7. CASE e \in EvidenceEdges(scope)
  <2>1. PICK d \in scope :
            \E i \in EvidenceOf(d) : e = <<<<SourceOf(scope, i), i>>, <<"evidence", i>>>>
    BY <1>7 DEF EvidenceEdges
  <2>2. \A i \in EvidenceOf(d) : <<SourceOf(scope, i), i>> \in N
    BY <1>2, <2>1, ShownInScope DEF SourceOf
  <2>3. QED
    BY <1>2, <2>1, <2>2 DEF N
<1>8. CASE \E d \in scope : e \in ClaimEdges(d)
  <2>1. PICK d \in scope : e \in ClaimEdges(d)
    BY <1>8
  <2>2. PICK k \in claimed[d] : \E i \in k : e = <<<<"evidence", i>>, <<"claim", d, k>>>>
    BY <2>1 DEF ClaimEdges
  <2>3. k \subseteq EvidenceOf(d)
    BY <1>1, <2>1, <2>2 DEF ClaimsAtHome
  <2>4. QED
    BY <1>2, <2>1, <2>2, <2>3 DEF N
<1>9. QED
  BY <1>1, <1>3, <1>4, <1>5, <1>6, <1>7, <1>8 DEF GraphEdges

LEMMA SoundIsTraced == ASSUME LineageInv PROVE Traced
<1> USE DEF LineageInv
<1> SUFFICES ASSUME NEW p \in Projects, NEW c \in Chats \cup {NoRef}
             PROVE  /\ \A e \in GraphEdges(p, c) :
                          e[1] \in GraphNodes(p, c) /\ e[2] \in GraphNodes(p, c)
                    /\ \A t \in TablesShown(p, c) : \A u \in Parents(p, t) :
                          <<<<"dataset", u>>, <<"dataset", t>>>> \in GraphEdges(p, c)
                    /\ \A d \in Scope(p, c) : \A k \in claimed[d] : \A i \in k :
                          LET E == GraphEdges(p, c)
                          IN /\ <<<<"evidence", i>>, <<"claim", d, k>>>> \in E
                             /\ \/ <<<<"analysis", i>>, <<"evidence", i>>>> \in E
                                \/ /\ <<<<"analysis", i>>, <<"artifact", i>>>> \in E
                                   /\ <<<<"artifact", i>>, <<"evidence", i>>>> \in E
                             /\ \A t \in invoked[i].reads :
                                   <<<<"dataset", t>>, <<"analysis", i>>>> \in E
  BY DEF Traced
<1>1. PICK scope \in SUBSET Chats : scope = Scope(p, c)
  BY DEF Scope
<1>2. \A e \in GraphEdges(p, c) : e[1] \in GraphNodes(p, c) /\ e[2] \in GraphNodes(p, c)
  BY ShownEdges
<1>3. ASSUME NEW t \in TablesShown(p, c), NEW u \in Parents(p, t)
      PROVE  <<<<"dataset", u>>, <<"dataset", t>>>> \in GraphEdges(p, c)
  <2>1. t \in OwnTables(p, c)
    BY <1>3, ShownTables
  <2>2. <<<<"dataset", u>>, <<"dataset", t>>>> \in DescentEdges(p, c)
    BY <1>3, <2>1 DEF DescentEdges
  <2>3. QED
    BY <2>2 DEF GraphEdges
<1>4. ASSUME NEW d \in scope, NEW k \in claimed[d], NEW i \in k
      PROVE  /\ <<<<"evidence", i>>, <<"claim", d, k>>>> \in ClaimEdges(d)
             /\ <<<<SourceOf(scope, i), i>>, <<"evidence", i>>>> \in EvidenceEdges(scope)
             /\ i \in PiecesIn(scope) =>
                    <<<<"analysis", i>>, <<"artifact", i>>>> \in OutputEdges(scope)
             /\ \A t \in invoked[i].reads :
                    <<<<"dataset", t>>, <<"analysis", i>>>> \in InputEdges(scope)
  <2>1. i \in EvidenceOf(d) /\ i \in CallsIn(scope)
    BY <1>4, ShownInScope DEF ClaimsAtHome
  <2>2. <<<<"evidence", i>>, <<"claim", d, k>>>> \in ClaimEdges(d)
    BY <1>4 DEF ClaimEdges
  <2>3. <<<<SourceOf(scope, i), i>>, <<"evidence", i>>>> \in EvidenceEdges(scope)
    BY <1>4, <2>1 DEF EvidenceEdges
  <2>4. i \in PiecesIn(scope) => <<<<"analysis", i>>, <<"artifact", i>>>> \in OutputEdges(scope)
    BY <2>1 DEF OutputEdges
  <2>5. ASSUME NEW t \in invoked[i].reads
        PROVE  <<<<"dataset", t>>, <<"analysis", i>>>> \in InputEdges(scope)
    <3>1. t \in Used(scope, i)
      BY <2>5 DEF Used
    <3>2. QED
      BY <2>1, <3>1 DEF InputEdges
  <2>6. QED
    BY <2>2, <2>3, <2>4, <2>5
<1>5. /\ InputEdges(scope) \cup OutputEdges(scope) \cup EvidenceEdges(scope) \subseteq GraphEdges(p, c)
      /\ \A d \in scope : ClaimEdges(d) \subseteq GraphEdges(p, c)
  BY <1>1 DEF GraphEdges
<1>6. QED
  BY <1>1, <1>2, <1>3, <1>4, <1>5 DEF SourceOf

(* What a claim says can be followed back to the data, and no edge leads out *)
(* of the graph that build_graph of lineage.py shows.                        *)
THEOREM ClaimsAreTraced == LineageSpec => []Traceable
<1>1. LineageInv => Traceable
  BY SoundIsTraced, DatedNoCycle DEF LineageInv, LineageWhole, Traceable
<1>2. QED
  BY <1>1, LineageSound, PTL
=============================================================================
