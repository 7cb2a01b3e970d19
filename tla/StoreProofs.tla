---------------------------- MODULE StoreProofs ----------------------------
(* Proofs about the components that keep what outlives a run: the locks of   *)
(* the conversations, the schema of the database, its backups, the Milvus    *)
(* index, the long-term memories and the local knowledge base.               *)
EXTENDS ConversationLocks, WorkspaceBackup, MilvusStore, MemoryStore, KnowledgeBase,
        FiniteSetTheorems, SequenceTheorems, WellFoundedInduction, TLAPS
-----------------------------------------------------------------------------
(* ConversationLocks, for any number of turns, conversations and entries:    *)
(* the inductive invariant.  What users, lock and queue of an entry have to  *)
(* do with the turns at it.                                                  *)
At(e) == {t \in Turns : turn[t].entry = e}
Waiting(e) == {t \in At(e) : turn[t].stage \in {"waits", "woken"}}
Inside(e) == {t \in At(e) : turn[t].stage = "inside"}
Queued(queue) == {queue[k] : k \in DOMAIN queue}
Distinct(queue) == \A j, k \in DOMAIN queue : queue[j] = queue[k] => j = k

\* A turn has an entry while it is not away.
Placed == \A t \in Turns : turn[t].stage = "away" <=> turn[t].entry = NoEntry

Counted == \A e \in Entries : users[e] = Cardinality(At(e))

\* Turns are at entries that newcomers find, and only those are found.
Found ==
    /\ \A t \in Turns : turn[t].entry # NoEntry => Named(turn[t].entry)
    /\ \A c \in Talks : entries[c] # NoEntry => At(entries[c]) # {}

Locked ==
    \A e \in Entries :
        /\ e \in held <=> Inside(e) # {}
        /\ \A t, u \in Inside(e) : t = u

InLine == \A e \in Entries : Distinct(waiters[e]) /\ Queued(waiters[e]) = Waiting(e)

\* Only the first waiter of a free lock is awake, and it is.
FirstAwake ==
    \A e \in Entries, t \in Turns :
        turn[t].entry = e /\ turn[t].stage = "woken" =>
            e \notin held /\ t = waiters[e][1]

LocksInv ==
    /\ LocksTypeOK
    /\ Placed
    /\ Counted
    /\ Found
    /\ Locked
    /\ InLine
    /\ FirstAwake
    /\ SomeoneGoes
-----------------------------------------------------------------------------
(* The queue of a lock.                                                      *)
LEMMA Appended ==
    ASSUME NEW q \in Seq(Turns), Distinct(q), NEW t \in Turns, t \notin Queued(q)
    PROVE  LET r == Append(q, t)
           IN /\ r \in Seq(Turns) /\ Distinct(r) /\ Queued(r) = Queued(q) \cup {t}
              /\ q # <<>> => r[1] = q[1]
<1> DEFINE r == Append(q, t)
<1>1. /\ r \in Seq(Turns) /\ DOMAIN r = 1..(Len(q) + 1) /\ DOMAIN q = 1..Len(q)
      /\ Len(q) \in Nat
      /\ \A k \in 1..Len(q) : r[k] = q[k]
      /\ r[Len(q) + 1] = t
  OBVIOUS
<1>2. Distinct(r)
  BY <1>1 DEF Distinct, Queued
<1>3. Queued(r) = Queued(q) \cup {t}
  BY <1>1 DEF Queued
<1>4. q # <<>> => 1 \in 1..Len(q)
  BY <1>1
<1>5. QED
  BY <1>1, <1>2, <1>3, <1>4

LEMMA Removed ==
    ASSUME NEW q \in Seq(Turns), Distinct(q), NEW t \in Queued(q)
    PROVE  LET r == Dequeued(q, t)
           IN /\ r \in Seq(Turns) /\ Distinct(r) /\ Queued(r) = Queued(q) \ {t}
              /\ q[1] # t => r # <<>> /\ r[1] = q[1]
<1> DEFINE r == Dequeued(q, t)
           i == CHOOSE k \in DOMAIN q : q[k] = t
<1>1. i \in 1..Len(q) /\ q[i] = t /\ DOMAIN q = 1..Len(q) /\ Len(q) \in Nat
  BY DEF Queued
<1>2. \A k \in 1..Len(q) : k # i => q[k] # t
  BY <1>1 DEF Distinct
<1> HIDE DEF i
<1>3. r = [k \in 1..(Len(q) - 1) |-> IF k < i THEN q[k] ELSE q[k + 1]]
  BY DEF Dequeued, i
<1> HIDE DEF r
<1> DEFINE from(k) == IF k < i THEN k ELSE k + 1
<1>4. /\ r \in Seq(Turns) /\ DOMAIN r = 1..(Len(q) - 1)
      /\ \A k \in 1..(Len(q) - 1) : from(k) \in 1..Len(q) \ {i} /\ r[k] = q[from(k)]
  <2>1. Len(q) - 1 \in Nat
    BY <1>1
  <2>2. \A k \in 1..(Len(q) - 1) : from(k) \in 1..Len(q) \ {i} /\ r[k] = q[from(k)]
    BY <1>1, <1>3
  <2>3. \A k \in 1..Len(q) : q[k] \in Turns
    BY <1>1
  <2>4. r \in [1..(Len(q) - 1) -> Turns]
    BY <1>3, <2>2, <2>3
  <2>5. QED
    BY <2>1, <2>2, <2>4, SeqDef
<1>5. Distinct(r)
  <2>1. \A j, k \in 1..Len(q) : q[j] = q[k] => j = k
    BY <1>1 DEF Distinct
  <2>2. ASSUME NEW j \in 1..(Len(q) - 1), NEW k \in 1..(Len(q) - 1), r[j] = r[k] PROVE j = k
    <3>1. from(j) = from(k)
      BY <1>4, <2>1, <2>2
    <3>2. QED
      BY <1>1, <3>1
  <2>3. QED
    BY <1>4, <2>2 DEF Distinct
<1>6. Queued(r) = Queued(q) \ {t}
  <2>1. Queued(r) \subseteq Queued(q) \ {t}
    BY <1>1, <1>2, <1>4 DEF Queued
  <2>2. ASSUME NEW k \in 1..Len(q), q[k] # t PROVE q[k] \in Queued(r)
    <3>1. CASE k < i
      BY <1>1, <1>4, <3>1 DEF Queued
    <3>2. CASE k > i
      BY <1>1, <1>4, <3>2, k - 1 \in 1..(Len(q) - 1), q[k] = r[k - 1] DEF Queued
    <3>3. QED
      BY <1>1, <2>2, <3>1, <3>2
  <2>3. QED
    BY <1>1, <2>1, <2>2 DEF Queued
<1>7. q[1] # t => r # <<>> /\ r[1] = q[1]
  BY <1>1, <1>4
<1>8. QED
  BY <1>4, <1>5, <1>6, <1>7 DEF r
-----------------------------------------------------------------------------
(* The turns at an entry are counted by its users.                           *)
LEMMA Finite ==
    /\ Cardinality(Turns) \in Nat
    /\ \A S \in SUBSET Turns :
          IsFiniteSet(S) /\ Cardinality(S) \in Nat /\ Cardinality(S) <= Cardinality(Turns)
BY LockAssumption, FS_CardinalityType, FS_Subset

LEMMA Come ==
    ASSUME LocksInv, NEW t \in Turns, NEW e \in Entries, t \notin At(e),
           users' = [users EXCEPT ![e] = @ + 1],
           \A f \in Entries : At(f)' = IF f = e THEN At(e) \cup {t} ELSE At(f)
    PROVE  Counted' /\ users' \in [Entries -> 0..Cardinality(Turns)]
<1>1. \A f \in Entries : At(f) \in SUBSET Turns /\ At(f)' \in SUBSET Turns
  BY DEF At
<1>2. Cardinality(At(e) \cup {t}) = Cardinality(At(e)) + 1
  BY <1>1, Finite, FS_AddElement
<1>3. \A f \in Entries : users'[f] = Cardinality(At(f)')
  BY <1>2 DEF LocksInv, LocksTypeOK, Counted
<1>4. QED
  BY <1>1, <1>3, Finite DEF Counted, LocksInv, LocksTypeOK

LEMMA Go ==
    ASSUME LocksInv, NEW t \in Turns, NEW e \in Entries, t \in At(e),
           users' = [users EXCEPT ![e] = @ - 1],
           \A f \in Entries : At(f)' = IF f = e THEN At(e) \ {t} ELSE At(f)
    PROVE  /\ Counted' /\ users' \in [Entries -> 0..Cardinality(Turns)]
           /\ users[e] = 1 <=> At(e) = {t}
<1>1. \A f \in Entries : At(f) \in SUBSET Turns /\ At(f)' \in SUBSET Turns
  BY DEF At
<1>2. Cardinality(At(e) \ {t}) = Cardinality(At(e)) - 1
  BY <1>1, Finite, FS_RemoveElement
<1>3. \A f \in Entries : users'[f] = Cardinality(At(f)')
  BY <1>2 DEF LocksInv, LocksTypeOK, Counted
<1>4. users[e] = 1 <=> At(e) = {t}
  BY <1>1, Finite, FS_Singleton DEF LocksInv, Counted
<1>5. QED
  BY <1>1, <1>3, <1>4, Finite DEF Counted, LocksInv, LocksTypeOK
-----------------------------------------------------------------------------
LEMMA HoldKeeps ==
    ASSUME LocksInv, NEW t \in Turns, NEW c \in Talks, Hold(t, c)
    PROVE  LocksInv'
<1> USE DEF LocksInv
<1>1. PICK e \in Entries :
         /\ entries' = [entries EXCEPT ![c] = e] /\ users' = [users EXCEPT ![e] = @ + 1]
         /\ Acquire(t, e)
         /\ entries[c] \in {NoEntry, e}
  BY DEF Hold, Unmade, LocksTypeOK
<1>2. turn[t].entry = NoEntry /\ turn[t].stage = "away" /\ NoEntry \notin Entries
  BY LockAssumption DEF Hold, Away
<1>3. /\ turn' \in [Turns -> [stage : {"away", "waits", "woken", "inside"},
                              entry : Entries \cup {NoEntry}]]
      /\ turn'[t].entry = e /\ turn'[t].stage \in {"waits", "inside"}
      /\ \A u \in Turns \ {t} : turn'[u] = turn[u]
  <2>1. PICK st \in {"waits", "inside"} :
            turn' = [turn EXCEPT ![t] = [stage |-> st, entry |-> e]]
    BY <1>1 DEF Acquire
  <2>2. QED
    BY <2>1 DEF LocksTypeOK
<1>4. t \notin At(e) /\ \A f \in Entries : At(f)' = IF f = e THEN At(e) \cup {t} ELSE At(f)
  BY <1>2, <1>3 DEF At
<1>5. Counted' /\ users' \in [Entries -> 0..Cardinality(Turns)]
  BY <1>1, <1>4, Come
<1>6. Placed'
  BY <1>2, <1>3 DEF Placed
<1>7. Found'
  <2>1. ASSUME NEW u \in Turns, turn'[u].entry # NoEntry PROVE Named(turn[u].entry)'
    <3>1. CASE turn'[u].entry = e
      BY <1>1, <3>1 DEF Named, LocksTypeOK
    <3>2. CASE turn'[u].entry # e
      <4>1. u # t /\ turn'[u] = turn[u]
        BY <1>3, <3>2
      <4>2. PICK d \in Talks : entries[d] = turn[u].entry
        BY <2>1, <4>1 DEF Found, Named
      <4>3. d # c
        BY <1>1, <2>1, <3>2, <4>1, <4>2
      <4>4. QED
        BY <1>1, <4>1, <4>2, <4>3 DEF Named, LocksTypeOK
    <3>3. QED
      BY <3>1, <3>2
  <2>2. ASSUME NEW d \in Talks, entries'[d] # NoEntry PROVE At(entries[d])' # {}
    BY <1>1, <1>4, <2>2 DEF Found, LocksTypeOK, At
  <2>3. QED
    BY <2>1, <2>2 DEF Found
<1>8. CASE e \notin held /\ waiters[e] = <<>>
  <2>1. held' = held \cup {e} /\ waiters' = waiters /\ turn'[t].stage = "inside"
    BY <1>1, <1>8 DEF Acquire, LocksTypeOK
  <2>2. /\ Waiting(e) = {} /\ Inside(e) = {}
        /\ \A f \in Entries : Waiting(f)' = Waiting(f)
        /\ \A f \in Entries : Inside(f)' = IF f = e THEN {t} ELSE Inside(f)
    <3>1. Waiting(e) = {} /\ Inside(e) = {}
      BY <1>8 DEF InLine, Queued, Locked
    <3>2. QED
      BY <1>2, <1>3, <1>4, <2>1, <3>1 DEF Waiting, Inside, At
  <2>3. InLine' /\ Locked'
    BY <2>1, <2>2 DEF InLine, Locked
  <2>4. FirstAwake'
    BY <1>2, <1>3, <2>1, <2>2 DEF FirstAwake, Waiting, At
  <2>5. SomeoneGoes'
    BY <1>2, <1>3, <2>1 DEF SomeoneGoes
  <2>6. QED
    BY <1>1, <1>3, <1>5, <1>6, <1>7, <2>1, <2>3, <2>4, <2>5 DEF LocksTypeOK
<1>9. CASE ~(e \notin held /\ waiters[e] = <<>>)
  <2>1. /\ held' = held /\ waiters' = [waiters EXCEPT ![e] = Append(@, t)]
        /\ turn'[t].stage = "waits"
    BY <1>1, <1>9 DEF Acquire, LocksTypeOK
  <2>2. /\ \A f \in Entries : Waiting(f)' = IF f = e THEN Waiting(e) \cup {t} ELSE Waiting(f)
        /\ \A f \in Entries : Inside(f)' = Inside(f)
    BY <1>2, <1>3, <1>4, <2>1 DEF Waiting, Inside, At
  <2>3. /\ waiters' \in [Entries -> Seq(Turns)]
        /\ Distinct(waiters'[e]) /\ Queued(waiters'[e]) = Queued(waiters[e]) \cup {t}
        /\ waiters[e] # <<>> => waiters'[e][1] = waiters[e][1]
    <3>1. t \notin Queued(waiters[e])
      BY <1>4 DEF InLine, Waiting
    <3>2. QED
      BY <2>1, <3>1, Appended DEF InLine, LocksTypeOK
  <2>4. InLine' /\ Locked'
    <3>1. ASSUME NEW f \in Entries PROVE Distinct(waiters'[f]) /\ Queued(waiters'[f]) = Waiting(f)'
      BY <2>1, <2>2, <2>3 DEF InLine, LocksTypeOK
    <3>2. InLine'
      BY <3>1 DEF InLine
    <3>3. QED
      BY <2>1, <2>2, <3>2 DEF Locked
  <2>5. FirstAwake'
    <3>1. \A u \in Turns : turn[u].entry = e /\ turn[u].stage = "woken" => waiters[e] # <<>>
      BY DEF InLine, Waiting, At, Queued
    <3>2. QED
      BY <1>2, <1>3, <2>1, <2>3, <3>1 DEF FirstAwake, LocksTypeOK
  <2>6. SomeoneGoes'
    <3>1. \E u \in Turns : turn[u].entry = e /\ turn[u].stage \in {"woken", "inside"}
      BY <1>9 DEF SomeoneGoes, Locked, Inside, At
    <3>2. \A f \in Entries : waiters'[f] # <<>> =>
              \E u \in Turns : turn[u].entry = f /\ turn[u].stage \in {"woken", "inside"}
      BY <2>1, <3>1 DEF SomeoneGoes, LocksTypeOK
    <3>3. QED
      BY <1>2, <1>3, <3>2 DEF SomeoneGoes
  <2>7. QED
    BY <1>1, <1>3, <1>5, <1>6, <1>7, <2>1, <2>3, <2>4, <2>5, <2>6 DEF LocksTypeOK
<1>10. QED
  BY <1>8, <1>9

\* The finally clause, whatever the turn has done before.
LEMMA ForgetKeeps ==
    ASSUME LocksInv, NEW t \in Turns, NEW e \in Entries, turn[t].entry = e, Forget(e),
           \A u \in Turns : turn'[u].entry = IF u = t THEN NoEntry ELSE turn[u].entry
    PROVE  /\ Counted' /\ Found'
           /\ users' \in [Entries -> 0..Cardinality(Turns)]
           /\ entries' \in [Talks -> Entries \cup {NoEntry}]
           /\ \A f \in Entries : At(f)' = At(f) \ {t}
<1> USE DEF LocksInv
<1>1. NoEntry \notin Entries
  BY LockAssumption
<1>2. \A f \in Entries : At(f)' = At(f) \ {t}
  BY <1>1 DEF At
<1>3. /\ t \in At(e)
      /\ \A f \in Entries : At(f)' = IF f = e THEN At(e) \ {t} ELSE At(f)
  BY <1>2 DEF At
<1>4. /\ Counted' /\ users' \in [Entries -> 0..Cardinality(Turns)]
      /\ users[e] = 1 <=> At(e) = {t}
  BY <1>3, Go DEF Forget
<1>5. /\ entries' \in [Talks -> Entries \cup {NoEntry}]
      /\ \A c \in Talks : entries'[c] =
            IF entries[c] = e /\ At(e) = {t} THEN NoEntry ELSE entries[c]
  BY <1>4 DEF Forget, LocksTypeOK
<1>6. ASSUME NEW u \in Turns, turn'[u].entry # NoEntry PROVE Named(turn[u].entry)'
  <2>1. u # t /\ turn'[u].entry = turn[u].entry
    BY <1>6
  <2>2. PICK c \in Talks : entries[c] = turn[u].entry
    BY <1>6, <2>1 DEF Found, Named
  <2>3. turn[u].entry = e => At(e) # {t}
    BY <2>1 DEF At
  <2>4. QED
    BY <1>5, <2>1, <2>2, <2>3 DEF Named
<1>7. ASSUME NEW c \in Talks, entries'[c] # NoEntry PROVE At(entries[c])' # {}
  <2>1. entries'[c] = entries[c] /\ entries[c] \in Entries
    BY <1>5, <1>7 DEF LocksTypeOK
  <2>2. CASE entries[c] = e
    BY <1>3, <1>5, <1>7, <2>1, <2>2
  <2>3. CASE entries[c] # e
    BY <1>3, <1>5, <1>7, <2>1, <2>3 DEF Found
  <2>4. QED
    BY <2>2, <2>3
<1>8. Found'
  BY <1>6, <1>7 DEF Found
<1>9. QED
  BY <1>2, <1>4, <1>5, <1>8

LEMMA EnterKeeps ==
    ASSUME LocksInv, NEW t \in Turns, Enter(t)
    PROVE  LocksInv'
<1> USE DEF LocksInv
<1> DEFINE e == turn[t].entry
<1>1. /\ turn[t].stage = "woken" /\ held' = held \cup {e}
      /\ waiters' = [waiters EXCEPT ![e] = Dequeued(@, t)]
      /\ turn' = [turn EXCEPT ![t].stage = "inside"]
      /\ entries' = entries /\ users' = users
  BY DEF Enter
<1>2. e \in Entries
  BY <1>1 DEF Placed, LocksTypeOK
<1> HIDE DEF e
<1>3. /\ turn' \in [Turns -> [stage : {"away", "waits", "woken", "inside"},
                              entry : Entries \cup {NoEntry}]]
      /\ turn[t].entry = e /\ turn'[t].entry = e /\ turn'[t].stage = "inside"
      /\ \A u \in Turns \ {t} : turn'[u] = turn[u]
  BY <1>1 DEF LocksTypeOK, e
<1>4. e \notin held /\ t = waiters[e][1] /\ Inside(e) = {}
  BY <1>1, <1>2, <1>3 DEF FirstAwake, Locked
<1>5. /\ \A f \in Entries : At(f)' = At(f)
      /\ \A f \in Entries : Waiting(f)' = IF f = e THEN Waiting(e) \ {t} ELSE Waiting(f)
      /\ \A f \in Entries : Inside(f)' = IF f = e THEN {t} ELSE Inside(f)
  BY <1>1, <1>3, <1>4 DEF At, Waiting, Inside
<1>6. /\ waiters' \in [Entries -> Seq(Turns)]
      /\ Distinct(waiters'[e]) /\ Queued(waiters'[e]) = Queued(waiters[e]) \ {t}
  <2>1. t \in Queued(waiters[e])
    BY <1>1, <1>2, <1>3 DEF InLine, Waiting, At
  <2>2. QED
    BY <1>1, <1>2, <2>1, Removed DEF InLine, LocksTypeOK
<1>7. InLine' /\ Locked'
  <2>1. ASSUME NEW f \in Entries PROVE Distinct(waiters'[f]) /\ Queued(waiters'[f]) = Waiting(f)'
    BY <1>1, <1>5, <1>6 DEF InLine, LocksTypeOK
  <2>2. InLine'
    BY <2>1 DEF InLine
  <2>3. QED
    BY <1>1, <1>2, <1>5, <2>2 DEF Locked
<1>8. FirstAwake'
  <2>1. \A u \in Turns : turn[u].entry = e /\ turn[u].stage = "woken" => u = t
    BY <1>2, <1>4 DEF FirstAwake
  <2>2. QED
    BY <1>1, <1>3, <2>1 DEF FirstAwake, LocksTypeOK
<1>9. SomeoneGoes'
  <2>1. \A f \in Entries \ {e} : waiters'[f] = waiters[f]
    BY <1>1, <1>2 DEF LocksTypeOK
  <2>2. ASSUME NEW f \in Entries, waiters'[f] # <<>>
        PROVE  \E u \in Turns : turn'[u].entry = f /\ turn'[u].stage \in {"woken", "inside"}
    BY <1>3, <2>1, <2>2 DEF SomeoneGoes
  <2>3. QED
    BY <2>2 DEF SomeoneGoes
<1>10. Placed' /\ Counted' /\ Found'
  <2>1. Placed' /\ Counted'
    BY <1>1, <1>2, <1>3, <1>5, LockAssumption DEF Placed, Counted
  <2>2. \A u \in Turns : turn'[u].entry = turn[u].entry
    BY <1>3
  <2>3. QED
    BY <1>1, <1>5, <2>1, <2>2 DEF Found, Named, LocksTypeOK
<1>11. QED
  BY <1>1, <1>2, <1>3, <1>6, <1>7, <1>8, <1>9, <1>10 DEF LocksTypeOK

LEMMA LeaveKeeps ==
    ASSUME LocksInv, NEW t \in Turns, Leave(t)
    PROVE  LocksInv'
<1> USE DEF LocksInv
<1> DEFINE e == turn[t].entry
           queue == waiters[e]
<1>1. /\ turn[t].stage = "inside" /\ held' = held \ {e} /\ waiters' = waiters /\ Forget(e)
      /\ turn' = Woken(queue, [turn EXCEPT ![t] = Away])
  BY DEF Leave
<1>2. e \in Entries /\ NoEntry \notin Entries
  BY <1>1, LockAssumption DEF Placed, LocksTypeOK
<1>3. queue \in Seq(Turns) /\ Queued(queue) = Waiting(e) /\ Distinct(queue)
  BY <1>2 DEF LocksTypeOK, InLine
<1> HIDE DEF e, queue
<1>4. e = turn[t].entry /\ queue = waiters[e]
  BY DEF e, queue
<1>5. queue # <<>> => queue[1] = Head(queue) /\ queue[1] \in Waiting(e) /\ queue[1] # t
  BY <1>1, <1>3 DEF Queued, Waiting
<1>6. /\ turn' \in [Turns -> [stage : {"away", "waits", "woken", "inside"},
                              entry : Entries \cup {NoEntry}]]
      /\ turn'[t] = Away
      /\ \A u \in Turns \ {t} :
            /\ turn'[u].entry = turn[u].entry
            /\ turn'[u].stage = IF queue # <<>> /\ u = queue[1] THEN "woken" ELSE turn[u].stage
  <2>1. Away \in [stage : {"away", "waits", "woken", "inside"}, entry : Entries \cup {NoEntry}]
    BY DEF Away
  <2>2. CASE queue = <<>>
    BY <1>1, <2>1, <2>2 DEF LocksTypeOK, Woken
  <2>3. CASE queue # <<>>
    BY <1>1, <1>5, <2>1, <2>3 DEF LocksTypeOK, Woken, Waiting, At
  <2>4. QED
    BY <2>2, <2>3
<1>7. \A u \in Turns : turn'[u].entry = IF u = t THEN NoEntry ELSE turn[u].entry
  BY <1>6 DEF Away
<1>8. /\ Counted' /\ Found'
      /\ users' \in [Entries -> 0..Cardinality(Turns)]
      /\ entries' \in [Talks -> Entries \cup {NoEntry}]
      /\ \A f \in Entries : At(f)' = At(f) \ {t}
  BY <1>1, <1>2, <1>4, <1>7, ForgetKeeps
<1>9. /\ \A f \in Entries : Waiting(f)' = Waiting(f)
      /\ \A f \in Entries : Inside(f)' = Inside(f) \ {t}
  <2>1. ASSUME NEW u \in Turns, u # t
        PROVE  /\ turn'[u].stage = "inside" <=> turn[u].stage = "inside"
               /\ turn'[u].stage \in {"waits", "woken"} <=> turn[u].stage \in {"waits", "woken"}
    BY <1>5, <1>6, <2>1 DEF Waiting
  <2>2. turn'[t].stage = "away"
    BY <1>6 DEF Away
  <2>3. QED
    BY <1>1, <1>8, <2>1, <2>2 DEF Waiting, Inside, At
<1>10. Inside(e) = {t} /\ e \in held
  BY <1>1, <1>2, <1>4 DEF Locked, Inside, At
<1>11. InLine' /\ Locked'
  <2>1. \A f \in Entries \ {e} : t \notin Inside(f)
    BY <1>4 DEF Inside, At
  <2>2. InLine'
    BY <1>1, <1>9 DEF InLine
  <2>3. ASSUME NEW f \in Entries
        PROVE  (f \in held' <=> Inside(f)' # {}) /\ \A u, v \in Inside(f)' : u = v
    BY <1>1, <1>9, <1>10, <2>1 DEF Locked
  <2>4. QED
    BY <2>2, <2>3 DEF Locked
<1>12. FirstAwake'
  <2>1. ASSUME NEW f \in Entries, NEW u \in Turns,
               turn'[u].entry = f, turn'[u].stage = "woken"
        PROVE  f \notin held' /\ u = waiters'[f][1]
    <3>1. u # t /\ turn[u].entry = f
      BY <1>6, <2>1 DEF Away
    <3>2. CASE queue # <<>> /\ u = queue[1]
      BY <1>1, <1>4, <1>5, <3>1, <3>2 DEF Waiting, At
    <3>3. CASE ~(queue # <<>> /\ u = queue[1])
      <4>1. turn[u].stage = "woken"
        BY <1>6, <2>1, <3>1, <3>3
      <4>2. f \notin held /\ u = waiters[f][1]
        BY <3>1, <4>1 DEF FirstAwake
      <4>3. QED
        BY <1>1, <4>2
    <3>4. QED
      BY <3>2, <3>3
  <2>2. QED
    BY <2>1 DEF FirstAwake
<1>13. SomeoneGoes'
  <2>1. ASSUME NEW f \in Entries, waiters[f] # <<>>
        PROVE  \E u \in Turns : turn'[u].entry = f /\ turn'[u].stage \in {"woken", "inside"}
    <3>1. CASE f = e
      BY <1>4, <1>5, <1>6, <2>1, <3>1 DEF Waiting, At
    <3>2. CASE f # e
      <4>1. PICK u \in Turns : turn[u].entry = f /\ turn[u].stage \in {"woken", "inside"}
        BY <2>1 DEF SomeoneGoes
      <4>2. QED
        BY <1>4, <1>5, <1>6, <3>2, <4>1 DEF Waiting, At
    <3>3. QED
      BY <3>1, <3>2
  <2>2. QED
    BY <1>1, <2>1 DEF SomeoneGoes
<1>14. Placed'
  <2>1. ASSUME NEW u \in Turns PROVE turn'[u].stage = "away" <=> turn'[u].entry = NoEntry
    BY <1>2, <1>5, <1>6 DEF Placed, Away, Waiting, At
  <2>2. QED
    BY <2>1 DEF Placed
<1>15. QED
  BY <1>1, <1>6, <1>8, <1>11, <1>12, <1>13, <1>14 DEF LocksTypeOK

LEMMA GiveUpKeeps ==
    ASSUME LocksInv, NEW t \in Turns, GiveUp(t)
    PROVE  LocksInv'
<1> USE DEF LocksInv
<1> DEFINE e == turn[t].entry
           rest == Dequeued(waiters[e], t)
<1>1. /\ turn[t].stage \in {"waits", "woken"} /\ held' = held /\ Forget(e)
      /\ waiters' = [waiters EXCEPT ![e] = rest]
      /\ turn' = IF e \in held THEN [turn EXCEPT ![t] = Away]
                 ELSE Woken(rest, [turn EXCEPT ![t] = Away])
  BY DEF GiveUp
<1>2. e \in Entries /\ NoEntry \notin Entries
  BY <1>1, LockAssumption DEF Placed, LocksTypeOK
<1>3. /\ rest \in Seq(Turns) /\ Distinct(rest) /\ Queued(rest) = Waiting(e) \ {t}
      /\ waiters[e][1] # t => rest # <<>> /\ rest[1] = waiters[e][1]
  <2>1. waiters[e] \in Seq(Turns) /\ Distinct(waiters[e]) /\ Queued(waiters[e]) = Waiting(e)
    BY <1>2 DEF LocksTypeOK, InLine
  <2>2. t \in Waiting(e)
    BY <1>1 DEF Waiting, At
  <2>3. QED
    BY <2>1, <2>2, Removed
<1> HIDE DEF e, rest
<1>4. e = turn[t].entry
  BY DEF e
<1> DEFINE wakes == e \notin held /\ rest # <<>>
<1>5. rest # <<>> => rest[1] = Head(rest) /\ rest[1] \in Waiting(e) /\ rest[1] # t
  BY <1>3 DEF Queued
<1>6. /\ turn' \in [Turns -> [stage : {"away", "waits", "woken", "inside"},
                              entry : Entries \cup {NoEntry}]]
      /\ turn'[t] = Away
      /\ \A u \in Turns \ {t} :
            /\ turn'[u].entry = turn[u].entry
            /\ turn'[u].stage = IF wakes /\ u = rest[1] THEN "woken" ELSE turn[u].stage
  <2>1. Away \in [stage : {"away", "waits", "woken", "inside"}, entry : Entries \cup {NoEntry}]
    BY DEF Away
  <2>2. CASE ~wakes
    BY <1>1, <2>1, <2>2 DEF LocksTypeOK, Woken
  <2>3. CASE wakes
    BY <1>1, <1>5, <2>1, <2>3 DEF LocksTypeOK, Woken, Waiting, At
  <2>4. QED
    BY <2>2, <2>3
<1>7. \A u \in Turns : turn'[u].entry = IF u = t THEN NoEntry ELSE turn[u].entry
  BY <1>6 DEF Away
<1>8. /\ Counted' /\ Found'
      /\ users' \in [Entries -> 0..Cardinality(Turns)]
      /\ entries' \in [Talks -> Entries \cup {NoEntry}]
      /\ \A f \in Entries : At(f)' = At(f) \ {t}
  BY <1>1, <1>2, <1>4, <1>7, ForgetKeeps
<1>9. /\ \A f \in Entries : Waiting(f)' = Waiting(f) \ {t}
      /\ \A f \in Entries : Inside(f)' = Inside(f)
      /\ \A f \in Entries \ {e} : t \notin Waiting(f)
  <2>1. ASSUME NEW u \in Turns, u # t
        PROVE  /\ turn'[u].stage = "inside" <=> turn[u].stage = "inside"
               /\ turn'[u].stage \in {"waits", "woken"} <=> turn[u].stage \in {"waits", "woken"}
    BY <1>5, <1>6, <2>1 DEF Waiting
  <2>2. turn'[t].stage = "away"
    BY <1>6 DEF Away
  <2>3. QED
    BY <1>1, <1>4, <1>8, <2>1, <2>2 DEF Waiting, Inside, At
<1>10. waiters' \in [Entries -> Seq(Turns)] /\ waiters'[e] = rest
       /\ \A f \in Entries \ {e} : waiters'[f] = waiters[f]
  BY <1>1, <1>2, <1>3 DEF LocksTypeOK
<1>11. InLine' /\ Locked'
  <2>1. ASSUME NEW f \in Entries PROVE Distinct(waiters'[f]) /\ Queued(waiters'[f]) = Waiting(f)'
    <3>1. CASE f = e
      BY <1>3, <1>9, <1>10, <3>1
    <3>2. CASE f # e
      <4>1. waiters'[f] = waiters[f] /\ Waiting(f)' = Waiting(f)
        BY <1>9, <1>10, <3>2
      <4>2. QED
        BY <4>1 DEF InLine
    <3>3. QED
      BY <3>1, <3>2
  <2>2. InLine'
    BY <2>1 DEF InLine
  <2>3. QED
    BY <1>1, <1>9, <2>2 DEF Locked
<1>12. FirstAwake'
  <2>1. ASSUME NEW f \in Entries, NEW u \in Turns,
               turn'[u].entry = f, turn'[u].stage = "woken"
        PROVE  f \notin held' /\ u = waiters'[f][1]
    <3>1. u # t /\ turn[u].entry = f
      BY <1>6, <2>1 DEF Away
    <3>2. CASE wakes /\ u = rest[1]
      BY <1>1, <1>5, <1>10, <3>1, <3>2 DEF Waiting, At
    <3>3. CASE ~(wakes /\ u = rest[1])
      <4>1. f \notin held /\ u = waiters[f][1]
        BY <1>6, <2>1, <3>1, <3>3 DEF FirstAwake
      <4>2. QED
        BY <1>1, <1>3, <1>10, <3>1, <4>1
    <3>4. QED
      BY <3>2, <3>3
  <2>2. QED
    BY <2>1 DEF FirstAwake
<1>13. SomeoneGoes'
  <2>1. ASSUME NEW f \in Entries, waiters'[f] # <<>>
        PROVE  \E u \in Turns : turn'[u].entry = f /\ turn'[u].stage \in {"woken", "inside"}
    <3>1. CASE f = e /\ e \notin held
      BY <1>5, <1>6, <1>10, <2>1, <3>1 DEF Waiting, At
    <3>2. CASE f = e /\ e \in held
      <4>1. PICK u \in Turns : turn[u].entry = e /\ turn[u].stage = "inside"
        BY <1>2, <3>2 DEF Locked, Inside, At
      <4>2. QED
        BY <1>1, <1>6, <3>2, <4>1
    <3>3. CASE f # e
      <4>1. PICK u \in Turns : turn[u].entry = f /\ turn[u].stage \in {"woken", "inside"}
        BY <1>10, <2>1, <3>3 DEF SomeoneGoes
      <4>2. QED
        BY <1>4, <1>6, <3>3, <4>1
    <3>4. QED
      BY <3>1, <3>2, <3>3
  <2>2. QED
    BY <2>1 DEF SomeoneGoes
<1>14. Placed'
  <2>1. ASSUME NEW u \in Turns PROVE turn'[u].stage = "away" <=> turn'[u].entry = NoEntry
    BY <1>2, <1>5, <1>6 DEF Placed, Away, Waiting, At
  <2>2. QED
    BY <2>1 DEF Placed
<1>15. QED
  BY <1>1, <1>6, <1>8, <1>10, <1>11, <1>12, <1>13, <1>14 DEF LocksTypeOK
-----------------------------------------------------------------------------
(* The fields of an entry always agree with the turns at it.                 *)
THEOREM EntriesAgree == LocksSpec => []LocksInv
<1>1. LocksInit => LocksInv
  <2> SUFFICES ASSUME LocksInit PROVE LocksInv
    OBVIOUS
  <2> USE DEF LocksInit
  <2>1. NoEntry \notin Entries /\ \A e \in Entries : At(e) = {}
    BY LockAssumption DEF At, Away
  <2>2. LocksTypeOK
    BY Finite DEF LocksTypeOK, Away
  <2>3. Placed /\ Found
    BY <2>1 DEF Placed, Found, Away
  <2>4. Counted
    BY <2>1, FS_EmptySet DEF Counted
  <2>5. Locked /\ InLine /\ FirstAwake /\ SomeoneGoes
    BY <2>1 DEF Locked, InLine, FirstAwake, SomeoneGoes, Inside, Waiting, Queued, Distinct, Away
  <2>6. QED
    BY <2>2, <2>3, <2>4, <2>5 DEF LocksInv
<1>2. LocksInv /\ [LocksNext]_lockVars => LocksInv'
  <2> SUFFICES ASSUME LocksInv, [LocksNext]_lockVars PROVE LocksInv'
    OBVIOUS
  <2>1. CASE LocksNext
    BY <2>1, HoldKeeps, EnterKeeps, LeaveKeeps, GiveUpKeeps DEF LocksNext
  <2>2. CASE UNCHANGED lockVars
    BY <2>2 DEF lockVars, LocksInv, LocksTypeOK, Placed, Counted, Found, Locked, InLine, FirstAwake,
                SomeoneGoes, At, Waiting, Inside, Named
  <2>3. QED
    BY <2>1, <2>2
<1>3. QED
  BY <1>1, <1>2, PTL DEF LocksSpec

(* Turns of a conversation do not cross, there is always a next one, and     *)
(* entries are given back: for any number of requests, whichever give up.    *)
THEOREM TurnsInOrder == LocksSpec => []OneTurn
<1>1. LocksInv => OneTurn
  <2> SUFFICES ASSUME LocksInv PROVE OneTurn
    OBVIOUS
  <2> USE DEF LocksInv
  <2>1. ASSUME NEW t \in Turns, turn[t] # Away PROVE Named(turn[t].entry)
    BY <2>1, LockAssumption DEF Found, Placed, Away, LocksTypeOK
  <2>2. ASSUME NEW c \in Talks
        PROVE  Cardinality({t \in Of(c) : turn[t].stage = "inside"}) <= 1
    <3> DEFINE in == {t \in Of(c) : turn[t].stage = "inside"}
    <3>1. \A t, u \in in : t = u
      <4>1. ASSUME NEW t \in in, NEW u \in in PROVE t = u
        <5>1. entries[c] \in Entries /\ {t, u} \subseteq Inside(entries[c])
          BY <4>1 DEF Of, Inside, At, Placed, LocksTypeOK
        <5>2. QED
          BY <5>1 DEF Locked
      <4>2. QED
        BY <4>1
    <3>2. in = {} \/ \E t \in in : in = {t}
      BY <3>1
    <3> HIDE DEF in
    <3>3. Cardinality(in) = 0 \/ Cardinality(in) = 1
      BY <3>2, FS_EmptySet, FS_Singleton
    <3>4. QED
      BY <3>3 DEF in
  <2>3. PoolDrains
    BY LockAssumption DEF PoolDrains, Found, At, Away, LocksTypeOK
  <2>4. QED
    BY <2>1, <2>2, <2>3 DEF OneTurn, NeverTwo
<1>2. QED
  BY <1>1, EntriesAgree, PTL
-----------------------------------------------------------------------------
(* Migrations, for any number of processes and versions: the inductive       *)
(* invariant.                                                                *)

\* Whoever creates the database is alone with it.
Alone(p) == \A q \in Processes \ {p} : start[q].stage = "down"

\* What each process found is behind it, and it applies what comes next or was applied.
Behind ==
    \A p \in Processes :
        /\ start[p].stage = "found" =>
               /\ start[p].found <= version /\ start[p].found # Current
               /\ start[p].found = 0 => version = 0 /\ rows = Nothing /\ Alone(p)
        /\ start[p].stage = "applying" => start[p].next \in 2..Current
                                          /\ start[p].next <= version + 1
        /\ start[p].stage = "open" => version = Current

\* A database without the added tables holds no rows of theirs, a new one none at all.
Emptied ==
    /\ version < 2 => tasks = Nothing
    /\ version = 0 => rows = Nothing

\* The tool that takes the database back has it for itself.
Offline == exported => AllDown /\ version >= 2

\* Of a column no start gets past, a copy without it ahead is beside the database.
Left ==
    \A v \in columns \ (1..version) :
        \E c \in copies : c.version >= v /\ c.columns \subseteq 1..c.version

MigInv == MigTypeOK /\ Accounted /\ Left /\ CopiedFirst /\ Behind /\ Emptied /\ Offline

LEMMA MigStarts == MigInit => MigInv
<1> USE MigrationAssumption
<1> SUFFICES ASSUME MigInit PROVE MigInv
  OBVIOUS
<1>1. start \in [Processes -> [stage : {"down", "found", "applying", "open"},
                              found : SchemaVersions, next : 0..Current + 1]]
  BY DEF MigInit, Down, SchemaVersions
<1>2. MigTypeOK
  <2>1. tables \subseteq 1..Current /\ columns \subseteq Altering /\ registry \subseteq 2..Current
    BY DEF MigInit, SchemaVersions
  <2>2. QED
    BY <1>1, <2>1 DEF MigInit, MigTypeOK, Held, Recorded
<1>3. Accounted /\ Behind /\ Emptied /\ Offline /\ CopiedFirst
  BY DEF MigInit, Accounted, CopiedFirst, Behind, Emptied, Offline, Down, SchemaVersions
<1>4. Left
  BY DEF MigInit, Left
<1>5. QED
  BY <1>2, <1>3, <1>4 DEF MigInv

LEMMA InspectStep ==
    ASSUME MigInv, NEW p \in Processes, Inspect(p)
    PROVE  MigInv'
<1> USE MigrationAssumption
<1>1. MigTypeOK'
  BY DEF MigInv, MigTypeOK, Inspect, Becomes, databaseVars, SchemaVersions
<1>2. CopiedFirst'
  BY DEF MigInv, MigTypeOK, CopiedFirst, Applies, Inspect, Becomes, databaseVars, Snapshot
<1>3. Behind'
  BY DEF MigInv, MigTypeOK, Behind, Emptied, Alone, AllDown, Inspect, Becomes, databaseVars,
         SchemaVersions
<1>4. Accounted' /\ Left' /\ Emptied' /\ Offline'
  BY DEF MigInv, Accounted, Left, Emptied, Offline, Inspect, databaseVars
<1>5. QED
  BY <1>1, <1>2, <1>3, <1>4 DEF MigInv

LEMMA CreateV1Step ==
    ASSUME MigInv, NEW p \in Processes, CreateV1(p)
    PROVE  MigInv'
<1> USE MigrationAssumption
<1>1. version = 0 /\ rows = Nothing /\ tasks = Nothing /\ Alone(p)
  BY DEF MigInv, Behind, Emptied, CreateV1
<1>2. MigTypeOK' /\ Accounted' /\ Left' /\ Emptied'
  BY <1>1 DEF MigInv, MigTypeOK, Accounted, Left, Emptied, CreateV1, Becomes, SchemaVersions
<1>3. Offline'
  BY <1>1 DEF MigInv, Offline, CreateV1
<1>4. CopiedFirst'
  BY <1>1 DEF MigInv, CopiedFirst, Offline, CreateV1
<1>5. Behind'
  BY <1>1 DEF MigInv, MigTypeOK, Behind, Alone, CreateV1, Becomes
<1>6. QED
  BY <1>2, <1>3, <1>4, <1>5 DEF MigInv

LEMMA CopyDatabaseStep ==
    ASSUME MigInv, NEW p \in Processes, CopyDatabase(p)
    PROVE  MigInv'
<1> USE MigrationAssumption
<1>1. MigTypeOK' /\ Accounted' /\ Left' /\ Emptied'
  <2>1. Snapshot \in Snapshots /\ copies' = copies \cup {Snapshot}
    BY DEF MigInv, MigTypeOK, CopyDatabase, Copied, Snapshot, Snapshots
  <2>2. MigTypeOK'
    BY <2>1 DEF MigInv, MigTypeOK, CopyDatabase, Becomes, databaseVars, SchemaVersions
  <2>3. QED
    BY <2>1, <2>2 DEF MigInv, Accounted, Left, Emptied, CopyDatabase, databaseVars
<1>2. Offline'
  BY DEF MigInv, Offline, AllDown, CopyDatabase, databaseVars
<1>3. CopiedFirst'
  <2>1. \E c \in copies' : c.rows = rows /\ c.tasks = tasks /\ c.version <= version
    <3>1. Snapshot \in copies'
      BY DEF CopyDatabase, Copied
    <3>2. Snapshot.version <= version /\ Snapshot.rows = rows /\ Snapshot.tasks = tasks
      BY DEF MigInv, MigTypeOK, SchemaVersions, Snapshot
    <3>3. QED
      BY <3>1, <3>2
  <2>2. ~exported'
    BY DEF MigInv, Offline, AllDown, CopyDatabase
  <2>3. QED
    BY <2>1, <2>2 DEF CopiedFirst, CopyDatabase, databaseVars
<1>4. Behind'
  BY DEF MigInv, MigTypeOK, Behind, Alone, CopyDatabase, Becomes, databaseVars, SchemaVersions
<1>5. QED
  BY <1>1, <1>2, <1>3, <1>4 DEF MigInv

LEMMA ApplyStep ==
    ASSUME MigInv, NEW p \in Processes, Apply(p)
    PROVE  MigInv'
<1> USE MigrationAssumption
<1> DEFINE next == start[p].next
<1>1. next \in 2..Current /\ next <= version + 1 /\ version \in 0..Current
  BY DEF MigInv, MigTypeOK, Behind, Apply, SchemaVersions
<1>2. /\ ~exported /\ exported' = exported
      /\ rows' = rows /\ tasks' = tasks /\ copies' = copies
  BY DEF MigInv, Offline, AllDown, Apply
<1>3. CASE Applies(next)
  <2>1. /\ version' = next /\ tables' = tables \cup {next}
        /\ columns' = columns \cup (Altering \cap {next}) /\ registry' = registry \cup {next}
        /\ start' = [start EXCEPT ![p] =
              [start[p] EXCEPT !.stage = IF next = Current THEN "open" ELSE start[p].stage,
                               !.next = next + 1]]
    BY <1>3 DEF Apply, Becomes
  <2>2. next = version + 1
    BY <1>1, <1>3 DEF MigInv, Accounted, Applies
  <2>3. MigTypeOK'
    <3>1. start' \in [Processes -> [stage : {"down", "found", "applying", "open"},
                                    found : SchemaVersions, next : 0..Current + 1]]
      <4>1. [start[p] EXCEPT !.stage = IF next = Current THEN "open" ELSE start[p].stage,
                             !.next = next + 1]
                \in [stage : {"down", "found", "applying", "open"},
                    found : SchemaVersions, next : 0..Current + 1]
        <5>1. start[p] \in [stage : {"down", "found", "applying", "open"},
                           found : SchemaVersions, next : 0..Current + 1]
          BY DEF MigInv, MigTypeOK
        <5>2. next + 1 \in 0..Current + 1
          BY <1>1
        <5> HIDE DEF next
        <5>3. QED
          BY <5>1, <5>2
      <4>2. QED
        BY <2>1, <4>1 DEF MigInv, MigTypeOK
    <3>2. QED
      BY <1>1, <1>2, <2>1, <3>1 DEF MigInv, MigTypeOK, SchemaVersions
  <2>4. Accounted' /\ Left'
    <3>1. Accounted'
      BY <1>1, <2>1, <2>2 DEF MigInv, Accounted
    <3>2. columns' \ (1..version') \subseteq columns \ (1..version)
      BY <1>1, <2>1, <2>2
    <3>3. QED
      BY <1>2, <3>1, <3>2 DEF MigInv, Left
  <2>5. Emptied' /\ Offline'
    BY <1>1, <1>2, <2>1 DEF Emptied, Offline
  <2>6. CopiedFirst'
    <3>1. ASSUME NEW q \in Processes, start'[q].stage = "applying",
                 start'[q].next \notin registry', start'[q].next \notin columns'
          PROVE  \/ rows = Nothing /\ tasks = Nothing
                 \/ \E c \in copies : /\ c.rows = rows /\ c.tasks = tasks
                                      /\ c.version <= version'
      <4>1. \/ rows = Nothing /\ tasks = Nothing
            \/ \E c \in copies : c.rows = rows /\ c.tasks = tasks /\ c.version <= version
        <5>1. CASE q = p
          BY <1>3, <5>1 DEF MigInv, CopiedFirst, Apply
        <5>2. CASE q # p
          <6>1. start'[q] = start[q]
            BY <2>1, <5>2
          <6>2. Applies(start[q].next)
            <7>1. start[q].next \notin registry' /\ start[q].next \notin columns'
              BY <3>1, <6>1
            <7>2. QED
              BY <2>1, <7>1 DEF Applies
          <6>3. QED
            BY <3>1, <6>1, <6>2 DEF MigInv, CopiedFirst
        <5>3. QED
          BY <5>1, <5>2
      <4>2. QED
        BY <1>1, <2>1, <2>2, <4>1 DEF MigInv, MigTypeOK, SchemaVersions, Snapshots
    <3>2. QED
      BY <1>2, <3>1 DEF CopiedFirst, Applies
  <2>7. Behind'
    <3>1. ASSUME NEW q \in Processes, q # p, start[q].stage = "found", start[q].found = 0
          PROVE  FALSE
      BY <3>1 DEF MigInv, Behind, Alone, Apply
    <3>2. ASSUME NEW q \in Processes, start[q].stage = "open"
          PROVE  FALSE
      BY <1>1, <2>2, <3>2 DEF MigInv, Behind
    <3>3. \A q \in Processes \ {p} : start'[q] = start[q]
      BY <2>1
    <3>4. /\ start'[p].stage = IF next = Current THEN "open" ELSE "applying"
          /\ start'[p].next = next + 1
      BY <2>1 DEF MigInv, MigTypeOK, Apply
    <3>5. ASSUME NEW q \in Processes \ {p}, start[q].stage = "found"
          PROVE  start[q].found <= version' /\ start[q].found # Current /\ start[q].found # 0
      <4>1. start[q].found <= version /\ start[q].found \in SchemaVersions
        BY <3>5 DEF MigInv, MigTypeOK, Behind
      <4>2. QED
        BY <1>1, <2>1, <2>2, <3>1, <3>5, <4>1 DEF MigInv, Behind, SchemaVersions
    <3>6. ASSUME NEW q \in Processes \ {p}, start[q].stage = "applying"
          PROVE  start[q].next \in 2..Current /\ start[q].next <= version' + 1
      BY <1>1, <2>1, <2>2, <3>6 DEF MigInv, Behind
    <3>7. QED
      BY <1>1, <2>1, <2>2, <3>2, <3>3, <3>4, <3>5, <3>6 DEF Behind
  <2>8. QED
    BY <2>3, <2>4, <2>5, <2>6, <2>7 DEF MigInv
<1>4. CASE ~Applies(next)
  <2>1. start' = [start EXCEPT ![p] = Down] /\ UNCHANGED <<version, tables, columns, registry>>
    BY <1>4 DEF Apply, Becomes
  <2>2. MigTypeOK' /\ Accounted' /\ Left' /\ Emptied' /\ Offline'
    BY <1>2, <2>1 DEF MigInv, MigTypeOK, Accounted, Left, Emptied, Offline, Down, SchemaVersions
  <2>3. CopiedFirst'
    BY <1>2, <2>1 DEF MigInv, MigTypeOK, CopiedFirst, Applies, Down
  <2>4. Behind'
    BY <1>2, <2>1 DEF MigInv, MigTypeOK, Behind, Alone, Down
  <2>5. QED
    BY <2>2, <2>3, <2>4 DEF MigInv
<1>5. QED
  BY <1>3, <1>4

LEMMA ServeStep ==
    ASSUME MigInv, NEW p \in Processes, NEW content \in Holdings, NEW runs \in Recorded,
           Serve(p, content, runs)
    PROVE  MigInv'
<1> USE MigrationAssumption
<1>1. version = Current
  BY DEF MigInv, Behind, Serve
<1>2. \A q \in Processes : start[q].stage = "applying" => ~Applies(start[q].next)
  BY <1>1 DEF MigInv, Behind, Accounted, Applies
<1>3. MigTypeOK' /\ Accounted' /\ Left' /\ Emptied' /\ Offline'
  BY <1>1 DEF MigInv, MigTypeOK, Accounted, Left, Emptied, Offline, AllDown, Serve, Held
<1>4. CopiedFirst'
  BY <1>2 DEF MigInv, Offline, AllDown, CopiedFirst, Applies, Serve
<1>5. Behind'
  BY <1>1 DEF MigInv, Behind, Alone, Serve
<1>6. QED
  BY <1>3, <1>4, <1>5 DEF MigInv

LEMMA ServeEarlierStep ==
    ASSUME MigInv, NEW content \in Holdings, NEW runs \in Recorded, ServeEarlier(content, runs)
    PROVE  MigInv'
<1> USE MigrationAssumption
<1>1. MigTypeOK'
  <2>1. rows' \in Held /\ tasks' \in Recorded
    BY DEF ServeEarlier, Held, Recorded
  <2>2. UNCHANGED <<version, tables, columns, registry, copies, start, exported>>
    BY DEF ServeEarlier
  <2>3. QED
    BY <2>1, <2>2 DEF MigInv, MigTypeOK
<1>2. Accounted' /\ Left' /\ Emptied' /\ Offline'
  BY DEF MigInv, Accounted, Left, Emptied, Offline, ServeEarlier
<1>3. CopiedFirst' /\ Behind'
  BY DEF CopiedFirst, Behind, AllDown, ServeEarlier
<1>4. QED
  BY <1>1, <1>2, <1>3 DEF MigInv

LEMMA StopStep ==
    ASSUME MigInv, NEW p \in Processes, Stop(p)
    PROVE  MigInv'
<1> USE MigrationAssumption
<1>1. MigTypeOK'
  BY DEF MigInv, MigTypeOK, Stop, Becomes, databaseVars, Down, SchemaVersions
<1>2. CopiedFirst'
  BY DEF MigInv, MigTypeOK, CopiedFirst, Applies, Stop, Becomes, databaseVars, Down, Snapshot
<1>3. Behind'
  BY DEF MigInv, MigTypeOK, Behind, Alone, Stop, Becomes, databaseVars, Down
<1>4. Accounted' /\ Left' /\ Emptied' /\ Offline'
  BY DEF MigInv, Accounted, Left, Emptied, Offline, AllDown, Stop, databaseVars
<1>5. QED
  BY <1>1, <1>2, <1>3, <1>4 DEF MigInv

LEMMA ExportStep ==
    ASSUME MigInv, Export
    PROVE  MigInv'
<1> USE MigrationAssumption
<1>1. Snapshot \in Snapshots /\ copies' = copies \cup {Snapshot}
  BY DEF MigInv, MigTypeOK, Export, Copied, Snapshot, Snapshots
<1>2. MigTypeOK' /\ Accounted' /\ Left' /\ Emptied' /\ Offline'
  BY <1>1 DEF MigInv, MigTypeOK, Accounted, Left, Emptied, Offline, AllDown, Export, databaseVars
<1>3. CopiedFirst'
  <2>1. Snapshot' \in copies' /\ tasks' \notin Unfinished
    BY <1>1 DEF Export, databaseVars, Snapshot
  <2>2. QED
    BY <2>1 DEF CopiedFirst, AllDown, Export
<1>4. Behind'
  BY DEF Behind, AllDown, Export
<1>5. QED
  BY <1>2, <1>3, <1>4 DEF MigInv

\* Of a column a rollback leaves, the export just made is the copy, or one made for a column
\* that an earlier rollback left.
LEMMA DowngradeStep ==
    ASSUME MigInv, Downgrade
    PROVE  MigInv'
<1> USE MigrationAssumption
<1>1. /\ exported /\ AllDown /\ version \in 2..Current
      /\ version' = 1 /\ tables' = {1} /\ registry' = {} /\ tasks' = Nothing /\ ~exported'
      /\ UNCHANGED <<columns, rows, copies, start>>
  BY DEF MigInv, MigTypeOK, Offline, Downgrade, SchemaVersions
<1>2. MigTypeOK'
  <2>1. /\ version' \in SchemaVersions
        /\ tables' \subseteq 1..Current /\ registry' \subseteq 2..Current
    BY <1>1 DEF SchemaVersions
  <2>2. tasks' \in Recorded /\ exported' \in BOOLEAN
    BY <1>1 DEF Downgrade, Recorded
  <2>3. QED
    BY <1>1, <2>1, <2>2 DEF MigInv, MigTypeOK
<1>3. Accounted' /\ Emptied' /\ Offline'
  BY <1>1 DEF Accounted, Emptied, Offline
<1>4. Behind' /\ CopiedFirst'
  BY <1>1 DEF AllDown, Behind, CopiedFirst
<1>5. Left'
  <2> DEFINE Ahead(v) == \E c \in copies : c.version >= v /\ c.columns \subseteq 1..c.version
  <2>1. ASSUME NEW v \in columns PROVE Ahead(v)
    <3>1. v \in Nat /\ (\A w \in columns : w \in Nat)
      BY DEF MigInv, MigTypeOK
    <3>2. CASE columns \subseteq 1..version
      <4>1. Snapshot \in copies
        BY <1>1 DEF MigInv, CopiedFirst
      <4>2. Snapshot.version >= v /\ Snapshot.columns \subseteq 1..Snapshot.version
        BY <2>1, <3>2 DEF Snapshot
      <4>3. QED
        BY <4>1, <4>2
    <3>3. CASE ~(columns \subseteq 1..version)
      <4>1. PICK w \in columns : w \notin 1..version
        BY <3>3
      <4>2. PICK c \in copies : c.version >= w /\ c.columns \subseteq 1..c.version
        BY <4>1 DEF MigInv, Left
      <4>3. c.version \in Nat
        BY DEF MigInv, MigTypeOK, Snapshots, SchemaVersions
      <4>4. CASE v \in 1..version
        <5>1. w >= v
          BY <1>1, <3>1, <4>1, <4>4 DEF MigInv, MigTypeOK
        <5>2. c.version >= v
          BY <3>1, <4>2, <4>3, <5>1
        <5>3. QED
          BY <4>2, <5>2
      <4>5. CASE v \notin 1..version
        BY <4>5 DEF MigInv, Left
      <4>6. QED
        BY <4>4, <4>5
    <3>4. QED
      BY <3>2, <3>3
  <2>2. QED
    BY <1>1, <2>1 DEF Left
<1>6. QED
  BY <1>2, <1>3, <1>4, <1>5 DEF MigInv

LEMMA ExportOnlyStep ==
    ASSUME MigInv, ExportOnly
    PROVE  MigInv'
<1>1. AllDown /\ start' = start /\ ~exported'
  BY DEF MigInv, Offline, ExportOnly
<1>2. MigTypeOK' /\ Accounted' /\ Left' /\ Emptied' /\ Offline'
  BY <1>1 DEF MigInv, MigTypeOK, Accounted, Left, Emptied, Offline, ExportOnly, databaseVars
<1>3. Behind' /\ CopiedFirst'
  BY <1>1 DEF AllDown, Behind, CopiedFirst
<1>4. QED
  BY <1>2, <1>3 DEF MigInv

\* What any process, upgrade or rollback leaves: the version says what is there, and a copy
\* without it is beside the database for every column a rollback has left ahead.
THEOREM SchemaFits == MigSpec => []MigInv
<1>1. ASSUME MigInv, [MigNext]_migVars
      PROVE  MigInv'
  <2>1. ASSUME NEW p \in Processes,
               Inspect(p) \/ CreateV1(p) \/ CopyDatabase(p) \/ Apply(p) \/ Stop(p)
        PROVE  MigInv'
    BY <1>1, <2>1, InspectStep, CreateV1Step, CopyDatabaseStep, ApplyStep, StopStep
  <2>2. ASSUME NEW content \in Holdings, NEW runs \in Recorded,
               ServeEarlier(content, runs) \/ \E p \in Processes : Serve(p, content, runs)
        PROVE  MigInv'
    BY <1>1, <2>2, ServeStep, ServeEarlierStep
  <2>3. CASE Export \/ Downgrade \/ ExportOnly
    BY <1>1, <2>3, ExportStep, DowngradeStep, ExportOnlyStep
  <2>4. CASE UNCHANGED migVars
    BY <1>1, <2>4 DEF migVars, MigInv, MigTypeOK, Accounted, Left, CopiedFirst, Applies, Behind,
                      Alone, Emptied, Offline, AllDown, Snapshot
  <2>5. QED
    BY <1>1, <2>1, <2>2, <2>3, <2>4 DEF MigNext
<1>2. QED
  BY <1>1, MigStarts, PTL DEF MigSpec

\* Recoverable, for any number of processes and any versions: wherever a migration or a rollback
\* stops and whoever ran beside it, the version says what is there; every version ahead applies,
\* or a copy to go on from is beside the database; and what is about to change is in a copy.
THEOREM MigrationsRecover == MigSpec => []Recoverable
<1>1. ASSUME MigInv PROVE Recoverable
  <2>1. ASSUME NEW v \in version + 1..Current, ~Applies(v)
        PROVE  v \in columns \ (1..version)
    BY <1>1, <2>1 DEF MigInv, MigTypeOK, Accounted, Applies, SchemaVersions
  <2>2. GoesOn
    BY <1>1, <2>1 DEF MigInv, Left, GoesOn
  <2>3. QED
    BY <1>1, <2>2 DEF MigInv, Recoverable
<1>2. QED
  BY <1>1, SchemaFits, PTL
-----------------------------------------------------------------------------
(* WorkspaceBackup, for any workspaces and any number of backups: the        *)
(* inductive invariant.                                                      *)
Restore == [stage : AdminStages, source : Workspaces]

BackupTyped ==
    /\ BackupTypeOK
    /\ root \in Seq(Copies)
    /\ admin = NoAdmin \/ (admin.stage # "none" /\ admin \in Restore)

\* A command has the workspace for itself.
ServiceStopped == admin.stage # "none" => service = "down"

\* Once the restore overwrites, what users had is in the backup root.
Quarantined ==
    admin.stage \in AdminStages \ {"none", "verified"} =>
        \E n \in DOMAIN root : root[n].work = saved

\* What each step of the restore has put back.
PutBack ==
    /\ admin.stage \in {"replaced", "clean", "datasets", "artifacts", "last"} =>
           database = admin.source.database
    /\ admin.stage \in {"clean", "datasets", "artifacts", "last"} => log = NoWork
    /\ admin.stage \in {"artifacts", "last"} => datasets = admin.source.datasets

BackupInv == BackupTyped /\ SavedKept /\ ServiceStopped /\ Quarantined /\ PutBack

LEMMA BackupStarts == BackupInit => BackupInv
BY BackupAssumption
   DEF BackupInit, BackupInv, BackupTyped, BackupTypeOK, SavedKept, ServiceStopped, Quarantined,
       PutBack, NoAdmin, Live, Read, Workspaces, Parts, AdminStages

\* What is in the backup root stays there when a directory is added.
LEMMA RootGrows ==
    ASSUME BackupTyped, NEW c \in Copies, Len(root) < MaxBackups, root' = Append(root, c)
    PROVE  /\ root' \in Seq(Copies)
           /\ \A n \in DOMAIN root' : n \in 1..MaxBackups /\ root'[n] \in Copies
           /\ \A n \in DOMAIN root : n \in DOMAIN root' /\ root'[n] = root[n]
           /\ \E n \in DOMAIN root' : root'[n] = c
<1>1. /\ Len(root) \in Nat /\ DOMAIN root = 1..Len(root)
      /\ root' \in Seq(Copies) /\ Len(root') = Len(root) + 1 /\ DOMAIN root' = 1..Len(root) + 1
      /\ \A n \in 1..Len(root) : root'[n] = root[n]
      /\ root'[Len(root) + 1] = c
  BY DEF BackupTyped
<1>2. \A n \in DOMAIN root' : n \in 1..MaxBackups /\ root'[n] \in Copies
  BY <1>1, BackupAssumption DEF BackupTyped
<1>3. QED
  BY <1>1, <1>2

LEMMA LiveTyped == BackupTypeOK => Read \in Parts /\ Live \in Workspaces
BY DEF BackupTypeOK, Read, Live, Workspaces

LEMMA SaveStep ==
    ASSUME BackupInv, NEW work \in Works, Save(work)
    PROVE  BackupInv'
<1>1. admin.stage = "none" /\ UNCHANGED <<admin, root, service>>
  BY DEF BackupInv, BackupTyped, BackupTypeOK, ServiceStopped, AdminStages, Save
<1>2. log' # NoWork
  BY BackupAssumption DEF Save
<1>3. Live' = saved'
  BY <1>2 DEF Live, Read, Save
<1>4. BackupTyped'
  <2>1. work \in Parts /\ datasets' \in Parts /\ artifacts' \in Parts
    BY DEF Save, Parts
  <2>2. saved' \in Workspaces
    BY <2>1 DEF Save, Workspaces
  <2>3. QED
    BY <1>1, <2>1, <2>2 DEF BackupInv, BackupTyped, BackupTypeOK, Save
<1>5. QED
  BY <1>1, <1>3, <1>4 DEF BackupInv, SavedKept, ServiceStopped, Quarantined, PutBack

LEMMA ServiceStep ==
    ASSUME BackupInv, StopService \/ KillService \/ StartService
    PROVE  BackupInv'
<1>1. Live' = Live /\ UNCHANGED <<saved, datasets, artifacts, root, admin>>
  BY DEF Live, Read, StopService, KillService, StartService, liveVars
<1>2. admin.stage = "none"
  BY DEF BackupInv, ServiceStopped, StopService, KillService, StartService, Stopped
<1>3. BackupTyped'
  <2>1. database' \in Parts /\ log' \in Parts /\ service' \in {"up", "down"}
    BY LiveTyped DEF BackupInv, BackupTyped, BackupTypeOK, StopService, KillService,
                     StartService, liveVars, Parts
  <2>2. QED
    BY <1>1, <2>1 DEF BackupInv, BackupTyped, BackupTypeOK
<1>4. SavedKept'
  BY <1>1 DEF BackupInv, SavedKept
<1>5. QED
  BY <1>1, <1>2, <1>3, <1>4 DEF BackupInv, ServiceStopped, Quarantined, PutBack

LEMMA BackupStep ==
    ASSUME BackupInv, Backup
    PROVE  BackupInv'
<1>1. Copy(TRUE) \in Copies
  BY LiveTyped DEF BackupInv, BackupTyped, Copy, Copies
<1>2. /\ root' \in Seq(Copies)
      /\ \A n \in DOMAIN root' : n \in 1..MaxBackups /\ root'[n] \in Copies
      /\ \A n \in DOMAIN root : n \in DOMAIN root' /\ root'[n] = root[n]
  BY <1>1, RootGrows DEF BackupInv, Backup
<1>3. Live' = Live /\ UNCHANGED <<saved, database, log, datasets, artifacts, service, admin>>
  BY DEF Live, Read, Backup, liveVars
<1>4. BackupTyped'
  BY <1>2, <1>3 DEF BackupInv, BackupTyped, BackupTypeOK
<1>5. SavedKept' /\ Quarantined'
  BY <1>2, <1>3 DEF BackupInv, SavedKept, Quarantined
<1>6. QED
  BY <1>3, <1>4, <1>5 DEF BackupInv, ServiceStopped, PutBack

LEMMA VerifyStep ==
    ASSUME BackupInv, NEW n \in DOMAIN root, Verify(n)
    PROVE  BackupInv'
<1>1. Live' = Live /\ UNCHANGED <<saved, database, log, datasets, artifacts, service, root>>
  BY DEF Live, Read, Verify, liveVars
<1>2. admin' = [stage |-> "verified", source |-> root[n].work] /\ service = "down"
  BY DEF Verify, Stopped
<1>3. root[n].work \in Workspaces
  BY DEF BackupInv, BackupTyped, BackupTypeOK, Copies
<1>4. BackupTyped'
  BY <1>1, <1>2, <1>3 DEF BackupInv, BackupTyped, BackupTypeOK, Restore, AdminStages
<1>5. QED
  BY <1>1, <1>2, <1>4 DEF BackupInv, SavedKept, ServiceStopped, Quarantined, PutBack

LEMMA QuarantineStep ==
    ASSUME BackupInv, Quarantine
    PROVE  BackupInv'
<1>1. Copy(FALSE) \in Copies /\ Copy(FALSE).work = Live
  BY LiveTyped DEF BackupInv, BackupTyped, Copy, Copies
<1>2. /\ root' \in Seq(Copies)
      /\ \A n \in DOMAIN root' : n \in 1..MaxBackups /\ root'[n] \in Copies
      /\ \A n \in DOMAIN root : n \in DOMAIN root' /\ root'[n] = root[n]
      /\ \E n \in DOMAIN root' : root'[n] = Copy(FALSE)
  BY <1>1, RootGrows DEF BackupInv, Quarantine
<1>3. Live' = Live /\ UNCHANGED <<saved, database, log, datasets, artifacts, service>>
  BY DEF Live, Read, Quarantine, liveVars
<1>4. admin \in Restore /\ admin.stage = "verified" /\ admin' = [admin EXCEPT !.stage = "kept"]
  BY DEF BackupInv, BackupTyped, Quarantine, From, ComesTo, NoAdmin
<1>5. admin' \in Restore /\ admin'.stage = "kept"
  BY <1>4 DEF Restore, AdminStages
<1>6. BackupTyped'
  BY <1>2, <1>3, <1>5 DEF BackupInv, BackupTyped, BackupTypeOK, Restore
<1>7. \E n \in DOMAIN root' : root'[n].work = saved
  BY <1>1, <1>2 DEF BackupInv, SavedKept
<1>8. SavedKept' /\ Quarantined'
  BY <1>3, <1>7 DEF SavedKept, Quarantined
<1>9. QED
  BY <1>3, <1>4, <1>5, <1>6, <1>8 DEF BackupInv, ServiceStopped, PutBack

\* A step of the restore that overwrites: what users had is in the backup root.
LEMMA OverwriteStep ==
    ASSUME BackupInv,
           ReplaceDatabase \/ RemoveLog \/ ReplaceDatasets \/ (ReplaceArtifacts /\ ~From("last"))
    PROVE  BackupInv'
<1>1. /\ admin \in Restore /\ UNCHANGED <<saved, service, root>>
      /\ \E at \in AdminStages \ {"none", "verified"} : admin' = [admin EXCEPT !.stage = at]
      /\ admin.stage \in AdminStages \ {"none", "verified"}
  <2>1. /\ UNCHANGED <<saved, service, root>>
        /\ admin.stage \in {"kept", "replaced", "clean", "datasets", "artifacts"}
        /\ \E at \in {"replaced", "clean", "datasets", "artifacts", "last"} : ComesTo(at)
    BY DEF ReplaceDatabase, RemoveLog, ReplaceDatasets, ReplaceArtifacts, From
  <2>2. admin \in Restore
    BY <2>1 DEF BackupInv, BackupTyped, NoAdmin
  <2>3. QED
    BY <2>1, <2>2 DEF ComesTo, AdminStages
<1>2. /\ admin' \in Restore /\ admin'.source = admin.source /\ admin'.stage \in AdminStages
      /\ admin'.stage \notin {"none", "verified"} /\ admin.source \in Workspaces
  BY <1>1 DEF Restore
<1>3. admin.source.database \in Parts /\ admin.source.datasets \in Parts
  BY <1>2 DEF Workspaces
<1>4. database' \in Parts /\ log' \in Parts /\ datasets' \in Parts /\ artifacts' \in Parts
  BY <1>3 DEF BackupInv, BackupTyped, BackupTypeOK, ReplaceDatabase, RemoveLog, ReplaceDatasets,
              ReplaceArtifacts, From, Parts
<1>5. BackupTyped'
  BY <1>1, <1>2, <1>4 DEF BackupInv, BackupTyped, BackupTypeOK
<1>6. SavedKept' /\ Quarantined'
  BY <1>1 DEF BackupInv, SavedKept, Quarantined
<1>7. ServiceStopped'
  BY <1>1 DEF BackupInv, ServiceStopped
<1>8. PutBack'
  <2>1. CASE ReplaceDatabase
    BY <1>1, <1>2, <2>1 DEF PutBack, ReplaceDatabase, From, ComesTo, Restore
  <2>2. CASE RemoveLog
    BY <1>1, <1>2, <2>2 DEF BackupInv, PutBack, RemoveLog, From, ComesTo, Restore
  <2>3. CASE ReplaceDatasets
    BY <1>1, <1>2, <2>3 DEF BackupInv, PutBack, ReplaceDatasets, From, ComesTo, Restore
  <2>4. CASE ReplaceArtifacts /\ ~From("last")
    BY <1>1, <1>2, <2>4 DEF BackupInv, PutBack, ReplaceArtifacts, From, ComesTo, Restore
  <2>5. QED
    BY <2>1, <2>2, <2>3, <2>4
<1>9. QED
  BY <1>5, <1>6, <1>7, <1>8 DEF BackupInv

LEMMA RestoredStep ==
    ASSUME BackupInv, ReplaceArtifacts, From("last")
    PROVE  BackupInv'
<1>1. /\ artifacts' = admin.source.artifacts /\ saved' = [Live EXCEPT !.artifacts = artifacts']
      /\ admin' = NoAdmin /\ UNCHANGED <<database, log, datasets, service, root>>
  BY DEF ReplaceArtifacts, From, ComesTo
<1>2. Live' = saved'
  BY <1>1 DEF Live, Read
<1>3. artifacts' \in Parts
  BY <1>1 DEF BackupInv, BackupTyped, NoAdmin, Restore, Workspaces, From
<1>4. BackupTypeOK'
  <2>1. saved' \in Workspaces
    BY <1>1, <1>3, LiveTyped DEF BackupInv, BackupTyped, Workspaces
  <2>2. QED
    BY <1>1, <1>3, <2>1 DEF BackupInv, BackupTyped, BackupTypeOK, NoAdmin, AdminStages
<1>5. QED
  BY <1>1, <1>2, <1>4 DEF BackupInv, BackupTyped, SavedKept, ServiceStopped, Quarantined,
                          PutBack, NoAdmin

LEMMA AbortStep ==
    ASSUME BackupInv, Abort
    PROVE  BackupInv'
<1>1. admin' = NoAdmin /\ UNCHANGED <<saved, database, log, datasets, artifacts, service, root>>
  BY DEF Abort, liveVars
<1>2. Live' = Live
  BY <1>1 DEF Live, Read
<1>3. QED
  BY <1>1, <1>2 DEF BackupInv, BackupTyped, BackupTypeOK, SavedKept, ServiceStopped,
                    Quarantined, PutBack, NoAdmin, AdminStages

\* A restore has copied what it overwrites, at every step of it.
THEOREM RestoresKeep == BackupSpec => []BackupInv
<1>1. ASSUME BackupInv, [BackupNext]_backupVars
      PROVE  BackupInv'
  <2>1. ASSUME NEW work \in Works, Save(work)
        PROVE  BackupInv'
    BY <1>1, <2>1, SaveStep
  <2>2. CASE StopService \/ KillService \/ StartService
    BY <1>1, <2>2, ServiceStep
  <2>3. CASE Backup
    BY <1>1, <2>3, BackupStep
  <2>4. ASSUME NEW n \in DOMAIN root, Verify(n)
        PROVE  BackupInv'
    BY <1>1, <2>4, VerifyStep
  <2>5. CASE Quarantine
    BY <1>1, <2>5, QuarantineStep
  <2>6. CASE ReplaceDatabase \/ RemoveLog \/ ReplaceDatasets \/ ReplaceArtifacts
    BY <1>1, <2>6, OverwriteStep, RestoredStep
  <2>7. CASE Abort
    BY <1>1, <2>7, AbortStep
  <2>8. CASE UNCHANGED backupVars
    BY <1>1, <2>8 DEF backupVars, BackupInv, BackupTyped, BackupTypeOK, SavedKept, Live, Read,
                      ServiceStopped, Quarantined, PutBack
  <2>9. QED
    BY <1>1, <2>1, <2>2, <2>3, <2>4, <2>5, <2>6, <2>7, <2>8 DEF BackupNext
<1>2. QED
  BY <1>1, BackupStarts, PTL DEF BackupSpec

\* RestoreSafe, for any workspaces and any number of backups: whatever is saved, killed,
\* backed up and restored, and wherever a restore stops, what users had last is the workspace
\* or whole in a directory of the backup root.
THEOREM NothingSavedIsLost == BackupSpec => []RestoreSafe
<1>1. BackupInv => RestoreSafe
  BY DEF BackupInv, RestoreSafe, Restored, PutBack, From, Read
<1>2. QED
  BY <1>1, RestoresKeep, PTL

(* The database under both: what an upgrade, a rollback or a restore changes *)
(* is in a copy first, wherever it stops, and there is a way to go on.       *)
THEOREM DatabasesSurvive == MigSpec /\ BackupSpec => []DatabaseSafe
<1>1. Recoverable /\ RestoreSafe => DatabaseSafe
  BY DEF DatabaseSafe
<1>2. QED
  BY <1>1, MigrationsRecover, NothingSavedIsLost, PTL
-----------------------------------------------------------------------------
(* MilvusStore, for any documents, retrievals and collections, where one     *)
(* process has the store open at a time: the inductive invariant.            *)
Jobs == [op : Updates \cup {NoUpdate},
         at : {"idle", "create", "insert", "publish", "adopt", "drop"},
         docs : SUBSET Sources, candidate : 0..made, base : 0..made, drops : SUBSET (1..made),
         before : SUBSET SUBSET Sources]

MilvusTyped == MilvusTypeOK /\ job \in [Openers -> Jobs]

\* What is there: a collection, or the base collection that was never built.
Stands(g) == g = 0 \/ g \in DOMAIN collections

OneOpen ==
    /\ \A p, q \in Openers : memory[p].open /\ memory[q].open => p = q
    /\ \A p \in Openers : ~memory[p].open => job[p] = NoJob
    /\ \A p \in Openers : job[p].at = "idle" => job[p] = NoJob
    /\ \A q \in Queries : reads[q].stage # "idle" => memory[API].open

\* A collection that updates made holds what they account for.
Fits(g) == Whole(g) => Holds(g) \in may

\* What is published stands, and the open process serves it, but for the moment in which it
\* takes over what it has published.
Serves ==
    /\ Stands(pointed.active) /\ Fits(pointed.active)
    /\ \A p \in Openers : memory[p].open =>
           /\ Stands(memory[p].active) /\ Fits(memory[p].active)
           /\ job[p].at # "adopt" => memory[p].active = pointed.active

Effects(p, states) == {Effect(job[p].op, d) : d \in states}
\* Whether what it makes is to be accounted for.
Accounts(p) ==
    IF job[p].at = "adopt" THEN Whole(job[p].candidate)
    ELSE job[p].op.op = "full" \/ Whole(job[p].base)

Updating(p) == job[p].at \in {"create", "insert", "publish", "adopt"}

\* An update, until its process has taken it over: what it makes is an effect on what it found.
Updated ==
    \A p \in Openers : Updating(p) =>
        /\ job[p].before \cup Effects(p, job[p].before) \subseteq may
        /\ job[p].before # {} /\ job[p].base = memory[p].active
        /\ Whole(memory[p].active) => Holds(memory[p].active) \in job[p].before
        /\ Accounts(p) => job[p].docs \in Effects(p, job[p].before)

\* Its candidate is not what anyone reads, and comes to hold what it makes.
CandidateFits ==
    \A p \in Openers :
        /\ job[p].at = "create" => job[p].candidate = 0
        /\ job[p].at \in {"insert", "publish"} =>
               /\ job[p].candidate \notin whole \cup {0, memory[p].active}
               /\ \A q \in Queries : reads[q].stage = "reading" =>
                      reads[q].pinned # job[p].candidate
        /\ job[p].at = "publish" /\ job[p].candidate \in DOMAIN collections =>
               collections[job[p].candidate] = job[p].docs
        /\ job[p].at = "adopt" =>
               /\ pointed.active = job[p].candidate
               /\ job[p].candidate \in DOMAIN collections
               /\ collections[job[p].candidate] = job[p].docs

\* A cleanup drops neither what is published nor what is read, and what is published is an
\* effect of the update on what it found.
Drops ==
    \A p \in Openers : job[p].at = "drop" =>
        /\ Whole(pointed.active) => Holds(pointed.active) \in Effects(p, may)
        /\ pointed.active \notin job[p].drops
        /\ \A q \in Queries : reads[q].stage = "reading" => reads[q].pinned \notin job[p].drops

MilvusInv ==
    MilvusTyped /\ OneOpen /\ Serves /\ Updated /\ CandidateFits /\ Drops /\ ReadsStand

LEMMA EffectOf ==
    ASSUME NEW u \in Updates \cup {NoUpdate}, NEW d \in SUBSET Sources
    PROVE  /\ Effect(u, d) \in SUBSET Sources
           /\ Effect(NoUpdate, d) = d
BY DEF Updates, NoUpdate, Effect

LEMMA Youngest ==
    ASSUME NEW m \in Nat, NEW S \in SUBSET (1..m), S # {}
    PROVE  Max(S) \in S
<1> DEFINE T == {m - g : g \in S}
<1>1. T \subseteq Nat /\ T # {}
  <2>1. \A g \in S : m - g \in Nat
    OBVIOUS
  <2>2. QED
    BY <2>1
<1>2. PICK t \in T : \A u \in T : ~(<<u, t>> \in OpToRel(<, Nat))
  BY <1>1, NatLessThanWellFounded, WFMin
<1>3. \A u \in T : ~(u < t)
  BY <1>1, <1>2 DEF OpToRel
<1>4. PICK g \in S : t = m - g
  OBVIOUS
<1>5. ASSUME NEW h \in S PROVE g >= h
  <2>1. m - h \in T /\ ~(m - h < m - g)
    BY <1>3, <1>4
  <2>2. h \in 1..m /\ g \in 1..m
    BY Zenon
  <2>3. QED
    BY <2>1, <2>2
<1>6. QED
  BY <1>4, <1>5 DEF Max

LEMMA ResolvedAs ==
    ASSUME MilvusTypeOK, Stands(pointed.active)
    PROVE  /\ Resolved.active = pointed.active
           /\ Resolved.previous \in 0..made \cup {Unset}
<1>1. ASSUME NEW g PROVE Inferred(g) \in 0..made \cup {Unset}
  <2>1. made \in Nat /\ DOMAIN collections \ {g} \in SUBSET (1..made)
    BY DEF MilvusTypeOK
  <2> DEFINE others == DOMAIN collections \ {g}
  <2>2. CASE others = {}
    BY <2>2 DEF Inferred
  <2>3. CASE others # {}
    <3>1. Max(others) \in others
      BY <2>1, <2>3, Youngest
    <3>2. Inferred(g) = Max(others)
      BY <2>3 DEF Inferred
    <3>3. QED
      BY <2>1, <3>1, <3>2
  <2>4. QED
    BY <2>2, <2>3
<1>2. QED
  BY <1>1 DEF MilvusTypeOK, Stands, Resolved

LEMMA JobsGrow ==
    ASSUME made \in Nat, made' \in Nat, made <= made'
    PROVE  Jobs \subseteq Jobs'
<1>1. 0..made \subseteq 0..made' /\ SUBSET (1..made) \subseteq SUBSET (1..made')
  OBVIOUS
<1> DEFINE drops == SUBSET (1..made)
           dropsP == SUBSET (1..made')
           dates == 0..made
           datesP == 0..made'
           befores == SUBSET SUBSET Sources
           ops == Updates \cup {NoUpdate}
<1>2. drops \subseteq dropsP /\ dates \subseteq datesP
  BY <1>1
<1>3. /\ Jobs = [op : ops, at : {"idle", "create", "insert", "publish", "adopt", "drop"},
                docs : SUBSET Sources, candidate : dates, base : dates, drops : drops,
                before : befores]
      /\ Jobs' = [op : ops, at : {"idle", "create", "insert", "publish", "adopt", "drop"},
                 docs : SUBSET Sources, candidate : datesP, base : datesP, drops : dropsP,
                 before : befores]
  BY DEF Jobs
<1> HIDE DEF drops, dropsP, dates, datesP, befores, ops
<1>4. QED
  BY <1>2, <1>3

LEMMA NoJobIsOne == made \in Nat => NoJob \in Jobs
BY DEF NoJob, Jobs

LEMMA OnlyOpen ==
    ASSUME OneOpen, NEW p \in Openers, memory[p].open
    PROVE  \A q \in Openers : q # p => ~memory[q].open /\ job[q] = NoJob
BY DEF OneOpen

LEMMA AtWork ==
    ASSUME MilvusInv, NEW p \in Openers, job[p].at # "idle"
    PROVE  memory[p].open
BY DEF MilvusInv, OneOpen, NoJob

LEMMA MilvusStarts == MilvusInit => MilvusInv
<1> USE MilvusAssumption
<1> SUFFICES ASSUME MilvusInit PROVE MilvusInv
  OBVIOUS
<1>1. DOMAIN collections = {}
  BY DEF MilvusInit
<1>2. MilvusTyped
  BY <1>1 DEF MilvusInit, MilvusTyped, MilvusTypeOK, Jobs, NotOpen, NoJob, Unread
<1>3. OneOpen /\ ReadsStand
  BY DEF MilvusInit, OneOpen, ReadsStand, NotOpen, Unread
<1>4. Serves /\ Updated /\ CandidateFits /\ Drops
  BY <1>1 DEF MilvusInit, Serves, Fits, Stands, Holds, Updated, Updating, CandidateFits, Drops,
              NotOpen, NoJob
<1>5. QED
  BY <1>2, <1>3, <1>4 DEF MilvusInv

LEMMA OpenStoreStep ==
    ASSUME MilvusInv, OneAtATime', NEW p \in Openers, OpenStore(p)
    PROVE  MilvusInv'
<1> USE MilvusAssumption
<1>1. /\ \A q \in Openers : ~memory[q].open /\ job[q] = NoJob
      /\ \A q \in Queries : reads[q].stage = "idle"
  <2>1. memory'[p].open /\ \A q \in Openers : q # p => memory'[q] = memory[q]
    BY DEF MilvusInv, MilvusTyped, MilvusTypeOK, OpenStore
  <2>2. \A q \in Openers : ~memory[q].open
    BY <2>1 DEF OneAtATime, OpenStore
  <2>3. QED
    BY <2>2 DEF MilvusInv, OneOpen
<1>2. \E r \in 0..made \cup {Unset} :
         memory' = [memory EXCEPT ![p] = [open |-> TRUE, active |-> pointed.active, previous |-> r]]
  BY ResolvedAs DEF MilvusInv, MilvusTyped, Serves, OpenStore
<1>3. UNCHANGED <<lite, collections, made, pointed, job, reads, may, whole>>
  BY DEF OpenStore
<1>4. MilvusTyped'
  BY <1>2, <1>3 DEF MilvusInv, MilvusTyped, MilvusTypeOK, Jobs
<1>5. memory' \in [Openers -> [open : BOOLEAN, active : 0..made, previous : (0..made) \cup {Unset}]]
  BY <1>2 DEF MilvusInv, MilvusTyped, MilvusTypeOK
<1>6. \A q \in Openers : memory'[q].open => q = p /\ memory'[p].active = pointed.active
  BY <1>1, <1>2 DEF MilvusInv, MilvusTyped, MilvusTypeOK
<1>7. OneOpen' /\ ReadsStand'
  BY <1>1, <1>3, <1>6 DEF OneOpen, ReadsStand
<1>8. Serves'
  BY <1>3, <1>6 DEF MilvusInv, Serves, Fits, Whole, Stands, Holds
<1>9. Updated' /\ CandidateFits' /\ Drops'
  BY <1>1, <1>3 DEF Updated, Updating, CandidateFits, Drops, NoJob
<1>10. QED
  BY <1>4, <1>7, <1>8, <1>9 DEF MilvusInv

LEMMA QuitStep ==
    ASSUME MilvusInv, NEW p \in Openers, Quit(p)
    PROVE  MilvusInv'
<1> USE MilvusAssumption
<1>1. /\ memory' = [memory EXCEPT ![p] = NotOpen] /\ job' = [job EXCEPT ![p] = NoJob]
      /\ UNCHANGED <<lite, collections, made, pointed, may, whole>>
      /\ memory[p].open
  BY DEF Quit
<1>2. \A q \in Queries : reads'[q].stage = "idle"
  BY DEF MilvusInv, OneOpen, Quit, Unread
<1>3. \A q \in Openers : ~memory'[q].open /\ job'[q] = NoJob
  BY <1>1, OnlyOpen DEF MilvusInv, MilvusTyped, MilvusTypeOK, NotOpen
<1>4. reads' \in [Queries -> [stage : {"idle", "queued", "reading"}, pinned : 0..made]]
  BY DEF MilvusInv, MilvusTyped, MilvusTypeOK, Quit, Unread
<1>5. MilvusTyped'
  BY <1>1, <1>4 DEF MilvusInv, MilvusTyped, MilvusTypeOK, Jobs, NotOpen, NoJob
<1>6. OneOpen' /\ ReadsStand'
  BY <1>2, <1>3 DEF OneOpen, ReadsStand
<1>7. Serves'
  BY <1>1, <1>3 DEF MilvusInv, Serves, Fits, Whole, Stands, Holds
<1>8. Updated' /\ CandidateFits' /\ Drops'
  BY <1>3 DEF Updated, Updating, CandidateFits, Drops, NoJob
<1>9. QED
  BY <1>5, <1>6, <1>7, <1>8 DEF MilvusInv

LEMMA BeginUpdateStep ==
    ASSUME MilvusInv, NEW p \in Openers, NEW u \in Updates, BeginUpdate(p, u)
    PROVE  MilvusInv'
<1> USE MilvusAssumption
<1> DEFINE found == Holds(memory[p].active)
           docs == Effect(u, found)
           after == {Effect(u, d) : d \in may}
<1>1. /\ memory[p].open /\ job[p].at = "idle"
      /\ UNCHANGED <<lite, collections, made, pointed, memory, reads, whole>>
  BY DEF BeginUpdate
<1>2. \A q \in Openers : q # p => ~memory[q].open /\ job[q] = NoJob
  BY <1>1, OnlyOpen DEF MilvusInv
<1>3. /\ Whole(memory[p].active) => found \in may
      /\ u.op = "full" \/ Whole(memory[p].active) => docs \in after
      /\ memory[p].active = pointed.active /\ memory[p].active \in 0..made
      /\ found \in SUBSET Sources /\ after # {}
  <2>1. /\ Whole(memory[p].active) => found \in may
        /\ memory[p].active = pointed.active /\ memory[p].active \in 0..made
        /\ found \in SUBSET Sources /\ may # {} /\ after # {}
    BY <1>1 DEF MilvusInv, MilvusTyped, MilvusTypeOK, Serves, Fits, Holds
  <2>2. ASSUME u.op = "full" PROVE docs \in after
    BY <2>1, <2>2 DEF Effect
  <2>3. QED
    BY <2>1, <2>2
<1>4. after \subseteq SUBSET Sources /\ docs \in SUBSET Sources
  BY <1>3, EffectOf DEF MilvusInv, MilvusTyped, MilvusTypeOK
<1>5. CASE docs = {} /\ memory[p].active \notin DOMAIN collections
  <2>1. may' = after /\ job' = job
    BY <1>5 DEF BeginUpdate
  <2>2. Whole(pointed.active) => Holds(pointed.active) \in after
    BY <1>3, <1>5 DEF Holds
  <2>3. MilvusTyped'
    BY <1>1, <1>3, <1>4, <2>1 DEF MilvusInv, MilvusTyped, MilvusTypeOK, Jobs
  <2>4. Serves'
    BY <1>1, <1>2, <1>3, <2>1, <2>2 DEF MilvusInv, Serves, Fits, Whole, Stands, Holds
  <2>5. \A q \in Openers : job'[q] = NoJob
    BY <1>1, <1>2, <2>1 DEF MilvusInv, OneOpen
  <2>6. Updated' /\ CandidateFits' /\ Drops'
    BY <2>5 DEF Updated, Updating, CandidateFits, Drops, NoJob
  <2>7. OneOpen' /\ ReadsStand'
    BY <1>1, <2>1 DEF MilvusInv, OneOpen, ReadsStand
  <2>8. QED
    BY <2>3, <2>4, <2>6, <2>7 DEF MilvusInv
<1>6. CASE ~(docs = {} /\ memory[p].active \notin DOMAIN collections)
  <2> DEFINE new == [NoJob EXCEPT !.op = u, !.at = "create", !.docs = docs,
                                  !.base = memory[p].active, !.before = may]
  <2>1. may' = may \cup after /\ job' = [job EXCEPT ![p] = new]
    BY <1>6 DEF BeginUpdate, Step
  <2>2. /\ new.op = u /\ new.at = "create" /\ new.docs = docs /\ new.before = may
        /\ new.candidate = 0 /\ new.base = memory[p].active
    BY DEF NoJob
  <2>0. new \in Jobs
    <3>1. NoJob \in Jobs /\ may \in SUBSET SUBSET Sources
      BY NoJobIsOne DEF MilvusInv, MilvusTyped, MilvusTypeOK
    <3> HIDE DEF docs
    <3>2. QED
      BY <1>3, <1>4, <3>1 DEF Jobs
  <2> HIDE DEF new
  <2>3. job'[p] = new /\ \A q \in Openers : q # p => job'[q] = NoJob
    BY <1>2, <2>1 DEF MilvusInv, MilvusTyped
  <2>4. MilvusTyped'
    BY <1>1, <1>4, <2>0, <2>1, <2>2 DEF MilvusInv, MilvusTyped, MilvusTypeOK, Jobs
  <2>5. OneOpen' /\ ReadsStand'
    BY <1>1, <1>2, <2>2, <2>3 DEF MilvusInv, OneOpen, ReadsStand
  <2>6. Serves'
    BY <1>1, <1>2, <1>3, <2>1 DEF MilvusInv, Serves, Fits, Whole, Stands, Holds
  <2>7. Updated'
    <3>1. may # {} /\ Whole(memory[p].active)' = Whole(memory[p].active)
      BY <1>1 DEF MilvusInv, MilvusTyped, MilvusTypeOK, Whole
    <3>2. Holds(memory[p].active)' = found
      BY <1>1 DEF Holds
    <3>3. Accounts(p)' => docs \in after
      BY <1>1, <1>3, <2>2, <2>3, <3>1 DEF Accounts, Whole
    <3>4. \A e : e \in after <=> \E d \in job'[p].before : e = Effect(job'[p].op, d)
      BY <2>1, <2>2, <2>3
    <3>5. QED
      BY <1>1, <1>3, <2>1, <2>2, <2>3, <3>1, <3>2, <3>3, <3>4
         DEF Updated, Updating, Effects, NoJob
  <2>8. CandidateFits' /\ Drops'
    BY <2>2, <2>3 DEF CandidateFits, Drops, NoJob
  <2>9. QED
    BY <2>4, <2>5, <2>6, <2>7, <2>8 DEF MilvusInv
<1>7. QED
  BY <1>5, <1>6

LEMMA CreateCandidateStep ==
    ASSUME MilvusInv, NEW p \in Openers, CreateCandidate(p)
    PROVE  MilvusInv'
<1> USE MilvusAssumption
<1> DEFINE new == [job[p] EXCEPT !.at = "insert", !.candidate = made']
<1>1. /\ job[p].at = "create" /\ made' = made + 1 /\ made < MaxCandidates
      /\ collections' = [g \in DOMAIN collections \cup {made'} |-> Holds(g)]
      /\ job' = [job EXCEPT ![p] = new]
      /\ UNCHANGED <<lite, pointed, memory, reads, may, whole>>
  BY DEF CreateCandidate, Step
<1>2. memory[p].open /\ \A q \in Openers : q # p => ~memory[q].open /\ job[q] = NoJob
  BY <1>1, AtWork, OnlyOpen DEF MilvusInv
<1>3. made \in Nat /\ made + 1 \in 1..MaxCandidates /\ DOMAIN collections \subseteq 1..made
  BY <1>1 DEF MilvusInv, MilvusTyped, MilvusTypeOK
<1>4. /\ new.op = job[p].op /\ new.at = "insert" /\ new.docs = job[p].docs
      /\ new.before = job[p].before /\ new.base = job[p].base
      /\ new.candidate = made + 1 /\ new \in Jobs'
  <2>1. job[p] \in Jobs'
    BY <1>1, <1>3, JobsGrow DEF MilvusInv, MilvusTyped
  <2>2. made' \in 0..made' /\ made' = made + 1
    BY <1>1, <1>3
  <2>3. new \in Jobs'
    BY <2>1, <2>2 DEF Jobs
  <2>4. QED
    BY <2>1, <2>2, <2>3 DEF Jobs
<1> HIDE DEF new
<1>5. job'[p] = new /\ \A q \in Openers : q # p => job'[q] = NoJob
  BY <1>1, <1>2 DEF MilvusInv, MilvusTyped
<1>6. \A g : /\ g # made + 1 => Holds(g)' = Holds(g)
             /\ g # made + 1 => (g \in DOMAIN collections' <=> g \in DOMAIN collections)
  BY <1>1 DEF Holds
<1>7. MilvusTyped'
  <2>1. DOMAIN collections' \subseteq 1..made' /\ \A g \in DOMAIN collections' : collections'[g] \subseteq Sources
    BY <1>1, <1>3 DEF MilvusInv, MilvusTyped, MilvusTypeOK, Holds
  <2>2. \A q \in Openers : job'[q] \in Jobs'
    <3>1. NoJob \in Jobs'
      BY <1>1, <1>3, NoJobIsOne, JobsGrow
    <3>2. QED
      BY <1>4, <1>5, <3>1
  <2>3. job' \in [Openers -> Jobs']
    BY <1>1, <2>2 DEF MilvusInv, MilvusTyped
  <2>4. MilvusTypeOK'
    <3>1. \A q \in Openers : job'[q].at \in {"idle", "create", "insert", "publish", "adopt", "drop"}
      BY <2>2 DEF Jobs
    <3>2. 0..made \subseteq 0..made' /\ made' \in 0..MaxCandidates
      BY <1>1, <1>3
    <3>3. pointed' \in [active : 0..made', previous : (0..made') \cup {Unset}]
      BY <1>1, <3>2 DEF MilvusInv, MilvusTyped, MilvusTypeOK
    <3>4. memory' \in [Openers -> [open : BOOLEAN, active : 0..made', previous : (0..made') \cup {Unset}]]
      BY <1>1, <3>2 DEF MilvusInv, MilvusTyped, MilvusTypeOK
    <3>5. reads' \in [Queries -> [stage : {"idle", "queued", "reading"}, pinned : 0..made']]
      BY <1>1, <3>2 DEF MilvusInv, MilvusTyped, MilvusTypeOK
    <3>7. whole' \subseteq 1..made'
      BY <1>1, <1>3 DEF MilvusInv, MilvusTyped, MilvusTypeOK
    <3>6. QED
      BY <1>1, <2>1, <3>7, <3>1, <3>2, <3>3, <3>4, <3>5 DEF MilvusInv, MilvusTyped, MilvusTypeOK
  <2>5. QED
    BY <2>3, <2>4 DEF MilvusTyped
<1>8. /\ pointed.active \in 0..made /\ \A q \in Openers : memory[q].active \in 0..made
      /\ \A q \in Queries : reads[q].pinned \in 0..made
      /\ whole \subseteq 1..made /\ \A g : Whole(g)' = Whole(g)
  BY <1>1 DEF MilvusInv, MilvusTyped, MilvusTypeOK, Whole
<1>9. OneOpen' /\ ReadsStand'
  BY <1>1, <1>2, <1>3, <1>4, <1>5, <1>6, <1>8 DEF MilvusInv, OneOpen, ReadsStand
<1>10. Serves'
  BY <1>1, <1>2, <1>3, <1>4, <1>5, <1>6, <1>8 DEF MilvusInv, Serves, Fits, Stands
<1>11. Updated'
  BY <1>1, <1>2, <1>3, <1>4, <1>5, <1>6, <1>8
     DEF MilvusInv, Updated, Updating, Accounts, Effects, NoJob
<1>12. CandidateFits' /\ Drops'
  BY <1>1, <1>3, <1>4, <1>5, <1>8 DEF CandidateFits, Drops, NoJob
<1>13. QED
  BY <1>7, <1>9, <1>10, <1>11, <1>12 DEF MilvusInv

LEMMA InsertChunksStep ==
    ASSUME MilvusInv, NEW p \in Openers, InsertChunks(p)
    PROVE  MilvusInv'
<1> USE MilvusAssumption
<1> DEFINE new == [job[p] EXCEPT !.at = "publish"]
           c == job[p].candidate
<1>1. /\ job[p].at = "insert" /\ c \in DOMAIN collections
      /\ collections' = [collections EXCEPT ![c] = job[p].docs]
      /\ job' = [job EXCEPT ![p] = new]
      /\ UNCHANGED <<lite, made, pointed, memory, reads, may, whole>>
  BY DEF InsertChunks, Step
<1>2. memory[p].open /\ \A q \in Openers : q # p => ~memory[q].open /\ job[q] = NoJob
  BY <1>1, AtWork, OnlyOpen DEF MilvusInv
<1>4. /\ new.op = job[p].op /\ new.at = "publish" /\ new.docs = job[p].docs
      /\ new.before = job[p].before /\ new.candidate = c /\ new.base = job[p].base
      /\ new \in Jobs
  BY DEF MilvusInv, MilvusTyped, Jobs
<1> HIDE DEF new
<1>5. job'[p] = new /\ \A q \in Openers : q # p => job'[q] = NoJob
  BY <1>1, <1>2 DEF MilvusInv, MilvusTyped
<1>6. /\ DOMAIN collections' = DOMAIN collections
      /\ \A g \in DOMAIN collections : g # c => collections'[g] = collections[g]
      /\ collections'[c] = job[p].docs
      /\ \A g : g # c => Holds(g)' = Holds(g)
  <2>1. DOMAIN collections' = DOMAIN collections /\ collections'[c] = job[p].docs
    BY <1>1
  <2>2. \A g \in DOMAIN collections : g # c => collections'[g] = collections[g]
    BY <1>1
  <2>3. QED
    BY <2>1, <2>2 DEF Holds
<1>7. MilvusTyped'
  BY <1>1, <1>4, <1>6 DEF MilvusInv, MilvusTyped, MilvusTypeOK, Jobs
<1>8. c # memory[p].active /\ c # pointed.active
  BY <1>1, <1>2 DEF MilvusInv, CandidateFits, Serves
<1>9. OneOpen' /\ ReadsStand'
  BY <1>1, <1>2, <1>4, <1>5, <1>6 DEF MilvusInv, OneOpen, ReadsStand
<1>10. Serves'
  BY <1>1, <1>2, <1>4, <1>5, <1>6, <1>8 DEF MilvusInv, Serves, Fits, Whole, Stands
<1>11. Updated'
  BY <1>1, <1>2, <1>4, <1>5, <1>6, <1>8
     DEF MilvusInv, Updated, Updating, Accounts, Whole, Effects, NoJob
<1>12. CandidateFits' /\ Drops'
  BY <1>1, <1>4, <1>5, <1>6 DEF MilvusInv, CandidateFits, Drops, NoJob
<1>13. QED
  BY <1>7, <1>9, <1>10, <1>11, <1>12 DEF MilvusInv

LEMMA PublishCandidateStep ==
    ASSUME MilvusInv, NEW p \in Openers, PublishCandidate(p)
    PROVE  MilvusInv'
<1> USE MilvusAssumption
<1> DEFINE new == [job[p] EXCEPT !.at = "adopt"]
           c == job[p].candidate
<1>1. /\ job[p].at = "publish" /\ c \in DOMAIN collections
      /\ pointed' = [active |-> c, previous |-> IF lite THEN job[p].base ELSE Unset]
      /\ job' = [job EXCEPT ![p] = new]
      /\ whole' = IF job[p].op.op = "full" \/ Whole(job[p].base) THEN whole \cup {c} ELSE whole
      /\ UNCHANGED <<lite, collections, made, memory, reads, may>>
  BY DEF PublishCandidate, Publishes, Step
<1>2. memory[p].open /\ \A q \in Openers : q # p => ~memory[q].open /\ job[q] = NoJob
  BY <1>1, AtWork, OnlyOpen DEF MilvusInv
<1>4. /\ new.op = job[p].op /\ new.at = "adopt" /\ new.docs = job[p].docs
      /\ new.before = job[p].before /\ new.candidate = c /\ new.base = job[p].base
      /\ new \in Jobs
  BY DEF MilvusInv, MilvusTyped, Jobs
<1> HIDE DEF new
<1>5. job'[p] = new /\ \A q \in Openers : q # p => job'[q] = NoJob
  BY <1>1, <1>2 DEF MilvusInv, MilvusTyped
<1>6. c \in 1..made /\ c \in 0..made /\ job[p].base \in 0..made
  BY <1>1 DEF MilvusInv, MilvusTyped, MilvusTypeOK, Jobs
<1>7. MilvusTyped'
  BY <1>1, <1>4, <1>6 DEF MilvusInv, MilvusTyped, MilvusTypeOK, Jobs
<1>8. /\ collections[c] = job[p].docs /\ c # memory[p].active /\ ~Whole(c)
      /\ Accounts(p) => job[p].docs \in Effects(p, job[p].before) /\ job[p].docs \in may
  BY <1>1 DEF MilvusInv, CandidateFits, Updated, Updating, Whole
<1>14. /\ \A g : g # c => Whole(g)' = Whole(g)
       /\ Whole(c)' = Accounts(p)
       /\ Accounts(p)' = Accounts(p)
  BY <1>1, <1>4, <1>5, <1>6, <1>8 DEF Whole, Accounts
<1>9. OneOpen' /\ ReadsStand'
  BY <1>1, <1>2, <1>4, <1>5 DEF MilvusInv, OneOpen, ReadsStand
<1>10. Serves'
  BY <1>1, <1>2, <1>4, <1>5, <1>8, <1>14 DEF MilvusInv, Serves, Fits, Stands, Holds
<1>11. Updated'
  BY <1>1, <1>2, <1>4, <1>5, <1>8, <1>14 DEF MilvusInv, Updated, Updating, Effects, NoJob, Holds
<1>12. CandidateFits' /\ Drops'
  BY <1>1, <1>4, <1>5, <1>8 DEF CandidateFits, Drops, NoJob
<1>13. QED
  BY <1>7, <1>9, <1>10, <1>11, <1>12 DEF MilvusInv

LEMMA UpdateFailsStep ==
    ASSUME MilvusInv, NEW p \in Openers, UpdateFails(p)
    PROVE  MilvusInv'
<1> USE MilvusAssumption
<1> DEFINE c == job[p].candidate
<1>1. /\ job[p].at \in {"create", "insert", "publish"}
      /\ job' = [job EXCEPT ![p] = NoJob] /\ may' = job[p].before
      /\ UNCHANGED <<lite, made, pointed, memory, reads, whole>>
  BY DEF UpdateFails
<1>2. memory[p].open /\ \A q \in Openers : q # p => ~memory[q].open /\ job[q] = NoJob
  BY <1>1, AtWork, OnlyOpen DEF MilvusInv
<1>3. \A q \in Openers : job'[q] = NoJob
  BY <1>1, <1>2 DEF MilvusInv, MilvusTyped
<1>4. \A g : g \in DOMAIN collections' => g \in DOMAIN collections /\ collections'[g] = collections[g]
  BY DEF UpdateFails
<1>5. \A g \in DOMAIN collections : g # c => g \in DOMAIN collections'
  BY DEF UpdateFails
<1>6. MilvusTyped'
  <2>1. job[p].before \subseteq SUBSET Sources /\ job[p].before # {} /\ NoJob \in Jobs
    BY <1>1, NoJobIsOne DEF MilvusInv, MilvusTyped, MilvusTypeOK, Jobs, Updated, Updating
  <2>2. \A q \in Openers : job'[q].at = "idle"
    BY <1>3 DEF NoJob
  <2>3. QED
    BY <1>1, <1>4, <2>1, <2>2 DEF MilvusInv, MilvusTyped, MilvusTypeOK, Jobs
<1>7. OneOpen'
  BY <1>1, <1>3 DEF MilvusInv, OneOpen
<1>8. /\ memory[p].active = pointed.active
      /\ Whole(memory[p].active) => Holds(memory[p].active) \in job[p].before
      /\ Stands(pointed.active)
      /\ pointed.active = 0 \/ pointed.active # c
  BY <1>1, <1>2 DEF MilvusInv, Serves, Updated, Updating, CandidateFits, Stands,
                    MilvusTyped, MilvusTypeOK, OneOpen
<1>9. Stands(pointed.active)' /\ Holds(pointed.active)' = Holds(pointed.active)
  <2>1. 0 \notin DOMAIN collections
    BY DEF MilvusInv, MilvusTyped, MilvusTypeOK
  <2>2. QED
    BY <1>1, <1>4, <1>5, <1>8, <2>1 DEF Stands, Holds
<1>10. Serves'
  BY <1>1, <1>2, <1>8, <1>9 DEF Serves, Fits, Whole, Holds, Stands
<1>11. ReadsStand'
  <2>1. \A q \in Queries : reads[q].stage = "reading" /\ reads[q].pinned # 0 => reads[q].pinned # c
    BY <1>1 DEF MilvusInv, CandidateFits
  <2>2. QED
    BY <1>1, <1>5, <2>1 DEF MilvusInv, ReadsStand
<1>12. Updated' /\ CandidateFits' /\ Drops'
  BY <1>3 DEF Updated, Updating, CandidateFits, Drops, NoJob
<1>13. QED
  BY <1>6, <1>7, <1>10, <1>11, <1>12 DEF MilvusInv

\* What a cleanup lists is neither kept nor read.
LEMMA CleanUpStep ==
    ASSUME MilvusInv, NEW p \in Openers, NEW keep, CleanUp(p, keep), memory[p].open
    PROVE  /\ job'[p] \in Jobs /\ job' \in [Openers -> Jobs]
           /\ job'[p].op = job[p].op /\ job'[p].at = "drop"
           /\ \A q \in Openers : q # p => ~memory[q].open /\ job'[q] = NoJob
           /\ job'[p].drops \cap keep = {}
           /\ \A q \in Queries : reads[q].stage = "reading" => reads[q].pinned \notin job'[p].drops
<1> DEFINE new == [job[p] EXCEPT !.at = "drop", !.drops = DOMAIN collections \ Spared(p, keep)]
<1>1. job' = [job EXCEPT ![p] = new]
  BY DEF CleanUp, Step
<1>2. DOMAIN collections \in SUBSET (1..made)
  BY DEF MilvusInv, MilvusTyped, MilvusTypeOK
<1>3. /\ new.op = job[p].op /\ new.at = "drop"
      /\ new.drops = DOMAIN collections \ Spared(p, keep) /\ new \in Jobs
  <2> DEFINE dropped == DOMAIN collections \ Spared(p, keep)
             old == job[p]
  <2>1. dropped \in SUBSET (1..made) /\ old \in Jobs
    BY <1>2 DEF MilvusInv, MilvusTyped
  <2> HIDE DEF dropped, old
  <2>2. LET next == [old EXCEPT !.at = "drop", !.drops = dropped]
        IN next.op = old.op /\ next.at = "drop" /\ next.drops = dropped /\ next \in Jobs
    BY <2>1 DEF Jobs
  <2>3. QED
    BY <2>2 DEF old, dropped
<1> HIDE DEF new
<1>4. job'[p] = new /\ job' \in [Openers -> Jobs] /\ \A q \in Openers : q # p => job'[q] = job[q]
  BY <1>1, <1>3 DEF MilvusInv, MilvusTyped
<1>5. \A q \in Openers : q # p => ~memory[q].open /\ job[q] = NoJob
  BY OnlyOpen DEF MilvusInv
<1>6. ASSUME NEW q \in Queries, reads[q].stage = "reading"
      PROVE  reads[q].pinned \notin new.drops
  <2>1. p = API
    BY <1>5, <1>6, MilvusAssumption DEF MilvusInv, OneOpen
  <2>2. QED
    BY <1>3, <1>6, <2>1 DEF Spared
<1>7. new.drops \cap keep = {}
  BY <1>3 DEF Spared
<1>8. QED
  BY <1>3, <1>4, <1>5, <1>6, <1>7

LEMMA AdoptStep ==
    ASSUME MilvusInv, NEW p \in Openers, Adopt(p)
    PROVE  MilvusInv'
<1> USE MilvusAssumption
<1> DEFINE c == job[p].candidate
           keep == {c, job[p].base}
<1>1. /\ job[p].at = "adopt" /\ CleanUp(p, keep)
      /\ memory' = [memory EXCEPT ![p].active = c, ![p].previous = job[p].base]
      /\ UNCHANGED <<lite, collections, made, pointed, reads, may, whole>>
  BY DEF Adopt
<1>2. memory[p].open
  BY <1>1, AtWork
<1>3. /\ job'[p] \in Jobs /\ job' \in [Openers -> Jobs]
      /\ job'[p].op = job[p].op /\ job'[p].at = "drop"
      /\ \A q \in Openers : q # p => ~memory[q].open /\ job'[q] = NoJob
      /\ c \notin job'[p].drops
      /\ \A q \in Queries : reads[q].stage = "reading" => reads[q].pinned \notin job'[p].drops
  BY <1>1, <1>2, CleanUpStep
<1>4. /\ pointed.active = c /\ c \in DOMAIN collections /\ collections[c] = job[p].docs
      /\ Whole(c) => job[p].docs \in Effects(p, job[p].before)
      /\ job[p].before \cup Effects(p, job[p].before) \subseteq may
  BY <1>1 DEF MilvusInv, CandidateFits, Updated, Updating, Accounts
<1>5. c \in 0..made /\ job[p].base \in 0..made
  BY DEF MilvusInv, MilvusTyped, Jobs
<1>6. /\ memory' \in [Openers -> [open : BOOLEAN, active : 0..made, previous : (0..made) \cup {Unset}]]
      /\ memory'[p].active = c /\ memory'[p].open
      /\ \A q \in Openers : q # p => ~memory'[q].open
  <2>1. memory \in [Openers -> [open : BOOLEAN, active : 0..made, previous : (0..made) \cup {Unset}]]
    BY DEF MilvusInv, MilvusTyped, MilvusTypeOK
  <2> HIDE DEF c
  <2>2. QED
    BY <1>1, <1>2, <1>3, <1>5, <2>1
<1>7. MilvusTyped'
  BY <1>1, <1>3, <1>6 DEF MilvusInv, MilvusTyped, MilvusTypeOK, Jobs
<1>8. OneOpen' /\ ReadsStand'
  BY <1>1, <1>2, <1>3, <1>6 DEF MilvusInv, OneOpen, ReadsStand, NoJob
<1>9. Serves'
  BY <1>1, <1>3, <1>4, <1>6 DEF Serves, Fits, Whole, Stands, Holds
<1>10. Drops'
  <2>1. Whole(pointed.active)' => \E d \in may : Holds(pointed.active)' = Effect(job'[p].op, d)
    BY <1>1, <1>3, <1>4 DEF Holds, Effects, Whole
  <2>2. QED
    BY <1>1, <1>3, <1>4, <2>1 DEF Drops, Effects, NoJob
<1>11. Updated' /\ CandidateFits'
  BY <1>3 DEF Updated, Updating, CandidateFits, NoJob
<1>12. QED
  BY <1>7, <1>8, <1>9, <1>10, <1>11 DEF MilvusInv

LEMMA DropNextStep ==
    ASSUME MilvusInv, NEW p \in Openers, DropNext(p)
    PROVE  MilvusInv'
<1> USE MilvusAssumption
<1>1. PICK g \in job[p].drops :
         /\ collections' = [k \in DOMAIN collections \ {g} |-> collections[k]]
         /\ job' = [job EXCEPT ![p] = [job[p] EXCEPT !.drops = job[p].drops \ {g}]]
  BY DEF DropNext, Step
<1> DEFINE new == [job[p] EXCEPT !.drops = job[p].drops \ {g}]
<1>0. job' = [job EXCEPT ![p] = new]
  BY <1>1
<1>2. job[p].at = "drop" /\ UNCHANGED <<lite, made, pointed, memory, reads, may, whole>>
  BY DEF DropNext
<1>3. memory[p].open /\ \A q \in Openers : q # p => ~memory[q].open /\ job[q] = NoJob
  BY <1>2, AtWork, OnlyOpen DEF MilvusInv
<1>4. /\ new \in Jobs /\ new.op = job[p].op /\ new.at = "drop"
      /\ new.drops = job[p].drops \ {g}
  BY <1>2 DEF MilvusInv, MilvusTyped, Jobs
<1> HIDE DEF new
<1>5. /\ job'[p] = new /\ job' \in [Openers -> Jobs]
      /\ \A q \in Openers : q # p => job'[q] = NoJob
  BY <1>0, <1>3, <1>4 DEF MilvusInv, MilvusTyped
<1>6. /\ pointed.active # g /\ memory[p].active = pointed.active
      /\ Whole(pointed.active) => Holds(pointed.active) \in Effects(p, may)
      /\ pointed.active \notin job[p].drops
      /\ \A q \in Queries : reads[q].stage = "reading" => reads[q].pinned \notin job[p].drops
  BY <1>2, <1>3 DEF MilvusInv, Serves, Drops
<1>7. /\ \A k : k # g => Holds(k)' = Holds(k)
      /\ \A k : k # g => (k \in DOMAIN collections' <=> k \in DOMAIN collections)
  BY <1>1 DEF Holds
<1>8. MilvusTyped'
  BY <1>1, <1>2, <1>5 DEF MilvusInv, MilvusTyped, MilvusTypeOK, Jobs
<1>9. OneOpen'
  BY <1>2, <1>3, <1>4, <1>5 DEF MilvusInv, OneOpen
<1>10. ReadsStand'
  BY <1>2, <1>6, <1>7 DEF MilvusInv, ReadsStand
<1>11. Serves'
  BY <1>2, <1>3, <1>4, <1>5, <1>6, <1>7 DEF MilvusInv, Serves, Fits, Whole, Stands
<1>12. Drops'
  BY <1>2, <1>4, <1>5, <1>6, <1>7 DEF Drops, Effects, Whole, NoJob
<1>13. Updated' /\ CandidateFits'
  BY <1>4, <1>5 DEF Updated, Updating, CandidateFits, NoJob
<1>14. QED
  BY <1>8, <1>9, <1>10, <1>11, <1>12, <1>13 DEF MilvusInv

LEMMA ReturnStep ==
    ASSUME MilvusInv, NEW p \in Openers, Return(p)
    PROVE  MilvusInv'
<1> USE MilvusAssumption
<1>1. /\ job[p].at = "drop" /\ may' = Effects(p, may) /\ job' = [job EXCEPT ![p] = NoJob]
      /\ UNCHANGED <<lite, collections, made, pointed, memory, reads, whole>>
  BY DEF Return, Effects
<1>2. memory[p].open /\ \A q \in Openers : q # p => ~memory[q].open /\ job[q] = NoJob
  BY <1>1, AtWork, OnlyOpen DEF MilvusInv
<1>3. \A q \in Openers : job'[q] = NoJob
  BY <1>1, <1>2 DEF MilvusInv, MilvusTyped
<1>4. may' \subseteq SUBSET Sources /\ may' # {}
  <2>1. job[p].op \in Updates \cup {NoUpdate} /\ may \subseteq SUBSET Sources /\ may # {}
    BY DEF MilvusInv, MilvusTyped, MilvusTypeOK, Jobs
  <2>2. QED
    BY <1>1, <2>1, EffectOf DEF Effects
<1>5. MilvusTyped'
  BY <1>1, <1>4, NoJobIsOne DEF MilvusInv, MilvusTyped, MilvusTypeOK, Jobs
<1>6. OneOpen' /\ ReadsStand'
  BY <1>1, <1>2, <1>3 DEF MilvusInv, OneOpen, ReadsStand
<1>7. Serves'
  BY <1>1, <1>2, <1>3 DEF MilvusInv, Serves, Fits, Whole, Drops, Stands, Holds
<1>8. Updated' /\ CandidateFits' /\ Drops'
  BY <1>3 DEF Updated, Updating, CandidateFits, Drops, NoJob
<1>9. QED
  BY <1>5, <1>6, <1>7, <1>8 DEF MilvusInv

LEMMA RollBackStep ==
    ASSUME MilvusInv, NEW p \in Openers, RollBack(p)
    PROVE  MilvusInv'
<1> USE MilvusAssumption
<1> DEFINE was == memory[p].active
           old == memory[p].previous
<1>1. /\ memory[p].open /\ job[p].at = "idle" /\ old \in DOMAIN collections
      /\ pointed' = [active |-> old, previous |-> IF lite THEN was ELSE Unset]
      /\ memory' = [memory EXCEPT ![p].active = old, ![p].previous = was]
      /\ may' = IF Whole(old) THEN {Holds(old)} ELSE may
      /\ UNCHANGED <<lite, collections, made, job, reads, whole>>
  BY DEF RollBack, Publishes
<1>2. \A q \in Openers : job[q] = NoJob /\ (q # p => ~memory[q].open)
  BY <1>1, OnlyOpen DEF MilvusInv, OneOpen
<1>3. old \in 0..made /\ was \in 0..made /\ Holds(old) \subseteq Sources
  BY <1>1 DEF MilvusInv, MilvusTyped, MilvusTypeOK, Holds
<1>4. /\ memory' \in [Openers -> [open : BOOLEAN, active : 0..made, previous : (0..made) \cup {Unset}]]
      /\ memory'[p].active = old /\ \A q \in Openers : memory'[q].open = memory[q].open
  <2> DEFINE new == [memory[p] EXCEPT !.active = old, !.previous = was]
  <2>1. memory' = [memory EXCEPT ![p] = new]
    BY <1>1
  <2>2. /\ new \in [open : BOOLEAN, active : 0..made, previous : (0..made) \cup {Unset}]
        /\ new.active = old /\ new.open = memory[p].open
    BY <1>3 DEF MilvusInv, MilvusTyped, MilvusTypeOK
  <2> HIDE DEF new
  <2>3. QED
    BY <2>1, <2>2 DEF MilvusInv, MilvusTyped, MilvusTypeOK
<1>5. MilvusTyped'
  <2>1. may' \subseteq SUBSET Sources /\ may' # {}
    BY <1>1, <1>3 DEF MilvusInv, MilvusTyped, MilvusTypeOK
  <2>2. QED
    BY <1>1, <1>3, <1>4, <2>1 DEF MilvusInv, MilvusTyped, MilvusTypeOK, Jobs
<1>6. OneOpen' /\ ReadsStand'
  BY <1>1, <1>4 DEF MilvusInv, OneOpen, ReadsStand
<1>7. Serves'
  BY <1>1, <1>2, <1>4 DEF Serves, Fits, Whole, Stands, Holds
<1>8. Updated' /\ CandidateFits' /\ Drops'
  BY <1>1, <1>2 DEF Updated, Updating, CandidateFits, Drops, NoJob
<1>9. QED
  BY <1>5, <1>6, <1>7, <1>8 DEF MilvusInv

LEMMA CleanUpGenerationsStep ==
    ASSUME MilvusInv, NEW p \in Openers, NEW n, CleanUpGenerations(p, n)
    PROVE  MilvusInv'
<1> USE MilvusAssumption
<1>1. /\ memory[p].open /\ job[p].at = "idle" /\ CleanUp(p, Retained(p, n))
      /\ UNCHANGED <<lite, collections, made, pointed, memory, reads, may, whole>>
  BY DEF CleanUpGenerations
<1>2. /\ job' \in [Openers -> Jobs] /\ job'[p].op = job[p].op /\ job'[p].at = "drop"
      /\ \A q \in Openers : q # p => ~memory[q].open /\ job'[q] = NoJob
      /\ job'[p].drops \cap Retained(p, n) = {}
      /\ \A q \in Queries : reads[q].stage = "reading" => reads[q].pinned \notin job'[p].drops
  BY <1>1, CleanUpStep
<1>3. job[p].op = NoUpdate
  BY <1>1 DEF MilvusInv, OneOpen, NoJob
<1>4. /\ memory[p].active \in Retained(p, n) /\ memory[p].active = pointed.active
      /\ Whole(pointed.active) => Holds(pointed.active) \in may
  BY <1>1 DEF MilvusInv, Serves, Fits, Retained
<1>5. MilvusTyped'
  BY <1>1, <1>2 DEF MilvusInv, MilvusTyped, MilvusTypeOK, Jobs
<1>6. OneOpen' /\ ReadsStand'
  BY <1>1, <1>2 DEF MilvusInv, OneOpen, ReadsStand, NoJob
<1>7. Serves'
  BY <1>1, <1>2, <1>4 DEF MilvusInv, Serves, Fits, Whole, Stands, Holds
<1>8. Drops'
  <2>1. Whole(pointed.active) => Effect(NoUpdate, Holds(pointed.active)) = Holds(pointed.active)
    BY <1>4, EffectOf DEF MilvusInv, MilvusTyped, MilvusTypeOK
  <2>2. /\ Holds(pointed.active)' = Holds(pointed.active)
        /\ Whole(pointed.active)' = Whole(pointed.active)
    BY <1>1 DEF Holds, Whole
  <2>3. QED
    BY <1>1, <1>2, <1>3, <1>4, <2>1, <2>2 DEF Drops, Effects, NoJob
<1>9. Updated' /\ CandidateFits'
  BY <1>2 DEF Updated, Updating, CandidateFits, NoJob
<1>10. QED
  BY <1>5, <1>6, <1>7, <1>8, <1>9 DEF MilvusInv

\* A retrieval that pins the collection its process serves pins what no cleanup drops.
LEMMA ReadStep ==
    ASSUME MilvusInv, NEW q \in Queries, Admit(q) \/ PinSnapshot(q) \/ Leaves(q)
    PROVE  MilvusInv'
<1> USE MilvusAssumption
<1>1. UNCHANGED <<lite, collections, made, pointed, memory, job, may, whole>>
  BY DEF Admit, PinSnapshot, Leaves
<1>2. /\ reads' \in [Queries -> [stage : {"idle", "queued", "reading"}, pinned : 0..made]]
      /\ \A r \in Queries : reads'[r].stage = "reading" =>
            \/ reads[r].stage = "reading" /\ reads'[r] = reads[r]
            \/ PinSnapshot(q) /\ r = q /\ reads'[r].pinned = memory[API].active
      /\ \A r \in Queries : reads'[r].stage # "idle" => reads[r].stage # "idle" \/ memory[API].open
  <2>1. /\ reads \in [Queries -> [stage : {"idle", "queued", "reading"}, pinned : 0..made]]
        /\ memory[API].active \in 0..made /\ 0 \in 0..made
    BY DEF MilvusInv, MilvusTyped, MilvusTypeOK
  <2>2. CASE Admit(q)
    BY <2>1, <2>2 DEF Admit
  <2>3. CASE PinSnapshot(q)
    BY <2>1, <2>3 DEF PinSnapshot
  <2>4. CASE Leaves(q)
    BY <2>1, <2>4 DEF Leaves, Unread
  <2>5. QED
    BY <2>2, <2>3, <2>4
<1>3. ASSUME PinSnapshot(q) PROVE memory[API].open
  BY <1>3 DEF MilvusInv, OneOpen, PinSnapshot
<1>4. MilvusTyped'
  BY <1>1, <1>2 DEF MilvusInv, MilvusTyped, MilvusTypeOK, Jobs
<1>5. OneOpen'
  BY <1>1, <1>2, <1>3 DEF MilvusInv, OneOpen
<1>6. ReadsStand'
  BY <1>1, <1>2, <1>3 DEF MilvusInv, ReadsStand, Serves, Stands
<1>7. Serves' /\ Updated'
  BY <1>1 DEF MilvusInv, Serves, Fits, Whole, Stands, Holds, Updated, Updating, Accounts, Effects
<1>8. \A p \in Openers : PinSnapshot(q) /\ job[p].at # "idle" => p = API
  BY <1>3, OnlyOpen, AtWork DEF MilvusInv
<1>9. CandidateFits'
  BY <1>1, <1>2, <1>8 DEF MilvusInv, CandidateFits
<1>10. Drops'
  <2>1. ASSUME NEW p \in Openers, job[p].at = "drop", NEW r \in Queries,
               reads'[r].stage = "reading"
        PROVE  reads'[r].pinned \notin job[p].drops
    BY <1>2, <1>3, <1>8, <2>1 DEF MilvusInv, Drops, Serves
  <2>2. \A g : Holds(g)' = Holds(g) /\ Whole(g)' = Whole(g)
    BY <1>1 DEF Holds, Whole
  <2>3. QED
    BY <1>1, <2>1, <2>2 DEF MilvusInv, Drops, Effects
<1>11. QED
  BY <1>4, <1>5, <1>6, <1>7, <1>9, <1>10 DEF MilvusInv

\* Every step keeps the invariant that leaves one process with the store open.
LEMMA IndexStep ==
    ASSUME MilvusInv, OneAtATime', [MilvusNext]_milvusVars
    PROVE  MilvusInv'
<1>1. ASSUME NEW p \in Openers, OpenStore(p) \/ Quit(p)
      PROVE  MilvusInv'
  BY <1>1, OpenStoreStep, QuitStep
<1>2. ASSUME NEW p \in Openers,
             \/ CreateCandidate(p) \/ InsertChunks(p) \/ PublishCandidate(p) \/ UpdateFails(p)
             \/ Adopt(p) \/ DropNext(p) \/ Return(p)
      PROVE  MilvusInv'
  BY <1>2, CreateCandidateStep, InsertChunksStep, PublishCandidateStep, UpdateFailsStep,
     AdoptStep, DropNextStep, ReturnStep
<1>3. ASSUME NEW p \in Openers, NEW u \in Updates, BeginUpdate(p, u)
      PROVE  MilvusInv'
  BY <1>3, BeginUpdateStep
<1>4. ASSUME NEW p \in Openers, RollBack(p)
      PROVE  MilvusInv'
  BY <1>4, RollBackStep
<1>5. ASSUME NEW p \in Openers, NEW n \in 2..3, CleanUpGenerations(p, n)
      PROVE  MilvusInv'
  BY <1>5, CleanUpGenerationsStep
<1>6. ASSUME NEW q \in Queries, Admit(q) \/ PinSnapshot(q) \/ Leaves(q)
      PROVE  MilvusInv'
  BY <1>6, ReadStep
<1>7. CASE UNCHANGED milvusVars
  <2>1. UNCHANGED <<lite, collections, made, pointed, memory, job, reads, may, whole>>
    BY <1>7 DEF milvusVars
  <2>2. MilvusTyped' /\ OneOpen' /\ ReadsStand'
    BY <2>1 DEF MilvusInv, MilvusTyped, MilvusTypeOK, Jobs, OneOpen, ReadsStand
  <2>3. \A g : Holds(g)' = Holds(g) /\ Whole(g)' = Whole(g)
    BY <2>1 DEF Holds, Whole
  <2>4. Serves' /\ Updated' /\ CandidateFits' /\ Drops'
    BY <2>1, <2>3 DEF MilvusInv, Serves, Fits, Stands, Updated, Updating, Accounts,
                            Effects, CandidateFits, Drops
  <2>5. QED
    BY <2>2, <2>4 DEF MilvusInv
<1>8. QED
  BY <1>1, <1>2, <1>3, <1>4, <1>5, <1>6, <1>7 DEF MilvusNext

\* What the index holds is accounted for at every step of an update, a rollback and a
\* cleanup, for any documents, retrievals and collections, while scripts run when the API does
\* not.
THEOREM IndexFits == MilvusSpec /\ []OneAtATime => []MilvusInv
BY MilvusStarts, IndexStep, PTL DEF MilvusSpec

\* MilvusSound while scripts run when the API does not, on Milvus Lite and on a server, for any
\* documents, retrievals and collections: what updates made and is published or served is
\* accounted for by what those who changed the index were told, and no retrieval loses the
\* collection it reads.
THEOREM IndexStands == MilvusSpec /\ []OneAtATime => []MilvusSound
<1>1. MilvusInv => MilvusSound
  <2>1. ASSUME MilvusInv PROVE Whole(Resolved.active) => Published \in may
    BY <2>1, ResolvedAs DEF MilvusInv, MilvusTyped, Serves, Fits, Published
  <2>2. QED
    BY <2>1 DEF MilvusInv, MilvusSound, Serves, Fits, AllOrNothing
<1>2. QED
  BY <1>1, IndexFits, PTL

\* Milvus Lite lets nobody in beside the process that has it open, so MilvusSound holds of it
\* whoever tries.
THEOREM LiteStands == MilvusSpec /\ (lite \/ ~Beside) => []MilvusSound
<1> DEFINE Inv == (lite \/ ~Beside) /\ MilvusInv
<1>1. ASSUME Inv, [MilvusNext]_milvusVars PROVE Inv'
  <2>0. /\ OneAtATime
        /\ memory \in [Openers -> [open : BOOLEAN, active : 0..made,
                                   previous : (0..made) \cup {Unset}]]
    BY <1>1 DEF MilvusInv, MilvusTyped, MilvusTypeOK, OneOpen, OneAtATime
  <2>1. ASSUME NEW p \in Openers, OpenStore(p) PROVE OneAtATime' /\ lite' = lite
    <3>1. \A q \in Openers : ~memory[q].open
      BY <1>1, <2>1 DEF OpenStore
    <3>2. lite' = lite /\ \A q \in Openers : q # p => memory'[q] = memory[q]
      BY <2>0, <2>1 DEF OpenStore
    <3>3. QED
      BY <3>1, <3>2 DEF OneAtATime
  <2>2. ASSUME NEW p \in Openers, Quit(p) \/ Adopt(p) \/ RollBack(p)
        PROVE  OneAtATime' /\ lite' = lite
    <3>1. lite' = lite /\ \A q \in Openers : memory'[q].open => memory[q].open
      BY <2>0, <2>2 DEF Quit, NotOpen, Adopt, RollBack
    <3>2. QED
      BY <2>0, <3>1 DEF OneAtATime
  <2>3. ASSUME NEW p \in Openers,
               \/ CreateCandidate(p) \/ InsertChunks(p) \/ PublishCandidate(p) \/ UpdateFails(p)
               \/ DropNext(p) \/ Return(p) \/ (\E n \in 2..3 : CleanUpGenerations(p, n))
               \/ (\E u \in Updates : BeginUpdate(p, u))
        PROVE  UNCHANGED <<lite, memory>>
    BY <2>3, Zenon DEF CreateCandidate, InsertChunks, PublishCandidate, UpdateFails, DropNext,
                       Return, CleanUpGenerations, BeginUpdate
  <2>4. ASSUME NEW q \in Queries, Admit(q) \/ PinSnapshot(q) \/ Leaves(q)
        PROVE  UNCHANGED <<lite, memory>>
    BY <2>4 DEF Admit, PinSnapshot, Leaves
  <2>5. ASSUME UNCHANGED milvusVars PROVE UNCHANGED <<lite, memory>>
    BY <2>5 DEF milvusVars
  <2>6. UNCHANGED <<lite, memory>> => OneAtATime' /\ lite' = lite
    BY <2>0 DEF OneAtATime
  <2>7. OneAtATime' /\ lite' = lite
    BY <1>1, <2>1, <2>2, <2>3, <2>4, <2>5, <2>6 DEF MilvusNext
  <2>8. QED
    BY <1>1, <2>7, IndexStep
<1>2. Inv => OneAtATime
  BY DEF MilvusInv, OneOpen, OneAtATime
<1>3. MilvusInit /\ (lite \/ ~Beside) => Inv
  BY MilvusStarts
<1> HIDE DEF Inv
<1>4. QED
  BY <1>1, <1>2, <1>3, IndexStands, PTL DEF MilvusSpec
-----------------------------------------------------------------------------
(* MemoryStore, for any number of memories, contents, runs and idempotency   *)
(* keys, and any bound on the versions.                                      *)
USE MemoryAssumption
-----------------------------------------------------------------------------
(* The inductive invariant.                                                  *)
OneActive == \A m \in Memories : \A u, v \in With(m, "active") : u = v

\* What a version supersedes is an older one, and is superseded for good.
Superseded ==
    \A m \in Memories : \A v \in DOMAIN records[m] :
        LET s == records[m][v].supersedes
        IN s # 0 => s \in DOMAIN records[m] /\ s < v /\ records[m][s].status = "superseded"

NoFork ==
    \A m \in Memories : \A u, v \in DOMAIN records[m] :
        u # v /\ records[m][u].supersedes # 0
            => records[m][u].supersedes # records[m][v].supersedes

ConflictsOlder ==
    \A m \in Memories : \A v \in DOMAIN records[m] : records[m][v].conflictsWith < v

History == OneActive /\ Superseded /\ NoFork /\ ConflictsOlder

MemInv == MemTypeOK /\ History

(* What a step may not do: lose a version, change what it says, supersedes   *)
(* or conflicts with, or bring back one that was superseded or deleted.      *)
Remembered ==
    \A m \in Memories : \A v \in DOMAIN records[m] :
        LET old == records[m][v]
            new == records'[m][v]
        IN /\ v \in DOMAIN records'[m]
           /\ new.content = old.content /\ new.supersedes = old.supersedes
           /\ new.conflictsWith = old.conflictsWith
           /\ old.status \in {"superseded", "deleted"} => new.status = old.status
           /\ new.status = "active" => old.status = "active"
-----------------------------------------------------------------------------
LEMMA VersionsOf ==
    ASSUME MemTypeOK, NEW m \in Memories
    PROVE  /\ Len(records[m]) \in Nat /\ DOMAIN records[m] = 1..Len(records[m])
           /\ DOMAIN records[m] \subseteq Versions
           /\ NextVersion(m) \in Nat /\ NextVersion(m) \notin DOMAIN records[m]
           /\ \A v \in DOMAIN records[m] : v < NextVersion(m) /\ records[m][v] \in Records
           /\ records[m] \in [DOMAIN records[m] -> Records]
BY DEF MemTypeOK, Versions, NextVersion

(* A new version after the others, some of which are closed.                 *)
LEMMA Extended ==
    ASSUME MemTypeOK, NEW m \in Memories, NextVersion(m) \in Versions,
           NEW before \in [DOMAIN records[m] -> Records], NEW new \in Records,
           records' = [records EXCEPT ![m] = Append(before, new)]
    PROVE  /\ records' \in [Memories -> Seq(Records)]
           /\ \A n \in Memories : Len(records'[n]) <= MaxVersions
           /\ \A n \in Memories \ {m} : records'[n] = records[n]
           /\ DOMAIN records'[m] = DOMAIN records[m] \cup {NextVersion(m)}
           /\ \A v \in DOMAIN records[m] : records'[m][v] = before[v]
           /\ records'[m][NextVersion(m)] = new
<1>1. /\ Len(records[m]) \in Nat /\ DOMAIN records[m] = 1..Len(records[m])
      /\ NextVersion(m) = Len(records[m]) + 1 /\ NextVersion(m) <= MaxVersions
      /\ records \in [Memories -> Seq(Records)]
  BY VersionsOf DEF NextVersion, Versions, MemTypeOK
<1>2. before \in Seq(Records) /\ Len(before) = Len(records[m])
  <2>1. PICK n \in Nat : n = Len(records[m])
    BY <1>1
  <2>2. before \in [1..n -> Records]
    BY <1>1, <2>1
  <2>3. before \in Seq(Records)
    BY <2>2, SeqDef
  <2>4. QED
    BY <2>1, <2>2, <2>3
<1>3. /\ Append(before, new) \in Seq(Records) /\ Len(Append(before, new)) = NextVersion(m)
      /\ \A v \in 1..Len(records[m]) : Append(before, new)[v] = before[v]
      /\ Append(before, new)[NextVersion(m)] = new
  BY <1>1, <1>2, AppendProperties
<1>4. DOMAIN Append(before, new) = 1..NextVersion(m)
  BY <1>3
<1>5. QED
  BY <1>1, <1>3, <1>4 DEF MemTypeOK

(* The row an idempotency key leaves.                                        *)
LEMMA LoggedType ==
    ASSUME MemTypeOK, NEW k \in Keys, NEW request \in Requests, NEW v \in Versions,
           Logged(k, request, v)
    PROVE  operations' \in [Keys -> [request : Requests, result : Versions] \cup {Missing}]
<1>1. [request |-> request, result |-> v] \in [request : Requests, result : Versions]
  OBVIOUS
<1>2. QED
  BY <1>1 DEF Logged, MemTypeOK

LEMMA RememberKeeps ==
    ASSUME MemInv, NEW m \in Memories, NEW content \in Contents, NEW k \in Keys,
           Remember(m, content, k)
    PROVE  MemInv' /\ Remembered
<1> USE DEF MemInv
<1> DEFINE active == With(m, "active")
           request == [type |-> "remember", memory |-> m, version |-> 0, content |-> content]
           w == CHOOSE v \in active : TRUE
           new == IF active = {} THEN Version(content, "active", 0, 0)
                  ELSE Version(content, "conflict", 0, w)
<1>1. request \in Requests /\ active \subseteq DOMAIN records[m]
  BY DEF Requests, With
<1>2. /\ UNCHANGED <<links, expired, snapshots, reference, stage>>
      /\ \/ \E v \in active : Logged(k, request, v) /\ UNCHANGED records
         \/ /\ NextVersion(m) \in Versions
            /\ records' = [records EXCEPT ![m] = Append(@, new)]
            /\ Logged(k, request, NextVersion(m))
  BY DEF Remember, referenceVars
<1>3. operations' \in [Keys -> [request : Requests, result : Versions] \cup {Missing}]
  <2>1. active \subseteq Versions
    BY <1>1, VersionsOf
  <2>2. PICK v \in Versions : Logged(k, request, v)
    BY <1>2, <2>1
  <2>3. QED
    BY <1>1, <2>2, LoggedType
<1>4. CASE UNCHANGED records
  BY <1>2, <1>3, <1>4 DEF MemTypeOK, History, OneActive, Superseded, NoFork, ConflictsOlder, With,
                          Remembered
<1>5. CASE NextVersion(m) \in Versions /\ records' = [records EXCEPT ![m] = Append(@, new)]
  <2>1. active # {} => w \in DOMAIN records[m] /\ w \in Versions /\ w < NextVersion(m)
    BY <1>1, VersionsOf
  <2> HIDE DEF w
  <2>2. /\ new \in Records /\ new.supersedes = 0 /\ new.conflictsWith < NextVersion(m)
        /\ new.status = IF active = {} THEN "active" ELSE "conflict"
    <3>1. Status = {"active", "conflict", "superseded", "deleted"} /\ NextVersion(m) > 0
      BY VersionsOf DEF Status, NextVersion
    <3>2. QED
      BY <1>5, <2>1, <3>1 DEF Version, Records
  <2> HIDE DEF new
  <2>3. records[m] \in [DOMAIN records[m] -> Records]
    BY VersionsOf DEF MemTypeOK
  <2>4. /\ records' \in [Memories -> Seq(Records)]
        /\ \A n \in Memories : Len(records'[n]) <= MaxVersions
        /\ \A n \in Memories \ {m} : records'[n] = records[n]
        /\ DOMAIN records'[m] = DOMAIN records[m] \cup {NextVersion(m)}
        /\ \A v \in DOMAIN records[m] : records'[m][v] = records[m][v]
        /\ records'[m][NextVersion(m)] = new
    BY <1>5, <2>2, <2>3, Extended DEF MemTypeOK
  <2>5. MemTypeOK'
    BY <1>2, <1>3, <2>4 DEF MemTypeOK
  <2>6. OneActive'
    <3>1. \A n \in Memories : With(n, "active")' =
              IF n = m /\ active = {} THEN {NextVersion(m)} ELSE With(n, "active")
      BY <2>2, <2>4, VersionsOf DEF With
    <3>2. QED
      BY <3>1 DEF OneActive, History
  <2>7. Superseded'
    <3>1. ASSUME NEW n \in Memories, NEW v \in DOMAIN records'[n], records'[n][v].supersedes # 0
          PROVE  LET s == records'[n][v].supersedes
                 IN s \in DOMAIN records'[n] /\ s < v /\ records'[n][s].status = "superseded"
      BY <2>2, <2>4, <3>1 DEF Superseded, History
    <3>2. QED
      BY <3>1 DEF Superseded
  <2>8. NoFork'
    <3>1. ASSUME NEW n \in Memories, NEW u \in DOMAIN records'[n], NEW v \in DOMAIN records'[n],
                 u # v, records'[n][u].supersedes # 0
          PROVE  records'[n][u].supersedes # records'[n][v].supersedes
      BY <2>2, <2>4, <3>1 DEF NoFork, History
    <3>2. QED
      BY <3>1 DEF NoFork
  <2>9. ConflictsOlder'
    <3>1. ASSUME NEW n \in Memories, NEW v \in DOMAIN records'[n]
          PROVE  records'[n][v].conflictsWith < v
      BY <2>2, <2>4, <3>1 DEF ConflictsOlder, History
    <3>2. QED
      BY <3>1 DEF ConflictsOlder
  <2>10. Remembered
    BY <2>4 DEF Remembered
  <2>11. QED
    BY <2>5, <2>6, <2>7, <2>8, <2>9, <2>10 DEF History
<1>6. QED
  BY <1>2, <1>4, <1>5

LEMMA ReviseKeeps ==
    ASSUME MemInv, NEW m \in Memories, NEW v \in Versions, NEW content \in Contents, NEW k \in Keys,
           Revise(m, v, content, k)
    PROVE  MemInv' /\ Remembered
<1> USE DEF MemInv
<1> DEFINE request == [type |-> "revise", memory |-> m, version |-> v, content |-> content]
           Shut(u) == u = v \/ records[m][u].status = "conflict"
           before == [u \in DOMAIN records[m] |->
                        IF Shut(u) THEN [records[m][u] EXCEPT !.status = "superseded"]
                        ELSE records[m][u]]
           new == Version(content, "active", v, 0)
<1>1. request \in Requests /\ v \in DOMAIN records[m] /\ records[m][v].status = "active"
  BY DEF Requests, Revise, Revisable, With
<1>2. /\ UNCHANGED <<expired, snapshots, reference, stage>>
      /\ \/ Logged(k, request, v) /\ UNCHANGED <<records, links>>
         \/ /\ NextVersion(m) \in Versions
            /\ records' = [records EXCEPT ![m] = Append(before, new)]
            /\ links' = [links EXCEPT ![m][NextVersion(m)] = links[m][v]]
            /\ Logged(k, request, NextVersion(m))
  BY DEF Revise, referenceVars, MemTypeOK
<1>3. /\ operations' \in [Keys -> [request : Requests, result : Versions] \cup {Missing}]
      /\ links' \in [Memories -> [Versions -> SUBSET Targets]]
  <2>1. PICK u \in Versions : Logged(k, request, u)
    BY <1>2
  <2>2. operations' \in [Keys -> [request : Requests, result : Versions] \cup {Missing}]
    BY <1>1, <2>1, LoggedType
  <2>3. links' \in [Memories -> [Versions -> SUBSET Targets]]
    <3>1. links \in [Memories -> [Versions -> SUBSET Targets]] /\ links[m][v] \in SUBSET Targets
      BY DEF MemTypeOK
    <3>2. CASE UNCHANGED links
      BY <3>1, <3>2
    <3>3. CASE NextVersion(m) \in Versions /\ links' = [links EXCEPT ![m][NextVersion(m)] = links[m][v]]
      BY <3>1, <3>3
    <3>4. QED
      BY <1>2, <3>2, <3>3
  <2>4. QED
    BY <2>2, <2>3
<1>4. CASE UNCHANGED records
  BY <1>2, <1>3, <1>4 DEF MemTypeOK, History, OneActive, Superseded, NoFork, ConflictsOlder, With,
                          Remembered
<1>5. CASE NextVersion(m) \in Versions /\ records' = [records EXCEPT ![m] = Append(before, new)]
  <2>1. /\ new \in Records /\ new.supersedes = v /\ v < NextVersion(m) /\ v # 0
        /\ new.conflictsWith = 0 /\ new.status = "active"
    BY <1>1, VersionsOf DEF Version, Records, Status, Versions
  <2>2. /\ before \in [DOMAIN records[m] -> Records]
        /\ \A u \in DOMAIN records[m] :
              /\ before[u].content = records[m][u].content
              /\ before[u].supersedes = records[m][u].supersedes
              /\ before[u].conflictsWith = records[m][u].conflictsWith
              /\ before[u].status = IF Shut(u) THEN "superseded" ELSE records[m][u].status
    BY VersionsOf DEF Records, Status
  <2> HIDE DEF new, before
  <2>3. /\ records' \in [Memories -> Seq(Records)]
        /\ \A n \in Memories : Len(records'[n]) <= MaxVersions
        /\ \A n \in Memories \ {m} : records'[n] = records[n]
        /\ DOMAIN records'[m] = DOMAIN records[m] \cup {NextVersion(m)}
        /\ \A u \in DOMAIN records[m] : records'[m][u] = before[u]
        /\ records'[m][NextVersion(m)] = new
    <3>1. /\ MemTypeOK /\ NextVersion(m) \in Versions /\ new \in Records
          /\ before \in [DOMAIN records[m] -> Records]
          /\ records' = [records EXCEPT ![m] = Append(before, new)]
      BY <1>5, <2>1, <2>2
    <3>2. QED
      BY <3>1, Extended
  <2>4. MemTypeOK'
    BY <1>2, <1>3, <2>3 DEF MemTypeOK
  <2>5. OneActive'
    <3>1. \A u \in With(m, "active") : u = v
      BY <1>1 DEF OneActive, History, With
    <3>2. With(m, "active")' = {NextVersion(m)}
      <4>1. \A u \in DOMAIN records[m] : records'[m][u].status # "active"
        BY <2>2, <2>3, <3>1 DEF With
      <4>2. QED
        BY <2>1, <2>3, <4>1 DEF With
    <3>3. \A n \in Memories \ {m} : With(n, "active")' = With(n, "active")
      BY <2>3 DEF With
    <3>4. QED
      BY <3>2, <3>3 DEF OneActive, History
  <2>6. Superseded'
    <3>1. ASSUME NEW n \in Memories, NEW u \in DOMAIN records'[n], records'[n][u].supersedes # 0
          PROVE  LET s == records'[n][u].supersedes
                 IN s \in DOMAIN records'[n] /\ s < u /\ records'[n][s].status = "superseded"
      <4>1. CASE n # m
        BY <2>3, <3>1, <4>1 DEF Superseded, History
      <4>2. CASE n = m /\ u = NextVersion(m)
        <5>1. records'[n][u].supersedes = v /\ v \in DOMAIN records'[n] /\ v < u
          BY <1>1, <2>1, <2>3, <4>2
        <5>2. records'[n][v].status = "superseded"
          BY <1>1, <2>2, <2>3, <4>2
        <5>3. QED
          BY <5>1, <5>2
      <4>3. CASE n = m /\ u \in DOMAIN records[m]
        <5>1. records'[m][u].supersedes = records[m][u].supersedes
          BY <2>2, <2>3, <4>3
        <5>2. LET s == records[m][u].supersedes
              IN s \in DOMAIN records[m] /\ s < u /\ records[m][s].status = "superseded"
          BY <3>1, <4>3, <5>1 DEF Superseded, History
        <5>3. QED
          BY <2>2, <2>3, <4>3, <5>1, <5>2
      <4>4. QED
        BY <2>3, <4>1, <4>2, <4>3
    <3>2. QED
      BY <3>1 DEF Superseded
  <2>7. NoFork'
    <3>1. \A u \in DOMAIN records[m] : records[m][u].supersedes # v
      BY <1>1, <2>1 DEF Superseded, History
    <3>2. ASSUME NEW n \in Memories, NEW u \in DOMAIN records'[n], NEW x \in DOMAIN records'[n],
                 u # x, records'[n][u].supersedes # 0
          PROVE  records'[n][u].supersedes # records'[n][x].supersedes
      <4>1. CASE n # m
        BY <2>3, <3>2, <4>1 DEF NoFork, History
      <4>2. CASE n = m
        <5>1. \A y \in DOMAIN records[m] : records'[m][y].supersedes = records[m][y].supersedes
          BY <2>2, <2>3
        <5>2. records'[m][NextVersion(m)].supersedes = v
          BY <2>1, <2>3
        <5>3. QED
          BY <2>3, <3>1, <3>2, <4>2, <5>1, <5>2 DEF NoFork, History
      <4>3. QED
        BY <4>1, <4>2
    <3>3. QED
      BY <3>2 DEF NoFork
  <2>8. ConflictsOlder'
    <3>1. ASSUME NEW n \in Memories, NEW u \in DOMAIN records'[n]
          PROVE  records'[n][u].conflictsWith < u
      <4>1. CASE n = m /\ u = NextVersion(m)
        BY <2>1, <2>3, <4>1, VersionsOf
      <4>2. CASE n = m /\ u \in DOMAIN records[m]
        BY <2>2, <2>3, <4>2 DEF ConflictsOlder, History
      <4>3. CASE n # m
        BY <2>3, <3>1, <4>3 DEF ConflictsOlder, History
      <4>4. QED
        BY <2>3, <3>1, <4>1, <4>2, <4>3
    <3>2. QED
      BY <3>1 DEF ConflictsOlder
  <2>9. Remembered
    <3>1. ASSUME NEW u \in DOMAIN records[m]
          PROVE  /\ before[u].content = records[m][u].content
                 /\ records[m][u].status \in {"superseded", "deleted"} =>
                       before[u].status = records[m][u].status
                 /\ before[u].status = "active" => records[m][u].status = "active"
      BY <1>1, <2>2
    <3>2. QED
      BY <2>2, <2>3, <3>1 DEF Remembered
  <2>10. QED
    BY <2>4, <2>5, <2>6, <2>7, <2>8, <2>9 DEF History
<1>6. QED
  BY <1>2, <1>4, <1>5

LEMMA DeleteKeeps ==
    ASSUME MemInv, NEW m \in Memories, NEW v \in Versions, NEW k \in Keys, SoftDelete(m, v, k)
    PROVE  MemInv' /\ Remembered
<1> USE DEF MemInv
<1> DEFINE request == [type |-> "delete", memory |-> m, version |-> v, content |-> Missing]
<1>1. /\ request \in Requests /\ v \in DOMAIN records[m]
      /\ records[m][v].status \in {"active", "conflict"}
  BY DEF Requests, SoftDelete, With
<1>2. /\ records' = [records EXCEPT ![m][v].status = "deleted"] /\ Logged(k, request, v)
      /\ UNCHANGED <<links, expired, snapshots, reference, stage>>
  BY DEF SoftDelete, referenceVars
<1>3. /\ records[m] \in Seq(Records)
      /\ [records[m] EXCEPT ![v].status = "deleted"] \in Seq(Records)
      /\ Len([records[m] EXCEPT ![v].status = "deleted"]) = Len(records[m])
  <2>1. [records[m][v] EXCEPT !.status = "deleted"] \in Records
    BY <1>1, VersionsOf DEF Records, Status
  <2>2. v \in 1..Len(records[m]) /\ records[m] \in Seq(Records)
    BY <1>1, VersionsOf DEF MemTypeOK
  <2>3. QED
    BY <2>1, <2>2, ExceptSeq
<1>4. /\ records' \in [Memories -> Seq(Records)]
      /\ \A n \in Memories : Len(records'[n]) <= MaxVersions
      /\ \A n \in Memories : DOMAIN records'[n] = DOMAIN records[n]
      /\ \A n \in Memories : \A u \in DOMAIN records[n] :
            /\ records'[n][u].content = records[n][u].content
            /\ records'[n][u].supersedes = records[n][u].supersedes
            /\ records'[n][u].conflictsWith = records[n][u].conflictsWith
            /\ records'[n][u].status =
                  IF n = m /\ u = v THEN "deleted" ELSE records[n][u].status
  <2> DEFINE after == [records[m] EXCEPT ![v].status = "deleted"]
  <2>1. \A n \in Memories : records'[n] = IF n = m THEN after ELSE records[n]
    BY <1>2 DEF MemTypeOK
  <2>2. /\ DOMAIN after = DOMAIN records[m]
        /\ \A u \in DOMAIN records[m] :
              /\ after[u].content = records[m][u].content
              /\ after[u].supersedes = records[m][u].supersedes
              /\ after[u].conflictsWith = records[m][u].conflictsWith
              /\ after[u].status = IF u = v THEN "deleted" ELSE records[m][u].status
    BY <1>1, VersionsOf DEF Records
  <2>3. records' \in [Memories -> Seq(Records)]
    BY <1>2, <1>3 DEF MemTypeOK
  <2> HIDE DEF after
  <2>4. \A n \in Memories : Len(records'[n]) <= MaxVersions
    BY <1>3, <2>1 DEF MemTypeOK, after
  <2>5. QED
    BY <2>1, <2>2, <2>3, <2>4
<1>5. MemTypeOK'
  BY <1>1, <1>2, <1>4 DEF MemTypeOK, Logged
<1>6. \A n \in Memories : With(n, "active")' \subseteq With(n, "active")
  BY <1>4 DEF With
<1>7. OneActive' /\ NoFork' /\ ConflictsOlder'
  BY <1>4, <1>6 DEF OneActive, NoFork, ConflictsOlder, History
<1>8. Superseded'
  <2>1. ASSUME NEW n \in Memories, NEW u \in DOMAIN records'[n], records'[n][u].supersedes # 0
        PROVE  LET s == records'[n][u].supersedes
               IN s \in DOMAIN records'[n] /\ s < u /\ records'[n][s].status = "superseded"
    <3> DEFINE s == records[n][u].supersedes
    <3>1. u \in DOMAIN records[n] /\ records'[n][u].supersedes = s
      BY <1>4
    <3>2. s \in DOMAIN records[n] /\ s < u /\ records[n][s].status = "superseded"
      BY <2>1, <3>1 DEF Superseded, History
    <3> HIDE DEF s
    <3>3. s \in DOMAIN records'[n] /\ records'[n][s].status = "superseded"
      BY <1>1, <1>4, <3>2
    <3>4. QED
      BY <3>1, <3>2, <3>3
  <2>2. QED
    BY <2>1 DEF Superseded
<1>9. Remembered
  <2>1. ASSUME NEW n \in Memories, NEW u \in DOMAIN records[n]
        PROVE  /\ records[n][u].status \in {"superseded", "deleted"} =>
                     records'[n][u].status = records[n][u].status
               /\ records'[n][u].status = "active" => records[n][u].status = "active"
    BY <1>1, <1>4
  <2>2. QED
    BY <1>4, <2>1 DEF Remembered
<1>10. QED
  BY <1>5, <1>7, <1>8, <1>9 DEF History

(* What leaves the records alone.                                            *)
LEMMA OtherTypes ==
    ASSUME MemTypeOK, UNCHANGED <<records, operations>>,
           links' \in [Memories -> [Versions -> SUBSET Targets]],
           expired' \subseteq Memories \X Versions,
           stage' \in [Runs -> ReferenceStages],
           \/ UNCHANGED snapshots
           \/ \E r \in Runs : CreateSnapshot(r)
    PROVE  MemTypeOK'
<1>1. CASE UNCHANGED snapshots
  BY <1>1 DEF MemTypeOK
<1>2. ASSUME NEW r \in Runs, CreateSnapshot(r) PROVE MemTypeOK'
  <2>1. Selected \subseteq Memories \X Versions \X Contents
    <3>1. ASSUME NEW p \in Memories \X Versions, p[2] \in With(p[1], "active")
          PROVE  <<p[1], p[2], records[p[1]][p[2]].content>> \in Memories \X Versions \X Contents
      <4>1. p[1] \in Memories /\ p[2] \in Versions /\ p[2] \in DOMAIN records[p[1]]
        BY <3>1 DEF With
      <4>2. records[p[1]][p[2]] \in Records
        BY <4>1, VersionsOf
      <4>3. QED
        BY <4>1, <4>2 DEF Records
    <3>2. QED
      BY <3>1 DEF Selected
  <2> HIDE DEF Selected
  <2>2. /\ DOMAIN snapshots' = Runs
        /\ \A q \in Runs : snapshots'[q] = snapshots[q] \/ snapshots'[q] = Selected
    BY <1>2 DEF CreateSnapshot, MemTypeOK
  <2>3. \A q \in Runs : snapshots'[q] # Missing =>
            snapshots'[q] \subseteq Memories \X Versions \X Contents
    BY <2>1, <2>2 DEF MemTypeOK
  <2>4. QED
    BY <2>2, <2>3 DEF MemTypeOK
<1>3. QED
  BY <1>1, <1>2

LEMMA OthersKeep ==
    ASSUME MemInv, UNCHANGED records, MemTypeOK'
    PROVE  MemInv' /\ Remembered
BY DEF MemInv, History, OneActive, Superseded, NoFork, ConflictsOlder, With, Remembered

LEMMA MemKept == MemInv /\ [MemNext]_memVars => MemInv' /\ Remembered
<1> SUFFICES ASSUME MemInv, [MemNext]_memVars PROVE MemInv' /\ Remembered
  OBVIOUS
<1>1. MemTypeOK
  BY DEF MemInv
<1>2. CASE UNCHANGED memVars
  <2>1. MemTypeOK'
    BY <1>1, <1>2 DEF memVars, MemTypeOK
  <2>2. QED
    BY <1>2, <2>1, OthersKeep DEF memVars
<1>3. ASSUME NEW m \in Memories, NEW v \in Versions, Expire(m, v) PROVE MemInv' /\ Remembered
  BY <1>1, <1>3, OtherTypes, OthersKeep DEF Expire, referenceVars, MemTypeOK
<1>4. ASSUME NEW m \in Memories, NEW v \in Versions, NEW target \in Targets, AddLink(m, v, target)
      PROVE  MemInv' /\ Remembered
  <2>1. links' \in [Memories -> [Versions -> SUBSET Targets]]
    <3>1. links' = [links EXCEPT ![m] = [links[m] EXCEPT ![v] = links[m][v] \cup {target}]]
      BY <1>1, <1>4 DEF AddLink, MemTypeOK
    <3>2. links \in [Memories -> [Versions -> SUBSET Targets]]
      BY <1>1 DEF MemTypeOK
    <3>3. QED
      BY <3>1, <3>2
  <2>2. QED
    BY <1>1, <1>4, <2>1, OtherTypes, OthersKeep DEF AddLink, referenceVars, MemTypeOK
<1>5. ASSUME NEW r \in Runs,
             CreateSnapshot(r) \/ Bind(r) \/ Restart(r) \/ Reread(r) \/ Rebind(r)
      PROVE  MemInv' /\ Remembered
  <2>1. UNCHANGED <<records, links, expired, operations>>
    BY <1>5 DEF CreateSnapshot, Bind, Restart, Reread, Rebind
  <2>2. stage' \in [Runs -> ReferenceStages]
    BY <1>1, <1>5 DEF CreateSnapshot, Bind, Restart, Reread, Rebind, MemTypeOK, ReferenceStages
  <2>3. UNCHANGED snapshots \/ CreateSnapshot(r)
    BY <1>5 DEF Bind, Restart, Reread, Rebind
  <2>4. MemTypeOK'
    BY <1>1, <2>1, <2>2, <2>3, OtherTypes DEF MemTypeOK
  <2>5. QED
    BY <2>1, <2>4, OthersKeep
<1>6. ASSUME NEW r \in Runs, NEW m \in Memories,
             Unresolved(r, m) \/ \E override \in BOOLEAN : ReadRecords(r, m, override)
      PROVE  MemInv' /\ Remembered
  <2>1. UNCHANGED <<records, links, expired, operations, snapshots>>
    BY <1>6 DEF Unresolved, ReadRecords
  <2>2. stage' \in [Runs -> ReferenceStages]
    BY <1>1, <1>6 DEF Unresolved, ReadRecords, MemTypeOK, ReferenceStages
  <2>3. MemTypeOK'
    BY <1>1, <2>1, <2>2, OtherTypes DEF MemTypeOK
  <2>4. QED
    BY <2>1, <2>3, OthersKeep
<1>7. QED
  BY <1>2, <1>3, <1>4, <1>5, <1>6, RememberKeeps, ReviseKeeps, DeleteKeeps DEF MemNext
-----------------------------------------------------------------------------
(* The types of memories, links, keys and snapshots, and their histories.    *)
THEOREM MemoriesSound == MemSpec => []MemInv
<1>1. MemInit => MemInv
  BY DEF MemInit, MemInv, MemTypeOK, History, OneActive, Superseded, NoFork, ConflictsOlder, With,
         ReferenceStages
<1>2. QED
  BY <1>1, MemKept, PTL DEF MemSpec

(* Whatever is remembered, revised and deleted in whatever order by whom:    *)
(* one active version, no fork, conflicts with older versions only.          *)
THEOREM HistoriesDoNotFork == MemSpec => []OneHistory
<1>1. MemInv => OneHistory
  <2> SUFFICES ASSUME MemInv, NEW m \in Memories
               PROVE  /\ Cardinality(With(m, "active")) <= 1
                      /\ \A u, v \in DOMAIN records[m] :
                            u # v /\ records[m][u].supersedes # 0
                                => records[m][u].supersedes # records[m][v].supersedes
                      /\ \A v \in DOMAIN records[m] :
                            records[m][v].supersedes < v /\ records[m][v].conflictsWith < v
    BY DEF OneHistory
  <2> USE DEF MemInv, History
  <2>1. Cardinality(With(m, "active")) <= 1
    <3> DEFINE active == With(m, "active")
    <3>1. active = {} \/ \E v \in active : active = {v}
      BY DEF OneActive
    <3> HIDE DEF active
    <3>2. Cardinality(active) = 0 \/ Cardinality(active) = 1
      BY <3>1, FS_EmptySet, FS_Singleton
    <3>3. QED
      BY <3>2 DEF active
  <2>2. ASSUME NEW v \in DOMAIN records[m] PROVE records[m][v].supersedes < v
    BY VersionsOf DEF Superseded
  <2>3. QED
    BY <2>1, <2>2 DEF NoFork, ConflictsOlder
<1>2. QED
  BY <1>1, MemoriesSound, PTL

(* No version is lost, rewritten or revived, whatever is asked.              *)
THEOREM NothingForgotten == MemSpec => [][Remembered]_memVars
BY MemKept, MemoriesSound, PTL DEF MemSpec
-----------------------------------------------------------------------------
(* KnowledgeBase, for any documents, texts and callers: the types.           *)
Kinds == {"none", "ingest", "rebuild", "delete"}
Stops == {"idle", "documents", "seed", "known", "published", "embedding", "embedded", "written"}
RequestsOf == [type : Kinds, stage : Stops, input : Index, existing : Index]

BaseFits ==
    /\ manifest \in Index /\ bootstrapped \in BOOLEAN
    /\ created \in 1..MaxGenerations
    /\ DOMAIN generations \subseteq 1..created
    /\ \A g \in DOMAIN generations : generations[g] \in Index
    /\ pointer \in [active : 1..created, previous : 0..created]
    /\ store \in [active : 1..created, previous : 0..created, chunks : Index]
    /\ writer \in [request : Callers \cup {Absent}, chunks : Index]
    /\ requests \in [Callers -> RequestsOf]
    /\ kbAdmin \in [open : BOOLEAN, active : 0..created, previous : 0..created]
    /\ undisturbed \subseteq Callers

\* A request that nothing runs beside is the only one there is.
OnlyOne == \A q \in undisturbed, p \in Callers : p # q => requests[p].stage = "idle"

\* Only a deletion takes its document from the index and then from the originals.
Deletes == \A q \in Callers : requests[q].stage = "known" => requests[q].type = "delete"

\* Who is in the write lock has written its generation, and nobody else has.
LockFits == \A q \in Callers : requests[q].stage = "written" <=> writer.request = q

\* What a rebuild beside nothing else was given stays what the originals say, from its reading
\* of them to the generation it writes.
Given == {"published", "embedding", "embedded", "written"}
Faithful ==
    \A q \in undisturbed : requests[q].type = "rebuild" =>
        /\ requests[q].stage \in Given => requests[q].input = manifest
        /\ requests[q].stage = "written" => writer.chunks = manifest

BaseInv == BaseFits /\ OnlyOne /\ Deletes /\ LockFits /\ Faithful

\* What moving one request on does to the requests.
Others(q) == \A p \in Callers : p # q => requests'[p] = requests[p]
Keeps(q) == requests'[q].type = requests[q].type /\ requests'[q].input = requests[q].input

LEMMA AbsentIsNone == Absent \notin Callers
  BY KnowledgeAssumption

LEMMA Indices == Empty \in Index /\ Seed \in Index
  BY KnowledgeAssumption DEF Empty, Index

LEMMA Begun ==
    ASSUME BaseInv, NEW q \in Callers, NEW type \in Kinds, NEW spot \in Stops, NEW input \in Index,
           Begin(q, type, spot, input)
    PROVE  /\ requests' \in [Callers -> RequestsOf] /\ Others(q)
           /\ requests'[q].type = type /\ requests'[q].stage = spot /\ requests'[q].input = input
           /\ requests[q].stage = "idle" /\ undisturbed' \in SUBSET {q} /\ OnlyOne'
<1> DEFINE new == [type |-> type, stage |-> spot, input |-> input, existing |-> Empty]
<1>1. /\ new \in RequestsOf /\ new.type = type /\ new.stage = spot /\ new.input = input
  BY Indices DEF RequestsOf
<1>2. /\ requests[q].stage = "idle" /\ requests' = [requests EXCEPT ![q] = new]
      /\ undisturbed' = IF Running = {} THEN {q} ELSE {}
  BY DEF Begin
<1> HIDE DEF new
<1>3. requests \in [Callers -> RequestsOf]
  BY DEF BaseInv, BaseFits
<1>4. requests' \in [Callers -> RequestsOf] /\ Others(q) /\ requests'[q] = new
  BY <1>1, <1>2, <1>3 DEF Others
<1>5. OnlyOne'
  <2>1. ASSUME NEW p \in undisturbed', NEW r \in Callers, r # p PROVE requests'[r].stage = "idle"
    <3>1. p = q /\ Running = {}
      BY <1>2, <2>1
    <3>2. requests[r].stage = "idle" /\ requests'[r] = requests[r]
      BY <1>4, <2>1, <3>1 DEF Others, Running
    <3>3. QED
      BY <3>2
  <2>2. QED
    BY <2>1 DEF OnlyOne
<1>6. QED
  BY <1>1, <1>2, <1>4, <1>5

LEMMA Proceeded ==
    ASSUME BaseInv, NEW q \in Callers, NEW spot \in Stops, Proceed(q, spot)
    PROVE  requests' \in [Callers -> RequestsOf] /\ Others(q) /\ Keeps(q) /\ requests'[q].stage = spot
<1> DEFINE old == requests[q]
           new == [old EXCEPT !.stage = spot]
<1>1. requests \in [Callers -> RequestsOf] /\ old \in RequestsOf
  BY DEF BaseInv, BaseFits
<1>2. requests' = [requests EXCEPT ![q] = new]
  BY DEF Proceed
<1>3. new \in RequestsOf /\ new.type = old.type /\ new.input = old.input /\ new.stage = spot
  <2> HIDE DEF old
  <2>1. QED
    BY <1>1 DEF RequestsOf
<1> HIDE DEF new
<1>4. QED
  BY <1>1, <1>2, <1>3 DEF Others, Keeps

LEMMA ProceededWith ==
    ASSUME BaseInv, NEW q \in Callers, NEW spot \in Stops, NEW input \in Index,
           ProceedWith(q, spot, input)
    PROVE  /\ requests' \in [Callers -> RequestsOf] /\ Others(q)
           /\ requests'[q].type = requests[q].type /\ requests'[q].input = input
           /\ requests'[q].stage = spot
<1> DEFINE old == requests[q]
           new == [old EXCEPT !.stage = spot, !.input = input]
<1>1. requests \in [Callers -> RequestsOf] /\ old \in RequestsOf
  BY DEF BaseInv, BaseFits
<1>2. requests' = [requests EXCEPT ![q] = new]
  BY <1>1 DEF ProceedWith
<1>3. new \in RequestsOf /\ new.type = old.type /\ new.input = input /\ new.stage = spot
  <2> HIDE DEF old
  <2>1. QED
    BY <1>1 DEF RequestsOf
<1> HIDE DEF new
<1>4. QED
  BY <1>1, <1>2, <1>3 DEF Others

LEMMA Finishing ==
    ASSUME BaseInv, NEW q \in Callers, Finish(q)
    PROVE  requests' \in [Callers -> RequestsOf] /\ Others(q) /\ requests'[q] = Idle
<1>1. requests \in [Callers -> RequestsOf] /\ Idle \in RequestsOf
  BY Indices DEF BaseInv, BaseFits, Idle, RequestsOf, Kinds, Stops
<1>2. QED
  BY <1>1 DEF Finish, Others

\* A store that follows the pointer serves what a generation says.
LEMMA Refreshing ==
    ASSUME BaseInv, Refresh
    PROVE  /\ store' \in [active : 1..created, previous : 0..created, chunks : Index]
           /\ writer = NoWriter
<1>1. /\ store \in [active : 1..created, previous : 0..created, chunks : Index]
      /\ pointer \in [active : 1..created, previous : 0..created]
      /\ generations[pointer.active] \in Index /\ writer = NoWriter /\ store' = Refreshed
  BY DEF BaseInv, BaseFits, Refresh
<1>2. QED
  BY <1>1 DEF Refreshed

\* A request that is on its way moves on, outside the write lock and beside nothing that the
\* others hold.
LEMMA Moves ==
    ASSUME BaseInv, NEW q \in Callers, requests' \in [Callers -> RequestsOf], Others(q),
           BaseFits', undisturbed' = undisturbed,
           requests'[q].stage = "idle" \/ requests[q].stage # "idle",
           requests'[q].stage # "known",
           requests[q].stage # "written", requests'[q].stage # "written", writer' = writer
    PROVE  OnlyOne' /\ Deletes' /\ LockFits'
<1>1. OnlyOne'
  BY DEF BaseInv, OnlyOne, Others, BaseFits
<1>2. Deletes' /\ LockFits'
  BY DEF BaseInv, Deletes, LockFits, Others
<1>3. QED
  BY <1>1, <1>2

LEMMA Starts ==
    ASSUME BaseInv, NEW q \in Callers, requests' \in [Callers -> RequestsOf], Others(q),
           requests[q].stage = "idle",
           requests'[q].stage = "known" => requests'[q].type = "delete",
           requests'[q].stage # "written", writer' = writer
    PROVE  Deletes' /\ LockFits'
  BY DEF BaseInv, Deletes, LockFits, Others

LEMMA IngestStep ==
    ASSUME BaseInv, NEW q \in Callers, NEW d \in Documents, NEW content \in Texts,
           Ingest(q, d, content)
    PROVE  BaseInv'
<1> DEFINE input == [Empty EXCEPT ![d] = content]
<1>0. input \in Index /\ manifest' \in Index
  BY Indices DEF BaseInv, BaseFits, Index, Ingest
<1>1. /\ Begin(q, "ingest", "published", input) /\ bootstrapped' = TRUE
      /\ UNCHANGED <<indexVars, store, writer, kbAdmin>>
  BY DEF Ingest
<1> HIDE DEF input
<1>2. /\ requests' \in [Callers -> RequestsOf] /\ Others(q)
      /\ requests'[q].type = "ingest" /\ requests'[q].stage = "published"
      /\ requests[q].stage = "idle" /\ undisturbed' \in SUBSET {q} /\ OnlyOne'
  BY <1>0, <1>1, Begun DEF Kinds, Stops
<1>3. BaseFits'
  BY <1>0, <1>1, <1>2 DEF BaseInv, BaseFits, indexVars
<1>4. Deletes' /\ LockFits'
  BY <1>1, <1>2, Starts
<1>5. Faithful'
  BY <1>2 DEF Faithful
<1>6. QED
  BY <1>2, <1>3, <1>4, <1>5 DEF BaseInv

LEMMA RebuildStatusStep ==
    ASSUME BaseInv, NEW q \in Callers, RebuildStatus(q)
    PROVE  BaseInv'
<1> DEFINE spot == IF bootstrapped THEN "documents" ELSE "seed"
<1>1. Begin(q, "rebuild", spot, Empty) /\ UNCHANGED <<sourceVars, indexVars, store, writer, kbAdmin>>
  BY DEF RebuildStatus
<1>2. spot \in Stops /\ spot \in {"documents", "seed"}
  BY DEF Stops
<1> HIDE DEF spot
<1>3. /\ requests' \in [Callers -> RequestsOf] /\ Others(q) /\ requests'[q].stage = spot
      /\ requests[q].stage = "idle" /\ undisturbed' \in SUBSET {q} /\ OnlyOne'
  BY <1>1, <1>2, Begun, Indices DEF Kinds
<1>4. BaseFits'
  BY <1>1, <1>3 DEF BaseInv, BaseFits, sourceVars, indexVars
<1>5. Deletes' /\ LockFits'
  BY <1>1, <1>2, <1>3, Starts
<1>6. Faithful'
  BY <1>2, <1>3 DEF Faithful, Given
<1>7. QED
  BY <1>3, <1>4, <1>5, <1>6 DEF BaseInv

LEMMA RebuildPathStep ==
    ASSUME BaseInv, NEW q \in Callers, RebuildPath(q)
    PROVE  BaseInv'
<1>1. /\ Begin(q, "rebuild", "published", Seed) /\ manifest' = Seed /\ bootstrapped' = TRUE
      /\ UNCHANGED <<indexVars, store, writer, kbAdmin>>
  BY DEF RebuildPath
<1>2. /\ requests' \in [Callers -> RequestsOf] /\ Others(q)
      /\ requests'[q].stage = "published" /\ requests'[q].input = Seed
      /\ requests[q].stage = "idle" /\ undisturbed' \in SUBSET {q} /\ OnlyOne'
  BY <1>1, Begun, Indices DEF Kinds, Stops
<1>3. BaseFits'
  BY <1>1, <1>2, Indices DEF BaseInv, BaseFits, indexVars
<1>4. Deletes' /\ LockFits'
  BY <1>1, <1>2, Starts
<1>5. Faithful'
  BY <1>1, <1>2 DEF Faithful
<1>6. QED
  BY <1>2, <1>3, <1>4, <1>5 DEF BaseInv

LEMMA RebuildReadsStep ==
    ASSUME BaseInv, NEW q \in Callers, RebuildDocuments(q) \/ PublishSeed(q)
    PROVE  BaseInv'
<1>1. /\ manifest' \in Index /\ bootstrapped' \in BOOLEAN
      /\ ProceedWith(q, "published", manifest') /\ requests[q].stage \in {"documents", "seed"}
      /\ manifest' = manifest \/ PublishSeed(q)
      /\ UNCHANGED <<indexVars, store, writer, kbAdmin, undisturbed>>
  BY Indices DEF BaseInv, BaseFits, RebuildDocuments, PublishSeed, sourceVars
<1>2. /\ requests' \in [Callers -> RequestsOf] /\ Others(q)
      /\ requests'[q].input = manifest' /\ requests'[q].stage = "published"
  BY <1>1, ProceededWith DEF Stops
<1>3. BaseFits'
  BY <1>1, <1>2 DEF BaseInv, BaseFits, indexVars
<1>4. OnlyOne' /\ Deletes' /\ LockFits'
  BY <1>1, <1>2, <1>3, Moves
<1>5. Faithful'
  <2>1. ASSUME NEW p \in undisturbed', p # q PROVE requests'[p].stage = "idle"
    <3>1. requests[p].stage = "idle" /\ requests'[p] = requests[p]
      BY <1>1, <1>2, <2>1 DEF BaseInv, BaseFits, OnlyOne, Others
    <3>2. QED
      BY <3>1
  <2>2. QED
    BY <1>2, <2>1 DEF Faithful, Given
<1>6. QED
  BY <1>3, <1>4, <1>5 DEF BaseInv

LEMMA DeleteKnownStep ==
    ASSUME BaseInv, NEW q \in Callers, NEW d \in Documents, DeleteKnown(q, d)
    PROVE  BaseInv'
<1> DEFINE input == [Empty EXCEPT ![d] = store'.chunks[d]]
<1>1. /\ Refresh /\ Begin(q, "delete", "known", input)
      /\ UNCHANGED <<sourceVars, indexVars, writer, kbAdmin>>
  BY DEF DeleteKnown
<1>2. store' \in [active : 1..created, previous : 0..created, chunks : Index]
  BY <1>1, Refreshing
<1>3. input \in Index
  BY <1>2, Indices DEF Index
<1> HIDE DEF input
<1>4. /\ requests' \in [Callers -> RequestsOf] /\ Others(q)
      /\ requests'[q].type = "delete" /\ requests'[q].stage = "known"
      /\ requests[q].stage = "idle" /\ undisturbed' \in SUBSET {q} /\ OnlyOne'
  BY <1>1, <1>3, Begun DEF Kinds, Stops
<1>5. BaseFits'
  BY <1>1, <1>2, <1>4 DEF BaseInv, BaseFits, sourceVars, indexVars
<1>6. Deletes' /\ LockFits'
  BY <1>1, <1>4, Starts
<1>7. Faithful'
  BY <1>4 DEF Faithful
<1>8. QED
  BY <1>4, <1>5, <1>6, <1>7 DEF BaseInv

LEMMA DeleteSourceStep ==
    ASSUME BaseInv, NEW q \in Callers, DeleteSource(q)
    PROVE  BaseInv'
<1>1. /\ manifest' \in Index /\ Proceed(q, "embedded") /\ requests[q].stage = "known"
      /\ UNCHANGED <<bootstrapped, indexVars, store, writer, kbAdmin, undisturbed>>
  BY DEF BaseInv, BaseFits, Index, DeleteSource
<1>2. /\ requests' \in [Callers -> RequestsOf] /\ Others(q) /\ Keeps(q)
      /\ requests'[q].stage = "embedded"
  BY <1>1, Proceeded DEF Stops
<1>3. BaseFits'
  BY <1>1, <1>2 DEF BaseInv, BaseFits, indexVars
<1>4. OnlyOne' /\ Deletes' /\ LockFits'
  BY <1>1, <1>2, <1>3, Moves
<1>5. Faithful'
  <2>1. ASSUME NEW p \in undisturbed', p # q PROVE requests'[p].stage = "idle"
    <3>1. requests[p].stage = "idle" /\ requests'[p] = requests[p]
      BY <1>1, <1>2, <2>1 DEF BaseInv, BaseFits, OnlyOne, Others
    <3>2. QED
      BY <3>1
  <2>2. requests'[q].type = "delete"
    BY <1>1, <1>2 DEF BaseInv, Deletes, Keeps
  <2>3. QED
    BY <2>1, <2>2 DEF Faithful, Given
<1>6. QED
  BY <1>3, <1>4, <1>5 DEF BaseInv

\* A request that moves on outside the write lock, with what it was given.
LEMMA StaysGiven ==
    ASSUME BaseInv, NEW q \in Callers, Others(q), requests' \in [Callers -> RequestsOf],
           UNCHANGED <<manifest, writer, undisturbed>>,
           \/ requests'[q].type = "none"
           \/ Keeps(q) /\ requests[q].stage \in Given /\ requests'[q].stage \in Given \ {"written"}
    PROVE  Faithful'
<1>1. ASSUME NEW p \in undisturbed', requests'[p].type = "rebuild", requests'[p].stage \in Given
      PROVE  requests'[p].input = manifest'
  <2>1. p \in Callers /\ p \in undisturbed
    BY <1>1 DEF BaseInv, BaseFits
  <2>2. CASE p # q
    BY <1>1, <2>1, <2>2 DEF BaseInv, Faithful, Others
  <2>3. CASE p = q
    BY <1>1, <2>1, <2>3 DEF BaseInv, Faithful, Keeps
  <2>4. QED
    BY <2>2, <2>3
<1>2. ASSUME NEW p \in undisturbed', requests'[p].type = "rebuild", requests'[p].stage = "written"
      PROVE  writer'.chunks = manifest'
  <2>1. p \in Callers /\ p \in undisturbed /\ p # q
    BY <1>2 DEF BaseInv, BaseFits
  <2>2. QED
    BY <1>2, <2>1 DEF BaseInv, Faithful, Others
<1>3. QED
  BY <1>1, <1>2 DEF Faithful

LEMMA ReadExistingStep ==
    ASSUME BaseInv, NEW q \in Callers, ReadExisting(q)
    PROVE  BaseInv'
<1> DEFINE old == requests[q]
           new == [old EXCEPT !.stage = "embedding", !.existing = store'.chunks]
<1>1. /\ Refresh /\ old.stage = "published" /\ requests' = [requests EXCEPT ![q] = new]
      /\ UNCHANGED <<sourceVars, indexVars, writer, kbAdmin, undisturbed>>
  BY DEF BaseInv, BaseFits, ReadExisting
<1>2. store' \in [active : 1..created, previous : 0..created, chunks : Index]
  BY <1>1, Refreshing
<1>3. requests \in [Callers -> RequestsOf] /\ old \in RequestsOf
  BY DEF BaseInv, BaseFits
<1>4. new \in RequestsOf /\ new.type = old.type /\ new.input = old.input /\ new.stage = "embedding"
  <2> HIDE DEF old
  <2>1. QED
    BY <1>2, <1>3 DEF RequestsOf, Stops
<1> HIDE DEF new
<1>5. /\ requests' \in [Callers -> RequestsOf] /\ Others(q) /\ Keeps(q)
      /\ requests'[q].stage = "embedding"
  BY <1>1, <1>3, <1>4 DEF Others, Keeps
<1>6. BaseFits'
  BY <1>1, <1>2, <1>5 DEF BaseInv, BaseFits, sourceVars, indexVars
<1>7. OnlyOne' /\ Deletes' /\ LockFits'
  BY <1>1, <1>5, <1>6, Moves
<1>8. Faithful'
  BY <1>1, <1>5, StaysGiven DEF Given, sourceVars
<1>9. QED
  BY <1>6, <1>7, <1>8 DEF BaseInv

LEMMA EmbedStep ==
    ASSUME BaseInv, NEW q \in Callers, Embed(q) \/ EmbedFails(q)
    PROVE  BaseInv'
<1>1. /\ requests[q].stage = "embedding" /\ (Finish(q) \/ Proceed(q, "embedded"))
      /\ UNCHANGED <<sourceVars, indexVars, store, writer, kbAdmin, undisturbed>>
  BY DEF Embed, EmbedFails
<1>2. /\ requests' \in [Callers -> RequestsOf] /\ Others(q)
      /\ \/ requests'[q].type = "none" /\ requests'[q].stage = "idle"
         \/ Keeps(q) /\ requests'[q].stage = "embedded"
  BY <1>1, Finishing, Proceeded DEF Stops, Idle
<1>3. BaseFits'
  BY <1>1, <1>2 DEF BaseInv, BaseFits, sourceVars, indexVars
<1>4. OnlyOne' /\ Deletes' /\ LockFits'
  BY <1>1, <1>2, <1>3, Moves
<1>5. Faithful'
  BY <1>1, <1>2, StaysGiven DEF Given, sourceVars
<1>6. QED
  BY <1>3, <1>4, <1>5 DEF BaseInv

\* What a request writes is an index, and a rebuild writes what it was given.
LEMMA Merging ==
    ASSUME BaseInv, NEW q \in Callers
    PROVE  /\ Merged(q) \in Index
           /\ requests[q].type = "rebuild" => Merged(q) = requests[q].input
<1>1. requests[q].input \in Index /\ store.chunks \in Index
  BY DEF BaseInv, BaseFits, RequestsOf
<1>2. ASSUME NEW d \in Documents
      PROVE  requests[q].input[d] \in Texts \cup {Absent} /\ store.chunks[d] \in Texts \cup {Absent}
  BY <1>1 DEF Index
<1>3. Merged(q) \in Index
  BY <1>2 DEF Merged, Index
<1>4. requests[q].type = "rebuild" => Merged(q) = [d \in Documents |-> requests[q].input[d]]
  BY DEF Merged
<1>5. QED
  BY <1>1, <1>3, <1>4 DEF Index

LEMMA WriteGenerationStep ==
    ASSUME BaseInv, NEW q \in Callers, WriteGeneration(q)
    PROVE  BaseInv'
<1>1. /\ requests[q].stage = "embedded" /\ writer = NoWriter /\ Proceed(q, "written")
      /\ created < MaxGenerations /\ created' = created + 1
      /\ writer' = [request |-> q, chunks |-> Merged(q)]
      /\ UNCHANGED <<sourceVars, pointer, store, kbAdmin, undisturbed>>
  BY DEF WriteGeneration
<1>2. /\ requests' \in [Callers -> RequestsOf] /\ Others(q) /\ Keeps(q)
      /\ requests'[q].stage = "written"
  BY <1>1, Proceeded DEF Stops
<1>3. created \in 1..MaxGenerations /\ created' \in 1..MaxGenerations /\ created \in Nat
      /\ 1..created \subseteq 1..created' /\ 0..created \subseteq 0..created' /\ created' \in 1..created'
  BY <1>1, KnowledgeAssumption DEF BaseInv, BaseFits
<1>4. /\ DOMAIN generations' = DOMAIN generations \cup {created'}
      /\ \A g \in DOMAIN generations' :
            generations'[g] = IF g = created' THEN Merged(q) ELSE generations[g]
  BY DEF WriteGeneration
<1>5. /\ DOMAIN generations' \subseteq 1..created'
      /\ \A g \in DOMAIN generations' : generations'[g] \in Index
  BY <1>3, <1>4, Merging DEF BaseInv, BaseFits
<1>6. /\ pointer' \in [active : 1..created', previous : 0..created']
      /\ store' \in [active : 1..created', previous : 0..created', chunks : Index]
      /\ kbAdmin' \in [open : BOOLEAN, active : 0..created', previous : 0..created']
  BY <1>1, <1>3 DEF BaseInv, BaseFits
<1>7. BaseFits'
  BY <1>1, <1>2, <1>3, <1>5, <1>6, Merging DEF BaseInv, BaseFits, sourceVars
<1>8. OnlyOne' /\ Deletes'
  BY <1>1, <1>2 DEF BaseInv, BaseFits, OnlyOne, Deletes, Others
<1>9. LockFits'
  BY <1>1, <1>2, AbsentIsNone DEF BaseInv, LockFits, Others, NoWriter
<1>10. Faithful'
  <2>1. ASSUME NEW p \in undisturbed', p # q PROVE requests'[p].stage = "idle" \/ p \notin Callers
    BY <1>1, <1>2, <2>1 DEF BaseInv, OnlyOne, Others
  <2>2. ASSUME q \in undisturbed', requests'[q].type = "rebuild"
        PROVE  requests'[q].input = manifest' /\ writer'.chunks = manifest'
    BY <1>1, <1>2, <2>2, Merging DEF BaseInv, Faithful, Given, Keeps, sourceVars
  <2>3. \A p \in undisturbed' : p \in Callers
    BY <1>1 DEF BaseInv, BaseFits
  <2>4. QED
    BY <2>1, <2>2, <2>3 DEF Faithful, Given
<1>11. QED
  BY <1>7, <1>8, <1>9, <1>10 DEF BaseInv

LEMMA WritePointerStep ==
    ASSUME BaseInv, NEW q \in Callers, WritePointer(q)
    PROVE  BaseInv'
<1>1. /\ writer.request = q /\ writer' = NoWriter /\ Finish(q)
      /\ pointer' = [active |-> created, previous |-> store.active]
      /\ store' = [active |-> created, previous |-> store.active, chunks |-> writer.chunks]
      /\ UNCHANGED <<sourceVars, generations, created, kbAdmin, undisturbed>>
  BY DEF WritePointer
<1>2. requests' \in [Callers -> RequestsOf] /\ Others(q) /\ requests'[q] = Idle
  BY <1>1, Finishing
<1>3. created \in 1..created /\ store.active \in 0..created /\ writer.chunks \in Index
      /\ NoWriter \in [request : Callers \cup {Absent}, chunks : Index]
  BY KnowledgeAssumption, Indices DEF BaseInv, BaseFits, NoWriter
<1>4. BaseFits'
  BY <1>1, <1>2, <1>3 DEF BaseInv, BaseFits, sourceVars
<1>5. OnlyOne' /\ Deletes'
  BY <1>1, <1>2 DEF BaseInv, BaseFits, OnlyOne, Deletes, Others, Idle
<1>6. LockFits'
  BY <1>1, <1>2, AbsentIsNone DEF BaseInv, LockFits, Others, NoWriter, Idle
<1>7. Faithful'
  <2>1. ASSUME NEW p \in undisturbed', p # q
        PROVE  p \in Callers /\ requests'[p] = requests[p] /\ requests[p].stage # "written"
    BY <1>1, <1>2, <2>1 DEF BaseInv, BaseFits, LockFits, Others
  <2>2. QED
    BY <1>1, <1>2, <2>1 DEF BaseInv, Faithful, Idle, sourceVars
<1>8. QED
  BY <1>4, <1>5, <1>6, <1>7 DEF BaseInv

\* What changes neither the requests nor the originals: retrievals and the kb_admin process.
LEMMA AsideStep ==
    ASSUME BaseInv, Retrieve \/ AdminOpen \/ AdminRollback \/ AdminCleanup
    PROVE  BaseInv'
<1>1. /\ UNCHANGED <<sourceVars, created, writer, requests>>
      /\ undisturbed' \in {undisturbed, {}}
  BY DEF Retrieve, AdminOpen, AdminRollback, AdminCleanup, indexVars
<1>2. store' \in [active : 1..created, previous : 0..created, chunks : Index]
  BY Refreshing DEF BaseInv, BaseFits, Retrieve, AdminOpen, AdminRollback, AdminCleanup
<1>3. Closed \in [open : BOOLEAN, active : 0..created, previous : 0..created]
  BY KnowledgeAssumption DEF BaseInv, BaseFits, Closed
<1>4. /\ pointer' \in [active : 1..created, previous : 0..created]
      /\ kbAdmin' \in [open : BOOLEAN, active : 0..created, previous : 0..created]
  <2>1. CASE Retrieve
    BY <2>1 DEF BaseInv, BaseFits, Retrieve, indexVars
  <2>2. CASE AdminOpen
    <3>1. pointer.active \in 0..created
      BY DEF BaseInv, BaseFits
    <3>2. QED
      BY <2>2, <3>1 DEF BaseInv, BaseFits, AdminOpen, indexVars
  <2>3. CASE AdminRollback
    BY <1>3, <2>3 DEF BaseInv, BaseFits, AdminRollback
  <2>4. CASE AdminCleanup
    BY <1>3, <2>4 DEF BaseInv, BaseFits, AdminCleanup
  <2>5. QED
    BY <2>1, <2>2, <2>3, <2>4
<1>5. /\ DOMAIN generations' \subseteq 1..created
      /\ \A g \in DOMAIN generations' : generations'[g] \in Index
  <2>1. CASE generations' = generations
    BY <2>1 DEF BaseInv, BaseFits
  <2>2. CASE AdminCleanup
    BY <2>2 DEF BaseInv, BaseFits, AdminCleanup
  <2>3. QED
    BY <2>1, <2>2 DEF Retrieve, AdminOpen, AdminRollback, indexVars
<1>6. BaseFits'
  BY <1>1, <1>2, <1>4, <1>5 DEF BaseInv, BaseFits, sourceVars
<1>7. OnlyOne' /\ Deletes' /\ LockFits' /\ Faithful'
  BY <1>1 DEF BaseInv, OnlyOne, Deletes, LockFits, Faithful, sourceVars
<1>8. QED
  BY <1>6, <1>7 DEF BaseInv

LEMMA RestartApiStep ==
    ASSUME BaseInv, RestartApi
    PROVE  BaseInv'
<1>1. /\ UNCHANGED <<sourceVars, indexVars, kbAdmin>>
      /\ writer' = NoWriter /\ requests' = [q \in Callers |-> Idle] /\ undisturbed' = {}
      /\ store' \in [active : 1..created, previous : 0..created, chunks : Index]
  BY DEF BaseInv, BaseFits, RestartApi
<1>2. Idle \in RequestsOf /\ NoWriter \in [request : Callers \cup {Absent}, chunks : Index]
  BY Indices DEF Idle, RequestsOf, Kinds, Stops, NoWriter
<1>3. BaseFits'
  BY <1>1, <1>2 DEF BaseInv, BaseFits, sourceVars, indexVars
<1>4. OnlyOne' /\ Deletes' /\ LockFits' /\ Faithful'
  BY <1>1, AbsentIsNone DEF OnlyOne, Deletes, LockFits, Faithful, Idle, NoWriter
<1>5. QED
  BY <1>3, <1>4 DEF BaseInv

LEMMA BaseStarts == KBInit => BaseInv
<1> SUFFICES ASSUME KBInit PROVE BaseInv
  OBVIOUS
<1>1. /\ NoWriter \in [request : Callers \cup {Absent}, chunks : Index]
      /\ Idle \in RequestsOf /\ Closed \in [open : BOOLEAN, active : 0..1, previous : 0..1]
  BY Indices DEF NoWriter, Idle, RequestsOf, Kinds, Stops, Closed
<1>2. BaseFits
  BY <1>1, Indices, KnowledgeAssumption DEF KBInit, BaseFits
<1>3. OnlyOne /\ Deletes /\ LockFits /\ Faithful
  BY AbsentIsNone DEF KBInit, OnlyOne, Deletes, LockFits, Faithful, Idle, NoWriter
<1>4. QED
  BY <1>2, <1>3 DEF BaseInv

LEMMA BaseKept == BaseInv /\ [KBNext]_kbVars => BaseInv'
<1> SUFFICES ASSUME BaseInv, [KBNext]_kbVars PROVE BaseInv'
  OBVIOUS
<1>1. ASSUME NEW q \in Callers,
             \/ \E d \in Documents : DeleteKnown(q, d) \/ \E c \in Texts : Ingest(q, d, c)
             \/ RebuildStatus(q) \/ RebuildDocuments(q) \/ PublishSeed(q) \/ RebuildPath(q)
             \/ DeleteSource(q) \/ ReadExisting(q) \/ Embed(q) \/ EmbedFails(q)
             \/ WriteGeneration(q) \/ WritePointer(q)
      PROVE  BaseInv'
  BY <1>1, DeleteKnownStep, IngestStep, RebuildStatusStep, RebuildReadsStep, RebuildPathStep,
     DeleteSourceStep, ReadExistingStep, EmbedStep, WriteGenerationStep, WritePointerStep
<1>2. CASE UNCHANGED kbVars
  BY <1>2 DEF kbVars, BaseInv, BaseFits, OnlyOne, Deletes, LockFits, Faithful
<1>3. QED
  BY <1>1, <1>2, AsideStep, RestartApiStep DEF KBNext

(* The invariant of the knowledge base, for any number of documents, texts   *)
(* and requests: one request at most is beside nothing else, the write lock  *)
(* is held by the one that has written its generation, and a rebuild keeps   *)
(* what it was given equal to the originals.                                 *)
THEOREM BasesFit == KBSpec => []BaseInv
<1>1. KBInit => BaseInv
  BY BaseStarts
<1>2. BaseInv /\ [KBNext]_kbVars => BaseInv'
  BY BaseKept
<1>3. QED
  BY <1>1, <1>2, PTL DEF KBSpec

(* A rebuild that nothing runs beside leaves the index saying what the       *)
(* originals say, whatever failed, crashed or crossed before it: rebuild and *)
(* sync_documents (packages/rag/lifecycle.py).                               *)
THEOREM RebuildsHeal == KBSpec => Heals
<1> DEFINE healed == \A q \in undisturbed \cap undisturbed' :
                        requests[q].type = "rebuild" /\ pointer' # pointer
                            => store'.chunks = manifest'
<1>1. BaseInv /\ KBNext => healed
  <2> SUFFICES ASSUME BaseInv, KBNext, NEW q \in undisturbed, q \in undisturbed',
                      requests[q].type = "rebuild", pointer' # pointer
               PROVE  store'.chunks = manifest'
    OBVIOUS
  <2>1. PICK p \in Callers : WritePointer(p)
    BY DEF KBNext, DeleteKnown, Ingest, RebuildStatus, RebuildDocuments, PublishSeed, RebuildPath,
       DeleteSource, ReadExisting, Embed, EmbedFails, WriteGeneration, Retrieve, RestartApi,
       AdminOpen, AdminRollback, AdminCleanup, indexVars
  <2>2. q \in Callers /\ requests[p].stage = "written" /\ writer.request = p
    BY <2>1 DEF BaseInv, BaseFits, LockFits, WritePointer
  <2>3. p = q
    BY <2>2 DEF BaseInv, OnlyOne
  <2>4. writer.chunks = manifest
    BY <2>2, <2>3 DEF BaseInv, Faithful
  <2>5. QED
    BY <2>1, <2>4 DEF WritePointer, sourceVars
<1>2. BaseInv /\ [KBNext]_kbVars => [healed]_kbVars
  BY <1>1
<1>3. QED
  BY <1>2, BasesFit, PTL DEF KBSpec, Heals
=============================================================================
