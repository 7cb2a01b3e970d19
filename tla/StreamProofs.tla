---------------------------- MODULE StreamProofs ----------------------------
(* Proofs about the registry of hosts and its readers (RunManager), for any  *)
(* number of runs, conversations, readers and hosts and any size of a queue, *)
(* about how the events of a run reach the clients that watch it             *)
(* (EventStream), for any number of clients and events, and about the page   *)
(* (WebWorkspace), for any number of conversations, runs and requests.       *)
EXTENDS MCEventStream, SequenceTheorems, TLAPS
-----------------------------------------------------------------------------
(* RunManager: the inductive invariant.                                      *)
Told(q) == \E i \in 1..Len(q) : q[i] \in Sentinels

\* A subscriber of an entry is a reader of it that has not closed.
Fed == \A h \in Hosts : \A s \in subscribers[h] : Open(s) /\ entryOf[s] = h

Followed ==
    /\ \A s \in Readers : entryOf[s] # None => entryOf[s] \in Started
    /\ \A s \in closed : entryOf[s] # None

\* The entry registered for a run is one of that run.
Registered == \A r \in Runs : runs[r] # None => runs[r] \in Started /\ hostRun[runs[r]] = r

HasRun == \A h \in Started : hostRun[h] \in Runs

RegistryInv ==
    /\ ManagerTypeOK
    /\ Fed
    /\ Followed
    /\ Registered
    /\ HasRun
    /\ NoHang
    /\ RegistryDrains
-----------------------------------------------------------------------------
LEMMA HostsCount ==
    ASSUME ManagerTypeOK
    PROVE  /\ started \in Nat /\ Started \subseteq Hosts
           /\ \A h \in Hosts : h # None
           /\ \A r \in Runs : r # None
           /\ started < MaxHosts => started + 1 \in Hosts /\ started + 1 \notin Started
           /\ started < MaxHosts => Started \cup {started + 1} = 1..(started + 1)
BY ManagerAssumption DEF ManagerTypeOK, Started, Hosts

(* put_nowait to the subscribers: no queue exceeds its size, and a sentinel  *)
(* in a queue stays or makes room for the overflow mark.                     *)
LEMMA PutNowait ==
    ASSUME ManagerTypeOK, NEW S \in SUBSET Readers, NEW items \in Seq(Item), Len(items) > 0
    PROVE  /\ Offered(S, items) \in [Readers -> Seq(Item)]
           /\ \A s \in Readers :
                 /\ Len(Offered(S, items)[s]) <= QueueSize
                 /\ Told(queue[s]) => Told(Offered(S, items)[s])
                 /\ s \in Lagging(S, items) => Told(Offered(S, items)[s])
                 /\ s \in S /\ Told(items) => Told(Offered(S, items)[s])
<1> USE ManagerAssumption
<1>1. ASSUME NEW s \in Readers
      PROVE  LET q == Offered(S, items)[s]
             IN /\ q \in Seq(Item)
                /\ Len(q) <= QueueSize
                /\ Told(queue[s]) => Told(q)
                /\ s \in Lagging(S, items) => Told(q)
                /\ s \in S /\ Told(items) => Told(q)
  <2>1. queue[s] \in Seq(Item) /\ Len(queue[s]) <= QueueSize
    BY DEF ManagerTypeOK
  <2>2. CASE s \in Lagging(S, items)
    <3>1. Offered(S, items)[s] = <<Overflow>>
      BY <2>2 DEF Offered
    <3>2. Overflow \in Item \cap Sentinels
      BY DEF Overflow, Item, Kinds, Sentinels
    <3>3. Told(<<Overflow>>) /\ <<Overflow>> \in Seq(Item) /\ Len(<<Overflow>>) = 1
      BY <3>2 DEF Told
    <3>4. QED
      BY <3>1, <3>3
  <2>3. CASE s \in S \ Lagging(S, items)
    <3>1. Offered(S, items)[s] = queue[s] \o items
      BY <2>3 DEF Offered
    <3>2. Len(queue[s]) + Len(items) <= QueueSize
      BY <2>1, <2>3 DEF Lagging
    <3>3. Told(queue[s]) => Told(queue[s] \o items)
      BY <2>1 DEF Told
    <3>4. Told(items) => Told(queue[s] \o items)
      <4>1. ASSUME NEW i \in 1..Len(items), items[i] \in Sentinels
            PROVE  Told(queue[s] \o items)
        BY <2>1, <4>1, Len(queue[s]) + i \in 1..Len(queue[s] \o items),
           (queue[s] \o items)[Len(queue[s]) + i] = items[i] DEF Told
      <4>2. QED
        BY <4>1 DEF Told
    <3>5. QED
      BY <2>1, <2>3, <3>1, <3>2, <3>3, <3>4
  <2>4. CASE s \notin S
    BY <2>1, <2>4 DEF Offered, Lagging
  <2>5. QED
    BY <2>2, <2>3, <2>4
<1>2. QED
  BY <1>1 DEF Offered

LEMMA Items ==
    /\ \A item \in Item : <<item>> \in Seq(Item) /\ Len(<<item>>) > 0
    /\ Event(0) \in Item /\ Done(0) \in Item
    /\ \A items \in {<<End>>, <<Error, End>>} :
          items \in Seq(Item) /\ Len(items) > 0 /\ Told(items)
    /\ <<Event(0), Done(0)>> \in Seq(Item) /\ Len(<<Event(0), Done(0)>>) > 0
<1>1. {Event(0), Done(0), Error, End} \subseteq Item /\ End \in Sentinels
  BY DEF Event, Done, Error, End, Item, Kinds, Sentinels
<1>2. Told(<<End>>) /\ Told(<<Error, End>>)
  BY <1>1 DEF Told
<1>3. QED
  BY <1>1, <1>2
-----------------------------------------------------------------------------
(* What a step means to the registry, whoever takes it.                      *)
Aside == resting' \in SUBSET Runs /\ stopped' = stopped

Joins(r, s) ==
    /\ Reachable(r)
    /\ Attach(s, runs[r])
    /\ UNCHANGED <<registryVars, hostVars, queue, closed>>

Tells(h, items) ==
    /\ Broadcast(h, items)
    /\ UNCHANGED <<registryVars, hostVars, entryOf, closed>>

RegistryStep ==
    /\ Aside
    /\ \/ \E r \in Runs, s \in Readers : Start(r, s) \/ Joins(r, s)
       \/ \E h \in Hosts, items \in Seq(Item) :
             /\ Len(items) > 0
             /\ Tells(h, items) \/ (Told(items) /\ HostEnds(h, items))
       \/ \E s \in Readers : Close(s) \/ Read(s)
       \/ UNCHANGED <<registryVars, hostVars, readerVars>>

LEMMA StartKeeps ==
    ASSUME RegistryInv, NEW r \in Runs, NEW s \in Readers, Start(r, s), Aside
    PROVE  RegistryInv'
<1> USE DEF Start, Attach, RegistryInv
<1>1. /\ started + 1 \in Hosts /\ started + 1 \notin Started /\ started + 1 # None
      /\ Started' = Started \cup {started + 1} /\ Started \subseteq Hosts
      /\ started \in Nat
  BY HostsCount DEF Started, ManagerTypeOK
<1>2. ManagerTypeOK'
  <2>1. runs' \in [Runs -> Hosts \cup {None}]
    BY <1>1 DEF ManagerTypeOK
  <2>2. conversationRuns' \in [Conversations -> Runs \cup {None}]
    BY ManagerAssumption DEF ManagerTypeOK
  <2>3. started' \in 0..MaxHosts /\ hostRun' \in [Hosts -> Runs \cup {None}]
    BY <1>1 DEF ManagerTypeOK, Hosts
  <2>4. subscribers' \in [Hosts -> SUBSET Readers] /\ entryOf' \in [Readers -> Hosts \cup {None}]
    BY <1>1 DEF ManagerTypeOK
  <2>5. QED
    BY <1>1, <2>1, <2>2, <2>3, <2>4 DEF ManagerTypeOK, Aside
<1>3. Registered' /\ HasRun'
  BY <1>1 DEF Registered, HasRun, ManagerTypeOK
<1>4. Fed' /\ Followed'
  BY <1>1 DEF Fed, Followed, Open, ManagerTypeOK
<1>5. NoHang'
  BY <1>1 DEF NoHang, Open, ManagerTypeOK
<1>6. RegistryDrains'
  BY <1>1 DEF RegistryDrains, Open, ManagerTypeOK
<1>7. QED
  BY <1>2, <1>3, <1>4, <1>5, <1>6

\* Another reader at an entry that has not ended.
LEMMA AttachKeeps ==
    ASSUME RegistryInv, NEW r \in Runs, NEW s \in Readers, Joins(r, s), Aside
    PROVE  RegistryInv'
<1> DEFINE h == runs[r]
<1>1. /\ h \in Started \ finished /\ h \in Hosts /\ h # None
      /\ entryOf[s] = None
      /\ entryOf' = [entryOf EXCEPT ![s] = h]
      /\ subscribers' = [subscribers EXCEPT ![h] = @ \cup {s}]
      /\ UNCHANGED <<runs, conversationRuns, started, hostRun, finished, queue, closed>>
  BY HostsCount DEF RegistryInv, ManagerTypeOK, Reachable, Registered, Joins, Attach,
                    registryVars, hostVars
<1> HIDE DEF h
<1>2. ManagerTypeOK'
  BY <1>1 DEF RegistryInv, ManagerTypeOK, Started, Aside
<1>3. Registered' /\ HasRun'
  BY <1>1 DEF RegistryInv, Registered, HasRun, Started
<1>4. Fed' /\ Followed'
  BY <1>1 DEF RegistryInv, Fed, Followed, Open, Started, ManagerTypeOK
<1>5. NoHang'
  BY <1>1 DEF RegistryInv, NoHang, Open, ManagerTypeOK
<1>6. RegistryDrains'
  BY <1>1 DEF RegistryInv, RegistryDrains, Open, ManagerTypeOK
<1>7. QED
  BY <1>2, <1>3, <1>4, <1>5, <1>6 DEF RegistryInv

\* Items of the host or of a handler.
LEMMA BroadcastKeeps ==
    ASSUME RegistryInv, NEW h \in Hosts, NEW items \in Seq(Item), Len(items) > 0,
           Tells(h, items), Aside
    PROVE  RegistryInv'
<1> USE DEF RegistryInv, Tells, Broadcast, registryVars, hostVars
<1>1. subscribers[h] \in SUBSET Readers
  BY DEF ManagerTypeOK
<1>2. /\ queue' \in [Readers -> Seq(Item)]
      /\ \A s \in Readers :
            /\ Len(queue'[s]) <= QueueSize
            /\ Told(queue[s]) => Told(queue'[s])
            /\ s \in Lagging(subscribers[h], items) => Told(queue'[s])
  BY <1>1, PutNowait
<1>3. ManagerTypeOK'
  BY <1>2 DEF ManagerTypeOK, Started, Aside
<1>4. Registered' /\ HasRun' /\ Followed' /\ RegistryDrains'
  BY DEF Registered, HasRun, Followed, RegistryDrains, Started, Open
<1>5. Fed'
  BY DEF Fed, Open, ManagerTypeOK
<1>6. NoHang'
  BY <1>2 DEF NoHang, Told, Open, ManagerTypeOK
<1>7. QED
  BY <1>3, <1>4, <1>5, <1>6

LEMMA EndKeeps ==
    ASSUME RegistryInv, NEW h \in Hosts, NEW items \in Seq(Item), Len(items) > 0, Told(items),
           HostEnds(h, items), Aside
    PROVE  RegistryInv'
<1> USE DEF RegistryInv, HostEnds, Broadcast
<1>1. subscribers[h] \in SUBSET Readers /\ h \in Started /\ hostRun[h] \in Runs
  BY DEF ManagerTypeOK, LiveHosts, HasRun
<1>2. /\ queue' \in [Readers -> Seq(Item)]
      /\ \A s \in Readers :
            /\ Len(queue'[s]) <= QueueSize
            /\ Told(queue[s]) => Told(queue'[s])
            /\ s \in subscribers[h] => Told(queue'[s])
  BY <1>1, PutNowait
<1>3. /\ runs' \in [Runs -> Hosts \cup {None}]
      /\ \A r \in Runs : runs'[r] # None => runs'[r] = runs[r]
      /\ subscribers'[h] = {} => runs'[hostRun[h]] = None
  BY <1>1 DEF Pop, ManagerTypeOK
<1>4. ManagerTypeOK'
  <2>1. conversationRuns' \in [Conversations -> Runs \cup {None}]
    BY DEF ManagerTypeOK
  <2>2. QED
    BY <1>1, <1>2, <1>3, <2>1 DEF ManagerTypeOK, Started, Aside
<1>5. Registered' /\ HasRun' /\ Followed'
  BY <1>3 DEF Registered, HasRun, Followed, Started
<1>6. Fed'
  BY DEF Fed, Open, ManagerTypeOK
<1>7. NoHang'
  BY <1>2 DEF NoHang, Told, Open, ManagerTypeOK
<1>8. RegistryDrains'
  <2> SUFFICES ASSUME NEW r \in Runs, runs'[r] # None, runs'[r] \in finished'
               PROVE  \E s \in Readers : Open(s)' /\ entryOf'[s] = runs'[r]
    BY DEF RegistryDrains
  <2>1. runs[r] = runs'[r]
    BY <1>3
  <2>2. CASE runs[r] \in finished
    BY <2>1, <2>2 DEF RegistryDrains, Open
  <2>3. CASE runs[r] = h
    <3>1. subscribers'[h] # {} /\ subscribers'[h] \subseteq subscribers[h]
      BY <1>1, <1>3, <2>1, <2>3 DEF Registered, ManagerTypeOK
    <3>2. QED
      BY <1>1, <2>1, <2>3, <3>1 DEF Fed, Open
  <2>4. QED
    BY <2>1, <2>2, <2>3
<1>9. QED
  BY <1>4, <1>5, <1>6, <1>7, <1>8

LEMMA CloseKeeps ==
    ASSUME RegistryInv, NEW s \in Readers, Close(s), Aside
    PROVE  RegistryInv'
<1> USE DEF RegistryInv, Close, hostVars
<1>1. entryOf[s] \in Started /\ entryOf[s] \in Hosts /\ hostRun[entryOf[s]] \in Runs
  BY HostsCount DEF Followed, HasRun, Open
<1>2. /\ runs' \in [Runs -> Hosts \cup {None}]
      /\ \A r \in Runs : runs'[r] # None => runs'[r] = runs[r]
      /\ entryOf[s] \in finished /\ subscribers'[entryOf[s]] = {}
         => runs'[hostRun[entryOf[s]]] = None
  BY <1>1 DEF Pop, ManagerTypeOK
<1>3. ManagerTypeOK'
  <2>1. \A t \in Readers : Len(queue'[t]) <= QueueSize
    BY ManagerAssumption DEF ManagerTypeOK
  <2>2. queue' \in [Readers -> Seq(Item)]
    <3>1. <<>> \in Seq(Item)
      OBVIOUS
    <3>2. QED
      BY <3>1 DEF ManagerTypeOK
  <2>3. subscribers' \in [Hosts -> SUBSET Readers]
    BY DEF ManagerTypeOK
  <2>4. QED
    BY <1>2, <2>1, <2>2, <2>3 DEF ManagerTypeOK, Started, Aside
<1>4. Registered' /\ HasRun' /\ Followed'
  BY <1>2 DEF Registered, HasRun, Followed, Started, Open
<1>5. Fed'
  BY <1>1 DEF Fed, Open, ManagerTypeOK
<1>6. NoHang'
  BY <1>1 DEF NoHang, Open, ManagerTypeOK
<1>7. RegistryDrains'
  <2> SUFFICES ASSUME NEW r \in Runs, runs'[r] # None, runs'[r] \in finished
               PROVE  \E t \in Readers : Open(t)' /\ entryOf'[t] = runs'[r]
    BY DEF RegistryDrains
  <2>1. runs[r] = runs'[r]
    BY <1>2
  <2>2. PICK t \in Readers : Open(t) /\ entryOf[t] = runs[r]
    BY <2>1 DEF RegistryDrains
  <2>3. CASE t # s
    BY <2>1, <2>2, <2>3 DEF Open
  <2>4. CASE t = s
    <3>1. PICK u : u \in subscribers'[entryOf[s]]
      BY <1>2, <2>1, <2>2, <2>4 DEF Registered
    <3>2. u \in subscribers[entryOf[s]] /\ u # s
      BY <1>1, <3>1 DEF ManagerTypeOK
    <3>3. QED
      BY <1>1, <2>1, <2>2, <2>4, <3>2 DEF Fed, Open, ManagerTypeOK
  <2>5. QED
    BY <2>3, <2>4
<1>8. QED
  BY <1>3, <1>4, <1>5, <1>6, <1>7

LEMMA ReadKeeps ==
    ASSUME RegistryInv, NEW s \in Readers, Read(s), Aside
    PROVE  RegistryInv'
<1>1. CASE Close(s)
  BY <1>1, CloseKeeps
<1>2. CASE ~Close(s)
  <2> DEFINE q == queue[s]
  <2>1. /\ q # <<>> /\ q[1].kind \in {"event", "error"}
        /\ queue' = [queue EXCEPT ![s] = Tail(q)]
        /\ UNCHANGED <<registryVars, hostVars, subscribers, entryOf, closed, resting>>
    BY <1>2 DEF Read
  <2>2. q \in Seq(Item) /\ Len(q) <= QueueSize /\ q[1] \notin Sentinels
    BY <2>1 DEF RegistryInv, ManagerTypeOK, Sentinels, End, Overflow
  <2>3. /\ Tail(q) \in Seq(Item) /\ Len(Tail(q)) <= QueueSize
        /\ \A i \in 1..Len(q) : i # 1 => i - 1 \in 1..Len(Tail(q)) /\ Tail(q)[i - 1] = q[i]
    BY <2>1, <2>2, ManagerAssumption
  <2> HIDE DEF q
  <2>4. Told(q) => Told(Tail(q))
    BY <2>2, <2>3 DEF Told
  <2>5. ManagerTypeOK'
    BY <2>1, <2>3 DEF RegistryInv, ManagerTypeOK, registryVars, hostVars, Started, Aside
  <2>6. Registered' /\ HasRun' /\ Followed' /\ RegistryDrains' /\ Fed'
    BY <2>1 DEF RegistryInv, Registered, HasRun, Followed, RegistryDrains, Fed, Started, Open,
                registryVars, hostVars
  <2>7. NoHang'
    BY <2>1, <2>4 DEF RegistryInv, NoHang, Told, Open, registryVars, hostVars, ManagerTypeOK, q
  <2>8. QED
    BY <2>5, <2>6, <2>7 DEF RegistryInv
<1>3. QED
  BY <1>1, <1>2

LEMMA ShutdownKeeps ==
    ASSUME RegistryInv, Shutdown
    PROVE  RegistryInv'
<1> DEFINE attached == UNION {subscribers[h] : h \in LiveHosts}
<1>1. /\ finished' = Started
      /\ queue' = Offered(attached, <<End>>)
      /\ subscribers' = [h \in Hosts |->
           IF h \in LiveHosts THEN subscribers[h] \ Lagging(attached, <<End>>)
           ELSE subscribers[h]]
      /\ runs' = [r \in Runs |-> None]
      /\ conversationRuns' = [c \in Conversations |-> None]
      /\ stopped' = TRUE
      /\ UNCHANGED <<started, hostRun, entryOf, closed, resting>>
  BY DEF Shutdown
<1>2. Started \subseteq Hosts /\ attached \in SUBSET Readers
  BY HostsCount DEF RegistryInv, ManagerTypeOK, LiveHosts
<1>3. \A h \in LiveHosts : subscribers[h] \subseteq attached
  OBVIOUS
<1> HIDE DEF attached
<1>4. /\ queue' \in [Readers -> Seq(Item)]
      /\ \A s \in Readers :
            /\ Len(queue'[s]) <= QueueSize
            /\ Told(queue[s]) => Told(queue'[s])
            /\ s \in attached => Told(queue'[s])
  BY <1>1, <1>2, PutNowait, Items DEF RegistryInv
<1>5. ManagerTypeOK'
  BY <1>1, <1>2, <1>4 DEF RegistryInv, ManagerTypeOK, Started
<1>6. Registered' /\ HasRun' /\ Followed' /\ RegistryDrains'
  BY <1>1 DEF RegistryInv, Registered, HasRun, Followed, RegistryDrains, Started
<1>7. Fed'
  BY <1>1 DEF RegistryInv, Fed, Open
<1>8. NoHang'
  <2>1. ASSUME NEW s \in Readers, Open(s) PROVE Told(queue'[s])
    <3>1. entryOf[s] \in Started
      BY <2>1 DEF RegistryInv, Followed, Open
    <3>2. entryOf[s] \in LiveHosts /\ s \in subscribers[entryOf[s]] => s \in attached
      BY <1>3
    <3>3. entryOf[s] \in finished \/ s \notin subscribers[entryOf[s]] => Told(queue[s])
      BY <2>1 DEF RegistryInv, NoHang, Told
    <3>4. QED
      BY <1>4, <3>1, <3>2, <3>3 DEF LiveHosts
  <2>2. QED
    BY <1>1, <2>1 DEF NoHang, Told, Open
<1>9. QED
  BY <1>5, <1>6, <1>7, <1>8 DEF RegistryInv

LEMMA RegistryStepKeeps ==
    ASSUME RegistryInv, RegistryStep
    PROVE  RegistryInv'
<1>1. CASE UNCHANGED <<registryVars, hostVars, readerVars>>
  BY <1>1 DEF RegistryStep, Aside, RegistryInv, ManagerTypeOK, Fed, Followed, Registered, HasRun,
              NoHang, RegistryDrains, Open, Started, registryVars, hostVars, readerVars
<1>2. QED
  BY <1>1, StartKeeps, AttachKeeps, BroadcastKeeps, EndKeeps, CloseKeeps, ReadKeeps
     DEF RegistryStep

\* Each step of the manager is one of these, but for its end.
LEMMA ManagerSteps ==
    ASSUME RegistryInv, ManagerNext
    PROVE  RegistryStep \/ Shutdown
<1>1. ASSUME NEW r \in Runs, NEW s \in Readers,
             Begin(r, s) \/ Recover(r, s) \/ Wake(r, s) \/ Subscribe(r, s), stopped' = stopped
      PROVE  RegistryStep
  <2>1. Aside
    BY <1>1 DEF Begin, Recover, Wake, Subscribe, Aside, RegistryInv, ManagerTypeOK
  <2>2. Start(r, s) \/ Joins(r, s)
    BY <1>1 DEF Begin, Recover, Wake, Subscribe, Joins
  <2>3. QED
    BY <2>1, <2>2 DEF RegistryStep
<1>2. ASSUME NEW r \in Runs, Rest(r), stopped' = stopped PROVE RegistryStep
  BY <1>2 DEF Rest, RegistryStep, Aside, RegistryInv, ManagerTypeOK
<1>3. ASSUME NEW h \in Hosts, NEW items \in Seq(Item), Len(items) > 0, Broadcast(h, items),
             UNCHANGED <<registryVars, hostVars, entryOf, closed, resting, stopped>>
      PROVE  RegistryStep
  BY <1>3 DEF RegistryStep, Aside, Tells, RegistryInv, ManagerTypeOK
<1>4. ASSUME NEW r \in Runs, NEW items \in Seq(Item), Len(items) > 0, Publish(r, items),
             stopped' = stopped
      PROVE  RegistryStep
  BY <1>3, <1>4 DEF Publish, RegistryInv, ManagerTypeOK
<1>5. ASSUME NEW h \in Hosts, NEW item \in Item, HostYields(h, item), stopped' = stopped
      PROVE  RegistryStep
  BY <1>3, <1>5, Items DEF HostYields
<1>6. ASSUME NEW h \in Hosts, NEW items \in {<<End>>, <<Error, End>>}, HostEnds(h, items),
             stopped' = stopped
      PROVE  RegistryStep
  BY <1>6, Items DEF RegistryStep, Aside, HostEnds, RegistryInv, ManagerTypeOK
<1>7. ASSUME NEW s \in Readers, Close(s) \/ Read(s), stopped' = stopped PROVE RegistryStep
  BY <1>7 DEF RegistryStep, Aside, Close, Read, RegistryInv, ManagerTypeOK
<1>8. QED
  BY <1>1, <1>2, <1>4, <1>5, <1>6, <1>7, Items DEF ManagerNext
LEMMA RegistryBegins == ManagerInit => RegistryInv
<1> SUFFICES ASSUME ManagerInit PROVE RegistryInv
  OBVIOUS
<1>1. Started = {} /\ \A s \in Readers : queue[s] = <<>>
  BY DEF ManagerInit, Started
<1>2. ManagerTypeOK
  <2>1. stopped \in BOOLEAN
    BY DEF ManagerInit
  <2>2. queue \in [Readers -> Seq(Item)] /\ \A s \in Readers : Len(queue[s]) <= QueueSize
    BY ManagerAssumption, <1>1 DEF ManagerInit
  <2>3. QED
    BY ManagerAssumption, <2>1, <2>2 DEF ManagerInit, ManagerTypeOK
<1>3. QED
  BY <1>1, <1>2 DEF ManagerInit, RegistryInv, Fed, Followed, Registered, HasRun, NoHang,
                    RegistryDrains, Open

(* Whatever the requests, the hosts and the readers do, the registry keeps   *)
(* to its invariant.                                                         *)
THEOREM RegistryAgrees == ManagerSpec => []RegistryInv
<1>1. ManagerInit => RegistryInv
  BY RegistryBegins
<1>2. RegistryInv /\ [ManagerNext]_managerVars => RegistryInv'
  <2>1. ASSUME RegistryInv, UNCHANGED managerVars PROVE RegistryStep
    BY <2>1 DEF managerVars, RegistryStep, Aside, RegistryInv, ManagerTypeOK, registryVars,
                hostVars, readerVars
  <2>2. QED
    BY <2>1, ManagerSteps, RegistryStepKeeps, ShutdownKeeps
<1>3. QED
  BY <1>1, <1>2, PTL DEF ManagerSpec

(* No reader waits for ever at a queue nobody feeds, and no entry that has   *)
(* ended outlives its readers: _broadcast, _produce, _close and publish      *)
(* together.                                                                 *)
THEOREM ReadersAreServed == ManagerSpec => []RegistryKept
<1>1. RegistryInv => RegistryKept
  BY DEF RegistryInv, RegistryKept
<1>2. QED
  BY <1>1, RegistryAgrees, PTL
-----------------------------------------------------------------------------
(* Where readers that fall behind close in time, a live host is found.  An   *)
(* entry that has ended and still has subscribers is the registered one.     *)
Lingering == \A h \in finished : subscribers[h] # {} => runs[hostRun[h]] = h

FoundInv == ~stopped => Lingering /\ HostReachable

LEMMA FoundKeeps ==
    ASSUME RegistryInv, FoundInv, EvictedHaveClosed, RegistryStep
    PROVE  FoundInv'
<1> SUFFICES ASSUME ~stopped PROVE Lingering' /\ HostReachable'
  BY DEF FoundInv, RegistryStep, Aside
<1>1. /\ Lingering /\ HostReachable /\ ~stopped'
      /\ Started \subseteq Hosts /\ finished \subseteq Started /\ started \in Nat
      /\ \A h \in Started : hostRun[h] \in Runs
      /\ \A h \in Hosts : h # None
      /\ \A r \in Runs : r # None
      /\ \A r \in Runs : ConversationOf[r] \in Conversations
  BY HostsCount, ManagerAssumption
     DEF FoundInv, RegistryStep, Aside, RegistryInv, HasRun, ManagerTypeOK
<1> USE <1>1 DEF LiveHosts
<1>2. ASSUME NEW r \in Runs, NEW s \in Readers, Start(r, s)
      PROVE  Lingering' /\ HostReachable'
  <2>1. /\ started + 1 \in Hosts /\ started + 1 \notin Started
        /\ Started' = Started \cup {started + 1}
    BY <1>2, HostsCount DEF Start, RegistryInv, Started
  <2>2. \A h \in LiveHosts :
          hostRun[h] # r /\ ConversationOf[hostRun[h]] # ConversationOf[r]
    BY <1>2 DEF Start, ConversationBusy, Reachable, HostReachable
  <2>3. HostReachable'
    BY <1>2, <2>1, <2>2 DEF Start, HostReachable, RegistryInv, ManagerTypeOK
  <2>4. Lingering'
    BY <1>2, <2>1 DEF Start, Attach, Lingering, RegistryInv, ManagerTypeOK
  <2>5. QED
    BY <2>3, <2>4
<1>3. ASSUME NEW r \in Runs, NEW s \in Readers, Joins(r, s)
      PROVE  Lingering' /\ HostReachable'
  <2>1. HostReachable'
    BY <1>3 DEF Joins, HostReachable, registryVars, hostVars, Started
  <2>2. Lingering'
    BY <1>3 DEF Joins, Attach, Reachable, Lingering, registryVars, hostVars, RegistryInv,
                ManagerTypeOK
  <2>3. QED
    BY <2>1, <2>2
<1>4. ASSUME NEW h \in Hosts, NEW items \in Seq(Item), Tells(h, items)
      PROVE  Lingering' /\ HostReachable'
  <2>1. HostReachable'
    BY <1>4 DEF Tells, HostReachable, registryVars, hostVars, Started
  <2>2. \A g \in Hosts : subscribers'[g] \subseteq subscribers[g]
    BY <1>4 DEF Tells, Broadcast, RegistryInv, ManagerTypeOK
  <2>3. QED
    BY <1>4, <2>1, <2>2 DEF Tells, Lingering, registryVars, hostVars
<1>5. ASSUME NEW h \in Hosts, NEW items \in Seq(Item), HostEnds(h, items)
      PROVE  Lingering' /\ HostReachable'
  <2>1. /\ h \in LiveHosts /\ runs[hostRun[h]] = h
        /\ finished' = finished \cup {h} /\ UNCHANGED <<started, hostRun>>
        /\ \A r \in Runs : runs'[r] = runs[r] \/ r = hostRun[h]
        /\ subscribers'[h] # {} => runs' = runs
        /\ \A c \in Conversations :
              conversationRuns'[c] = conversationRuns[c] \/ conversationRuns[c] = hostRun[h]
    BY <1>5 DEF HostEnds, HostReachable, Pop, RegistryInv, ManagerTypeOK
  <2>2. \A g \in LiveHosts \cup finished : g # h /\ hostRun[g] = hostRun[h] => runs[hostRun[g]] # g
    BY <2>1
  <2>3. \A g \in Hosts : subscribers'[g] \subseteq subscribers[g]
    BY <1>5 DEF HostEnds, Broadcast, RegistryInv, ManagerTypeOK
  <2>4. HostReachable'
    BY <2>1, <2>2 DEF HostReachable, Started
  <2>5. Lingering'
    BY <2>1, <2>2, <2>3 DEF Lingering
  <2>6. QED
    BY <2>4, <2>5
<1>6. ASSUME NEW s \in Readers, Close(s)
      PROVE  Lingering' /\ HostReachable'
  <2> DEFINE g == entryOf[s]
  <2>1. /\ g \in Started /\ Open(s)
        /\ UNCHANGED <<conversationRuns, started, hostRun, finished>>
        /\ \A h \in Hosts : h # g => subscribers'[h] = subscribers[h]
        /\ subscribers'[g] = subscribers[g] \ {s}
        /\ runs' # runs => g \in finished /\ subscribers'[g] = {}
        /\ \A r \in Runs : runs'[r] = runs[r] \/ r = hostRun[g]
    BY <1>6 DEF Close, Open, Pop, hostVars, RegistryInv, Followed, ManagerTypeOK
  <2> HIDE DEF g
  <2>2. CASE runs' = runs
    BY <2>1, <2>2 DEF Lingering, HostReachable, Started
  <2>3. CASE runs' # runs
    <3>1. \A h \in Started : h # g /\ hostRun[h] = hostRun[g] => runs[hostRun[h]] # h
      <4>1. CASE s \in subscribers[g]
        BY <2>1, <2>3, <4>1 DEF Lingering
      <4>2. CASE s \notin subscribers[g]
        <5>1. started <= 1
          BY <2>1, <2>3, <4>2 DEF EvictedHaveClosed, g
        <5>2. QED
          BY <2>1, <5>1 DEF Started
      <4>3. QED
        BY <4>1, <4>2
    <3>2. QED
      BY <2>1, <2>3, <3>1 DEF Lingering, HostReachable, Started
  <2>4. QED
    BY <2>2, <2>3
<1>7. ASSUME NEW s \in Readers, Read(s)
      PROVE  Lingering' /\ HostReachable'
  <2>1. CASE Close(s)
    BY <1>6, <2>1
  <2>2. CASE ~Close(s)
    BY <1>7, <2>2 DEF Read, Lingering, HostReachable, registryVars, hostVars, Started
  <2>3. QED
    BY <2>1, <2>2
<1>8. CASE UNCHANGED <<registryVars, hostVars, readerVars>>
  BY <1>8 DEF Lingering, HostReachable, registryVars, hostVars, readerVars, Started
<1>9. QED
  BY <1>2, <1>3, <1>4, <1>5, <1>6, <1>7, <1>8 DEF RegistryStep

(* A host that executes is the one that requests and start find, as long as  *)
(* a reader its host has given up has closed when the next host starts;      *)
(* otherwise its _close unregisters that one (the run lagging).              *)
THEOREM LiveHostsAreFound == ManagerSpec /\ []EvictedHaveClosed => []HostReachable
<1>1. ManagerInit => FoundInv
  BY DEF ManagerInit, FoundInv, Lingering, HostReachable, LiveHosts, Started
<1>2. RegistryInv /\ FoundInv /\ EvictedHaveClosed /\ [ManagerNext]_managerVars => FoundInv'
  <2>1. ASSUME RegistryInv, UNCHANGED managerVars PROVE RegistryStep
    BY <2>1 DEF managerVars, RegistryStep, Aside, RegistryInv, ManagerTypeOK, registryVars,
                hostVars, readerVars
  <2>2. ASSUME Shutdown PROVE FoundInv'
    BY <2>2 DEF Shutdown, FoundInv
  <2>3. QED
    BY <2>1, <2>2, ManagerSteps, FoundKeeps
<1>3. FoundInv => HostReachable
  BY DEF FoundInv, HostReachable
<1>4. QED
  BY <1>1, <1>2, <1>3, RegistryAgrees, PTL DEF ManagerSpec
-----------------------------------------------------------------------------
(* EventStream: the inductive invariant.  Nothing that travels is numbered   *)
(* beyond the log.                                                           *)
Within(q, n) == \A i \in 1..Len(q) : q[i].seq <= n

Sequenced ==
    /\ \A s \in Readers : Within(queue[s], log)
    /\ \A h \in Hosts : Within(hostOut[h], log)
    /\ \A items \in outbox : Len(items) > 0 /\ Within(items, log)
    /\ \A x \in Clients : stream[x].delivered <= log /\ stream[x].first <= log

\* Every host is one of the run, and nothing is signalled to one that has not started.
OneRun ==
    /\ stopped = FALSE /\ resting \subseteq {run}
    /\ \A h \in Started : hostRun[h] = run
    /\ \A h \in Hosts \ Started : activity[h] = "running" /\ hostOut[h] = <<>>

\* A response has its reader to itself, and keeps it open.
Owned ==
    /\ \A x \in Clients :
          /\ stream[x].sub # None => entryOf[stream[x].sub] # None
          /\ stream[x].mode \in {"first"} \cup Following => stream[x].sub # None
          /\ stream[x].mode \in Attached /\ stream[x].sub # None => Open(stream[x].sub)
    /\ \A x, y \in Clients : stream[x].sub = stream[y].sub /\ stream[x].sub # None => x = y

StreamInv ==
    /\ RegistryInv
    /\ StreamTypeOK
    /\ Sequenced
    /\ OneRun
    /\ Owned
-----------------------------------------------------------------------------
LEMMA TheRun == run \in Runs
BY StreamAssumption DEF run

\* What a broadcast, a read and a close do to the numbers in a queue.
LEMMA QueuesWithin ==
    ASSUME RegistryInv, NEW n \in Nat, \A s \in Readers : Within(queue[s], n),
           \/ queue' = queue
           \/ \E S \in SUBSET Readers, items \in Seq(Item) :
                 Within(items, n) /\ queue' = Offered(S, items)
           \/ \E s \in Readers :
                 \/ queue' = [queue EXCEPT ![s] = <<>>]
                 \/ queue[s] # <<>> /\ queue' = [queue EXCEPT ![s] = Tail(@)]
    PROVE  \A s \in Readers : Within(queue'[s], n)
<1>1. queue \in [Readers -> Seq(Item)]
  BY DEF RegistryInv, ManagerTypeOK
<1>2. ASSUME NEW S \in SUBSET Readers, NEW items \in Seq(Item), Within(items, n),
             queue' = Offered(S, items), NEW s \in Readers
      PROVE  Within(queue'[s], n)
  <2>1. queue'[s] \in {<<Overflow>>, queue[s] \o items, queue[s]}
    BY <1>1, <1>2 DEF Offered
  <2>2. Within(<<Overflow>>, n)
    BY DEF Within, Overflow
  <2>3. Within(queue[s] \o items, n)
    BY <1>1, <1>2 DEF Within
  <2>4. QED
    BY <2>1, <2>2, <2>3
<1>3. ASSUME NEW t \in Readers, queue[t] # <<>>, queue' = [queue EXCEPT ![t] = Tail(@)],
             NEW s \in Readers
      PROVE  Within(queue'[s], n)
  <2>1. queue'[s] = IF s = t THEN Tail(queue[t]) ELSE queue[s]
    BY <1>1, <1>3
  <2>2. Within(Tail(queue[t]), n)
    BY <1>1, <1>3 DEF Within
  <2>3. QED
    BY <2>1, <2>2
<1>4. ASSUME NEW t \in Readers, queue' = [queue EXCEPT ![t] = <<>>], NEW s \in Readers
      PROVE  Within(queue'[s], n)
  BY <1>1, <1>4 DEF Within
<1>5. QED
  BY <1>2, <1>3, <1>4

LEMMA Latest ==
    ASSUME NEW S \in SUBSET Nat, NEW m \in S, \A n \in S : n <= m
    PROVE  Max(S) = m
<1>1. \A y \in S : m >= y
  OBVIOUS
<1>2. \A x \in S : (\A y \in S : x >= y) => x = m
  OBVIOUS
<1>3. QED
  BY <1>1, <1>2 DEF Max

(* dispatch moves the cursor forward, and never beyond the log.              *)
LEMMA Dispatching ==
    ASSUME StreamInv, NEW x \in Clients, NEW events,
           \/ \E n \in 0..log : events = {n}
           \/ \E n \in 0..log : events = (n + 1)..log
    PROVE  /\ Dispatched(x, events) \in Session
           /\ Dispatched(x, events).cursor <= log
           /\ Dispatched(x, events).got \subseteq 1..log
<1> DEFINE e == session[x]
           top == events \cup {e.cursor}
<1>1. /\ e \in Session /\ e.cursor \in 0..log /\ e.got \subseteq 1..log
      /\ log \in Nat /\ MaxLog \in Nat /\ log <= MaxLog
  BY StreamAssumption DEF StreamInv, StreamTypeOK, Session
<1>2. Max(top) \in 0..log
  <2>1. CASE \E n \in 0..log : events = {n}
    <3>1. PICK n \in 0..log : events = {n}
      BY <2>1
    <3>2. Max(top) = IF n < e.cursor THEN e.cursor ELSE n
      <4>1. CASE n < e.cursor
        BY <1>1, <3>1, <4>1, Latest
      <4>2. CASE n >= e.cursor
        BY <1>1, <3>1, <4>2, Latest
      <4>3. QED
        BY <1>1, <4>1, <4>2
    <3>3. QED
      BY <1>1, <3>2
  <2>2. CASE \E n \in 0..log : events = (n + 1)..log
    <3>1. PICK n \in 0..log : events = (n + 1)..log
      BY <2>2
    <3>2. CASE n < log
      <4>1. Max(top) = log
        BY <1>1, <3>1, <3>2, Latest
      <4>2. QED
        BY <1>1, <4>1
    <3>3. CASE n = log
      <4>1. events = {}
        BY <1>1, <3>1, <3>3
      <4>2. Max(top) = e.cursor
        BY <1>1, <4>1, Latest
      <4>3. QED
        BY <1>1, <4>2
    <3>4. QED
      BY <1>1, <3>2, <3>3
  <2>3. QED
    BY <2>1, <2>2
<1>3. {n \in events : n > e.cursor} \subseteq 1..log
  BY <1>1
<1> DEFINE heard == {n \in events : n > e.cursor}
<1>4. Dispatched(x, events) = [e EXCEPT !.got = e.got \cup heard, !.cursor = Max(top)]
  BY DEF Dispatched
<1> HIDE DEF e, top, heard
<1>5. Dispatched(x, events) =
        [base |-> e.base, cursor |-> Max(top), got |-> e.got \cup heard, tries |-> e.tries]
  BY <1>1, <1>4 DEF Session
<1>6. e.got \cup heard \subseteq 1..log
  BY <1>1, <1>3 DEF heard
<1>7. QED
  BY <1>1, <1>2, <1>5, <1>6 DEF Session

LEMMA DispatchingDone ==
    ASSUME StreamInv, NEW x \in Clients, NEW n \in 0..log
    PROVE  /\ DispatchedDone(x, n) \in Session
           /\ DispatchedDone(x, n).cursor <= log
           /\ DispatchedDone(x, n).got \subseteq 1..log
<1> DEFINE e == session[x]
<1>1. /\ e \in Session /\ e.cursor \in 0..log /\ e.got \subseteq 1..log
      /\ log \in Nat /\ MaxLog \in Nat /\ log <= MaxLog
  BY StreamAssumption DEF StreamInv, StreamTypeOK, Session
<1>2. Max({n, e.cursor}) \in 0..log
  <2>1. CASE n < e.cursor
    BY <1>1, <2>1, Latest
  <2>2. CASE n >= e.cursor
    BY <1>1, <2>2, Latest
  <2>3. QED
    BY <1>1, <2>1, <2>2
<1> HIDE DEF e
<1>3. DispatchedDone(x, n) =
        [base |-> e.base, cursor |-> Max({n, e.cursor}), got |-> e.got, tries |-> e.tries]
  BY <1>1 DEF DispatchedDone, Session, e
<1>4. QED
  BY <1>1, <1>2, <1>3 DEF Session
-----------------------------------------------------------------------------
LEMMA WithinMore ==
    ASSUME NEW q \in Seq(Item), NEW n \in Nat, Within(q, n)
    PROVE  Within(q, n + 1)
<1>1. \A i \in 1..Len(q) : q[i] \in Item
  OBVIOUS
<1>2. \A i \in 1..Len(q) : q[i].seq \in Nat
  BY <1>1 DEF Item
<1>3. QED
  BY <1>2 DEF Within

(* What the host and the handlers commit: an event more, items on their way, *)
(* and neither a queue nor a client has changed.                             *)
LEMMA CommitKeeps ==
    ASSUME StreamInv, Commit,
           UNCHANGED <<registryVars, hostVars, readerVars, stopped, stream, session>>,
           resting' \in SUBSET {run}, over' \in BOOLEAN,
           activity' \in [Hosts -> {"running", "parked", "leaving"}],
           hostOut' \in [Hosts -> Seq(Item)],
           \A h \in Hosts : Within(hostOut'[h], log + 1),
           \A h \in Hosts \ Started : activity'[h] = activity[h] /\ hostOut'[h] = hostOut[h],
           \A items \in outbox' : items \in Seq(Item) /\ Len(items) > 0 /\ Within(items, log + 1)
    PROVE  StreamInv'
<1> USE DEF StreamInv, registryVars, hostVars, readerVars
<1>1. log \in 0..MaxLog /\ log' = log + 1 /\ log' \in 0..MaxLog /\ log \in Nat
  BY StreamAssumption DEF Commit, StreamTypeOK
<1>2. RegistryStep
  BY TheRun DEF RegistryStep, Aside
<1>3. RegistryInv' /\ ManagerTypeOK'
  BY <1>2, RegistryStepKeeps DEF RegistryInv
<1>4. StreamTypeOK'
  BY <1>1, <1>3 DEF StreamTypeOK, Session
<1>5. Sequenced'
  <2>1. /\ queue' = queue /\ queue \in [Readers -> Seq(Item)]
        /\ stream' = stream /\ stream \in [Clients -> Stream]
    BY DEF StreamTypeOK, ManagerTypeOK
  <2>2. \A s \in Readers : Within(queue'[s], log')
    BY <1>1, <2>1, WithinMore DEF Sequenced
  <2>3. \A x \in Clients : stream'[x].delivered <= log' /\ stream'[x].first <= log'
    BY <1>1, <2>1 DEF Sequenced, Stream
  <2>4. QED
    BY <1>1, <2>2, <2>3 DEF Sequenced
<1>6. OneRun'
  BY DEF OneRun, Started
<1>7. Owned'
  BY DEF Owned, Open
<1>8. QED
  BY <1>3, <1>4, <1>5, <1>6, <1>7

\* Items a transaction of number n makes known.
LEMMA Committed ==
    ASSUME NEW n \in Nat
    PROVE  /\ {Event(n), Done(n), Error} \subseteq Item
           /\ \A items \in {<<Event(n)>>, <<Event(n), Done(n)>>, <<Error>>} :
                 items \in Seq(Item) /\ Len(items) > 0 /\ Within(items, n)
<1>1. {Event(n), Done(n), Error} \subseteq Item
  BY DEF Event, Done, Error, Item, Kinds
<1>2. Event(n).seq <= n /\ Done(n).seq <= n /\ Error.seq <= n
  BY DEF Event, Done, Error
<1>3. QED
  BY <1>1, <1>2 DEF Within

\* The host has more to yield.
LEMMA Appending ==
    ASSUME NEW q \in Seq(Item), NEW n \in Nat, Within(q, n),
           NEW items \in {<<Event(n + 1)>>, <<Event(n + 1), Done(n + 1)>>}
    PROVE  q \o items \in Seq(Item) /\ Within(q \o items, n + 1)
<1>1. items \in Seq(Item) /\ Within(items, n + 1)
  <2>1. n + 1 \in Nat
    OBVIOUS
  <2>2. QED
    BY <2>1, Committed
<1>2. Within(q, n + 1)
  BY WithinMore
<1>3. QED
  BY <1>1, <1>2 DEF Within

LEMMA HostCommitsKeep ==
    ASSUME StreamInv, NEW h \in Hosts,
           HostCommits(h) \/ HostAsks(h) \/ HostFinishes(h) \/ HostFails(h)
    PROVE  StreamInv'
<1> USE DEF HostCommits, HostAsks, HostFinishes, HostFails
<1>1. Commit /\ log \in Nat /\ log' = log + 1 /\ log' \in Nat /\ h \in Started
  BY StreamAssumption DEF Commit, Here, LiveHosts, StreamInv, StreamTypeOK
<1>2. /\ UNCHANGED <<registryVars, hostVars, readerVars, stopped, stream, session, outbox>>
      /\ resting' \in {resting, {run}, {}}
  BY DEF managerVars, registryVars, hostVars, readerVars
<1>3. resting' \in SUBSET {run}
  BY <1>2 DEF StreamInv, OneRun
<1>4. over' \in BOOLEAN
  BY DEF StreamInv, StreamTypeOK
<1>5. PICK a \in {"running", "parked", "leaving"} : activity' = [activity EXCEPT ![h] = a]
  BY DEF StreamInv, StreamTypeOK
<1>6. PICK items : /\ \/ items = hostOut[h] \o <<Event(log')>>
                      \/ items = hostOut[h] \o <<Event(log'), Done(log')>>
                      \/ items = <<Error>>
                   /\ hostOut' = [hostOut EXCEPT ![h] = items]
  <2>1. Append(hostOut[h], Event(log')) = hostOut[h] \o <<Event(log')>>
    BY <1>1, Committed DEF StreamInv, StreamTypeOK
  <2>2. QED
    BY <2>1
<1>7. hostOut \in [Hosts -> Seq(Item)] /\ \A g \in Hosts : Within(hostOut[g], log)
  BY DEF StreamInv, StreamTypeOK, Sequenced
<1>8. items \in Seq(Item) /\ Within(items, log + 1)
  <2>1. hostOut[h] \in Seq(Item) /\ Within(hostOut[h], log)
    BY <1>7
  <2>2. QED
    BY <1>1, <1>6, <2>1, Committed, Appending
<1>9. \A g \in Hosts : Within(hostOut'[g], log + 1)
  BY <1>1, <1>6, <1>7, <1>8, WithinMore
<1>10. \A q \in outbox' : q \in Seq(Item) /\ Len(q) > 0 /\ Within(q, log + 1)
  BY <1>1, <1>2, WithinMore DEF StreamInv, StreamTypeOK, Sequenced
<1>11. /\ activity' \in [Hosts -> {"running", "parked", "leaving"}]
       /\ hostOut' \in [Hosts -> Seq(Item)]
       /\ \A g \in Hosts \ Started : activity'[g] = activity[g] /\ hostOut'[g] = hostOut[g]
  BY <1>1, <1>5, <1>6, <1>7, <1>8 DEF StreamInv, StreamTypeOK
<1>12. QED
  BY <1>1, <1>2, <1>3, <1>4, <1>9, <1>10, <1>11, CommitKeeps

LEMMA HandlerCommitsKeep ==
    ASSUME StreamInv, Pause \/ Revise \/ Cancel
    PROVE  StreamInv'
<1>1. /\ Commit /\ log \in Nat /\ log' = log + 1 /\ log' \in Nat
      /\ UNCHANGED <<registryVars, hostVars, readerVars, stopped, stream, session, hostOut>>
      /\ activity' = activity \/ (Reachable(run) /\ activity' = Parked)
      /\ resting' \in {resting, {run}, {}}
  BY StreamAssumption
     DEF Pause, Revise, Cancel, Commit, StreamInv, StreamTypeOK, managerVars, registryVars,
         hostVars, readerVars
<1>8. resting' \in SUBSET {run}
  BY <1>1 DEF StreamInv, OneRun
<1>9. over' \in BOOLEAN
  BY DEF Pause, Revise, Cancel, StreamInv, StreamTypeOK
<1>10. PICK items \in {<<Event(log')>>, <<Event(log'), Done(log')>>} : outbox' = outbox \cup {items}
  BY DEF Pause, Revise, Cancel
<1>2. Reachable(run) => runs[run] \in Started
  BY TheRun DEF Reachable, StreamInv, RegistryInv, Registered
<1>3. /\ activity' \in [Hosts -> {"running", "parked", "leaving"}]
      /\ hostOut' \in [Hosts -> Seq(Item)]
      /\ \A g \in Hosts \ Started : activity'[g] = activity[g] /\ hostOut'[g] = hostOut[g]
  BY <1>1, <1>2 DEF Parked, StreamInv, StreamTypeOK
<1>4. \A g \in Hosts : Within(hostOut'[g], log + 1)
  BY <1>1, WithinMore DEF StreamInv, StreamTypeOK, Sequenced
<1>5. \A q \in outbox : q \in Seq(Item) /\ Len(q) > 0 /\ Within(q, log + 1)
  BY <1>1, WithinMore DEF StreamInv, StreamTypeOK, Sequenced
<1>6. items \in Seq(Item) /\ Len(items) > 0 /\ Within(items, log + 1)
  BY <1>1, <1>10, Committed
<1>7. QED
  BY <1>1, <1>3, <1>4, <1>5, <1>6, <1>8, <1>9, <1>10, CommitKeeps
-----------------------------------------------------------------------------
(* What is yielded and published.                                            *)
LEMMA YieldsKeep ==
    ASSUME StreamInv, NEW h \in Hosts, HostYieldsNext(h)
    PROVE  StreamInv'
<1> DEFINE q == hostOut[h]
<1>1. /\ q \in Seq(Item) /\ q # <<>> /\ Within(q, log) /\ log \in Nat
      /\ <<Head(q)>> \in Seq(Item) /\ Len(<<Head(q)>>) > 0
      /\ HostYields(h, Head(q)) /\ hostOut' = [hostOut EXCEPT ![h] = Tail(q)]
      /\ UNCHANGED <<stopped, log, over, activity, outbox, stream, session>>
  BY Items, StreamAssumption DEF HostYieldsNext, StreamInv, StreamTypeOK, Sequenced
<1>2. Within(<<Head(q)>>, log) /\ Tail(q) \in Seq(Item) /\ Within(Tail(q), log)
  BY <1>1 DEF Within
<1> HIDE DEF q
<1>3. /\ Broadcast(h, <<Head(q)>>) /\ subscribers[h] \in SUBSET Readers /\ h \in Started
      /\ UNCHANGED <<registryVars, hostVars, entryOf, closed, resting>>
  BY <1>1 DEF HostYields, LiveHosts, StreamInv, StreamTypeOK, ManagerTypeOK
<1>4. RegistryStep
  BY <1>1, <1>3 DEF RegistryStep, Aside, Tells, StreamInv, StreamTypeOK, ManagerTypeOK
<1>5. RegistryInv' /\ ManagerTypeOK'
  BY <1>4, RegistryStepKeeps DEF StreamInv, RegistryInv
<1>6. \A s \in Readers : Within(queue'[s], log)
  BY <1>1, <1>2, <1>3, QueuesWithin DEF StreamInv, Sequenced, Broadcast
<1>7. StreamTypeOK' /\ Sequenced'
  BY <1>1, <1>2, <1>5, <1>6 DEF StreamInv, StreamTypeOK, Sequenced
<1>8. OneRun' /\ Owned'
  BY <1>1, <1>3 DEF StreamInv, StreamTypeOK, OneRun, Owned, Open, Started, hostVars
<1>9. QED
  BY <1>5, <1>7, <1>8 DEF StreamInv

LEMMA ReturnsKeep ==
    ASSUME StreamInv, NEW h \in Hosts, HostReturns(h)
    PROVE  StreamInv'
<1>1. PICK items \in {<<End>>, <<Error, End>>} :
        /\ HostEnds(h, items) /\ hostOut' = [hostOut EXCEPT ![h] = <<>>]
        /\ UNCHANGED <<stopped, log, over, activity, outbox, stream, session>>
  BY DEF HostReturns
<1>2. /\ log \in Nat /\ items \in Seq(Item) /\ Len(items) > 0 /\ Told(items) /\ Within(items, log)
      /\ <<>> \in Seq(Item) /\ Within(<<>>, log)
  <2>1. log \in Nat
    BY StreamAssumption DEF StreamInv, StreamTypeOK
  <2>2. End.seq <= log /\ Error.seq <= log
    BY <2>1 DEF End, Error
  <2>3. Within(items, log) /\ Within(<<>>, log)
    BY <2>2 DEF Within
  <2>4. items \in Seq(Item) /\ Len(items) > 0 /\ Told(items)
    BY Items
  <2>5. <<>> \in Seq(Item)
    OBVIOUS
  <2>6. QED
    BY <2>1, <2>3, <2>4, <2>5
<1>3. /\ Broadcast(h, items) /\ subscribers[h] \in SUBSET Readers /\ h \in Started
      /\ UNCHANGED <<started, hostRun, entryOf, closed, resting>>
  BY <1>1 DEF HostEnds, LiveHosts, StreamInv, StreamTypeOK, ManagerTypeOK
<1>4. RegistryStep
  BY <1>1, <1>2, <1>3 DEF RegistryStep, Aside, StreamInv, StreamTypeOK, ManagerTypeOK
<1>5. RegistryInv' /\ ManagerTypeOK'
  BY <1>4, RegistryStepKeeps DEF StreamInv, RegistryInv
<1>6. \A s \in Readers : Within(queue'[s], log)
  BY <1>1, <1>2, <1>3, QueuesWithin DEF StreamInv, Sequenced, Broadcast
<1>7. StreamTypeOK' /\ Sequenced'
  BY <1>1, <1>2, <1>5, <1>6 DEF StreamInv, StreamTypeOK, Sequenced
<1>8. OneRun' /\ Owned'
  BY <1>1, <1>3 DEF StreamInv, StreamTypeOK, OneRun, Owned, Open, Started
<1>9. QED
  BY <1>5, <1>7, <1>8 DEF StreamInv

LEMMA PublishesKeep ==
    ASSUME StreamInv, HandlerPublishes
    PROVE  StreamInv'
<1>1. PICK items \in outbox :
        /\ outbox' = outbox \ {items}
        /\ IF runs[run] = None THEN UNCHANGED managerVars
           ELSE Publish(run, items) /\ UNCHANGED stopped
        /\ UNCHANGED <<log, over, activity, hostOut, stream, session>>
  BY DEF HandlerPublishes
<1>2. /\ log \in Nat /\ items \in Seq(Item) /\ Len(items) > 0 /\ Within(items, log)
      /\ runs[run] # None => runs[run] \in Hosts /\ subscribers[runs[run]] \in SUBSET Readers
  BY <1>1, TheRun, StreamAssumption DEF StreamInv, StreamTypeOK, Sequenced, ManagerTypeOK
<1>3. UNCHANGED <<registryVars, hostVars, entryOf, closed, resting, stopped>>
  BY <1>1 DEF Publish, managerVars, registryVars, hostVars
<1>4. RegistryStep
  BY <1>1, <1>2, <1>3
     DEF RegistryStep, Aside, Publish, Tells, managerVars, readerVars, StreamInv, StreamTypeOK,
         ManagerTypeOK
<1>5. RegistryInv' /\ ManagerTypeOK'
  BY <1>4, RegistryStepKeeps DEF StreamInv, RegistryInv
<1>6. \A s \in Readers : Within(queue'[s], log)
  BY <1>1, <1>2, QueuesWithin DEF StreamInv, Sequenced, Publish, Broadcast, managerVars
<1>7. StreamTypeOK' /\ Sequenced'
  BY <1>1, <1>5, <1>6 DEF StreamInv, StreamTypeOK, Sequenced
<1>8. OneRun' /\ Owned'
  BY <1>1, <1>3 DEF StreamInv, StreamTypeOK, OneRun, Owned, Open, Started, hostVars
<1>9. QED
  BY <1>5, <1>7, <1>8 DEF StreamInv
-----------------------------------------------------------------------------
(* What a client and its response do: t is the response after the step, e    *)
(* the session.                                                              *)
LEMMA ClientKeeps ==
    ASSUME StreamInv, RegistryStep,
           log' \in {log, log + 1}, log' <= MaxLog, UNCHANGED <<over, hostOut, outbox>>,
           activity' \in [Hosts -> {"running", "parked", "leaving"}],
           \A h \in Hosts \ Started' : h \notin Started /\ activity'[h] = activity[h],
           resting' \subseteq {run}, \A h \in Started' : hostRun'[h] = run,
           \A s \in Readers : Within(queue'[s], log),
           \A s \in Readers : entryOf[s] # None => entryOf'[s] = entryOf[s],
           NEW x \in Clients, NEW t \in Stream, NEW e \in Session,
           \A s \in Readers : Open(s) => Open(s)' \/ s = stream[x].sub,
           stream' = [stream EXCEPT ![x] = t], session' = [session EXCEPT ![x] = e],
           t.delivered <= log', t.first <= log', e.cursor <= log', e.got \subseteq 1..log',
           t.sub \in {None, stream[x].sub} \/ entryOf[t.sub] = None,
           t.sub # None => entryOf'[t.sub] # None,
           t.mode \in {"first"} \cup Following => t.sub # None,
           t.mode \in Attached /\ t.sub # None => Open(t.sub)'
    PROVE  StreamInv'
<1>1. /\ log \in Nat /\ log' \in 0..MaxLog /\ log <= log' /\ log' \in Nat
      /\ stream \in [Clients -> Stream] /\ session \in [Clients -> Session]
  BY StreamAssumption DEF StreamInv, StreamTypeOK
<1>2. RegistryInv' /\ ManagerTypeOK' /\ stopped' = stopped
  BY RegistryStepKeeps DEF StreamInv, RegistryInv, RegistryStep, Aside
<1>3. StreamTypeOK'
  <2>1. \A y \in Clients : session'[y].cursor <= log' /\ session'[y].got \subseteq 1..log'
    <3>1. \A y \in Clients : session[y].cursor \in Nat /\ session[y].cursor <= log
                              /\ session[y].got \subseteq 1..log
      BY <1>1 DEF StreamInv, StreamTypeOK, Session
    <3>2. QED
      BY <1>1, <3>1
  <2>2. over' \in BOOLEAN
    BY DEF StreamInv, StreamTypeOK
  <2>3. QED
    BY <1>1, <1>2, <2>1, <2>2 DEF StreamInv, StreamTypeOK
<1>4. Sequenced'
  <2>1. ASSUME NEW q \in Seq(Item), Within(q, log) PROVE Within(q, log')
    BY <1>1, <2>1, WithinMore
  <2>2. \A s \in Readers : Within(queue'[s], log')
    BY <1>2, <2>1 DEF ManagerTypeOK
  <2>3. /\ \A h \in Hosts : Within(hostOut'[h], log')
        /\ \A items \in outbox' : Len(items) > 0 /\ Within(items, log')
    BY <2>1 DEF StreamInv, StreamTypeOK, Sequenced
  <2>4. \A y \in Clients : stream'[y].delivered <= log' /\ stream'[y].first <= log'
    <3>1. \A y \in Clients : /\ stream[y].delivered \in Nat /\ stream[y].delivered <= log
                              /\ stream[y].first \in Nat /\ stream[y].first <= log
      BY <1>1, StreamAssumption DEF StreamInv, Sequenced, Stream
    <3>2. QED
      BY <1>1, <3>1
  <2>5. QED
    BY <2>2, <2>3, <2>4 DEF Sequenced
<1>5. OneRun'
  BY <1>2 DEF StreamInv, OneRun
<1>6. Owned'
  <2>1. \A y \in Clients : stream[y].sub # None => stream[y].sub \in Readers
    BY <1>1 DEF Stream
  <2>2. \A y \in Clients : y # x => stream'[y] = stream[y]
    BY <1>1
  <2>3. stream'[x] = t
    BY <1>1
  <2>4. ASSUME NEW y \in Clients, y # x
        PROVE  /\ stream'[y].sub # None => entryOf'[stream'[y].sub] # None
               /\ stream'[y].mode \in {"first"} \cup Following => stream'[y].sub # None
               /\ stream'[y].mode \in Attached /\ stream'[y].sub # None =>
                     entryOf'[stream'[y].sub] # None /\ stream'[y].sub \notin closed'
               /\ stream'[y].sub # None => stream'[y].sub # t.sub
    <3> DEFINE z == stream[y]
    <3>1. /\ stream'[y] = z
          /\ z.sub # None => z.sub \in Readers /\ entryOf[z.sub] # None
          /\ z.mode \in {"first"} \cup Following => z.sub # None
          /\ z.mode \in Attached /\ z.sub # None => Open(z.sub)
          /\ z.sub # None => z.sub # stream[x].sub
      BY <2>1, <2>2, <2>4 DEF StreamInv, Owned
    <3> HIDE DEF z
    <3>2. z.mode \in Attached /\ z.sub # None => entryOf'[z.sub] # None /\ z.sub \notin closed'
      BY <3>1 DEF Open
    <3>3. z.sub # None => entryOf'[z.sub] # None /\ z.sub # t.sub
      BY <3>1
    <3>4. QED
      BY <3>1, <3>2, <3>3
  <2>5. /\ t.sub # None => entryOf'[t.sub] # None
        /\ t.mode \in {"first"} \cup Following => t.sub # None
        /\ t.mode \in Attached /\ t.sub # None =>
              entryOf'[t.sub] # None /\ t.sub \notin closed'
    BY DEF Open
  <2>6. ASSUME NEW y \in Clients
        PROVE  /\ stream'[y].sub # None => entryOf'[stream'[y].sub] # None
               /\ stream'[y].mode \in {"first"} \cup Following => stream'[y].sub # None
               /\ stream'[y].mode \in Attached /\ stream'[y].sub # None =>
                     entryOf'[stream'[y].sub] # None /\ stream'[y].sub \notin closed'
    <3>1. CASE y = x
      BY <2>3, <2>5, <3>1
    <3>2. CASE y # x
      BY <2>4, <3>2
    <3>3. QED
      BY <3>1, <3>2
  <2>7. ASSUME NEW y \in Clients, NEW z \in Clients,
               stream'[y].sub = stream'[z].sub, stream'[y].sub # None
        PROVE  y = z
    BY <2>2, <2>3, <2>4, <2>7 DEF StreamInv, Owned
  <2>8. QED
    BY <2>6, <2>7 DEF Owned, Open
<1>7. QED
  BY <1>2, <1>3, <1>4, <1>5, <1>6 DEF StreamInv

\* A response that stays as it is in the registry.
LEMMA ResponseKeeps ==
    ASSUME StreamInv, UNCHANGED <<managerVars, log, over, activity, hostOut, outbox>>,
           NEW x \in Clients, NEW t \in Stream, NEW e \in Session,
           stream' = [stream EXCEPT ![x] = t], session' = [session EXCEPT ![x] = e],
           t.delivered <= log, t.first <= log, e.cursor <= log, e.got \subseteq 1..log,
           t.sub = None \/ t.sub = stream[x].sub,
           t.mode \in Attached \cup {"first"} =>
               t.sub = None \/ stream[x].mode \in Attached,
           t.mode \in {"first"} \cup Following => t.sub # None
    PROVE  StreamInv'
<1>1. RegistryStep
  BY DEF RegistryStep, Aside, managerVars, registryVars, hostVars, readerVars, StreamInv,
         StreamTypeOK, ManagerTypeOK
<1>2. log \in Nat /\ log <= MaxLog
  BY StreamAssumption DEF StreamInv, StreamTypeOK
<1>3. \A s \in Readers : Within(queue'[s], log)
  BY DEF managerVars, StreamInv, Sequenced
<1>4. /\ activity' \in [Hosts -> {"running", "parked", "leaving"}]
      /\ \A h \in Hosts \ Started' : h \notin Started /\ activity'[h] = activity[h]
      /\ resting' \subseteq {run} /\ \A h \in Started' : hostRun'[h] = run
  BY DEF managerVars, Started, StreamInv, StreamTypeOK, OneRun
<1>5. /\ entryOf' = entryOf /\ \A s \in Readers : Open(s) => Open(s)'
      /\ t.sub # None => entryOf[t.sub] # None
      /\ t.mode \in Attached /\ t.sub # None => Open(t.sub)'
  BY DEF managerVars, Open, StreamInv, Owned
<1>6. QED
  BY <1>1, <1>2, <1>3, <1>4, <1>5, ClientKeeps
-----------------------------------------------------------------------------
\* A response that gets a reader: of a host that starts, or of the one that is found.
LEMMA AttachesKeep ==
    ASSUME StreamInv, NEW x \in Clients, NEW s \in Readers,
           Start(run, s) \/ Joins(run, s),
           UNCHANGED <<resting, stopped, log, over, hostOut, outbox>>,
           \/ activity' = activity
           \/ /\ Reachable(run)
              /\ activity' = [activity EXCEPT ![runs[run]] = IF @ = "parked" THEN "running"
                                                            ELSE @],
           NEW t \in Stream, NEW e \in Session,
           stream' = [stream EXCEPT ![x] = t], session' = [session EXCEPT ![x] = e],
           t.sub = s, t.delivered <= log, t.first <= log, e.cursor <= log, e.got \subseteq 1..log
    PROVE  StreamInv'
<1>1. RegistryStep
  BY TheRun DEF RegistryStep, Aside, StreamInv, StreamTypeOK, ManagerTypeOK
<1>2. log \in Nat /\ log <= MaxLog
  BY StreamAssumption DEF StreamInv, StreamTypeOK
<1>3. /\ queue' = queue /\ closed' = closed
      /\ \A r \in Readers : entryOf[r] # None => entryOf'[r] = entryOf[r]
      /\ entryOf[s] = None /\ entryOf'[s] # None /\ s \notin closed
  BY TheRun, HostsCount, ManagerAssumption
     DEF Start, Joins, Attach, Reachable, StreamInv, RegistryInv, Followed, ManagerTypeOK
<1>4. /\ Started \subseteq Started' /\ Started' \subseteq Hosts
      /\ \A h \in Started' : hostRun'[h] = run
  <2>1. CASE Start(run, s)
    <3>1. /\ started' = started + 1 /\ started < MaxHosts
          /\ hostRun' = [hostRun EXCEPT ![started + 1] = run]
      BY <2>1 DEF Start
    <3>2. /\ started + 1 \in Hosts /\ started + 1 \notin Started /\ Started \subseteq Hosts
          /\ Started' = Started \cup {started + 1}
      BY <3>1, HostsCount DEF Started, StreamInv, RegistryInv
    <3>3. hostRun \in [Hosts -> Runs \cup {None}]
      BY DEF StreamInv, RegistryInv, ManagerTypeOK
    <3>4. QED
      BY <3>1, <3>2, <3>3 DEF StreamInv, OneRun
  <2>2. CASE Joins(run, s)
    BY <2>2, HostsCount DEF Joins, Started, hostVars, StreamInv, RegistryInv, OneRun
  <2>3. QED
    BY <2>1, <2>2
<1>5. /\ activity' \in [Hosts -> {"running", "parked", "leaving"}]
      /\ \A h \in Hosts \ Started' : h \notin Started /\ activity'[h] = activity[h]
  <2>1. Reachable(run) => runs[run] \in Started
    BY TheRun DEF Reachable, StreamInv, RegistryInv, Registered
  <2>2. QED
    BY <1>4, <2>1 DEF StreamInv, StreamTypeOK
<1>6. /\ \A r \in Readers : Within(queue'[r], log)
      /\ \A r \in Readers : Open(r) => Open(r)'
      /\ Open(t.sub)' /\ t.sub # None
  BY <1>3, ManagerAssumption DEF Open, StreamInv, Sequenced
<1>7. resting' \subseteq {run}
  BY DEF StreamInv, OneRun
<1>8. QED
  BY <1>1, <1>2, <1>3, <1>4, <1>5, <1>6, <1>7, ClientKeeps

Gives(x, mode, s) == stream' = [stream EXCEPT ![x].mode = mode, ![x].sub = s]

LEMMA Given ==
    ASSUME stream \in [Clients -> Stream], NEW x \in Clients,
           NEW mode \in Modes, NEW s \in Readers,
           Gives(x, mode, s)
    PROVE  \E t \in Stream :
              /\ stream' = [stream EXCEPT ![x] = t]
              /\ t.sub = s /\ t.delivered = stream[x].delivered /\ t.first = stream[x].first
<1> DEFINE r == stream[x]
           t == [r EXCEPT !.mode = mode, !.sub = s]
<1>1. r \in Stream
  OBVIOUS
<1>2. stream' = [stream EXCEPT ![x] = t]
  BY DEF Gives
<1> HIDE DEF r
<1>3. t \in Stream /\ t.sub = s /\ t.delivered = r.delivered /\ t.first = r.first
  BY <1>1 DEF Stream
<1> HIDE DEF t
<1>4. QED
  BY <1>2, <1>3 DEF r

LEMMA RequestsKeep ==
    ASSUME StreamInv, NEW x \in Clients,
           \/ Resume(x)
           \/ ResumeFails(x)
           \/ \E s \in Readers : ResumeAttaches(x, s) \/ Chat(x, s)
    PROVE  StreamInv'
<1>1. /\ log \in Nat /\ log <= MaxLog /\ MaxLog \in Nat
      /\ stream[x] \in Stream /\ session[x] \in Session
      /\ stream \in [Clients -> Stream] /\ session \in [Clients -> Session]
      /\ stream[x].delivered <= log /\ stream[x].first <= log
      /\ session[x].cursor <= log /\ session[x].got \subseteq 1..log
  BY StreamAssumption DEF StreamInv, StreamTypeOK, Sequenced
<1>2. ASSUME Resume(x) PROVE StreamInv'
  <2> DEFINE t == [mode |-> IF Reachable(run) THEN "live" ELSE "cold", sub |-> None,
                   delivered |-> 0, first |-> log']
             e == [session[x] EXCEPT !.base = log]
  <2>1. log' = log + 1 /\ log' <= MaxLog /\ log' \in Nat
    BY <1>1, <1>2 DEF Resume, Commit
  <2>2. t \in Stream /\ t.sub = None /\ t.delivered <= log' /\ t.first <= log'
        /\ t.mode \notin {"first"} \cup Following \cup Attached
    BY <1>1, <2>1 DEF Stream, Modes, Following, Attached
  <2>3. e = [base |-> log, cursor |-> session[x].cursor, got |-> session[x].got,
             tries |-> session[x].tries]
    BY <1>1 DEF Session
  <2>4. e \in Session /\ e.cursor <= log' /\ e.got \subseteq 1..log'
    BY <1>1, <2>1, <2>3 DEF Session
  <2>5. /\ UNCHANGED <<registryVars, hostVars, readerVars, stopped, over, activity, hostOut,
                        outbox>>
        /\ resting' = {} /\ stream' = [stream EXCEPT ![x] = t]
        /\ session' = [session EXCEPT ![x] = e]
    BY <1>2 DEF Resume
  <2> HIDE DEF t, e
  <2>6. RegistryStep
    BY <2>5 DEF RegistryStep, Aside
  <2>7. /\ activity' \in [Hosts -> {"running", "parked", "leaving"}]
        /\ \A h \in Hosts \ Started' : h \notin Started /\ activity'[h] = activity[h]
        /\ \A h \in Started' : hostRun'[h] = run
        /\ \A s \in Readers : Within(queue'[s], log)
        /\ \A s \in Readers : entryOf[s] # None => entryOf'[s] = entryOf[s]
        /\ \A s \in Readers : Open(s) => Open(s)'
    BY <2>5 DEF hostVars, readerVars, Open, Started, StreamInv, StreamTypeOK, OneRun, Sequenced
  <2>8. QED
    BY <2>1, <2>2, <2>4, <2>5, <2>6, <2>7, ClientKeeps
<1>3. ASSUME ResumeFails(x) PROVE StreamInv'
  <2> DEFINE t == [stream[x] EXCEPT !.mode = "ended"]
  <2>1. /\ t \in Stream /\ t.sub = stream[x].sub /\ t.delivered <= log /\ t.first <= log
        /\ t.mode \notin {"first"} \cup Following \cup Attached
    BY <1>1 DEF Stream, Modes, Following, Attached
  <2>2. /\ UNCHANGED <<managerVars, log, over, activity, hostOut, outbox>>
        /\ stream' = [stream EXCEPT ![x] = t] /\ session' = [session EXCEPT ![x] = session[x]]
    BY <1>1, <1>3 DEF ResumeFails
  <2> HIDE DEF t
  <2>3. QED
    BY <1>1, <2>1, <2>2, ResponseKeeps
<1>4. ASSUME NEW s \in Readers, NEW mode \in {"first", "raw"},
             Start(run, s) \/ Joins(run, s),
             UNCHANGED <<resting, stopped, log, over, hostOut, outbox, session>>,
             \/ activity' = activity
             \/ /\ Reachable(run)
                /\ activity' = [activity EXCEPT ![runs[run]] = IF @ = "parked" THEN "running"
                                                              ELSE @],
             Gives(x, mode, s)
      PROVE  StreamInv'
  <2>1. mode \in Modes
    BY DEF Modes
  <2>2. PICK t \in Stream :
            /\ stream' = [stream EXCEPT ![x] = t]
            /\ t.sub = s /\ t.delivered = stream[x].delivered /\ t.first = stream[x].first
    BY <1>1, <1>4, <2>1, Given
  <2>3. session' = [session EXCEPT ![x] = session[x]]
    BY <1>1, <1>4
  <2>4. t.delivered <= log /\ t.first <= log
    BY <1>1, <2>2
  <2>5. t.sub = s
    BY <2>2
  <2>6. session[x] \in Session /\ session[x].cursor <= log /\ session[x].got \subseteq 1..log
    BY <1>1
  <2>7. UNCHANGED <<resting, stopped, log, over, hostOut, outbox>>
    BY <1>4
  <2>8. QED
    BY <1>4, <2>2, <2>3, <2>4, <2>5, <2>6, <2>7, AttachesKeep
<1>5. ASSUME NEW s \in Readers, ResumeAttaches(x, s) PROVE StreamInv'
  BY <1>4, <1>5 DEF ResumeAttaches, Subscribe, Joins, Gives
<1>6. ASSUME NEW s \in Readers, Chat(x, s) PROVE StreamInv'
  BY <1>4, <1>6 DEF Chat, Begin, Gives
<1>7. QED
  BY <1>2, <1>3, <1>5, <1>6
-----------------------------------------------------------------------------
\* A response that takes an item of its queue, or leaves it.
LEMMA ReadsKeep ==
    ASSUME StreamInv, NEW x \in Clients, stream[x].sub # None, stream[x].mode \in Attached,
           Read(stream[x].sub) \/ Close(stream[x].sub),
           UNCHANGED <<stopped, log, over, activity, hostOut, outbox>>,
           NEW t \in Stream, NEW e \in Session,
           stream' = [stream EXCEPT ![x] = t], session' = [session EXCEPT ![x] = e],
           t.sub = stream[x].sub, t.delivered <= log, t.first <= log,
           e.cursor <= log, e.got \subseteq 1..log,
           \/ t.mode \in {"ended", "gone"}
           \/ Read(stream[x].sub) /\ Head(queue[stream[x].sub]).kind \in {"event", "error"}
    PROVE  StreamInv'
<1> DEFINE s == stream[x].sub
<1>1. /\ s \in Readers /\ Open(s) /\ log \in Nat /\ log <= MaxLog /\ t.sub = s
      /\ Read(s) \/ Close(s)
      /\ t.mode \in {"ended", "gone"} \/ (Read(s) /\ Head(queue[s]).kind \in {"event", "error"})
  BY StreamAssumption DEF StreamInv, StreamTypeOK, Owned, Stream
<1> HIDE DEF s
<1>2. /\ UNCHANGED <<hostVars, entryOf, resting, conversationRuns>>
      /\ \/ closed' = closed \cup {s} /\ queue' = [queue EXCEPT ![s] = <<>>]
         \/ /\ closed' = closed /\ queue[s] # <<>> /\ queue' = [queue EXCEPT ![s] = Tail(@)]
  BY <1>1 DEF Read, Close, registryVars
<1>3. t.mode \in {"ended", "gone"} \/ closed' = closed
  BY <1>1 DEF Read
<1>4. RegistryStep
  BY <1>1, <1>2 DEF RegistryStep, Aside, StreamInv, StreamTypeOK, ManagerTypeOK
<1>5. \A r \in Readers : Within(queue'[r], log)
  BY <1>1, <1>2, QueuesWithin DEF StreamInv, Sequenced
<1>6. /\ \A r \in Readers : Open(r) => Open(r)' \/ r = stream[x].sub
      /\ t.mode \in Attached /\ t.sub # None => Open(t.sub)'
      /\ t.sub # None /\ entryOf'[t.sub] # None
      /\ \A r \in Readers : entryOf[r] # None => entryOf'[r] = entryOf[r]
  BY <1>1, <1>2, <1>3 DEF Open, s, Attached, Following
<1>7. /\ activity' \in [Hosts -> {"running", "parked", "leaving"}]
      /\ \A h \in Hosts \ Started' : h \notin Started /\ activity'[h] = activity[h]
      /\ resting' \subseteq {run} /\ \A h \in Started' : hostRun'[h] = run
  BY <1>2 DEF hostVars, Started, StreamInv, StreamTypeOK, OneRun
<1>8. QED
  BY <1>1, <1>4, <1>5, <1>6, <1>7, ClientKeeps

LEMMA ForwardsKeep ==
    ASSUME StreamInv, NEW x \in Clients, ReadNext(x)
    PROVE  StreamInv'
<1> DEFINE s == stream[x].sub
           item == Head(queue[s])
<1>1. /\ log \in Nat /\ log <= MaxLog /\ MaxLog \in Nat
      /\ stream[x] \in Stream /\ session[x] \in Session
      /\ stream \in [Clients -> Stream] /\ session \in [Clients -> Session]
      /\ stream[x].delivered <= log /\ stream[x].first <= log
      /\ session[x].cursor <= log /\ session[x].got \subseteq 1..log
  BY StreamAssumption DEF StreamInv, StreamTypeOK, Sequenced
<1>2. /\ stream[x].mode \in Following /\ stream[x].mode \in Attached /\ Read(s) /\ s # None
      /\ UNCHANGED <<stopped, log, over, activity, hostOut, outbox>>
  BY DEF ReadNext, StreamInv, Owned, Attached
<1>3. item \in Item /\ item.seq \in 0..log
  <2>1. s \in Readers /\ queue[s] # <<>>
    BY <1>1, <1>2 DEF Read, Stream
  <2> HIDE DEF s
  <2>2. queue[s] \in Seq(Item) /\ Within(queue[s], log)
    BY <2>1 DEF StreamInv, StreamTypeOK, ManagerTypeOK, Sequenced
  <2>3. Head(queue[s]) \in Item /\ Head(queue[s]).seq <= log
    BY <2>1, <2>2 DEF Within
  <2>4. QED
    BY <1>1, <2>3 DEF Item
<1>4. ASSUME item.kind = "event", item.seq > stream[x].delivered,
             session' = [session EXCEPT ![x] = Dispatched(x, {item.seq})],
             stream' = [stream EXCEPT ![x].delivered =
                          IF stream[x].mode = "tail" THEN item.seq ELSE @]
      PROVE  StreamInv'
  <2> DEFINE r == stream[x]
             n == IF r.mode = "tail" THEN item.seq ELSE r.delivered
             t == [r EXCEPT !.delivered = n]
             e == Dispatched(x, {item.seq})
  <2>1. e \in Session /\ e.cursor <= log /\ e.got \subseteq 1..log
    BY <1>3, Dispatching
  <2>2. n \in 0..MaxLog /\ n <= log
    BY <1>1, <1>3 DEF Stream
  <2>3. stream' = [stream EXCEPT ![x] = t] /\ session' = [session EXCEPT ![x] = e]
    BY <1>1, <1>4
  <2>4. t \in Stream /\ t.sub = s /\ t.delivered = n /\ t.first = r.first
    <3> HIDE DEF n
    <3>1. QED
      BY <1>1, <2>2 DEF Stream
  <2>5. Head(queue[s]).kind = "event" /\ r.first <= log
    BY <1>1, <1>4
  <2> HIDE DEF t, e, n
  <2>6. QED
    BY <1>2, <2>1, <2>2, <2>3, <2>4, <2>5, ReadsKeep
<1>5. ASSUME item.kind = "event", UNCHANGED <<session, stream>>
      PROVE  StreamInv'
  <2>1. stream' = [stream EXCEPT ![x] = stream[x]] /\ session' = [session EXCEPT ![x] = session[x]]
    BY <1>1, <1>5
  <2>2. Head(queue[s]).kind = "event"
    BY <1>5
  <2>3. QED
    BY <1>1, <1>2, <2>1, <2>2, ReadsKeep
<1>6. ASSUME NEW mode \in {"ended", "gone"}, NEW e \in Session,
             e.cursor <= log, e.got \subseteq 1..log,
             session' = [session EXCEPT ![x] = e],
             stream' = [stream EXCEPT ![x].mode = mode]
      PROVE  StreamInv'
  <2> DEFINE r == stream[x]
             t == [r EXCEPT !.mode = mode]
  <2>1. stream' = [stream EXCEPT ![x] = t]
    BY <1>1, <1>6
  <2>2. t \in Stream /\ t.sub = s /\ t.delivered = r.delivered /\ t.first = r.first
        /\ t.mode = mode
    BY <1>1 DEF Stream, Modes
  <2>3. t.delivered <= log /\ t.first <= log
    BY <1>1, <2>2
  <2> HIDE DEF t
  <2>4. QED
    BY <1>2, <1>6, <2>1, <2>2, <2>3, ReadsKeep
<1>7. UNCHANGED session => session' = [session EXCEPT ![x] = session[x]]
  BY <1>1
<1>8. DispatchedDone(x, item.seq) \in Session /\ DispatchedDone(x, item.seq).cursor <= log
      /\ DispatchedDone(x, item.seq).got \subseteq 1..log
  BY <1>3, DispatchingDone
<1>9. QED
  BY <1>1, <1>4, <1>5, <1>6, <1>7, <1>8 DEF ReadNext

(* The client's own side: it dispatches, loses its connection, reconnects;   *)
(* the response replays the log and reads the status.                        *)
LEMMA ResponsesKeep ==
    ASSUME StreamInv, NEW x \in Clients,
           ReadFirst(x) \/ Drop(x) \/ Reconnect(x) \/ Replay(x) \/ Check(x)
    PROVE  StreamInv'
<1>1. /\ log \in Nat /\ log <= MaxLog /\ MaxLog \in Nat
      /\ stream[x] \in Stream /\ session[x] \in Session
      /\ stream \in [Clients -> Stream] /\ session \in [Clients -> Session]
      /\ stream[x].delivered \in 0..log /\ stream[x].first \in 0..log
      /\ session[x].cursor \in 0..log /\ session[x].got \subseteq 1..log
  BY StreamAssumption DEF StreamInv, StreamTypeOK, Sequenced, Stream, Session
<1>2. ASSUME NEW mode \in Modes
      PROVE  LET t == [stream[x] EXCEPT !.mode = mode]
             IN  /\ t \in Stream /\ t.sub = stream[x].sub /\ t.delivered <= log
                 /\ t.first <= log /\ t.mode = mode
  BY <1>1 DEF Stream
<1>9. session[x] \in Session /\ session[x].cursor <= log /\ session[x].got \subseteq 1..log
  BY <1>1
<1>3. ASSUME ReadFirst(x) PROVE StreamInv'
  <2> DEFINE t == [stream[x] EXCEPT !.mode = "raw"]
             e == Dispatched(x, {stream[x].first})
  <2>1. t \in Stream /\ t.sub = stream[x].sub /\ t.delivered <= log /\ t.first <= log
        /\ t.mode = "raw"
    BY <1>2 DEF Modes
  <2>2. e \in Session /\ e.cursor <= log /\ e.got \subseteq 1..log
    BY <1>1, Dispatching
  <2>3. /\ stream[x].mode \in Attached /\ stream[x].sub # None
        /\ UNCHANGED <<managerVars, log, over, activity, hostOut, outbox>>
    BY <1>3 DEF ReadFirst, StreamInv, Owned, Attached
  <2>4. stream' = [stream EXCEPT ![x] = t] /\ session' = [session EXCEPT ![x] = e]
    BY <1>1, <1>3 DEF ReadFirst
  <2> HIDE DEF t, e
  <2>5. QED
    BY <2>1, <2>2, <2>3, <2>4, ResponseKeeps
<1>4. ASSUME Drop(x) PROVE StreamInv'
  <2> DEFINE t == [stream[x] EXCEPT !.mode = "gone"]
  <2>1. t \in Stream /\ t.sub = stream[x].sub /\ t.delivered <= log /\ t.first <= log
        /\ t.mode = "gone"
    BY <1>2 DEF Modes
  <2>2. t.mode \notin Attached \cup {"first"} /\ t.mode \notin {"first"} \cup Following
    BY <2>1 DEF Attached, Following
  <2>3. UNCHANGED <<managerVars, log, over, activity, hostOut, outbox>>
    BY <1>4 DEF Drop
  <2>4. stream' = [stream EXCEPT ![x] = t] /\ session' = [session EXCEPT ![x] = session[x]]
    BY <1>1, <1>4 DEF Drop
  <2> HIDE DEF t
  <2>5. QED
    BY <1>9, <2>1, <2>2, <2>3, <2>4, ResponseKeeps
<1>5. ASSUME Reconnect(x) PROVE StreamInv'
  <2> DEFINE e == [session[x] EXCEPT !.tries = session[x].tries + 1]
             t(s) == [mode |-> "replay", sub |-> s, delivered |-> session[x].cursor, first |-> 0]
  <2>1. e \in Session /\ e.cursor <= log /\ e.got \subseteq 1..log
    BY <1>1, <1>5, StreamAssumption DEF Session, Reconnect
  <2>2. session' = [session EXCEPT ![x] = e] /\ UNCHANGED <<log, over, activity, hostOut, outbox>>
    BY <1>1, <1>5 DEF Reconnect
  <2>3. ASSUME NEW s \in Readers \cup {None}
        PROVE  t(s) \in Stream /\ t(s).sub = s /\ t(s).delivered <= log /\ t(s).first <= log
               /\ t(s).mode \notin {"first"} \cup Following
    BY <1>1 DEF Stream, Modes, Following
  <2>4. \/ stream' = [stream EXCEPT ![x] = t(None)] /\ UNCHANGED managerVars
        \/ \E s \in Readers : /\ Subscribe(run, s) /\ UNCHANGED stopped
                              /\ stream' = [stream EXCEPT ![x] = t(s)]
    BY <1>5 DEF Reconnect
  <2> HIDE DEF t, e
  <2>5. ASSUME stream' = [stream EXCEPT ![x] = t(None)], UNCHANGED managerVars
        PROVE  StreamInv'
    BY <2>1, <2>2, <2>3, <2>5, ResponseKeeps
  <2>6. ASSUME NEW s \in Readers, Subscribe(run, s), UNCHANGED stopped,
               stream' = [stream EXCEPT ![x] = t(s)]
        PROVE  StreamInv'
    <3>1. Joins(run, s) /\ resting' = resting
      BY <2>6 DEF Subscribe, Joins
    <3>2. QED
      BY <2>1, <2>2, <2>3, <2>6, <3>1, AttachesKeep
  <2>7. QED
    BY <2>4, <2>5, <2>6
<1>6. ASSUME Replay(x) PROVE StreamInv'
  <2> DEFINE e == Dispatched(x, (stream[x].delivered + 1)..log)
  <2>1. e \in Session /\ e.cursor <= log /\ e.got \subseteq 1..log
    BY <1>1, Dispatching
  <2>2. PICK t \in Stream : /\ stream' = [stream EXCEPT ![x] = t]
                            /\ t.sub = stream[x].sub /\ t.mode = "check"
                            /\ t.delivered <= log /\ t.first <= log
    <3> DEFINE r == stream[x]
               t == [r EXCEPT !.mode = "check", !.delivered = log]
    <3>1. stream' = [stream EXCEPT ![x] = t]
      BY <1>1, <1>6 DEF Replay
    <3>2. r \in Stream /\ log \in 0..MaxLog /\ r.first <= log
      BY <1>1
    <3> HIDE DEF r
    <3>3. t \in Stream /\ t.sub = r.sub /\ t.mode = "check" /\ t.delivered = log
          /\ t.first = r.first
      BY <3>2 DEF Stream, Modes
    <3> HIDE DEF t
    <3>4. t.delivered <= log /\ t.first <= log
      BY <1>1, <3>2, <3>3
    <3>5. QED
      BY <3>1, <3>3, <3>4 DEF r
  <2>3. /\ stream[x].mode \in Attached /\ t.mode \notin {"first"} \cup Following
        /\ UNCHANGED <<managerVars, log, over, activity, hostOut, outbox>>
        /\ session' = [session EXCEPT ![x] = e]
    BY <1>6, <2>2 DEF Replay, Attached, Following
  <2> HIDE DEF e
  <2>4. QED
    BY <2>1, <2>2, <2>3, ResponseKeeps
<1>7. ASSUME Check(x) PROVE StreamInv'
  <2>1. stream[x].mode \in Attached /\ UNCHANGED <<log, over, activity, hostOut, outbox>>
    BY <1>7 DEF Check, Attached
  <2>2. CASE Active /\ stream[x].sub # None
    <3> DEFINE t == [stream[x] EXCEPT !.mode = "tail"]
    <3>1. t \in Stream /\ t.sub = stream[x].sub /\ t.delivered <= log /\ t.first <= log
          /\ t.mode = "tail"
      BY <1>2 DEF Modes
    <3>2. /\ stream' = [stream EXCEPT ![x] = t] /\ session' = [session EXCEPT ![x] = session[x]]
          /\ UNCHANGED managerVars
      BY <1>1, <1>7, <2>2 DEF Check
    <3> HIDE DEF t
    <3>3. QED
      BY <1>9, <2>1, <2>2, <3>1, <3>2, ResponseKeeps
  <2>3. CASE ~(Active /\ stream[x].sub # None)
    <3> DEFINE t == [stream[x] EXCEPT !.mode = "ended"]
    <3>1. t \in Stream /\ t.sub = stream[x].sub /\ t.delivered <= log /\ t.first <= log
          /\ t.mode = "ended"
      BY <1>2 DEF Modes
    <3>2. t.mode \notin Attached \cup {"first"} \cup Following
      BY <3>1 DEF Attached, Following
    <3>3. /\ stream' = [stream EXCEPT ![x] = t]
          /\ \/ stream[x].sub # None /\ Close(stream[x].sub) /\ UNCHANGED stopped
             \/ UNCHANGED managerVars
      BY <1>1, <1>7, <2>3 DEF Check
    <3>4. PICK e \in Session : /\ session' = [session EXCEPT ![x] = e]
                               /\ e.cursor <= log /\ e.got \subseteq 1..log
      <4>1. \/ session' = [session EXCEPT ![x] = session[x]]
            \/ session' = [session EXCEPT ![x] = DispatchedDone(x, stream[x].delivered)]
        BY <1>1, <1>7, <2>3 DEF Check
      <4>2. LET e == DispatchedDone(x, stream[x].delivered)
            IN  e \in Session /\ e.cursor <= log /\ e.got \subseteq 1..log
        BY <1>1, DispatchingDone
      <4>3. QED
        BY <1>1, <4>1, <4>2
    <3> HIDE DEF t
    <3>5. CASE UNCHANGED managerVars
      BY <2>1, <3>1, <3>2, <3>3, <3>4, <3>5, ResponseKeeps
    <3>6. CASE stream[x].sub # None /\ Close(stream[x].sub) /\ UNCHANGED stopped
      BY <2>1, <3>1, <3>2, <3>3, <3>4, <3>6, ReadsKeep
    <3>7. QED
      BY <3>3, <3>5, <3>6
  <2>4. QED
    BY <2>2, <2>3
<1>8. QED
  BY <1>3, <1>4, <1>5, <1>6, <1>7

LEMMA ClosesKeep ==
    ASSUME StreamInv, NEW s \in Readers, CloseReader(s)
    PROVE  StreamInv'
<1>1. /\ Close(s) /\ UNCHANGED <<stopped, log, over, activity, hostOut, outbox, stream, session>>
      /\ \A x \in Clients : stream[x].sub = s => stream[x].mode \notin Attached
  BY DEF CloseReader
<1>2. /\ UNCHANGED <<hostVars, entryOf, resting, conversationRuns>>
      /\ closed' = closed \cup {s} /\ queue' = [queue EXCEPT ![s] = <<>>]
  BY <1>1 DEF Close
<1>3. RegistryStep
  BY <1>1, <1>2 DEF RegistryStep, Aside, StreamInv, StreamTypeOK, ManagerTypeOK
<1>4. RegistryInv' /\ ManagerTypeOK'
  BY <1>3, RegistryStepKeeps DEF StreamInv, RegistryInv
<1>5. \A r \in Readers : Within(queue'[r], log)
  <2>1. log \in Nat
    BY StreamAssumption DEF StreamInv, StreamTypeOK
  <2>2. QED
    BY <1>2, <2>1, QueuesWithin DEF StreamInv, Sequenced
<1>6. StreamTypeOK' /\ Sequenced'
  BY <1>1, <1>4, <1>5 DEF StreamInv, StreamTypeOK, Sequenced
<1>7. OneRun'
  BY <1>1, <1>2 DEF StreamInv, OneRun, Started, hostVars
<1>8. Owned'
  <2>1. ASSUME NEW x \in Clients, stream[x].mode \in Attached, stream[x].sub # None
        PROVE  stream[x].sub \notin closed'
    BY <1>1, <1>2, <2>1 DEF StreamInv, Owned, Open
  <2>2. QED
    BY <1>1, <1>2, <2>1 DEF StreamInv, Owned, Open
<1>9. QED
  BY <1>4, <1>6, <1>7, <1>8 DEF StreamInv

LEMMA StreamBegins == StreamInit => StreamInv
<1> SUFFICES ASSUME StreamInit PROVE StreamInv
  OBVIOUS
<1>1. RegistryInv
  BY RegistryBegins DEF StreamInit
<1>2. StreamTypeOK
  <2>1. MaxLog \in Nat /\ MaxTries \in Nat /\ 0 \in 0..MaxLog /\ 0 \in 0..MaxTries
    BY StreamAssumption
  <2>2. [mode |-> "idle", sub |-> None, delivered |-> 0, first |-> 0] \in Stream
    BY <2>1 DEF Stream, Modes
  <2>3. [base |-> 0, cursor |-> 0, got |-> {}, tries |-> 0] \in Session
    BY <2>1 DEF Session
  <2>4. /\ log = 0 /\ log \in 0..MaxLog /\ outbox = {}
        /\ activity \in [Hosts -> {"running", "parked", "leaving"}]
        /\ hostOut \in [Hosts -> Seq(Item)]
    BY <2>1 DEF StreamInit
  <2>5. stream \in [Clients -> Stream]
    BY <2>2 DEF StreamInit
  <2>6. /\ session \in [Clients -> Session]
        /\ \A x \in Clients : session[x].cursor <= log /\ session[x].got \subseteq 1..log
    BY <2>3, <2>4 DEF StreamInit
  <2>7. over \in BOOLEAN
    BY DEF StreamInit
  <2>8. QED
    BY <1>1, <2>4, <2>5, <2>6, <2>7 DEF StreamTypeOK, RegistryInv
<1>3. Sequenced
  <2>1. log = 0 /\ \A s \in Readers : queue[s] = <<>>
    BY DEF StreamInit, ManagerInit
  <2>2. Within(<<>>, 0)
    BY DEF Within
  <2>3. QED
    BY <2>1, <2>2 DEF StreamInit, Sequenced
<1>4. OneRun
  BY DEF StreamInit, ManagerInit, OneRun, Started
<1>5. Owned
  BY DEF StreamInit, Owned, Following, Attached
<1>6. QED
  BY <1>1, <1>2, <1>3, <1>4, <1>5 DEF StreamInv

LEMMA StreamStepKeeps ==
    ASSUME StreamInv, [StreamNext]_streamVars
    PROVE  StreamInv'
<1>1. CASE UNCHANGED streamVars
  BY <1>1 DEF streamVars, managerVars, StreamInv, RegistryInv, ManagerTypeOK, Fed, Followed,
              Registered, HasRun, NoHang, RegistryDrains, StreamTypeOK, Sequenced, OneRun, Owned,
              Open, Started
<1>2. CASE StreamNext
  BY <1>2, HostCommitsKeep, HandlerCommitsKeep, YieldsKeep, ReturnsKeep, PublishesKeep,
     RequestsKeep, ForwardsKeep, ResponsesKeep, ClosesKeep DEF StreamNext
<1>3. QED
  BY <1>1, <1>2

(* Hosts, handlers and clients keep the log, the queues and the cursors in   *)
(* step: nothing that travels to a client, and no client's cursor, is ahead  *)
(* of the log, and a response never shares its reader or loses it unasked.   *)
THEOREM StreamsAgree == StreamSpec => []StreamInv
BY StreamBegins, StreamStepKeeps, PTL DEF StreamSpec

(* The registry keeps its promise to readers here as well.                   *)
THEOREM WatchersAreServed == StreamSpec => []RegistryKept
<1>1. StreamInv => RegistryKept
  BY DEF StreamInv, RegistryInv, RegistryKept
<1>2. QED
  BY <1>1, StreamsAgree, PTL
-----------------------------------------------------------------------------
(* A pause that no host announces is published by its handler, and the one a *)
(* host asks for is yielded: until then a host that is parked has its done   *)
(* on the way to every reader.                                               *)
Ends(q) == \E i \in 1..Len(q) : q[i].kind \in {"done", "end", "overflow"}

Announced(h) == Ends(hostOut[h]) \/ \E items \in outbox : Ends(items)

Waits(x, s, h) ==
    /\ stream[x].mode \in {"first"} \cup Following /\ stream[x].sub = s
    /\ entryOf[s] = h /\ h \notin finished
    /\ resting # {} /\ activity[h] = "parked"

Telling ==
    \A x \in Clients, s \in Readers, h \in Hosts :
        Waits(x, s, h) => Ends(queue[s]) \/ Announced(h)

LEMMA EndsAppended ==
    ASSUME NEW q \in Seq(Item), NEW items \in Seq(Item)
    PROVE  /\ Ends(q) => Ends(q \o items)
           /\ Ends(items) => Ends(q \o items)
<1>1. Ends(q) => Ends(q \o items)
  BY DEF Ends
<1>2. Ends(items) => Ends(q \o items)
  <2>1. ASSUME NEW i \in 1..Len(items), items[i].kind \in {"done", "end", "overflow"}
        PROVE  Ends(q \o items)
    BY <2>1, Len(q) + i \in 1..Len(q \o items), (q \o items)[Len(q) + i] = items[i] DEF Ends
  <2>2. QED
    BY <2>1 DEF Ends
<1>3. QED
  BY <1>1, <1>2

LEMMA EndsTail ==
    ASSUME NEW q \in Seq(Item), q # <<>>, Ends(q)
    PROVE  Ends(<<Head(q)>>) \/ Ends(Tail(q))
<1>1. PICK i \in 1..Len(q) : q[i].kind \in {"done", "end", "overflow"}
  BY DEF Ends
<1>2. CASE i = 1
  BY <1>1, <1>2 DEF Ends
<1>3. CASE i # 1
  <2>1. i - 1 \in 1..Len(Tail(q)) /\ Tail(q)[i - 1] = q[i]
    BY <1>1, <1>3
  <2>2. QED
    BY <1>1, <2>1 DEF Ends
<1>4. QED
  BY <1>2, <1>3

LEMMA AskedEnds ==
    ASSUME NEW n \in Nat
    PROVE  Ends(<<Event(n), Done(n)>>) /\ <<Event(n), Done(n)>> \in Seq(Item)
<1>1. Done(n).kind = "done" /\ {Event(n), Done(n)} \subseteq Item
  BY DEF Event, Done, Item, Kinds
<1>2. QED
  BY <1>1 DEF Ends

LEMMA EndsStay ==
    ASSUME RegistryInv, NEW items \in Seq(Item), NEW g \in Hosts,
           queue' = Offered(subscribers[g], items), NEW s \in Readers
    PROVE  /\ Ends(queue[s]) => Ends(queue'[s])
           /\ Open(s) /\ entryOf[s] = g /\ Ends(items) => Ends(queue'[s])
<1>1. queue[s] \in Seq(Item)
  BY DEF RegistryInv, ManagerTypeOK
<1>2. Ends(queue[s]) => Ends(queue[s] \o items)
  BY <1>1, EndsAppended
<1>3. Ends(items) => Ends(queue[s] \o items)
  BY <1>1, EndsAppended
<1>4. Ends(<<Overflow>>)
  BY DEF Ends, Overflow
<1>5. Ends(queue[s]) => Ends(queue'[s])
  BY <1>2, <1>4 DEF Offered
<1>6. s \in subscribers[g] /\ Ends(items) => Ends(queue'[s])
  BY <1>3, <1>4 DEF Offered
<1>7. Open(s) /\ entryOf[s] = g /\ s \notin subscribers[g] => Ends(queue[s])
  BY DEF RegistryInv, NoHang, Ends, Sentinels, End, Overflow
<1>8. QED
  BY <1>5, <1>6, <1>7

\* With one run, the host that lives is the registered one.
LEMMA TheHost ==
    ASSUME StreamInv, FoundInv, NEW h \in LiveHosts
    PROVE  runs[run] = h
BY DEF StreamInv, OneRun, FoundInv, HostReachable, LiveHosts

LEMMA TellingKeeps ==
    ASSUME StreamInv, StreamInv', FoundInv, Telling, [StreamNext]_streamVars
    PROVE  Telling'
<1> SUFFICES ASSUME NEW x \in Clients, NEW s \in Readers, NEW h \in Hosts, Waits(x, s, h)'
             PROVE  Ends(queue'[s]) \/ Announced(h)'
  BY DEF Telling
<1>1. /\ stream'[x].mode \in {"first"} \cup Following /\ stream'[x].sub = s
      /\ entryOf'[s] = h /\ h \notin finished'
      /\ resting' # {} /\ activity'[h] = "parked"
  BY DEF Waits
<1>2. /\ RegistryInv /\ stream \in [Clients -> Stream]
      /\ activity \in [Hosts -> {"running", "parked", "leaving"}]
      /\ hostOut \in [Hosts -> Seq(Item)]
      /\ entryOf \in [Readers -> Hosts \cup {None}]
      /\ h # None /\ s # None
  BY ManagerAssumption DEF StreamInv, StreamTypeOK, ManagerTypeOK
\* A host that is waited for lives, and it is the only one.
<1>a. h \in Started'
  BY <1>1, <1>2 DEF StreamInv, RegistryInv, Followed
<1>b. ASSUME NEW g \in LiveHosts, UNCHANGED started, finished \subseteq finished'
      PROVE  g = h
  <2>1. h \in LiveHosts
    BY <1>1, <1>a, <1>b DEF LiveHosts, Started
  <2>2. QED
    BY <2>1, TheHost
<1>3. ASSUME Waits(x, s, h), Ends(queue[s]) => Ends(queue'[s]),
             hostOut' = hostOut, outbox \subseteq outbox'
      PROVE  Ends(queue'[s]) \/ Announced(h)'
  BY <1>3 DEF Telling, Announced
<1>4. ASSUME NEW g \in Hosts,
             HostCommits(g) \/ HostFinishes(g) \/ HostFails(g) \/ Cancel
      PROVE  FALSE
  BY <1>1, <1>4 DEF HostCommits, HostFinishes, HostFails, Cancel, Active, managerVars
<1>5. ASSUME NEW g \in Hosts, HostAsks(g) PROVE Ends(queue'[s]) \/ Announced(h)'
  <2>1. g = h
    BY <1>5, <1>b DEF HostAsks, Here, hostVars
  <2>2. hostOut'[h] = hostOut[h] \o <<Event(log'), Done(log')>>
    BY <1>2, <1>5, <2>1 DEF HostAsks
  <2>3. log' \in Nat
    BY StreamAssumption DEF StreamInv, StreamTypeOK
  <2>4. Ends(<<Event(log'), Done(log')>>) /\ <<Event(log'), Done(log')>> \in Seq(Item)
    BY <2>3, AskedEnds
  <2>5. Ends(hostOut'[h])
    BY <1>2, <2>2, <2>4, EndsAppended
  <2>6. QED
    BY <2>5 DEF Announced
<1>6. ASSUME NEW g \in Hosts, HostYieldsNext(g) PROVE Ends(queue'[s]) \/ Announced(h)'
  <2> DEFINE item == Head(hostOut[h])
  <2>1. /\ UNCHANGED <<started, hostRun, finished, entryOf, closed, resting, activity, outbox,
                         stream>>
        /\ g \in LiveHosts
    BY <1>6 DEF HostYieldsNext, HostYields, hostVars
  <2>2. g = h
    BY <1>b, <2>1
  <2>3. /\ hostOut[h] # <<>> /\ hostOut' = [hostOut EXCEPT ![h] = Tail(@)]
        /\ queue' = Offered(subscribers[h], <<item>>)
    BY <1>6, <2>2 DEF HostYieldsNext, HostYields, Broadcast
  <2>4. Waits(x, s, h) /\ Open(s)
    BY <1>1, <1>2, <2>1 DEF Waits, StreamInv, Owned, Attached
  <2>5. item \in Item /\ <<item>> \in Seq(Item)
    BY <1>2, <2>3
  <2>6. Ends(hostOut[h]) => Ends(<<item>>) \/ Ends(hostOut'[h])
    <3>1. hostOut[h] \in Seq(Item) /\ hostOut'[h] = Tail(hostOut[h])
      BY <1>2, <2>3
    <3>2. QED
      BY <2>3, <3>1, EndsTail
  <2> HIDE DEF item
  <2>7. /\ Ends(queue[s]) => Ends(queue'[s])
        /\ Ends(<<item>>) => Ends(queue'[s])
    BY <1>1, <1>2, <2>1, <2>3, <2>4, <2>5, EndsStay
  <2>8. QED
    BY <2>1, <2>4, <2>6, <2>7 DEF Telling, Announced
<1>7. ASSUME NEW g \in Hosts, HostReturns(g) PROVE Ends(queue'[s]) \/ Announced(h)'
  <2>1. g \in LiveHosts /\ UNCHANGED started /\ finished' = finished \cup {g}
    BY <1>7 DEF HostReturns, HostEnds
  <2>2. g = h
    BY <1>b, <2>1
  <2>3. QED
    BY <1>1, <2>1, <2>2
<1>8. CASE Pause \/ Revise
  <2>1. CASE Pause
    <3>1. log' \in Nat /\ <<Event(log'), Done(log')>> \in outbox'
      BY <2>1, StreamAssumption DEF Pause, StreamInv, StreamTypeOK
    <3>2. QED
      BY <3>1, AskedEnds DEF Announced
  <2>2. CASE Revise
    BY <1>1, <1>3, <2>2 DEF Revise, managerVars, Waits
  <2>3. QED
    BY <1>8, <2>1, <2>2
<1>9. CASE HandlerPublishes
  <2>1. PICK items \in outbox :
          /\ outbox' = outbox \ {items}
          /\ IF runs[run] = None THEN UNCHANGED managerVars
             ELSE Publish(run, items) /\ UNCHANGED stopped
          /\ UNCHANGED <<log, over, activity, hostOut, stream, session>>
    BY <1>9 DEF HandlerPublishes
  <2>2. UNCHANGED <<started, hostRun, finished, entryOf, closed, resting>>
    BY <2>1 DEF managerVars, Publish, hostVars
  <2>3. Waits(x, s, h) /\ Open(s)
    BY <1>1, <1>2, <2>1, <2>2 DEF Waits, StreamInv, Owned, Attached
  <2>4. runs[run] = h
    BY <1>1, <1>a, <2>2, TheHost DEF LiveHosts, Started
  <2>5. queue' = Offered(subscribers[h], items) /\ items \in Seq(Item)
    BY <1>2, <2>1, <2>4 DEF Publish, Broadcast, StreamInv, StreamTypeOK
  <2>6. /\ Ends(queue[s]) => Ends(queue'[s])
        /\ Ends(items) => Ends(queue'[s])
    BY <1>1, <1>2, <2>2, <2>3, <2>5, EndsStay
  <2>7. QED
    BY <2>1, <2>3, <2>6 DEF Telling, Announced
<1>10. ASSUME NEW y \in Clients, Resume(y) \/ ResumeFails(y) \/ ReadFirst(y) \/ Drop(y) \/ Replay(y)
       PROVE  Ends(queue'[s]) \/ Announced(h)'
  <2>1. CASE Resume(y)
    BY <1>1, <2>1 DEF Resume
  <2>2. CASE ResumeFails(y) \/ ReadFirst(y) \/ Drop(y) \/ Replay(y)
    <3>1. /\ UNCHANGED <<managerVars, activity, hostOut, outbox>>
          /\ \A z \in Clients : z # y => stream'[z] = stream[z]
          /\ stream'[y].sub = stream[y].sub
          /\ \/ stream'[y].mode \in {"ended", "gone", "check"}
             \/ stream'[y].mode = "raw" /\ stream[y].mode = "first"
      <4>1. CASE Replay(y)
        BY <1>2, <4>1 DEF Replay, Stream
      <4>2. CASE ~Replay(y)
        BY <1>2, <2>2, <4>2 DEF ResumeFails, ReadFirst, Drop, Stream
      <4>3. QED
        BY <4>1, <4>2
    <3>2. Waits(x, s, h)
      <4>1. CASE x = y
        BY <1>1, <3>1, <4>1 DEF Waits, managerVars, Following
      <4>2. CASE x # y
        BY <1>1, <3>1, <4>2 DEF Waits, managerVars
      <4>3. QED
        BY <4>1, <4>2
    <3>3. QED
      BY <1>3, <3>1, <3>2 DEF managerVars
  <2>3. QED
    BY <1>10, <2>1, <2>2
<1>11. ASSUME NEW y \in Clients, ReadNext(y) PROVE Ends(queue'[s]) \/ Announced(h)'
  <2> DEFINE r == stream[y].sub
  <2>1. /\ Read(r) /\ UNCHANGED <<activity, hostOut, outbox, hostVars, entryOf, resting>>
        /\ r \in Readers /\ r # None
    BY <1>2, <1>11 DEF ReadNext, Read, Close, StreamInv, Owned, Stream
  <2>2. queue \in [Readers -> Seq(Item)]
    BY <1>2 DEF RegistryInv, ManagerTypeOK
  <2>3. CASE x = y
    <3>1. \/ stream'[x].mode = stream[x].mode /\ stream'[x].sub = stream[x].sub
             /\ Head(queue[r]).kind = "event"
          \/ stream'[x].mode \in {"ended", "gone"}
      BY <1>2, <1>11, <2>3 DEF ReadNext, Stream
    <3>2. /\ stream'[x].mode = stream[x].mode /\ stream[x].sub = s /\ r = s
          /\ Head(queue[s]).kind = "event"
      BY <1>1, <2>3, <3>1 DEF Following
    <3>3. queue[s] # <<>> /\ queue'[s] = Tail(queue[s])
      BY <2>1, <2>2, <3>2 DEF Read
    <3> HIDE DEF r
    <3>4. Ends(queue[s]) => Ends(queue'[s])
      <4>1. Ends(queue[s]) => Ends(<<Head(queue[s])>>) \/ Ends(Tail(queue[s]))
        BY <2>2, <3>3, EndsTail
      <4>2. ~Ends(<<Head(queue[s])>>)
        BY <3>2 DEF Ends
      <4>3. QED
        BY <3>3, <4>1, <4>2
    <3>5. Waits(x, s, h)
      BY <1>1, <2>1, <3>2 DEF Waits, hostVars
    <3>6. QED
      BY <1>3, <2>1, <3>4, <3>5
  <2>4. CASE x # y
    <3>1. stream'[x] = stream[x]
      BY <1>2, <1>11, <2>4 DEF ReadNext
    <3>2. s # r
      BY <1>1, <1>2, <2>1, <2>4, <3>1 DEF StreamInv, Owned
    <3>3. queue'[s] = queue[s]
      BY <2>1, <2>2, <3>2 DEF Read, Close
    <3>4. Waits(x, s, h)
      BY <1>1, <2>1, <3>1 DEF Waits, hostVars
    <3>5. QED
      BY <1>3, <2>1, <3>3, <3>4
  <2>5. QED
    BY <2>3, <2>4
<1>12. ASSUME NEW y \in Clients, Check(y) PROVE Ends(queue'[s]) \/ Announced(h)'
  <2> DEFINE r == stream[y].sub
  <2>1. /\ UNCHANGED <<activity, hostOut, outbox, hostVars, entryOf, resting>>
        /\ queue' = queue \/ (r # None /\ queue' = [queue EXCEPT ![r] = <<>>])
    BY <1>12 DEF Check, Close, managerVars, hostVars
  <2>2. stream' = [stream EXCEPT ![y].mode = "ended"]
    BY <1>1, <1>12, <2>1 DEF Check, Active
  <2>3. x # y
    BY <1>1, <1>2, <2>2 DEF Following, Stream
  <2>4. stream'[x] = stream[x] /\ stream[x].sub = s
    BY <1>1, <1>2, <2>2, <2>3
  <2>5. s # r
    BY <1>2, <2>3, <2>4 DEF StreamInv, Owned
  <2>6. queue'[s] = queue[s]
    BY <1>2, <2>1, <2>5 DEF RegistryInv, ManagerTypeOK
  <2>7. Waits(x, s, h)
    BY <1>1, <2>1, <2>4 DEF Waits, hostVars
  <2>8. QED
    BY <1>3, <2>1, <2>6, <2>7
<1>13. ASSUME NEW y \in Clients, NEW r \in Readers, ResumeAttaches(y, r) \/ Chat(y, r)
       PROVE  Ends(queue'[s]) \/ Announced(h)'
  <2>1. /\ UNCHANGED <<hostOut, outbox, queue, resting, finished>>
        /\ entryOf[r] = None /\ entryOf' = [entryOf EXCEPT ![r] = entryOf'[r]]
        /\ \A z \in Clients : z # y => stream'[z] = stream[z]
        /\ stream'[y].sub = r
    BY <1>2, <1>13
       DEF ResumeAttaches, Subscribe, Chat, Begin, Start, Attach, hostVars, Stream
  <2>2. activity'[h] = activity[h]
    BY <1>1, <1>2, <1>13 DEF ResumeAttaches, Chat
  <2>3. x # y
    <3>1. ASSUME x = y PROVE activity'[h] # "parked"
      <4>1. s = r
        BY <1>1, <2>1, <3>1
      <4>2. CASE Start(run, r)
        <5>1. h = started + 1 /\ h \notin Started
          BY <1>1, <1>2, <4>1, <4>2, HostsCount DEF Start, Attach, RegistryInv
        <5>2. QED
          BY <2>2, <5>1 DEF StreamInv, OneRun
      <4>3. CASE ~Start(run, r)
        BY <1>1, <1>2, <1>13, <4>1, <4>3
           DEF ResumeAttaches, Subscribe, Attach, Chat, Begin
      <4>4. QED
        BY <4>2, <4>3
    <3>2. QED
      BY <1>1, <3>1
  <2>4. stream'[x] = stream[x] /\ stream[x].sub = s
    BY <1>1, <2>1, <2>3
  <2>5. entryOf[s] = h
    BY <1>1, <1>2, <2>1, <2>4 DEF StreamInv, Owned
  <2>6. Waits(x, s, h)
    BY <1>1, <2>1, <2>2, <2>4, <2>5 DEF Waits
  <2>7. QED
    BY <1>3, <2>1, <2>6
<1>14. ASSUME NEW y \in Clients, Reconnect(y) PROVE Ends(queue'[s]) \/ Announced(h)'
  <2>1. /\ UNCHANGED <<activity, hostOut, outbox, queue, resting, finished>>
        /\ \A q \in Readers : entryOf[q] # None => entryOf'[q] = entryOf[q]
    BY <1>2, <1>14 DEF Reconnect, Subscribe, Attach, managerVars, hostVars
  <2>2. /\ \A z \in Clients : z # y => stream'[z] = stream[z]
        /\ stream'[y].mode = "replay"
    BY <1>2, <1>14 DEF Reconnect
  <2>3. stream'[x] = stream[x] /\ stream[x].sub = s
    BY <1>1, <2>2 DEF Following
  <2>4. entryOf[s] = h
    BY <1>1, <1>2, <2>1, <2>3 DEF StreamInv, Owned
  <2>5. QED
    BY <1>1, <1>3, <2>1, <2>3, <2>4 DEF Waits
<1>15. ASSUME NEW r \in Readers, CloseReader(r) PROVE Ends(queue'[s]) \/ Announced(h)'
  <2>1. /\ UNCHANGED <<activity, hostOut, outbox, hostVars, entryOf, resting, stream>>
        /\ queue' = [queue EXCEPT ![r] = <<>>]
    BY <1>15 DEF CloseReader, Close
  <2>2. Waits(x, s, h) /\ s # r
    BY <1>1, <1>15, <2>1 DEF Waits, CloseReader, Attached, hostVars
  <2>3. queue'[s] = queue[s]
    BY <1>2, <2>1, <2>2 DEF RegistryInv, ManagerTypeOK
  <2>4. QED
    BY <1>3, <2>1, <2>2, <2>3
<1>16. CASE UNCHANGED streamVars
  BY <1>1, <1>3, <1>16 DEF streamVars, managerVars, Waits
<1>17. QED
  BY <1>4, <1>5, <1>6, <1>7, <1>8, <1>9, <1>10, <1>11, <1>12, <1>13, <1>14, <1>15, <1>16
     DEF StreamNext
-----------------------------------------------------------------------------
\* Every step of the stream is one of the registry.
LEMMA StreamSteps ==
    ASSUME StreamInv, [StreamNext]_streamVars
    PROVE  RegistryStep
<1> USE DEF Aside
<1>1. resting \in SUBSET Runs /\ run \in Runs /\ hostOut \in [Hosts -> Seq(Item)]
  BY TheRun DEF StreamInv, StreamTypeOK, ManagerTypeOK
<1>2. ASSUME UNCHANGED <<registryVars, hostVars, readerVars, stopped>>,
             resting' \in {resting, {run}, {}}
      PROVE  RegistryStep
  BY <1>1, <1>2 DEF RegistryStep
<1>3. ASSUME UNCHANGED managerVars PROVE RegistryStep
  BY <1>2, <1>3 DEF managerVars, registryVars, hostVars, readerVars
<1>4. ASSUME NEW h \in Hosts,
             HostCommits(h) \/ HostAsks(h) \/ HostFinishes(h) \/ HostFails(h)
      PROVE  RegistryStep
  BY <1>2, <1>3, <1>4 DEF HostCommits, HostAsks, HostFinishes, HostFails, managerVars,
                          registryVars, hostVars, readerVars
<1>5. ASSUME NEW h \in Hosts, HostYieldsNext(h) PROVE RegistryStep
  <2>1. /\ <<Head(hostOut[h])>> \in Seq(Item) /\ Len(<<Head(hostOut[h])>>) > 0
        /\ Tells(h, <<Head(hostOut[h])>>) /\ UNCHANGED <<resting, stopped>>
    BY <1>1, <1>5 DEF HostYieldsNext, HostYields, Tells
  <2>2. QED
    BY <1>1, <2>1 DEF RegistryStep
<1>6. ASSUME NEW h \in Hosts, HostReturns(h) PROVE RegistryStep
  <2>1. PICK items \in {<<End>>, <<Error, End>>} :
            HostEnds(h, items) /\ UNCHANGED <<resting, stopped>>
    BY <1>6 DEF HostReturns, HostEnds
  <2>2. items \in Seq(Item) /\ Len(items) > 0 /\ Told(items)
    BY Items
  <2>3. QED
    BY <1>1, <2>1, <2>2 DEF RegistryStep
<1>7. ASSUME Pause \/ Revise \/ Cancel PROVE RegistryStep
  BY <1>2, <1>3, <1>7 DEF Pause, Revise, Cancel
<1>8. ASSUME HandlerPublishes PROVE RegistryStep
  <2>1. PICK items \in outbox :
          IF runs[run] = None THEN UNCHANGED managerVars
          ELSE Publish(run, items) /\ UNCHANGED stopped
    BY <1>8 DEF HandlerPublishes
  <2>2. CASE runs[run] = None
    BY <1>3, <2>1, <2>2
  <2>3. CASE runs[run] # None
    <3>1. /\ runs[run] \in Hosts /\ items \in Seq(Item) /\ Len(items) > 0
          /\ Tells(runs[run], items) /\ UNCHANGED <<resting, stopped>>
      BY <1>1, <2>1, <2>3
         DEF Publish, Tells, StreamInv, StreamTypeOK, Sequenced, ManagerTypeOK
    <3>2. QED
      BY <1>1, <3>1 DEF RegistryStep
  <2>4. QED
    BY <2>2, <2>3
<1>9. ASSUME NEW x \in Clients, Resume(x) PROVE RegistryStep
  BY <1>2, <1>9 DEF Resume
<1>10. ASSUME NEW x \in Clients, ResumeFails(x) \/ ReadFirst(x) \/ Drop(x) \/ Replay(x)
       PROVE  RegistryStep
  BY <1>3, <1>10 DEF ResumeFails, ReadFirst, Drop, Replay
<1>11. ASSUME NEW r \in Readers, Subscribe(run, r) \/ Start(run, r), UNCHANGED <<resting,
                                                                                 stopped>>
       PROVE  RegistryStep
  BY <1>1, <1>11 DEF RegistryStep, Subscribe, Joins
<1>12. ASSUME NEW x \in Clients, NEW r \in Readers, ResumeAttaches(x, r) \/ Chat(x, r)
       PROVE  RegistryStep
  BY <1>11, <1>12 DEF ResumeAttaches, Chat, Begin, Subscribe
<1>13. ASSUME NEW x \in Clients, Reconnect(x) PROVE RegistryStep
  BY <1>3, <1>11, <1>13 DEF Reconnect, Subscribe
<1>14. ASSUME NEW r \in Readers, Close(r) \/ Read(r), UNCHANGED stopped
       PROVE  RegistryStep
  BY <1>1, <1>14 DEF RegistryStep, Close, Read
<1>15. ASSUME NEW x \in Clients, ReadNext(x) \/ Check(x) PROVE RegistryStep
  <2>1. stream[x].sub # None => stream[x].sub \in Readers
    BY DEF StreamInv, StreamTypeOK, Stream
  <2>2. ReadNext(x) => stream[x].sub # None
    BY DEF ReadNext, StreamInv, Owned
  <2>3. QED
    BY <1>3, <1>14, <1>15, <2>1, <2>2 DEF ReadNext, Check
<1>16. ASSUME NEW r \in Readers, CloseReader(r) PROVE RegistryStep
  BY <1>14, <1>16 DEF CloseReader
<1>17. CASE UNCHANGED streamVars
  BY <1>3, <1>17 DEF streamVars
<1>18. QED
  BY <1>4, <1>5, <1>6, <1>7, <1>8, <1>9, <1>10, <1>12, <1>13, <1>15, <1>16, <1>17
     DEF StreamNext

\* Until the next host starts, those who lagged have closed: then nobody is forgotten.
LEMMA TellingIsKept == StreamSpec /\ []EvictedHaveClosed => [](FoundInv /\ Telling)
<1>1. StreamInit => FoundInv /\ Telling
  <2>1. ASSUME StreamInit PROVE FoundInv
    BY <2>1 DEF StreamInit, ManagerInit, FoundInv, Lingering, HostReachable, LiveHosts, Started
  <2>2. ASSUME StreamInit PROVE Telling
    BY <2>2 DEF StreamInit, Telling, Waits, Following
  <2>3. QED
    BY <2>1, <2>2
<1>2. /\ StreamInv /\ StreamInv' /\ FoundInv /\ Telling /\ EvictedHaveClosed
      /\ [StreamNext]_streamVars
      => (FoundInv /\ Telling)'
  <2>1. ASSUME StreamInv, FoundInv, EvictedHaveClosed, [StreamNext]_streamVars
        PROVE  FoundInv'
    <3>1. RegistryStep
      BY <2>1, StreamSteps
    <3>2. RegistryInv
      BY <2>1 DEF StreamInv
    <3>3. QED
      BY <2>1, <3>1, <3>2, FoundKeeps
  <2>2. QED
    BY <2>1, TellingKeeps
<1>3. QED
  BY <1>1, <1>2, StreamsAgree, PTL DEF StreamSpec

(* A client is not left watching a task that came to rest or ended (pause,   *)
(* cancel and the boundaries of the host against subscribe and the status    *)
(* read of _replay_and_subscribe), as long as readers that fall behind have  *)
(* closed when another host starts: one that has not would unregister that   *)
(* host with its _close, and a pause would be published to nobody.           *)
THEOREM NobodyWatchesAtRest == StreamSpec /\ []EvictedHaveClosed => []RestTold
<1>1. StreamInv /\ Telling => RestTold
  <2> SUFFICES ASSUME StreamInv, Telling, NEW x \in Clients, NEW s, s = stream[x].sub,
                      stream[x].mode \in Following, ~Active, outbox = {},
                      hostOut[entryOf[s]] = <<>>,
                      \/ entryOf[s] \in finished
                      \/ resting # {} /\ activity[entryOf[s]] = "parked"
               PROVE  Ends(queue[s])
    BY DEF RestTold, Ends
  <2>1. s \in Readers /\ Open(s) /\ entryOf[s] \in Hosts
    BY DEF StreamInv, StreamTypeOK, ManagerTypeOK, Owned, Attached, Stream, Open
  <2>2. CASE entryOf[s] \in finished
    BY <2>1, <2>2 DEF StreamInv, RegistryInv, NoHang, Ends, Sentinels, End, Overflow
  <2>3. CASE entryOf[s] \notin finished
    <3>1. ~Announced(entryOf[s])
      BY DEF Announced, Ends
    <3>2. Waits(x, s, entryOf[s])
      BY <2>3 DEF Waits
    <3>3. QED
      BY <2>1, <3>1, <3>2 DEF Telling
  <2>4. QED
    BY <2>2, <2>3
<1>2. QED
  BY <1>1, StreamsAgree, TellingIsKept, PTL
-----------------------------------------------------------------------------
(* A client that reconnects while no command changes the log: what it has    *)
(* not read yet goes on from its cursor, or from before it, without a gap.   *)
FollowsOn(q, n) ==
    \A i \in 1..Len(q) :
        /\ q[i].kind = "event" => q[i].seq = n + i
        /\ q[i].kind = "done" => q[i].seq < n + i

\* The host that commits the events.
Writing(h) == Here(h) /\ Active

\* What is in the queue of a reader, and what its host will put there.
Unread(s) == IF s \in subscribers[entryOf[s]] THEN queue[s] \o hostOut[entryOf[s]] ELSE queue[s]

\* What a host has still to yield goes on to the end of the log.
HostsGoOn ==
    \A h \in Started : \E n \in Nat :
        FollowsOn(hostOut[h], n) /\ (Writing(h) => n + Len(hostOut[h]) = log)

\* What client x will read goes on from n, which its cursor has reached.
Hears(x, n) ==
    LET s == stream[x].sub
        h == entryOf[s]
    IN  /\ FollowsOn(Unread(s), n)
        /\ Writing(h) /\ s \in subscribers[h] => n + Len(Unread(s)) = log
        /\ stream[x].mode # "replay" => n <= session[x].cursor

Listens(x) == stream[x].mode \in Attached /\ stream[x].sub # None
ReadersGoOn == \A x \in Clients : Listens(x) => \E n \in Nat : Hears(x, n)

\* There is at most one host, and no handler has committed anything.
NobodyElse ==
    /\ outbox = {} /\ started <= 1 /\ (started = 0 => log = 0)
    /\ \A s \in Readers : entryOf[s] = None => queue[s] = <<>>

\* A response that replays starts from the cursor.
Placed(x) ==
    /\ stream[x].mode \notin {"live", "cold", "first"} /\ session[x].base = 0
    /\ stream[x].mode = "idle" => session[x].cursor = 0
    /\ stream[x].mode \in Attached => stream[x].delivered <= session[x].cursor
    /\ stream[x].mode = "replay" => stream[x].delivered = session[x].cursor

GapInv == NobodyElse /\ HostsGoOn /\ ReadersGoOn /\ Gapless /\ \A x \in Clients : Placed(x)

\* What is left of a queue follows on the item read.
LEMMA TailFollows ==
    ASSUME NEW q \in Seq(Item), q # <<>>, NEW n \in Nat, FollowsOn(q, n)
    PROVE  Tail(q) \in Seq(Item) /\ Len(Tail(q)) = Len(q) - 1 /\ FollowsOn(Tail(q), n + 1)
<1>1. Tail(q) \in Seq(Item) /\ Len(q) \in Nat /\ Len(Tail(q)) = Len(q) - 1
  OBVIOUS
<1>2. ASSUME NEW i \in 1..Len(Tail(q))
      PROVE  /\ i \in Nat /\ i + 1 \in 1..Len(q) /\ Tail(q)[i] = q[i + 1]
             /\ n + (i + 1) = (n + 1) + i
  BY <1>1
<1>3. QED
  BY <1>1, <1>2 DEF FollowsOn

\* An event that is read comes next, a done comes after what it counts.
LEMMA FirstFollows ==
    ASSUME NEW q \in Seq(Item), q # <<>>, NEW n \in Nat, FollowsOn(q, n)
    PROVE  /\ Head(q) \in Item
           /\ Head(q).kind = "event" => Head(q).seq = n + 1
           /\ Head(q).kind = "done" => Head(q).seq <= n
<1>1. Head(q) = q[1] /\ 1 \in 1..Len(q) /\ q[1] \in Item
  OBVIOUS
<1>2. QED
  BY <1>1 DEF FollowsOn, Item

\* Two queues, one after the other.
LEMMA BothFollow ==
    ASSUME NEW q \in Seq(Item), NEW p \in Seq(Item), NEW n \in Nat
    PROVE  /\ q \o p \in Seq(Item) /\ Len(q \o p) = Len(q) + Len(p)
           /\ FollowsOn(q \o p, n) => FollowsOn(q, n)
           /\ FollowsOn(q, n) /\ FollowsOn(p, n + Len(q)) => FollowsOn(q \o p, n)
<1>1. q \o p \in Seq(Item) /\ Len(q \o p) = Len(q) + Len(p) /\ Len(q) \in Nat /\ Len(p) \in Nat
  OBVIOUS
<1>2. \A i \in 1..Len(q) : i \in 1..Len(q \o p) /\ (q \o p)[i] = q[i]
  OBVIOUS
<1>3. ASSUME FollowsOn(q, n), FollowsOn(p, n + Len(q)), NEW i \in 1..Len(q \o p)
      PROVE  /\ (q \o p)[i].kind = "event" => (q \o p)[i].seq = n + i
             /\ (q \o p)[i].kind = "done" => (q \o p)[i].seq < n + i
  <2>1. CASE i <= Len(q)
    BY <1>2, <1>3, <2>1 DEF FollowsOn
  <2>2. CASE i > Len(q)
    <3>1. /\ i - Len(q) \in 1..Len(p) /\ (q \o p)[i] = p[i - Len(q)]
          /\ (n + Len(q)) + (i - Len(q)) = n + i
      BY <1>1, <2>2
    <3>2. QED
      BY <1>3, <3>1 DEF FollowsOn
  <2>3. QED
    BY <1>1, <2>1, <2>2
<1>4. QED
  BY <1>1, <1>2, <1>3 DEF FollowsOn

LEMMA OneAfterAnother ==
    ASSUME NEW q \in Seq(Item), NEW p \in Seq(Item), NEW r \in Seq(Item)
    PROVE  q \o (p \o r) = (q \o p) \o r
BY ConcatAssociative

LEMMA OneThenRest ==
    ASSUME NEW q \in Seq(Item), NEW p \in Seq(Item), Len(q) = 1
    PROVE  q \o p # <<>> /\ Tail(q \o p) = p
<1>1. q = <<q[1]>> /\ q[1] \in Item
  OBVIOUS
<1>2. ASSUME NEW item \in Item
      PROVE  <<item>> \o p # <<>> /\ Tail(<<item>> \o p) = p
  OBVIOUS
<1>3. QED
  BY <1>1, <1>2

\* What ends a queue follows whatever is in it.
Closing(items) == \A i \in 1..Len(items) : items[i].kind \in {"error", "end", "overflow"}

LEMMA ClosingFollows == \A items, n : Closing(items) => FollowsOn(items, n)
BY DEF Closing, FollowsOn

\* What a host that ends broadcasts, and nothing at all.
LEMMA Closings ==
    \A items \in {<<>>, <<Error>>, <<End>>, <<Overflow>>, <<Error, End>>} :
        items \in Seq(Item) /\ Closing(items)
<1>1. {Error, End, Overflow} \subseteq Item
  BY DEF Error, End, Overflow, Item, Kinds
<1>2. Error.kind = "error" /\ End.kind = "end" /\ Overflow.kind = "overflow"
  BY DEF Error, End, Overflow
<1>3. ASSUME NEW a \in {Error, End, Overflow}, NEW b \in {Error, End, Overflow}
      PROVE  /\ <<a>> \in Seq(Item) /\ Closing(<<a>>)
             /\ <<a, b>> \in Seq(Item) /\ Closing(<<a, b>>)
  BY <1>1, <1>2, <1>3 DEF Closing
<1>4. <<>> \in Seq(Item) /\ Closing(<<>>)
  BY DEF Closing
<1>5. QED
  BY <1>3, <1>4

\* A commit of the writing host follows on what it has committed.
LEMMA CommitFollows ==
    ASSUME NEW n \in Nat
    PROVE  /\ <<Event(n + 1)>> \in Seq(Item) /\ FollowsOn(<<Event(n + 1)>>, n)
           /\ <<Event(n + 1), Done(n + 1)>> \in Seq(Item)
           /\ FollowsOn(<<Event(n + 1), Done(n + 1)>>, n)
<1>1. Event(n + 1) \in Item /\ Done(n + 1) \in Item
  BY DEF Event, Done, Item, Kinds
<1>2. /\ Event(n + 1).kind = "event" /\ Event(n + 1).seq = n + 1
      /\ Done(n + 1).kind = "done" /\ Done(n + 1).seq = n + 1
  BY DEF Event, Done
<1>3. n + 1 < n + 2
  OBVIOUS
<1>4. QED
  BY <1>1, <1>2, <1>3 DEF FollowsOn

(* What is numbered within the log follows on some number of the log.        *)
LEMMA FollowsWithin ==
    ASSUME NEW q \in Seq(Item), NEW n \in Nat, FollowsOn(q, n), NEW m \in Nat, Within(q, m)
    PROVE  \E k \in 0..m : FollowsOn(q, k) /\ (n <= m => k = n)
<1>1. CASE n <= m
  BY <1>1
<1>2. CASE n > m
  <2>1. ASSUME NEW i \in 1..Len(q)
        PROVE  /\ q[i].kind # "event"
               /\ q[i].kind = "done" => q[i].seq < m + i
    <3>1. q[i] \in Item /\ i \in Nat /\ i > 0
      OBVIOUS
    <3>2. q[i].seq \in Nat /\ q[i].seq <= m
      BY <3>1 DEF Within, Item
    <3>3. QED
      BY <1>2, <3>1, <3>2 DEF FollowsOn
  <2>2. FollowsOn(q, m)
    BY <2>1 DEF FollowsOn
  <2>3. QED
    BY <1>2, <2>2
<1>3. QED
  BY <1>1, <1>2

\* What the steps below know of the state before them.
LEMMA GapFacts ==
    ASSUME StreamInv, NobodyElse
    PROVE  /\ log \in Nat /\ log <= MaxLog /\ started \in Nat
           /\ queue \in [Readers -> Seq(Item)] /\ entryOf \in [Readers -> Hosts \cup {None}]
           /\ subscribers \in [Hosts -> SUBSET Readers]
           /\ hostOut \in [Hosts -> Seq(Item)]
           /\ activity \in [Hosts -> {"running", "parked", "leaving"}]
           /\ stream \in [Clients -> Stream] /\ session \in [Clients -> Session]
           /\ None \notin Readers /\ None \notin Hosts
           /\ Started \subseteq Hosts /\ \A g, h \in Started : g = h
           /\ \A x \in Clients :
                 /\ session[x].cursor \in 0..log /\ stream[x].delivered \in 0..log
                 /\ stream[x].sub # None => stream[x].sub \in Readers
                 /\ Listens(x) => /\ Open(stream[x].sub) /\ entryOf[stream[x].sub] \in Started
                                  /\ Unread(stream[x].sub) \in Seq(Item)
<1>1. /\ log \in Nat /\ log <= MaxLog /\ started \in Nat
      /\ queue \in [Readers -> Seq(Item)] /\ entryOf \in [Readers -> Hosts \cup {None}]
      /\ subscribers \in [Hosts -> SUBSET Readers]
      /\ hostOut \in [Hosts -> Seq(Item)]
      /\ activity \in [Hosts -> {"running", "parked", "leaving"}]
      /\ stream \in [Clients -> Stream] /\ session \in [Clients -> Session]
      /\ None \notin Readers /\ None \notin Hosts
      /\ Started \subseteq Hosts
  BY HostsCount, StreamAssumption, ManagerAssumption
     DEF StreamInv, RegistryInv, StreamTypeOK, ManagerTypeOK
<1>2. \A g, h \in Started : g = h
  BY <1>1 DEF NobodyElse, Started
<1>3. ASSUME NEW x \in Clients
      PROVE  /\ session[x].cursor \in 0..log /\ stream[x].delivered \in 0..log
             /\ stream[x].sub # None => stream[x].sub \in Readers
  <2>1. session[x] \in Session /\ stream[x] \in Stream
    BY <1>1
  <2>2. session[x].cursor <= log /\ stream[x].delivered <= log
    BY DEF StreamInv, StreamTypeOK, Sequenced
  <2>3. MaxLog \in Nat
    BY StreamAssumption
  <2>4. session[x].cursor \in Nat /\ stream[x].delivered \in Nat
        /\ stream[x].sub \in Readers \cup {None}
    BY <2>1, <2>3 DEF Session, Stream
  <2>5. QED
    BY <1>1, <2>2, <2>4
<1>4. ASSUME NEW x \in Clients, Listens(x)
      PROVE  /\ Open(stream[x].sub) /\ entryOf[stream[x].sub] \in Started
             /\ Unread(stream[x].sub) \in Seq(Item)
  <2>1. stream[x].sub \in Readers /\ Open(stream[x].sub)
    BY <1>3, <1>4 DEF Listens, StreamInv, Owned
  <2>2. entryOf[stream[x].sub] \in Started
    BY <2>1 DEF Open, StreamInv, RegistryInv, Followed
  <2>3. QED
    BY <1>1, <2>1, <2>2 DEF Unread
<1>5. QED
  BY <1>1, <1>2, <1>3, <1>4

(* A commit of the host that writes is numbered next.                        *)
LEMMA CommitGoesOn ==
    ASSUME StreamInv, GapInv, NEW h \in Hosts, Here(h), Active, NEW items, log' = log + 1,
           \/ items = <<Event(log + 1)>>
           \/ items = <<Event(log + 1), Done(log + 1)>> /\ ~Active',
           hostOut' = [hostOut EXCEPT ![h] = @ \o items],
           UNCHANGED <<registryVars, hostVars, readerVars, outbox, stream, session>>
    PROVE  GapInv'
<1> USE DEF registryVars, hostVars, readerVars
<1>0. NobodyElse /\ HostsGoOn /\ ReadersGoOn /\ Gapless /\ \A x \in Clients : Placed(x)
  BY DEF GapInv
<1>1. h \in Started /\ h \in LiveHosts /\ Writing(h) /\ Started' = Started
  BY DEF Here, LiveHosts, Writing, Started
<1>2. \A g \in Started : g = h
  BY <1>0, <1>1, GapFacts
<1>3. log \in Nat /\ hostOut \in [Hosts -> Seq(Item)] /\ hostOut'[h] = hostOut[h] \o items
  BY <1>0, GapFacts
<1>4. /\ items \in Seq(Item) /\ FollowsOn(items, log)
      /\ Writing(h)' => Len(items) = 1
  <2>1. items = <<Event(log + 1)>> => Len(items) = 1
    OBVIOUS
  <2>2. QED
    BY <1>3, <2>1, CommitFollows DEF Writing
<1> HIDE DEF registryVars, hostVars, readerVars
<1>5. HostsGoOn'
  <2>1. PICK n \in Nat : FollowsOn(hostOut[h], n) /\ n + Len(hostOut[h]) = log
    BY <1>0, <1>1 DEF HostsGoOn
  <2>2. /\ FollowsOn(hostOut'[h], n) /\ Len(hostOut'[h]) = Len(hostOut[h]) + Len(items)
    BY <1>3, <1>4, <2>1, BothFollow
  <2>3. Writing(h)' => n + Len(hostOut'[h]) = log'
    <3>1. Len(hostOut[h]) \in Nat /\ hostOut[h] \in Seq(Item)
      BY <1>3
    <3>2. ASSUME Writing(h)' PROVE n + Len(hostOut'[h]) = log'
      <4>1. Len(items) = 1
        BY <1>4, <3>2
      <4>2. QED
        BY <1>3, <2>1, <2>2, <3>1, <4>1
    <3>3. QED
      BY <3>2
  <2>4. QED
    BY <1>1, <1>2, <2>2, <2>3 DEF HostsGoOn
<1>6. ReadersGoOn'
  <2> SUFFICES ASSUME NEW x \in Clients, Listens(x)' PROVE \E n \in Nat : Hears(x, n)'
    BY DEF ReadersGoOn
  <2>1. /\ Listens(x) /\ stream' = stream /\ session' = session
        /\ queue' = queue /\ subscribers' = subscribers /\ entryOf' = entryOf
    BY DEF Listens, readerVars
  <2>2. PICK s \in Readers :
            /\ s = stream[x].sub /\ stream'[x].sub = s /\ entryOf[s] = h
            /\ Unread(s) \in Seq(Item) /\ queue[s] \in Seq(Item) /\ hostOut[h] \in Seq(Item)
    BY <1>0, <1>2, <2>1, GapFacts DEF Listens
  <2>3. PICK n \in Nat : Hears(x, n)
    BY <1>0, <2>1 DEF ReadersGoOn
  <2>4. stream'[x].mode # "replay" => n <= session'[x].cursor
    BY <2>1, <2>3 DEF Hears
  <2>5. CASE s \in subscribers[h]
    <3>1. Unread(s) = queue[s] \o hostOut[h] /\ Unread(s)' = queue[s] \o (hostOut[h] \o items)
      BY <1>3, <2>1, <2>2, <2>5 DEF Unread
    <3>2. Unread(s)' = Unread(s) \o items
      <4>1. queue[s] \o (hostOut[h] \o items) = (queue[s] \o hostOut[h]) \o items
        BY <1>4, <2>2, OneAfterAnother
      <4>2. QED
        BY <3>1, <4>1
    <3>3. FollowsOn(Unread(s), n) /\ n + Len(Unread(s)) = log
      BY <1>1, <2>2, <2>3, <2>5 DEF Hears
    <3>4. FollowsOn(Unread(s)', n) /\ Len(Unread(s)') = Len(Unread(s)) + Len(items)
      BY <1>4, <2>2, <3>2, <3>3, BothFollow
    <3>5. Writing(h)' => n + Len(Unread(s)') = log'
      <4>1. Len(Unread(s)) \in Nat
        BY <2>2
      <4>2. ASSUME Writing(h)' PROVE n + Len(Unread(s)') = log'
        <5>1. Len(items) = 1
          BY <1>4, <4>2
        <5>2. Len(Unread(s)') = Len(Unread(s)) + 1
          BY <3>4, <5>1
        <5>3. QED
          BY <3>3, <4>1, <5>2
      <4>3. QED
        BY <4>2
    <3>6. QED
      BY <2>1, <2>2, <2>4, <3>4, <3>5 DEF Hears
  <2>6. CASE s \notin subscribers[h]
    <3>1. Unread(s)' = Unread(s)
      BY <2>1, <2>2, <2>6 DEF Unread
    <3>2. QED
      BY <2>1, <2>2, <2>3, <2>4, <2>6, <3>1 DEF Hears
  <2>7. QED
    BY <2>5, <2>6
<1>7. NobodyElse' /\ Gapless' /\ \A x \in Clients : Placed(x)'
  <2>1. started # 0
    BY <1>1 DEF Started
  <2>2. QED
    BY <1>0, <2>1 DEF NobodyElse, Gapless, Placed, hostVars, readerVars
<1>8. QED
  BY <1>5, <1>6, <1>7 DEF GapInv

\* A host that fails puts its error in the place of what it has not yielded.
LEMMA HostFailsGoOn ==
    ASSUME StreamInv, GapInv, NEW h \in Hosts, HostFails(h)
    PROVE  GapInv'
<1>0. NobodyElse /\ HostsGoOn /\ ReadersGoOn /\ Gapless /\ \A x \in Clients : Placed(x)
  BY DEF GapInv
<1>1. /\ h \in Started /\ ~Active' /\ Started' = Started /\ started' = started
      /\ queue' = queue /\ subscribers' = subscribers /\ entryOf' = entryOf
      /\ stream' = stream /\ session' = session /\ outbox' = outbox
  BY DEF HostFails, LiveHosts, Started, Active, hostVars, readerVars
<1>2. \A g \in Started : g = h
  BY <1>0, <1>1, GapFacts
<1>3. hostOut'[h] = <<Error>> /\ <<Error>> \in Seq(Item) /\ \A n : FollowsOn(<<Error>>, n)
  BY <1>0, GapFacts, Closings, ClosingFollows DEF HostFails
<1>4. HostsGoOn'
  BY <1>1, <1>2, <1>3 DEF HostsGoOn, Writing
<1>5. ReadersGoOn'
  <2> SUFFICES ASSUME NEW x \in Clients, Listens(x)' PROVE \E n \in Nat : Hears(x, n)'
    BY DEF ReadersGoOn
  <2>1. Listens(x)
    BY <1>1 DEF Listens
  <2>2. PICK s \in Readers :
            /\ s = stream[x].sub /\ stream'[x].sub = s /\ entryOf[s] = h
            /\ queue[s] \in Seq(Item) /\ hostOut[h] \in Seq(Item)
    BY <1>0, <1>1, <1>2, <2>1, GapFacts DEF Listens
  <2>3. PICK n \in Nat : Hears(x, n)
    BY <1>0, <2>1 DEF ReadersGoOn
  <2>4. FollowsOn(Unread(s)', n)
    <3>1. CASE s \in subscribers[h]
      <4>1. FollowsOn(queue[s] \o hostOut[h], n)
        BY <2>2, <2>3, <3>1 DEF Hears, Unread
      <4>2. FollowsOn(queue[s] \o <<Error>>, n)
        BY <1>3, <2>2, <4>1, BothFollow
      <4>3. QED
        BY <1>1, <1>3, <2>2, <3>1, <4>2 DEF Unread
    <3>2. CASE s \notin subscribers[h]
      BY <1>1, <2>2, <2>3, <3>2 DEF Hears, Unread
    <3>3. QED
      BY <3>1, <3>2
  <2>5. QED
    BY <1>1, <2>2, <2>3, <2>4 DEF Hears, Writing
<1>6. NobodyElse' /\ Gapless' /\ \A x \in Clients : Placed(x)'
  <2>1. started # 0
    BY <1>1 DEF Started
  <2>2. QED
    BY <1>0, <1>1, <2>1 DEF NobodyElse, Gapless, Placed
<1>7. QED
  BY <1>4, <1>5, <1>6 DEF GapInv

\* What a broadcast does to the readers of a host and to the others.
LEMMA Broadcasting ==
    ASSUME RegistryInv, NEW h \in Hosts, NEW items \in Seq(Item), Broadcast(h, items),
           NEW s \in Readers
    PROVE  /\ s \notin subscribers[h] => queue'[s] = queue[s] /\ s \notin subscribers'[h]
           /\ s \in subscribers[h] =>
                 \/ s \in subscribers'[h] /\ queue'[s] = queue[s] \o items
                 \/ s \notin subscribers'[h] /\ queue'[s] = <<Overflow>>
           /\ entryOf[s] = None => s \notin subscribers[h]
<1>1. subscribers \in [Hosts -> SUBSET Readers]
  BY DEF RegistryInv, ManagerTypeOK
<1>2. subscribers'[h] = subscribers[h] \ Lagging(subscribers[h], items)
  BY <1>1 DEF Broadcast
<1>3. queue'[s] = IF s \in Lagging(subscribers[h], items) THEN <<Overflow>>
                  ELSE IF s \in subscribers[h] THEN queue[s] \o items ELSE queue[s]
  BY DEF Broadcast, Offered
<1>4. Lagging(subscribers[h], items) \subseteq subscribers[h]
  BY DEF Lagging
<1>5. entryOf[s] = None => s \notin subscribers[h]
  BY DEF RegistryInv, Fed, Open
<1>6. QED
  BY <1>2, <1>3, <1>4, <1>5

\* A host's broadcast, and what is left of what it has committed.
LEMMA BroadcastGoesOn ==
    ASSUME StreamInv, GapInv, NEW h \in Started, NEW items \in Seq(Item), Broadcast(h, items),
           UNCHANGED <<started, entryOf, log, outbox, stream, session>>,
           hostOut'[h] \in Seq(Item), Writing(h)' => Writing(h),
           \/ items \o hostOut'[h] = hostOut[h] /\ Len(items) = 1
           \/ Closing(items) /\ hostOut'[h] = <<>> /\ ~Writing(h)'
    PROVE  GapInv'
<1>0. /\ NobodyElse /\ HostsGoOn /\ ReadersGoOn /\ Gapless
      /\ \A x \in Clients : Placed(x)
      /\ h \in Hosts
      /\ hostOut[h] \in Seq(Item) /\ log \in Nat /\ \A g \in Started : g = h
  BY GapFacts DEF GapInv
<1>1. HostsGoOn'
  <2>1. CASE items \o hostOut'[h] = hostOut[h] /\ Len(items) = 1
    <3>1. PICK n \in Nat : FollowsOn(hostOut[h], n) /\ (Writing(h) => n + Len(hostOut[h]) = log)
      BY <1>0 DEF HostsGoOn
    <3>2. hostOut[h] # <<>> /\ Tail(hostOut[h]) = hostOut'[h]
      BY <2>1, OneThenRest
    <3>3. FollowsOn(hostOut'[h], n + 1) /\ Len(hostOut'[h]) = Len(hostOut[h]) - 1
      BY <1>0, <3>1, <3>2, TailFollows
    <3>4. Len(hostOut[h]) \in Nat /\ n + 1 \in Nat
      BY <1>0
    <3>5. Writing(h) => (n + 1) + Len(hostOut'[h]) = log
      <4>1. ASSUME Writing(h) PROVE (n + 1) + Len(hostOut'[h]) = log
        <5>1. n + Len(hostOut[h]) = log
          BY <3>1, <4>1
        <5>2. PICK k \in Nat : k = Len(hostOut[h])
          BY <3>4
        <5>3. Len(hostOut'[h]) = k - 1 /\ n + k = log /\ n \in Nat
          BY <3>3, <5>1, <5>2
        <5>4. QED
          BY <5>3
      <4>2. QED
        BY <4>1
    <3>6. QED
      BY <1>0, <3>3, <3>4, <3>5 DEF HostsGoOn, Started
  <2>2. CASE hostOut'[h] = <<>> /\ ~Writing(h)'
    BY <1>0, <2>2, Closings, ClosingFollows DEF HostsGoOn, Started
  <2>3. QED
    BY <2>1, <2>2
<1>2. ReadersGoOn'
  <2> SUFFICES ASSUME NEW x \in Clients, Listens(x)' PROVE \E n \in Nat : Hears(x, n)'
    BY DEF ReadersGoOn
  <2>1. Listens(x)
    BY DEF Listens
  <2>2. PICK s \in Readers :
            /\ s = stream[x].sub /\ stream'[x].sub = s /\ entryOf[s] = h /\ entryOf'[s] = h
            /\ queue[s] \in Seq(Item)
    BY <1>0, <2>1, GapFacts DEF Listens
  <2>3. PICK n \in Nat : Hears(x, n)
    BY <1>0, <2>1 DEF ReadersGoOn
  <2>4. stream'[x].mode # "replay" => n <= session'[x].cursor
    BY <2>3 DEF Hears
  <2>5. CASE s \notin subscribers[h]
    <3>1. s \notin subscribers'[h] /\ queue'[s] = queue[s]
      BY <1>0, <2>5, Broadcasting DEF StreamInv
    <3>2. QED
      BY <2>2, <2>3, <2>4, <2>5, <3>1 DEF Hears, Unread
  <2>6. CASE s \in subscribers[h] /\ s \notin subscribers'[h]
    <3>1. queue'[s] = <<Overflow>>
      BY <1>0, <2>6, Broadcasting DEF StreamInv
    <3>2. QED
      BY <2>2, <2>4, <2>6, <3>1, Closings, ClosingFollows DEF Hears, Unread
  <2>7. CASE s \in subscribers[h] /\ s \in subscribers'[h]
    <3>1. queue'[s] = queue[s] \o items
      BY <1>0, <2>7, Broadcasting DEF StreamInv
    <3>2. /\ Unread(s) = queue[s] \o hostOut[h]
          /\ Unread(s)' = (queue[s] \o items) \o hostOut'[h]
      BY <2>2, <2>7, <3>1 DEF Unread
    <3>3. FollowsOn(queue[s] \o hostOut[h], n)
      BY <2>2, <2>3, <3>2 DEF Hears
    <3>4. CASE items \o hostOut'[h] = hostOut[h]
      <4>1. Unread(s)' = queue[s] \o hostOut[h]
        <5>1. queue[s] \o (items \o hostOut'[h]) = (queue[s] \o items) \o hostOut'[h]
          BY <2>2, OneAfterAnother
        <5>2. QED
          BY <3>2, <3>4, <5>1
      <4>2. QED
        BY <2>2, <2>3, <2>4, <2>7, <3>2, <4>1 DEF Hears
    <3>5. CASE Closing(items) /\ hostOut'[h] = <<>> /\ ~Writing(h)'
      <4>1. FollowsOn(queue[s] \o items, n)
        BY <1>0, <2>2, <3>3, <3>5, BothFollow, ClosingFollows
      <4>2. Unread(s)' = queue[s] \o items
        BY <2>2, <3>2, <3>5
      <4>3. QED
        BY <2>2, <2>4, <3>5, <4>1, <4>2 DEF Hears
    <3>6. QED
      BY <3>4, <3>5
  <2>8. QED
    BY <2>5, <2>6, <2>7
<1>3. NobodyElse' /\ Gapless' /\ \A x \in Clients : Placed(x)'
  BY <1>0, Broadcasting DEF NobodyElse, Gapless, Placed, StreamInv
<1>4. QED
  BY <1>1, <1>2, <1>3 DEF GapInv

\* Every step of a host.
LEMMA HostStepsGoOn ==
    ASSUME StreamInv, GapInv, NEW h \in Hosts,
           \/ HostCommits(h) \/ HostAsks(h) \/ HostFinishes(h) \/ HostFails(h)
           \/ HostYieldsNext(h) \/ HostReturns(h)
    PROVE  GapInv'
<1>0. /\ NobodyElse /\ hostOut \in [Hosts -> Seq(Item)] /\ log \in Nat
      /\ RegistryInv /\ resting \subseteq Runs /\ run \in Runs
  BY GapFacts, TheRun DEF GapInv, StreamInv, RegistryInv, ManagerTypeOK
<1>1. CASE HostCommits(h)
  <2>1. hostOut' = [hostOut EXCEPT ![h] = @ \o <<Event(log + 1)>>] /\ log' = log + 1
    <3>1. hostOut[h] \in Seq(Item) /\ Event(log + 1) \in Item
      BY <1>0 DEF Event, Item, Kinds
    <3>2. Append(hostOut[h], Event(log + 1)) = hostOut[h] \o <<Event(log + 1)>>
      BY <3>1
    <3>3. QED
      BY <1>1, <3>2 DEF HostCommits, Commit
  <2>2. QED
    BY <1>1, <2>1, CommitGoesOn
       DEF HostCommits, managerVars, registryVars, hostVars, readerVars
<1>2. CASE HostAsks(h)
  <2>1. ~Active'
    BY <1>2 DEF HostAsks, Active
  <2>2. QED
    BY <1>2, <2>1, CommitGoesOn DEF HostAsks, Commit
<1>3. CASE HostFinishes(h)
  <2>1. ~Active'
    BY <1>3 DEF HostFinishes, Active
  <2>2. QED
    BY <1>3, <2>1, CommitGoesOn
       DEF HostFinishes, Commit, managerVars, registryVars, hostVars, readerVars
<1>4. CASE HostFails(h)
  BY <1>4, HostFailsGoOn
<1>5. CASE HostYieldsNext(h)
  <2> DEFINE item == Head(hostOut[h])
  <2>1. /\ h \in Started /\ Broadcast(h, <<item>>) /\ hostOut[h] # <<>>
        /\ hostOut'[h] = Tail(hostOut[h])
        /\ UNCHANGED <<started, finished, entryOf, log, over, resting, activity, outbox, stream,
                       session>>
    BY <1>0, <1>5 DEF HostYieldsNext, HostYields, LiveHosts, hostVars
  <2>2. hostOut[h] \in Seq(Item)
    BY <1>0
  <2>3. item \in Item /\ hostOut'[h] \in Seq(Item) /\ <<item>> \o hostOut'[h] = hostOut[h]
    BY <2>1, <2>2
  <2> HIDE DEF item
  <2>4. <<item>> \in Seq(Item) /\ Len(<<item>>) = 1
    BY <2>3
  <2>5. Writing(h)' => Writing(h)
    BY <2>1 DEF Writing, Here, Active, LiveHosts, Started
  <2>6. QED
    BY <2>1, <2>3, <2>4, <2>5, BroadcastGoesOn
<1>6. CASE HostReturns(h)
  <2>1. PICK items \in {<<End>>, <<Error, End>>} : HostEnds(h, items)
    BY <1>6 DEF HostReturns
  <2>2. /\ h \in Started /\ Broadcast(h, items) /\ hostOut'[h] = <<>>
        /\ finished' = finished \cup {h}
        /\ UNCHANGED <<started, entryOf, log, outbox, stream, session>>
    BY <1>0, <1>6, <2>1 DEF HostReturns, HostEnds, LiveHosts
  <2>3. items \in Seq(Item) /\ Closing(items) /\ hostOut'[h] \in Seq(Item)
    BY <2>1, <2>2, Closings
  <2>4. ~Writing(h)'
    BY <2>2 DEF Writing, Here, LiveHosts
  <2>5. QED
    BY <2>2, <2>3, <2>4, BroadcastGoesOn
<1>7. QED
  BY <1>1, <1>2, <1>3, <1>4, <1>5, <1>6

\* What a client has heard and will hear, if it is at a response.
GoesOn(x) ==
    /\ Placed(x)
    /\ Listens(x) => \E n \in Nat : Hears(x, n)
    /\ (session[x].base + 1)..session[x].cursor \subseteq session[x].got

SameReader(s) ==
    /\ queue'[s] = queue[s] /\ entryOf'[s] = entryOf[s]
    /\ s \in subscribers'[entryOf[s]] <=> s \in subscribers[entryOf[s]]

\* Nothing changes but the responses of X.
Around(X) ==
    /\ UNCHANGED <<log, over, resting, activity, hostOut, outbox, started, finished>>
    /\ \A s \in Readers : entryOf'[s] = None => queue'[s] = <<>>
    /\ \A y \in Clients \ X : /\ stream'[y] = stream[y] /\ session'[y] = session[y]
                              /\ Listens(y) => SameReader(stream[y].sub)

AllGoOn(X) == \A x \in X : GoesOn(x)

(* A step of some clients, or of none, leaves the others where they are.     *)
LEMMA ClientsGoOn ==
    ASSUME StreamInv, GapInv, NEW X \in SUBSET Clients, Around(X), AllGoOn(X)'
    PROVE  GapInv'
<1> USE DEF Around, AllGoOn
<1>1. NobodyElse /\ HostsGoOn /\ ReadersGoOn /\ Gapless /\ \A x \in Clients : Placed(x)
  BY DEF GapInv
<1>2. \A h : Writing(h)' <=> Writing(h)
  BY DEF Writing, Here, Active, LiveHosts, Started
<1>3. NobodyElse'
  BY <1>1 DEF NobodyElse
<1>4. HostsGoOn'
  BY <1>1, <1>2 DEF HostsGoOn, Started
<1>5. ASSUME NEW y \in Clients \ X PROVE GoesOn(y)'
  <2>1. stream'[y] = stream[y] /\ session'[y] = session[y]
    OBVIOUS
  <2>2. Placed(y)' /\ ((session[y].base + 1)..session[y].cursor \subseteq session[y].got)'
    BY <1>1, <2>1 DEF Placed, Gapless
  <2>3. ASSUME Listens(y)' PROVE \E n \in Nat : Hears(y, n)'
    <3>1. Listens(y)
      BY <2>1, <2>3 DEF Listens
    <3>2. PICK n \in Nat : Hears(y, n)
      BY <1>1, <3>1 DEF ReadersGoOn
    <3>3. SameReader(stream[y].sub)
      BY <3>1
    <3>4. PICK s : s = stream[y].sub /\ stream'[y].sub = s
      BY <2>1
    <3>5. Unread(s)' = Unread(s)
      BY <3>3, <3>4 DEF SameReader, Unread
    <3>6. QED
      BY <1>2, <2>1, <3>2, <3>3, <3>4, <3>5 DEF Hears, SameReader
  <2>4. QED
    BY <2>2, <2>3 DEF GoesOn
<1>6. \A x \in Clients : GoesOn(x)'
  BY <1>5
<1>7. ReadersGoOn' /\ Gapless' /\ \A x \in Clients : Placed(x)'
  BY <1>6 DEF GoesOn, ReadersGoOn, Gapless
<1>8. QED
  BY <1>3, <1>4, <1>7 DEF GapInv

\* A step of one client, with its own reader.
LEMMA OneClientGoesOn ==
    ASSUME StreamInv, GapInv, NEW x \in Clients,
           UNCHANGED <<log, over, resting, activity, hostOut, outbox, started, finished>>,
           \A s \in Readers : entryOf'[s] = None => queue'[s] = <<>>,
           \A y \in Clients \ {x} : stream'[y] = stream[y] /\ session'[y] = session[y],
           \A s \in Readers : s = stream[x].sub \/ entryOf[s] = None \/ SameReader(s),
           GoesOn(x)'
    PROVE  GapInv'
<1>1. ASSUME NEW y \in Clients \ {x}, Listens(y) PROVE SameReader(stream[y].sub)
  <2>1. NobodyElse /\ y \in Clients /\ stream[y].sub # None /\ y # x
    BY <1>1 DEF GapInv, Listens
  <2>2. stream[y].sub \in Readers /\ Open(stream[y].sub)
    BY <1>1, <2>1, GapFacts
  <2>3. stream[y].sub # stream[x].sub
    BY <2>1 DEF StreamInv, Owned
  <2>4. QED
    BY <2>2, <2>3 DEF Open
<1>2. Around({x})
  BY <1>1 DEF Around
<1>3. AllGoOn({x})'
  BY DEF AllGoOn
<1>4. {x} \in SUBSET Clients
  OBVIOUS
<1>5. QED
  BY <1>2, <1>3, <1>4, ClientsGoOn

\* A reader that closes leaves the others where they are.
LEMMA ClosesAside ==
    ASSUME StreamInv, NEW s \in Readers, Close(s)
    PROVE  /\ UNCHANGED <<started, finished, resting, entryOf>>
           /\ entryOf[s] # None
           /\ \A t \in Readers : t = s \/ SameReader(t)
<1>1. /\ subscribers' = [subscribers EXCEPT ![entryOf[s]] = @ \ {s}]
      /\ queue' = [queue EXCEPT ![s] = <<>>] /\ entryOf' = entryOf
      /\ UNCHANGED <<started, finished, resting>> /\ entryOf[s] # None
  BY DEF Close, Open, hostVars
<1>2. queue \in [Readers -> Seq(Item)] /\ subscribers \in [Hosts -> SUBSET Readers]
  BY DEF StreamInv, RegistryInv, ManagerTypeOK
<1>3. QED
  BY <1>1, <1>2 DEF SameReader

\* The numbers a client takes in.
LEMMA TakesOne ==
    ASSUME StreamInv, NEW x \in Clients, NEW n \in 0..log
    PROVE  /\ Dispatched(x, {n}).base = session[x].base
           /\ Dispatched(x, {n}).cursor = IF n > session[x].cursor THEN n ELSE session[x].cursor
           /\ Dispatched(x, {n}).got =
                 session[x].got \cup (IF n > session[x].cursor THEN {n} ELSE {})
           /\ n <= session[x].cursor => /\ DispatchedDone(x, n).base = session[x].base
                                        /\ DispatchedDone(x, n).cursor = session[x].cursor
                                        /\ DispatchedDone(x, n).got = session[x].got
<1>1. /\ session[x] \in Session /\ session[x].cursor \in Nat /\ log \in Nat
  BY StreamAssumption DEF StreamInv, StreamTypeOK, Session
<1>2. Max({n} \cup {session[x].cursor}) = IF n > session[x].cursor THEN n ELSE session[x].cursor
  <2>1. CASE n > session[x].cursor
    BY <1>1, <2>1, Latest
  <2>2. CASE n <= session[x].cursor
    BY <1>1, <2>2, Latest
  <2>3. QED
    BY <1>1, <2>1, <2>2
<1>3. {m \in {n} : m > session[x].cursor} = IF n > session[x].cursor THEN {n} ELSE {}
  OBVIOUS
<1>4. {n} \cup {session[x].cursor} = {n, session[x].cursor}
  OBVIOUS
<1>5. QED
  BY <1>1, <1>2, <1>3, <1>4 DEF Dispatched, DispatchedDone, Session

\* A replay takes in the rest of the log.
LEMMA TakesRest ==
    ASSUME StreamInv, NEW x \in Clients
    PROVE  LET e == Dispatched(x, (session[x].cursor + 1)..log)
           IN  /\ e.base = session[x].base /\ e.cursor = log
               /\ e.got = session[x].got \cup ((session[x].cursor + 1)..log)
<1>1. /\ session[x] \in Session /\ session[x].cursor \in Nat /\ log \in Nat
      /\ session[x].cursor <= log
  BY StreamAssumption DEF StreamInv, StreamTypeOK, Session
<1> DEFINE events == (session[x].cursor + 1)..log
<1>2. Max(events \cup {session[x].cursor}) = log
  <2>1. /\ events \cup {session[x].cursor} \subseteq Nat /\ log \in events \cup {session[x].cursor}
        /\ \A m \in events \cup {session[x].cursor} : m <= log
    BY <1>1
  <2> HIDE DEF events
  <2>2. QED
    BY <2>1, Latest
<1>3. {m \in events : m > session[x].cursor} = events
  BY <1>1
<1> HIDE DEF events
<1>4. /\ Dispatched(x, events).base = session[x].base /\ Dispatched(x, events).cursor = log
      /\ Dispatched(x, events).got = session[x].got \cup events
  BY <1>1, <1>2, <1>3 DEF Dispatched, Session
<1>5. QED
  BY <1>4 DEF events

\* A reader that reads leaves the others where they are.
LEMMA ReadsAside ==
    ASSUME StreamInv, NEW s \in Readers, Read(s)
    PROVE  /\ UNCHANGED <<started, finished, resting, entryOf>>
           /\ entryOf[s] # None
           /\ \A t \in Readers : t = s \/ SameReader(t)
           /\ Head(queue[s]).kind \in {"event", "error"} =>
                 /\ queue'[s] = Tail(queue[s]) /\ subscribers' = subscribers
<1>1. queue \in [Readers -> Seq(Item)]
  BY DEF StreamInv, RegistryInv, ManagerTypeOK
<1>2. CASE Head(queue[s]).kind \in {"event", "error"}
  BY <1>1, <1>2 DEF Read, Close, SameReader, hostVars, Open
<1>3. CASE Head(queue[s]).kind \notin {"event", "error"}
  BY <1>3, ClosesAside DEF Read
<1>4. QED
  BY <1>2, <1>3 DEF Read

\* What a client's own step does, when it is all that changes.
LEMMA OwnStepGoesOn ==
    ASSUME StreamInv, GapInv, NEW x \in Clients, NEW t \in Stream, NEW e \in Session,
           UNCHANGED <<log, over, resting, activity, hostOut, outbox, started, finished>>,
           \A s \in Readers : entryOf'[s] = None => queue'[s] = <<>>,
           stream' = [stream EXCEPT ![x] = t], session' = [session EXCEPT ![x] = e],
           \A s \in Readers : s = stream[x].sub \/ entryOf[s] = None \/ SameReader(s),
           t.mode \notin {"idle", "live", "cold", "first"}, e.base = 0,
           t.mode \in Attached => t.delivered <= e.cursor,
           t.mode = "replay" => t.delivered = e.cursor,
           1..e.cursor \subseteq e.got,
           t.mode \in Attached /\ t.sub # None => \E n \in Nat : Hears(x, n)'
    PROVE  GapInv'
<1>1. stream \in [Clients -> Stream] /\ session \in [Clients -> Session]
  BY GapFacts DEF GapInv
<1>2. stream'[x] = t /\ session'[x] = e
  BY <1>1
<1>3. \A y \in Clients \ {x} : stream'[y] = stream[y] /\ session'[y] = session[y]
  BY <1>1
<1>4. (Listens(x) => \E n \in Nat : Hears(x, n))'
  BY <1>2 DEF Listens
<1>5. Placed(x)'
  BY <1>2 DEF Placed
<1>6. (e.base + 1)..e.cursor \subseteq e.got
  <2>1. e.base + 1 = 1
    OBVIOUS
  <2>2. QED
    BY <2>1
<1>7. GoesOn(x)'
  BY <1>2, <1>4, <1>5, <1>6 DEF GoesOn
<1>8. QED
  BY <1>3, <1>7, OneClientGoesOn

\* What a client knows of its own.
LEMMA OwnFacts ==
    ASSUME StreamInv, GapInv, NEW x \in Clients
    PROVE  /\ stream[x] \in Stream /\ session[x] \in Session /\ session[x].base = 0
           /\ stream \in [Clients -> Stream] /\ session \in [Clients -> Session]
           /\ log \in Nat /\ session[x].cursor \in Nat /\ session[x].cursor <= log
           /\ stream[x].delivered \in 0..log
           /\ stream[x].mode \notin {"live", "cold", "first"}
           /\ stream[x].mode \in Attached => stream[x].delivered <= session[x].cursor
           /\ stream[x].mode = "replay" => stream[x].delivered = session[x].cursor
           /\ 1..session[x].cursor \subseteq session[x].got
<1>1. NobodyElse /\ Gapless /\ Placed(x)
  BY DEF GapInv
<1>2. /\ stream[x] \in Stream /\ session[x] \in Session
      /\ stream \in [Clients -> Stream] /\ session \in [Clients -> Session]
      /\ log \in Nat /\ session[x].cursor \in 0..log /\ stream[x].delivered \in 0..log
  BY <1>1, GapFacts
<1>3. (session[x].base + 1)..session[x].cursor \subseteq session[x].got /\ session[x].base = 0
  BY <1>1 DEF Gapless, Placed
<1>4. session[x].base + 1 = 1
  BY <1>3
<1>5. 1..session[x].cursor \subseteq session[x].got
  BY <1>3, <1>4
<1>6. QED
  BY <1>1, <1>2, <1>3, <1>5 DEF Placed

\* The responses a client is left with.
LEMMA NewMode ==
    ASSUME NEW t \in Stream, NEW mode \in Modes
    PROVE  /\ [t EXCEPT !.mode = mode] \in Stream
           /\ [t EXCEPT !.mode = mode].mode = mode /\ [t EXCEPT !.mode = mode].sub = t.sub
           /\ [t EXCEPT !.mode = mode].delivered = t.delivered
BY DEF Stream

LEMMA NewDelivered ==
    ASSUME NEW t \in Stream, NEW n \in 0..MaxLog
    PROVE  /\ [t EXCEPT !.delivered = n] \in Stream
           /\ [t EXCEPT !.delivered = n].mode = t.mode /\ [t EXCEPT !.delivered = n].sub = t.sub
           /\ [t EXCEPT !.delivered = n].delivered = n
BY DEF Stream

\* A reader takes from its queue what the queue and the host's output start with.
LEMMA ItemAndRest ==
    ASSUME NEW q \in Seq(Item), q # <<>>, NEW p \in Seq(Item)
    PROVE  /\ q \o p # <<>> /\ Head(q \o p) = Head(q)
           /\ Tail(q \o p) = Tail(q) \o p
<1>1. Head(q) \in Item /\ Tail(q) \in Seq(Item) /\ q = <<Head(q)>> \o Tail(q)
  OBVIOUS
<1>2. PICK r \in Seq(Item), first \in Seq(Item) :
        r = Tail(q) /\ first = <<Head(q)>> /\ Len(first) = 1
  <2>1. ASSUME NEW item \in Item PROVE <<item>> \in Seq(Item) /\ Len(<<item>>) = 1
    OBVIOUS
  <2>2. QED
    BY <1>1, <2>1
<1>3. q \o p = first \o (r \o p) /\ r \o p \in Seq(Item)
  <2>1. first \o (r \o p) = (first \o r) \o p
    BY OneAfterAnother
  <2>2. QED
    BY <1>1, <1>2, <2>1
<1>4. Tail(q \o p) = r \o p
  BY <1>2, <1>3, OneThenRest
<1>5. q \o p # <<>> /\ Head(q \o p) = Head(q)
  <2>1. Len(q) \in Nat /\ Len(q) > 0 /\ Len(p) \in Nat /\ Len(q \o p) = Len(q) + Len(p)
    OBVIOUS
  <2>2. (q \o p)[1] = q[1] /\ q \o p \in Seq(Item)
    BY <2>1
  <2>3. QED
    BY <2>1, <2>2
<1>6. QED
  BY <1>2, <1>4, <1>5

\* A response forwards its next item.
LEMMA ReadNextGoesOn ==
    ASSUME StreamInv, GapInv, NEW x \in Clients, ReadNext(x)
    PROVE  GapInv'
<1> DEFINE e == session[x]
           r == stream[x]
<1>0. /\ NobodyElse /\ ReadersGoOn /\ queue \in [Readers -> Seq(Item)]
      /\ subscribers \in [Hosts -> SUBSET Readers] /\ hostOut \in [Hosts -> Seq(Item)]
      /\ Started \subseteq Hosts
  BY GapFacts DEF GapInv
<1>1. /\ r \in Stream /\ e \in Session /\ e.base = 0 /\ log \in Nat /\ log <= MaxLog
      /\ stream \in [Clients -> Stream] /\ session \in [Clients -> Session]
      /\ e.cursor \in Nat /\ e.cursor <= log /\ r.delivered \in 0..log /\ MaxLog \in Nat
      /\ r.mode \in Following /\ r.mode \in Attached /\ r.mode \in {"raw", "tail"}
      /\ r.delivered <= e.cursor /\ 1..e.cursor \subseteq e.got
  BY <1>0, OwnFacts, GapFacts, StreamAssumption DEF ReadNext, Attached, Following
<1>2. PICK s \in Readers :
          /\ s = r.sub /\ Listens(x) /\ queue[s] # <<>> /\ Read(s)
          /\ entryOf[s] \in Started
          /\ Unread(s) \in Seq(Item)
  <2>1. r.sub # None /\ Read(r.sub) /\ Listens(x) /\ queue[r.sub] # <<>>
    BY <1>1 DEF ReadNext, Listens, StreamInv, Owned, Read
  <2>2. QED
    BY <1>0, <2>1, GapFacts
<1>3. /\ UNCHANGED <<log, over, resting, activity, hostOut, outbox, started, finished, entryOf>>
      /\ \A t \in Readers : t = s \/ SameReader(t)
      /\ \A t \in Readers : entryOf'[t] = None => queue'[t] = <<>>
      /\ Head(queue[s]).kind \in {"event", "error"} =>
            queue'[s] = Tail(queue[s]) /\ subscribers' = subscribers
  <2>1. /\ UNCHANGED <<started, finished, resting, entryOf>> /\ entryOf[s] # None
        /\ \A t \in Readers : t = s \/ SameReader(t)
        /\ Head(queue[s]).kind \in {"event", "error"} =>
              queue'[s] = Tail(queue[s]) /\ subscribers' = subscribers
    BY <1>2, ReadsAside
  <2>2. \A t \in Readers : entryOf'[t] = None => queue'[t] = <<>>
    BY <1>0, <2>1 DEF NobodyElse, SameReader
  <2>3. UNCHANGED <<log, over, activity, hostOut, outbox>>
    BY DEF ReadNext
  <2>4. QED
    BY <2>1, <2>2, <2>3
<1>4. PICK n \in Nat : Hears(x, n)
  BY <1>0, <1>2 DEF ReadersGoOn
<1>5. PICK item \in Item : item = Head(queue[s])
  BY <1>0, <1>2
<1>6. Unread(s) # <<>> /\ Head(Unread(s)) = item
  <2>1. queue[s] \in Seq(Item) /\ queue[s] # <<>> /\ hostOut[entryOf[s]] \in Seq(Item)
    BY <1>0, <1>2
  <2>2. QED
    BY <1>5, <2>1, ItemAndRest DEF Unread
<1>7. /\ item.kind = "event" => item.seq = n + 1
      /\ item.kind = "done" => item.seq <= n
      /\ n <= e.cursor /\ item.seq \in Nat
  BY <1>1, <1>2, <1>4, <1>5, <1>6, FirstFollows DEF Hears, Item
<1>8. /\ \/ /\ item.kind = "event" /\ item.seq > r.delivered
            /\ session' = [session EXCEPT ![x] = Dispatched(x, {item.seq})]
            /\ stream' = [stream EXCEPT ![x].delivered =
                            IF r.mode = "tail" THEN item.seq ELSE @]
         \/ /\ item.kind = "event" /\ item.seq <= r.delivered /\ UNCHANGED <<session, stream>>
         \/ /\ item.kind = "done"
            /\ session' = [session EXCEPT ![x] = DispatchedDone(x, item.seq)]
            /\ stream' = [stream EXCEPT ![x].mode = "ended"]
         \/ /\ stream' = [stream EXCEPT ![x].mode = "ended"] /\ UNCHANGED session
         \/ /\ stream' = [stream EXCEPT ![x].mode = "gone"] /\ UNCHANGED session
  BY <1>2, <1>5 DEF ReadNext
<1>9. ASSUME item.kind = "event", NEW t \in Stream, t.sub = s, t.mode = r.mode,
             NEW d \in Session, stream' = [stream EXCEPT ![x] = t],
             session' = [session EXCEPT ![x] = d], n + 1 <= d.cursor
      PROVE  \E m \in Nat : Hears(x, m)'
  <2>1. Unread(s)' = Tail(Unread(s))
    <3>1. queue[s] \in Seq(Item) /\ queue[s] # <<>> /\ hostOut[entryOf[s]] \in Seq(Item)
      BY <1>0, <1>2
    <3>2. /\ queue'[s] = Tail(queue[s]) /\ subscribers' = subscribers /\ entryOf' = entryOf
          /\ hostOut' = hostOut
      BY <1>3, <1>5, <1>9
    <3>3. Tail(queue[s] \o hostOut[entryOf[s]]) = Tail(queue[s]) \o hostOut[entryOf[s]]
      BY <3>1, ItemAndRest
    <3>4. QED
      BY <3>2, <3>3 DEF Unread
  <2>2. FollowsOn(Tail(Unread(s)), n + 1) /\ Len(Tail(Unread(s))) = Len(Unread(s)) - 1
    BY <1>2, <1>4, <1>6, TailFollows DEF Hears
  <2>3. stream'[x] = t /\ session'[x] = d
    BY <1>1, <1>9
  <2>4. Writing(entryOf[s])' <=> Writing(entryOf[s])
    BY <1>3 DEF Writing, Here, Active, LiveHosts, Started
  <2>5. Writing(entryOf[s])' /\ s \in subscribers'[entryOf[s]] => (n + 1) + Len(Unread(s)') = log
    <3>1. ASSUME Writing(entryOf[s])', s \in subscribers'[entryOf[s]]
          PROVE  (n + 1) + Len(Unread(s)') = log
      <4>1. n + Len(Unread(s)) = log
        BY <1>2, <1>3, <1>4, <1>5, <1>9, <2>4, <3>1 DEF Hears
      <4>2. PICK k \in Nat : k = Len(Unread(s))
        BY <1>2
      <4>3. Len(Unread(s)') = k - 1
        BY <2>1, <2>2, <4>2
      <4>4. QED
        BY <4>1, <4>2, <4>3
    <3>2. QED
      BY <3>1
  <2>6. n + 1 \in Nat
    OBVIOUS
  <2>7. Hears(x, n + 1)'
    BY <1>3, <1>9, <2>1, <2>2, <2>3, <2>5 DEF Hears
  <2>8. QED
    BY <2>6, <2>7
<1>10. ASSUME item.kind = "event", item.seq > r.delivered,
              session' = [session EXCEPT ![x] = Dispatched(x, {item.seq})],
              stream' = [stream EXCEPT ![x].delivered = IF r.mode = "tail" THEN item.seq ELSE @]
       PROVE  GapInv'
  <2> DEFINE m == IF r.mode = "tail" THEN item.seq ELSE r.delivered
             t == [r EXCEPT !.delivered = m]
             d == Dispatched(x, {item.seq})
  <2>1. item.seq \in 0..log
    <3>1. queue[s] \in Seq(Item) /\ Within(queue[s], log) /\ queue[s] # <<>>
      BY <1>0, <1>2 DEF StreamInv, Sequenced
    <3>2. item.seq <= log
      BY <1>5, <3>1 DEF Within
    <3>3. QED
      BY <1>1, <1>7, <3>2
  <2>2. d \in Session
    BY <2>1, Dispatching
  <2>3. /\ d.base = 0
        /\ d.cursor = IF item.seq > e.cursor THEN item.seq ELSE e.cursor
        /\ d.got = e.got \cup (IF item.seq > e.cursor THEN {item.seq} ELSE {})
    BY <1>1, <2>1, TakesOne
  <2>4. m \in 0..MaxLog
    BY <1>1, <2>1
  <2>5. t \in Stream /\ t.mode = r.mode /\ t.sub = r.sub /\ t.delivered = m
    BY <1>1, <2>4, NewDelivered
  <2>6. stream' = [stream EXCEPT ![x] = t] /\ session' = [session EXCEPT ![x] = d]
    BY <1>1, <1>10
  <2>7. item.seq = n + 1 /\ n + 1 <= d.cursor /\ m <= d.cursor /\ 1..d.cursor \subseteq d.got
    <3>1. item.seq = n + 1 /\ n <= e.cursor /\ n \in Nat /\ item.seq \in Nat
      BY <1>7, <1>10
    <3> HIDE DEF d, e, r
    <3>2. CASE item.seq > e.cursor
      <4>1. e.cursor = n /\ d.cursor = n + 1 /\ d.got = e.got \cup {n + 1}
        BY <1>1, <2>3, <3>1, <3>2
      <4>2. QED
        BY <1>1, <3>1, <4>1
    <3>3. CASE item.seq <= e.cursor
      <4>1. d.cursor = e.cursor /\ d.got = e.got
        BY <1>1, <2>3, <3>1, <3>3
      <4>2. QED
        BY <1>1, <3>1, <3>3, <4>1
    <3>4. QED
      BY <1>1, <3>1, <3>2, <3>3
  <2> HIDE DEF m, t, d
  <2>8. \E k \in Nat : Hears(x, k)'
    BY <1>2, <1>9, <1>10, <2>2, <2>5, <2>6, <2>7
  <2>9. QED
    BY <1>1, <1>2, <1>3, <2>2, <2>3, <2>5, <2>6, <2>7, <2>8, OwnStepGoesOn
<1>11. ASSUME item.kind = "event", item.seq <= r.delivered, UNCHANGED <<session, stream>>
       PROVE  GapInv'
  <2>1. stream' = [stream EXCEPT ![x] = r] /\ session' = [session EXCEPT ![x] = e]
    BY <1>1, <1>11
  <2>2. n + 1 <= e.cursor
    BY <1>1, <1>7, <1>11
  <2> HIDE DEF r, e
  <2>3. \E k \in Nat : Hears(x, k)'
    BY <1>1, <1>2, <1>9, <1>11, <2>1, <2>2
  <2>4. r.mode \notin {"idle", "live", "cold", "first", "replay"} /\ r = stream[x]
    BY <1>1 DEF r
  <2>5. QED
    BY <1>1, <1>2, <1>3, <2>1, <2>3, <2>4, OwnStepGoesOn
<1>12. ASSUME NEW mode \in {"ended", "gone"}, NEW d \in Session,
              stream' = [stream EXCEPT ![x].mode = mode],
              session' = [session EXCEPT ![x] = d],
              d.base = 0, 1..d.cursor \subseteq d.got
       PROVE  GapInv'
  <2> DEFINE t == [r EXCEPT !.mode = mode]
  <2>1. t \in Stream /\ t.mode = mode
    <3>1. mode \in Modes
      BY <1>12 DEF Modes
    <3>2. QED
      BY <1>1, <3>1, NewMode
  <2>2. stream' = [stream EXCEPT ![x] = t]
    BY <1>1, <1>12
  <2>3. t.mode \notin {"idle", "live", "cold", "first", "replay"} /\ t.mode \notin Attached
    BY <2>1 DEF Attached, Following
  <2> HIDE DEF t
  <2>4. QED
    BY <1>2, <1>3, <1>12, <2>1, <2>2, <2>3, OwnStepGoesOn
<1>13. ASSUME item.kind = "done",
              session' = [session EXCEPT ![x] = DispatchedDone(x, item.seq)],
              stream' = [stream EXCEPT ![x].mode = "ended"]
       PROVE  GapInv'
  <2> DEFINE d == DispatchedDone(x, item.seq)
  <2>1. item.seq \in 0..log /\ item.seq <= e.cursor
    BY <1>1, <1>7, <1>13
  <2>2. d \in Session /\ d.base = 0 /\ d.cursor = e.cursor /\ d.got = e.got
    BY <1>1, <2>1, DispatchingDone, TakesOne
  <2>3. 1..d.cursor \subseteq d.got
    BY <1>1, <2>2
  <2> HIDE DEF d
  <2>4. session' = [session EXCEPT ![x] = d]
    BY <1>13 DEF d
  <2>5. QED
    BY <1>12, <1>13, <2>2, <2>3, <2>4
<1>14. ASSUME NEW mode \in {"ended", "gone"}, stream' = [stream EXCEPT ![x].mode = mode],
              UNCHANGED session
       PROVE  GapInv'
  <2>1. session' = [session EXCEPT ![x] = e]
    BY <1>1, <1>14
  <2> HIDE DEF e
  <2>2. QED
    BY <1>1, <1>12, <1>14, <2>1
<1>15. QED
  BY <1>8, <1>10, <1>11, <1>13, <1>14

\* A connection that breaks, and a response that catches up.
LEMMA DropGoesOn ==
    ASSUME StreamInv, GapInv, NEW x \in Clients, Drop(x)
    PROVE  GapInv'
<1> DEFINE e == session[x]
           r == stream[x]
           t == [r EXCEPT !.mode = "gone"]
<1>1. /\ r \in Stream /\ e \in Session /\ e.base = 0 /\ 1..e.cursor \subseteq e.got
      /\ stream \in [Clients -> Stream] /\ session \in [Clients -> Session]
  BY OwnFacts
<1>2. /\ UNCHANGED <<log, over, resting, activity, hostOut, outbox, started, finished>>
      /\ \A s \in Readers : entryOf'[s] = None => queue'[s] = <<>>
      /\ \A s \in Readers : SameReader(s)
  BY DEF Drop, managerVars, SameReader, GapInv, NobodyElse
<1>3. "gone" \in Modes
  BY DEF Modes
<1>4. t \in Stream /\ t.mode = "gone"
  BY <1>1, <1>3, NewMode
<1>5. stream' = [stream EXCEPT ![x] = t] /\ session' = [session EXCEPT ![x] = e]
  BY <1>1 DEF Drop
<1>6. t.mode \notin {"idle", "live", "cold", "first", "replay"} /\ t.mode \notin Attached
  BY <1>4 DEF Attached, Following
<1> HIDE DEF t, e
<1>7. QED
  BY <1>1, <1>2, <1>4, <1>5, <1>6, OwnStepGoesOn DEF e

\* A response replays the log from the cursor.
LEMMA ReplayGoesOn ==
    ASSUME StreamInv, GapInv, NEW x \in Clients, Replay(x)
    PROVE  GapInv'
<1> DEFINE e == session[x]
           r == stream[x]
           t == [r EXCEPT !.mode = "check", !.delivered = log]
           d == Dispatched(x, (e.cursor + 1)..log)
<1>0. NobodyElse /\ ReadersGoOn
  BY DEF GapInv
<1>1. /\ r \in Stream /\ e \in Session /\ e.base = 0 /\ 1..e.cursor \subseteq e.got
      /\ stream \in [Clients -> Stream] /\ session \in [Clients -> Session]
      /\ r.mode = "replay" /\ r.delivered = e.cursor
      /\ log \in 0..MaxLog /\ log \in Nat /\ e.cursor \in Nat /\ e.cursor <= log
  BY <1>0, OwnFacts, GapFacts, StreamAssumption DEF Replay, Attached
<1>2. /\ UNCHANGED <<log, over, resting, activity, hostOut, outbox, started, finished>>
      /\ \A s \in Readers : entryOf'[s] = None => queue'[s] = <<>>
      /\ \A s \in Readers : SameReader(s)
      /\ UNCHANGED <<queue, entryOf, subscribers>>
  BY <1>0 DEF Replay, managerVars, SameReader, NobodyElse
<1>3. "check" \in Modes
  BY DEF Modes
<1>4. t \in Stream /\ t.mode = "check" /\ t.delivered = log /\ t.sub = r.sub
  <2>1. [r EXCEPT !.mode = "check"] \in Stream
    BY <1>1, <1>3, NewMode
  <2>2. QED
    BY <1>1, <1>3 DEF Stream
<1>5. d \in Session /\ d.base = 0 /\ d.cursor = log /\ d.got = e.got \cup ((e.cursor + 1)..log)
  <2>1. d.base = 0 /\ d.cursor = log /\ d.got = e.got \cup ((e.cursor + 1)..log)
    BY <1>1, TakesRest
  <2>2. e.cursor \in 0..log
    BY <1>1
  <2>3. d \in Session
    BY <2>2, Dispatching
  <2>4. QED
    BY <2>1, <2>3
<1>6. 1..d.cursor \subseteq d.got
  BY <1>1, <1>5
<1>7. stream' = [stream EXCEPT ![x] = t] /\ session' = [session EXCEPT ![x] = d]
  BY <1>1 DEF Replay
<1> HIDE DEF t, d
<1>8. ASSUME t.sub # None PROVE \E n \in Nat : Hears(x, n)'
  <2>1. Listens(x)
    BY <1>1, <1>4, <1>8 DEF Listens, Attached
  <2>2. PICK s \in Readers :
            s = r.sub /\ Unread(s) \in Seq(Item) /\ entryOf[s] \in Hosts
    BY <1>0, <2>1, GapFacts DEF Listens
  <2>3. PICK n \in Nat : Hears(x, n)
    BY <1>0, <2>1 DEF ReadersGoOn
  <2>4. Within(Unread(s), log)
    <3>1. /\ queue[s] \in Seq(Item) /\ hostOut[entryOf[s]] \in Seq(Item)
          /\ Within(queue[s], log) /\ Within(hostOut[entryOf[s]], log)
      BY <1>0, <2>2, GapFacts DEF StreamInv, Sequenced
    <3>2. ASSUME NEW q \in Seq(Item), NEW p \in Seq(Item), Within(q, log), Within(p, log)
          PROVE  Within(q \o p, log)
      BY <1>1, <3>2 DEF Within
    <3>3. QED
      BY <3>1, <3>2 DEF Unread
  <2>5. PICK k \in 0..log : FollowsOn(Unread(s), k) /\ (n <= log => k = n)
    BY <1>1, <2>2, <2>3, <2>4, FollowsWithin DEF Hears
  <2>6. Writing(entryOf[s])' <=> Writing(entryOf[s])
    BY <1>2 DEF Writing, Here, Active, LiveHosts, Started
  <2>7. Writing(entryOf[s]) /\ s \in subscribers[entryOf[s]] => k + Len(Unread(s)) = log
    <3>1. ASSUME Writing(entryOf[s]), s \in subscribers[entryOf[s]]
          PROVE  k + Len(Unread(s)) = log
      <4>1. n + Len(Unread(s)) = log
        BY <2>2, <2>3, <3>1 DEF Hears
      <4>2. Len(Unread(s)) \in Nat
        BY <2>2
      <4>3. n <= log
        BY <1>1, <4>1, <4>2
      <4>4. QED
        BY <2>5, <4>1, <4>3
    <3>2. QED
      BY <3>1
  <2>8. Unread(s)' = Unread(s)
    BY <1>2 DEF Unread
  <2>9. stream'[x].sub = s /\ session'[x].cursor = log
    BY <1>1, <1>4, <1>5, <1>7, <2>2
  <2>10. k \in Nat /\ k <= log
    BY <1>1
  <2>11. Hears(x, k)'
    BY <1>2, <2>5, <2>6, <2>7, <2>8, <2>9, <2>10 DEF Hears
  <2>12. QED
    BY <2>10, <2>11
<1>9. t.mode \notin {"idle", "live", "cold", "first", "replay"}
  BY <1>4
<1>10. t.delivered <= d.cursor
  BY <1>1, <1>4, <1>5
<1> HIDE DEF r
<1>11. QED
  BY <1>1, <1>2, <1>4, <1>5, <1>6, <1>7, <1>8, <1>9, <1>10, OwnStepGoesOn

\* A response that reads the status, one that subscribes, and the first of all.
LEMMA CheckGoesOn ==
    ASSUME StreamInv, GapInv, NEW x \in Clients, Check(x)
    PROVE  GapInv'
<1> DEFINE e == session[x]
           r == stream[x]
<1>0. NobodyElse /\ ReadersGoOn
  BY DEF GapInv
<1>1. /\ r \in Stream /\ e \in Session /\ e.base = 0 /\ 1..e.cursor \subseteq e.got
      /\ stream \in [Clients -> Stream] /\ session \in [Clients -> Session]
      /\ r.mode = "check" /\ r.delivered <= e.cursor /\ r.delivered \in 0..log
      /\ log \in Nat /\ e.cursor \in Nat /\ e.cursor <= log
      /\ UNCHANGED <<log, over, activity, hostOut, outbox>>
  BY <1>0, OwnFacts DEF Check, Attached
<1>2. CASE /\ Active /\ r.sub # None /\ stream' = [stream EXCEPT ![x].mode = "tail"]
           /\ UNCHANGED <<managerVars, session>>
  <2> DEFINE t == [r EXCEPT !.mode = "tail"]
  <2>1. /\ UNCHANGED <<resting, started, finished, queue, entryOf, subscribers>>
        /\ \A s \in Readers : entryOf'[s] = None => queue'[s] = <<>>
        /\ \A s \in Readers : SameReader(s)
    BY <1>0, <1>2 DEF managerVars, SameReader, NobodyElse
  <2>2. "tail" \in Modes
    BY DEF Modes
  <2>3. t \in Stream /\ t.mode = "tail" /\ t.delivered = r.delivered /\ t.sub = r.sub
    BY <1>1, <2>2, NewMode
  <2>4. stream' = [stream EXCEPT ![x] = t] /\ session' = [session EXCEPT ![x] = e]
    BY <1>1, <1>2
  <2> HIDE DEF t
  <2>5. ASSUME t.sub # None PROVE \E n \in Nat : Hears(x, n)'
    <3>1. Listens(x)
      BY <1>1, <1>2 DEF Listens, Attached
    <3>2. PICK n \in Nat : Hears(x, n)
      BY <1>0, <3>1 DEF ReadersGoOn
    <3>3. PICK s : s = r.sub /\ stream'[x].sub = s /\ session'[x] = e
      BY <1>1, <2>3, <2>4
    <3>4. Unread(s)' = Unread(s) /\ (Writing(entryOf[s])' <=> Writing(entryOf[s]))
      BY <1>1, <2>1 DEF Unread, Writing, Here, Active, LiveHosts, Started
    <3>5. Hears(x, n)'
      BY <1>1, <2>1, <3>2, <3>3, <3>4 DEF Hears
    <3>6. QED
      BY <3>5
  <2>6. t.mode \notin {"idle", "live", "cold", "first", "replay"}
    BY <2>3
  <2>7. t.delivered <= e.cursor
    BY <1>1, <2>3
  <2> HIDE DEF e
  <2>8. QED
    BY <1>1, <2>1, <2>3, <2>4, <2>5, <2>6, <2>7, OwnStepGoesOn
<1>3. CASE /\ stream' = [stream EXCEPT ![x].mode = "ended"]
           /\ session' = IF Active THEN session
                         ELSE [session EXCEPT ![x] = DispatchedDone(x, r.delivered)]
           /\ IF r.sub # None /\ Open(r.sub) THEN Close(r.sub) /\ UNCHANGED stopped
              ELSE UNCHANGED managerVars
  <2> DEFINE t == [r EXCEPT !.mode = "ended"]
             d == IF Active THEN e ELSE DispatchedDone(x, r.delivered)
  <2>1. /\ UNCHANGED <<started, finished, resting, entryOf>>
        /\ \A s \in Readers : entryOf'[s] = None => queue'[s] = <<>>
        /\ \A s \in Readers : s = r.sub \/ SameReader(s)
    <3>1. CASE UNCHANGED managerVars
      BY <1>0, <3>1 DEF managerVars, SameReader, NobodyElse
    <3>2. CASE r.sub # None /\ Close(r.sub)
      <4>1. PICK s \in Readers : s = r.sub /\ Close(s)
        BY <1>0, <3>2, GapFacts
      <4>2. /\ UNCHANGED <<started, finished, resting, entryOf>> /\ entryOf[s] # None
            /\ \A u \in Readers : u = s \/ SameReader(u)
        BY <4>1, ClosesAside
      <4>3. QED
        BY <1>0, <4>1, <4>2 DEF SameReader, NobodyElse
    <3>3. QED
      BY <1>3, <3>1, <3>2
  <2>2. "ended" \in Modes
    BY DEF Modes
  <2>3. t \in Stream /\ t.mode = "ended"
    BY <1>1, <2>2, NewMode
  <2>4. d \in Session /\ d.base = 0 /\ 1..d.cursor \subseteq d.got
    <3>1. CASE Active
      BY <1>1, <3>1
    <3>2. CASE ~Active
      <4>1. d \in Session
        BY <1>1, <3>2, DispatchingDone
      <4>2. d.base = e.base /\ d.cursor = e.cursor /\ d.got = e.got
        BY <1>1, <3>2, TakesOne
      <4>3. QED
        BY <1>1, <4>1, <4>2
    <3>3. QED
      BY <3>1, <3>2
  <2>5. stream' = [stream EXCEPT ![x] = t] /\ session' = [session EXCEPT ![x] = d]
    BY <1>1, <1>3
  <2>6. t.mode \notin {"idle", "live", "cold", "first", "replay"} /\ t.mode \notin Attached
    BY <2>3 DEF Attached, Following
  <2> HIDE DEF t, d
  <2>7. QED
    BY <1>1, <2>1, <2>3, <2>4, <2>5, <2>6, OwnStepGoesOn
<1>4. QED
  BY <1>2, <1>3 DEF Check

\* A client that reconnects, with a new reader or to no host.
LEMMA ReconnectGoesOn ==
    ASSUME StreamInv, GapInv, NEW x \in Clients, Reconnect(x)
    PROVE  GapInv'
<1> DEFINE e == session[x]
           d == [e EXCEPT !.tries = @ + 1]
<1>0. NobodyElse /\ HostsGoOn
  BY DEF GapInv
<1>1. /\ e \in Session /\ e.base = 0 /\ 1..e.cursor \subseteq e.got
      /\ stream \in [Clients -> Stream] /\ session \in [Clients -> Session]
      /\ e.cursor \in Nat /\ e.cursor <= log /\ log \in Nat /\ log <= MaxLog
      /\ MaxTries \in Nat /\ MaxLog \in Nat /\ e.tries < MaxTries
      /\ UNCHANGED <<log, over, activity, hostOut, outbox>>
  BY <1>0, OwnFacts, GapFacts, StreamAssumption DEF Reconnect
<1>2. /\ d \in Session /\ d.base = 0 /\ d.cursor = e.cursor /\ 1..d.cursor \subseteq d.got
      /\ session' = [session EXCEPT ![x] = d]
  <2>1. session' = [session EXCEPT ![x] = d]
    BY <1>1 DEF Reconnect
  <2>2. e.tries + 1 \in 0..MaxTries
    BY <1>1 DEF Session
  <2> HIDE DEF e
  <2>3. d \in Session /\ d.base = e.base /\ d.cursor = e.cursor /\ d.got = e.got
    BY <1>1, <2>2 DEF Session
  <2>4. QED
    BY <1>1, <2>1, <2>3
<1>3. ASSUME NEW t \in Stream, t.mode = "replay", t.delivered = e.cursor,
             stream' = [stream EXCEPT ![x] = t],
             UNCHANGED <<resting, started, finished>>,
             \A s \in Readers : entryOf'[s] = None => queue'[s] = <<>>,
             \A s \in Readers : entryOf[s] = None \/ SameReader(s),
             t.sub # None => \E n \in Nat : Hears(x, n)'
      PROVE  GapInv'
  <2>1. t.mode \notin {"idle", "live", "cold", "first"} /\ t.delivered = d.cursor
        /\ t.delivered <= d.cursor
    BY <1>1, <1>2, <1>3
  <2> HIDE DEF d
  <2>2. QED
    BY <1>1, <1>2, <1>3, <2>1, OwnStepGoesOn
<1> DEFINE FromCursor(s) == [mode |-> "replay", sub |-> s, delivered |-> e.cursor, first |-> 0]
<1>4. \A s \in Readers \cup {None} :
        /\ FromCursor(s) \in Stream /\ FromCursor(s).mode = "replay"
        /\ FromCursor(s).delivered = e.cursor /\ FromCursor(s).sub = s
  BY <1>1 DEF Stream, Modes
<1>5. CASE stream' = [stream EXCEPT ![x] = FromCursor(None)] /\ UNCHANGED managerVars
  <2>1. /\ UNCHANGED <<resting, started, finished>>
        /\ \A s \in Readers : entryOf'[s] = None => queue'[s] = <<>>
        /\ \A s \in Readers : SameReader(s)
    BY <1>0, <1>5 DEF managerVars, SameReader, NobodyElse
  <2>2. /\ FromCursor(None) \in Stream /\ FromCursor(None).mode = "replay"
        /\ FromCursor(None).delivered = e.cursor /\ FromCursor(None).sub = None
    BY <1>4
  <2> HIDE DEF FromCursor
  <2>3. QED
    BY <1>3, <1>5, <2>1, <2>2
<1>6. ASSUME NEW s \in Readers, Subscribe(run, s), stream' = [stream EXCEPT ![x] = FromCursor(s)]
      PROVE  GapInv'
  <2>1. PICK h \in Started : h = runs[run] /\ h \in Hosts
    BY <1>0, <1>6, TheRun, GapFacts
       DEF Subscribe, Reachable, StreamInv, RegistryInv, Registered
  <2>2. /\ entryOf[s] = None /\ entryOf' = [entryOf EXCEPT ![s] = h]
        /\ subscribers' = [subscribers EXCEPT ![h] = @ \cup {s}]
        /\ UNCHANGED <<queue, resting, started, finished>>
    BY <1>6, <2>1 DEF Subscribe, Attach, hostVars
  <2>3. /\ entryOf \in [Readers -> Hosts \cup {None}] /\ subscribers \in [Hosts -> SUBSET Readers]
        /\ hostOut[h] \in Seq(Item)
    BY <1>0, <2>1, GapFacts
  <2>4. \A u \in Readers : entryOf'[u] = None => queue'[u] = <<>>
    BY <1>0, <2>2, <2>3 DEF NobodyElse
  <2>5. \A u \in Readers : entryOf[u] = None \/ SameReader(u)
    <3>1. ASSUME NEW u \in Readers, entryOf[u] # None PROVE SameReader(u)
      <4>1. u # s /\ entryOf'[u] = entryOf[u] /\ entryOf[u] \in Hosts
        BY <2>2, <2>3, <3>1
      <4>2. u \in subscribers'[entryOf[u]] <=> u \in subscribers[entryOf[u]]
        BY <2>1, <2>2, <2>3, <4>1
      <4>3. QED
        BY <2>2, <4>1, <4>2 DEF SameReader
    <3>2. QED
      BY <3>1
  <2>6. /\ FromCursor(s) \in Stream /\ FromCursor(s).mode = "replay"
        /\ FromCursor(s).delivered = e.cursor /\ FromCursor(s).sub = s
    BY <1>4
  <2> HIDE DEF FromCursor
  <2>7. \E n \in Nat : Hears(x, n)'
    <3>1. PICK n \in Nat : FollowsOn(hostOut[h], n) /\ (Writing(h) => n + Len(hostOut[h]) = log)
      BY <1>0, <2>1 DEF HostsGoOn
    <3>2. stream'[x] = FromCursor(s)
      BY <1>1, <1>6
    <3>3. queue'[s] = <<>> /\ hostOut'[h] = hostOut[h] /\ entryOf'[s] = h
      BY <1>0, <1>1, <2>2, <2>3 DEF NobodyElse
    <3>4. Unread(s)' = hostOut[h]
      BY <2>1, <2>2, <2>3, <3>3 DEF Unread
    <3>5. Writing(h)' <=> Writing(h)
      BY <1>1, <2>2 DEF Writing, Here, Active, LiveHosts, Started
    <3>6. Hears(x, n)'
      BY <1>1, <2>6, <3>1, <3>2, <3>3, <3>4, <3>5 DEF Hears
    <3>7. QED
      BY <3>6
  <2>8. QED
    BY <1>3, <1>6, <2>2, <2>4, <2>5, <2>6, <2>7
<1>7. QED
  BY <1>5, <1>6 DEF Reconnect

\* What stays as it is when no client moves.
LEMMA AsideGoesOn ==
    ASSUME StreamInv, GapInv,
           \/ UNCHANGED streamVars
           \/ \E s \in Readers : CloseReader(s)
    PROVE  GapInv'
<1>0. NobodyElse
  BY DEF GapInv
<1>1. {} \in SUBSET Clients /\ AllGoOn({})'
  BY DEF AllGoOn
<1>2. CASE UNCHANGED streamVars
  <2>1. Around({})
    BY <1>0, <1>2 DEF Around, streamVars, managerVars, SameReader, NobodyElse
  <2>2. QED
    BY <1>1, <2>1, ClientsGoOn
<1>3. ASSUME NEW s \in Readers, CloseReader(s) PROVE GapInv'
  <2>1. /\ UNCHANGED <<started, finished, resting, entryOf>> /\ entryOf[s] # None
        /\ \A t \in Readers : t = s \/ SameReader(t)
    BY <1>3, ClosesAside DEF CloseReader
  <2>2. UNCHANGED <<log, over, activity, hostOut, outbox, stream, session>>
    BY <1>3 DEF CloseReader
  <2>3. \A t \in Readers : entryOf'[t] = None => queue'[t] = <<>>
    BY <1>0, <2>1 DEF NobodyElse, SameReader
  <2>4. ASSUME NEW y \in Clients, Listens(y) PROVE SameReader(stream[y].sub)
    <3>1. stream[y].sub \in Readers /\ stream[y].sub # s
      BY <1>0, <1>3, <2>4, GapFacts DEF CloseReader, Listens
    <3>2. QED
      BY <2>1, <3>1
  <2>5. Around({})
    BY <2>1, <2>2, <2>3, <2>4 DEF Around
  <2>6. QED
    BY <1>1, <2>5, ClientsGoOn
<1>4. QED
  BY <1>2, <1>3

\* The run begins: nothing is committed yet.
LEMMA ChatGoesOn ==
    ASSUME StreamInv, GapInv, NEW x \in Clients, NEW s \in Readers, Chat(x, s)
    PROVE  GapInv'
<1>0. NobodyElse /\ \A y \in Clients : Placed(y)
  BY DEF GapInv
<1>1. started = 0
  <2>1. \A h \in Started : hostRun[h] # run /\ hostRun[h] = run
    BY DEF Chat, Begin, StreamInv, OneRun
  <2>2. started \in Nat
    BY <1>0, GapFacts
  <2>3. QED
    BY <2>1, <2>2 DEF Started
<1>2. /\ log = 0 /\ log' = 0 /\ started' = 1 /\ Started' = {1} /\ Started = {} /\ 1 \in Hosts
      /\ outbox = {} /\ outbox' = {}
  <2>1. started' = 1 /\ 1 \in Hosts
    BY <1>1, ManagerAssumption DEF Chat, Begin, Start, Hosts
  <2>2. Started' = {1} /\ Started = {}
    BY <1>1, <2>1 DEF Started
  <2>3. QED
    BY <1>0, <1>1, <2>1, <2>2 DEF Chat, NobodyElse
<1>3. /\ entryOf \in [Readers -> Hosts \cup {None}] /\ stream \in [Clients -> Stream]
      /\ session' = session /\ queue' = queue /\ hostOut' = hostOut
      /\ entryOf[s] = None /\ entryOf' = [entryOf EXCEPT ![s] = 1]
      /\ stream' = [stream EXCEPT ![x].mode = "raw", ![x].sub = s]
      /\ subscribers \in [Hosts -> SUBSET Readers]
      /\ subscribers' = [subscribers EXCEPT ![1] = @ \cup {s}]
  BY <1>0, <1>1, GapFacts DEF Chat, Begin, Start, Attach
<1>4. hostOut[1] = <<>>
  BY <1>2 DEF StreamInv, OneRun
<1>5. NobodyElse'
  BY <1>0, <1>2, <1>3 DEF NobodyElse
<1>6. FollowsOn(<<>>, 0) /\ Len(<<>>) = 0 /\ 0 \in Nat /\ 0 + 0 = 0
  BY Closings, ClosingFollows
<1>7. HostsGoOn'
  BY <1>2, <1>3, <1>4, <1>6 DEF HostsGoOn
<1>8. \A y \in Clients : ~Listens(y)
  BY <1>0, <1>2, GapFacts
<1>9. \A y \in Clients \ {x} : stream'[y] = stream[y]
  BY <1>3
<1>10. stream'[x].mode = "raw" /\ stream'[x].sub = s /\ stream'[x].delivered = stream[x].delivered
  BY <1>3 DEF Stream
<1>11. ReadersGoOn'
  <2>1. queue'[s] = <<>> /\ entryOf'[s] = 1 /\ s \in subscribers'[1]
    BY <1>0, <1>2, <1>3 DEF NobodyElse
  <2>2. Unread(s)' = <<>>
    <3>1. <<>> \o <<>> = <<>>
      OBVIOUS
    <3>2. QED
      BY <1>3, <1>4, <2>1, <3>1 DEF Unread
  <2>3. 0 <= session'[x].cursor
    BY <1>0, <1>3, GapFacts
  <2>4. Hears(x, 0)'
    BY <1>2, <1>6, <1>10, <2>1, <2>2, <2>3 DEF Hears
  <2>5. \A y \in Clients \ {x} : ~Listens(y)'
    BY <1>8, <1>9 DEF Listens
  <2>6. QED
    BY <1>6, <2>4, <2>5 DEF ReadersGoOn
<1>12. Placed(x)'
  <2>1. stream[x].delivered <= session[x].cursor
    BY <1>0, <1>2, GapFacts
  <2>2. QED
    BY <1>0, <1>3, <1>10, <2>1 DEF Placed
<1>13. \A y \in Clients : Placed(y)'
  BY <1>0, <1>3, <1>9, <1>12 DEF Placed
<1>14. Gapless'
  BY <1>3 DEF GapInv, Gapless
<1>15. QED
  BY <1>5, <1>7, <1>11, <1>13, <1>14 DEF GapInv

\* Nothing is committed and nobody listens.
LEMMA GapBegins == StreamInit => GapInv
<1> SUFFICES ASSUME StreamInit PROVE GapInv
  OBVIOUS
<1>1. /\ started = 0 /\ log = 0 /\ outbox = {} /\ Started = {}
      /\ queue = [s \in Readers |-> <<>>]
      /\ \A x \in Clients : /\ stream[x].mode = "idle" /\ session[x].base = 0
                            /\ session[x].cursor = 0
  BY DEF StreamInit, ManagerInit, Started
<1>2. NobodyElse /\ HostsGoOn /\ ReadersGoOn
  BY <1>1 DEF NobodyElse, HostsGoOn, ReadersGoOn, Listens, Attached, Following
<1>3. (0 + 1)..0 = {}
  OBVIOUS
<1>4. Gapless
  BY <1>1, <1>3 DEF Gapless
<1>5. \A x \in Clients : Placed(x)
  BY <1>1 DEF Placed, Attached, Following
<1>6. QED
  BY <1>2, <1>4, <1>5 DEF GapInv

\* Every step that is no command.
LEMMA GapStep ==
    ASSUME StreamInv, GapInv, Undisturbed \/ UNCHANGED streamVars
    PROVE  GapInv'
<1>1. ASSUME NEW h \in Hosts,
             \/ HostCommits(h) \/ HostAsks(h) \/ HostFinishes(h) \/ HostFails(h)
             \/ HostYieldsNext(h) \/ HostReturns(h)
      PROVE  GapInv'
  BY <1>1, HostStepsGoOn
<1>2. ASSUME NEW x \in Clients, Watching(x) PROVE GapInv'
  <2>1. ~ReadFirst(x)
    BY OwnFacts DEF ReadFirst
  <2>2. QED
    BY <1>2, <2>1, ReadNextGoesOn, DropGoesOn, ReconnectGoesOn, ReplayGoesOn, CheckGoesOn,
       ChatGoesOn DEF Watching
<1>3. QED
  BY <1>1, <1>2, AsideGoesOn DEF Undisturbed
-----------------------------------------------------------------------------
(* The scenarios of MCEventStream, for every value of the constants.         *)
ScenarioInv ==
    /\ scenario = "clients" => StreamInv /\ FoundInv
    /\ scenario = "reconnects" => StreamInv /\ GapInv

(* Nobody looks in vain (HostReachable of run_manager.py, whatever the       *)
(* clients and their commands do, as long as readers that fall behind have   *)
(* closed when another host starts; and the cursor of client.ts against the  *)
(* replay and the queue of _replay_and_subscribe, for any number of          *)
(* reconnections: without commands nothing below a cursor is missing).       *)
THEOREM NobodyMisses ==
    MCSpec /\ [](scenario = "clients" => EvictedHaveClosed) => []NothingMissed
<1>1. MCInit => ScenarioInv
  <2>1. StreamInit => FoundInv
    BY DEF StreamInit, ManagerInit, FoundInv, Lingering, HostReachable, LiveHosts, Started
  <2>2. QED
    BY <2>1, StreamBegins, GapBegins DEF MCInit, ScenarioInv
<1>2. ScenarioInv /\ (scenario = "clients" => EvictedHaveClosed) /\ [MCNext]_mcVars
      => ScenarioInv'
  <2> SUFFICES ASSUME ScenarioInv, scenario = "clients" => EvictedHaveClosed, [MCNext]_mcVars
               PROVE  ScenarioInv'
    OBVIOUS
  <2>1. scenario' = scenario
    BY DEF MCNext, mcVars
  <2>2. CASE scenario = "clients"
    <3>1. [StreamNext]_streamVars
      BY <2>2 DEF MCNext, mcVars
    <3>2. StreamInv /\ FoundInv /\ EvictedHaveClosed
      BY <2>2 DEF ScenarioInv
    <3>3. StreamInv'
      BY <3>1, <3>2, StreamStepKeeps
    <3>4. FoundInv'
      BY <3>1, <3>2, StreamSteps, FoundKeeps DEF StreamInv
    <3>5. QED
      BY <2>1, <2>2, <3>3, <3>4 DEF ScenarioInv
  <2>3. CASE scenario = "reconnects"
    <3>1. Undisturbed \/ UNCHANGED streamVars
      BY <2>3 DEF MCNext, mcVars
    <3>2. StreamInv /\ GapInv
      BY <2>3 DEF ScenarioInv
    <3>3. [StreamNext]_streamVars
      BY <3>1 DEF StreamNext, Undisturbed, Watching
    <3>4. StreamInv' /\ GapInv'
      BY <3>1, <3>2, <3>3, StreamStepKeeps, GapStep
    <3>5. QED
      BY <2>1, <2>3, <3>4 DEF ScenarioInv
  <2>4. QED
    BY <2>1, <2>2, <2>3 DEF ScenarioInv
<1>3. ScenarioInv => NothingMissed
  BY DEF ScenarioInv, NothingMissed, HostFound, ReconnectsGapless, FoundInv, HostReachable, GapInv
<1>4. QED
  BY <1>1, <1>2, <1>3, PTL DEF MCSpec
-----------------------------------------------------------------------------
(* WebWorkspace, for any conversations, calls and runs: the inductive        *)
(* invariant.                                                                *)
Functions == {"none", "navigate", "add", "remove", "upload", "send"} \cup Continuations \cup Orders
Awaits == {"none", "lists", "detail", "create", "delete", "upload", "latest", "restore",
           "refresh", "stream", "fresh", "final"}
Flow == [fn : Functions, at : Awaits, current : BOOLEAN, present : BOOLEAN,
         for : Threads \cup {Nowhere}, run : RunIds \cup {Nowhere}, header : BOOLEAN,
         seen : Threads \cup {Nowhere}, owns : BOOLEAN, next : {"lists", "final"}]

PageTyped == WebTypeOK /\ flow \in [Flows -> Flow]

\* What a call holds at each of its awaits: a conversation, and a run that belongs to it.
Held(f) ==
    /\ flow[f].fn = "none" => flow[f].at = "none"
    /\ flow[f].at \notin {"none", "final"} => flow[f].for # Nowhere
    /\ flow[f].at \in {"restore", "stream"} /\ flow[f].run # Nowhere =>
           flow[f].run[1] = flow[f].for
    /\ flow[f].at = "stream" => flow[f].fn \in Continuations \cup {"send"}
    /\ flow[f].at = "stream" /\ flow[f].header => flow[f].run # Nowhere
    /\ flow[f].at \in {"fresh", "refresh"} => flow[f].run # Nowhere
    /\ flow[f].at = "refresh" => flow[f].seen # Nowhere

Holding == \A f \in Flows : Held(f)

\* One call at most has the newest number, and while it fetches a conversation the page shows
\* that one or none.
Navigating ==
    /\ \A f, g \in Flows : flow[f].current /\ flow[g].current => f = g
    /\ \A f \in Flows :
           flow[f].current /\ flow[f].fn = "navigate" /\ flow[f].at # "final" =>
               active \in {Nowhere, flow[f].for}

\* Whoever locks the page is still there to free it.
Streams(f) == flow[f].fn \in Continuations \cup {"send"} /\ flow[f].present
Uploads(f) == flow[f].fn = "upload"
Refreshes(f) == flow[f].at = "refresh" /\ flow[f].owns /\ flow[f].present
Continues(f) == flow[f].fn \in Continuations /\ flow[f].present
Ordered(f) == flow[f].fn \in Orders

Locks ==
    /\ streaming => \E f \in Flows : Streams(f)
    /\ uploading => \E f \in Flows : Uploads(f)
    /\ busy = "refresh" => \E f \in Flows : Refreshes(f)
    /\ busy \in Continuations => \E f \in Flows : Continues(f)
    /\ busy \in Orders => \E f \in Flows : Ordered(f)

PageInv == PageTyped /\ ShownBelongs /\ Holding /\ Navigating /\ Locks

\* How a step moves one call, and leaves the others.
Others(f) == \A g \in Flows \ {f} : flow'[g] = flow[g]
LeftAlone(f) ==
    \A g \in Flows \ {f} :
        /\ flow'[g].fn = flow[g].fn /\ flow'[g].at = flow[g].at
        /\ flow'[g].present = flow[g].present /\ flow'[g].for = flow[g].for
        /\ flow'[g].run = flow[g].run /\ flow'[g].header = flow[g].header
        /\ flow'[g].seen = flow[g].seen /\ flow'[g].owns = flow[g].owns

LEMMA HoldingStays ==
    ASSUME Holding, NEW f \in Flows, LeftAlone(f), Held(f)'
    PROVE  Holding'
<1>1. ASSUME NEW g \in Flows \ {f} PROVE Held(g)'
  BY DEF Holding, Held, LeftAlone
<1>2. QED
  BY <1>1 DEF Holding

\* A call that ends as it locks the page frees it, and one that locks it is there.
LEMMA LocksStay ==
    ASSUME Locks, NEW f \in Flows, LeftAlone(f),
           streaming' => Streams(f)' \/ (streaming /\ ~Streams(f)),
           uploading' => Uploads(f)' \/ (uploading /\ ~Uploads(f)),
           busy' = "refresh" => Refreshes(f)' \/ (busy = "refresh" /\ ~Refreshes(f)),
           busy' \in Continuations => Continues(f)' \/ (busy \in Continuations /\ ~Continues(f)),
           busy' \in Orders => Ordered(f)' \/ (busy \in Orders /\ ~Ordered(f))
    PROVE  Locks'
<1>1. ASSUME NEW g \in Flows \ {f}
      PROVE  /\ Streams(g) => Streams(g)'
             /\ Uploads(g) => Uploads(g)'
             /\ Refreshes(g) => Refreshes(g)'
             /\ Continues(g) => Continues(g)'
             /\ Ordered(g) => Ordered(g)'
  BY DEF LeftAlone, Streams, Uploads, Refreshes, Continues, Ordered
<1>2. /\ Continuations' = Continuations /\ Orders' = Orders
  BY DEF Continuations, Orders
<1>3. streaming' => \E g \in Flows : Streams(g)'
  BY <1>1 DEF Locks
<1>4. uploading' => \E g \in Flows : Uploads(g)'
  BY <1>1 DEF Locks
<1>5. busy' = "refresh" => \E g \in Flows : Refreshes(g)'
  BY <1>1 DEF Locks
<1>6. busy' \in Continuations => \E g \in Flows : Continues(g)'
  BY <1>1 DEF Locks
<1>7. busy' \in Orders => \E g \in Flows : Ordered(g)'
  BY <1>1 DEF Locks
<1>8. QED
  BY <1>2, <1>3, <1>4, <1>5, <1>6, <1>7 DEF Locks

\* A step that leaves the page where it is, and the newest call what it was.
LEMMA NavigatingStays ==
    ASSUME Navigating, NEW f \in Flows, Others(f), active' = active,
           flow'[f].current => flow[f].current,
           flow'[f].current /\ flow'[f].fn = "navigate" /\ flow'[f].at # "final" =>
               /\ flow[f].fn = "navigate" /\ flow[f].at # "final"
               /\ flow'[f].for = flow[f].for
    PROVE  Navigating'
BY DEF Navigating, Others

LEMMA ReadyIsFlow == Ready \in Flow /\ Ready.fn = "none" /\ Ready.at = "none" /\ ~Ready.current
BY DEF Ready, Flow, Functions, Awaits

\* The call is at another await by now, or over.
MovesTo(f, at) ==
    /\ flow' \in [Flows -> Flow] /\ Others(f) /\ LeftAlone(f)
    /\ flow'[f].fn = flow[f].fn /\ flow'[f].at = at /\ flow'[f].present = flow[f].present
    /\ flow'[f].current => flow[f].current
    /\ at # "final" => /\ flow'[f].for = flow[f].for /\ flow'[f].run = flow[f].run
                       /\ flow'[f].header = flow[f].header

IsOver(f) == flow' \in [Flows -> Flow] /\ Others(f) /\ LeftAlone(f) /\ flow'[f] = Ready

LEMMA Going ==
    ASSUME flow \in [Flows -> Flow], NEW f \in Flows, NEW at \in Awaits, at # "none", Goes(f, at)
    PROVE  MovesTo(f, at)
<1>1. flow[f] \in Flow
  OBVIOUS
<1>2. CASE at = "final"
  <2> DEFINE new == [Ready EXCEPT !.fn = flow[f].fn, !.at = at, !.present = flow[f].present]
  <2>1. flow' = [flow EXCEPT ![f] = new]
    BY <1>2 DEF Goes
  <2>2. /\ new \in Flow /\ new.fn = flow[f].fn /\ new.at = at /\ new.present = flow[f].present
        /\ ~new.current
    BY <1>1, ReadyIsFlow DEF Ready, Flow
  <2> HIDE DEF new
  <2>3. QED
    BY <1>2, <2>1, <2>2 DEF Others, LeftAlone, MovesTo
<1>3. CASE at # "final"
  <2> DEFINE new == [flow[f] EXCEPT !.at = at, !.seen = Nowhere, !.owns = FALSE]
  <2>1. flow' = [flow EXCEPT ![f] = new]
    BY <1>3 DEF Goes
  <2>2. /\ new \in Flow /\ new.fn = flow[f].fn /\ new.at = at /\ new.present = flow[f].present
        /\ new.current = flow[f].current /\ new.for = flow[f].for /\ new.run = flow[f].run
        /\ new.header = flow[f].header
    BY <1>1 DEF Flow
  <2> HIDE DEF new
  <2>3. QED
    BY <1>3, <2>1, <2>2 DEF Others, LeftAlone, MovesTo
<1>4. QED
  BY <1>2, <1>3

LEMMA Returning ==
    ASSUME flow \in [Flows -> Flow], NEW f \in Flows, Returns(f)
    PROVE  IsOver(f)
BY ReadyIsFlow DEF Returns, Others, LeftAlone, IsOver

LEMMA Launching ==
    ASSUME flow \in [Flows -> Flow], NEW f \in Flows, NEW fn \in Functions, NEW at \in Awaits,
           NEW c \in Threads \cup {Nowhere}, NEW r \in RunIds \cup {Nowhere}
    PROVE  LET new == Launched(f, fn, at, c, r)
           IN /\ new \in [Flows -> Flow] /\ \A g \in Flows \ {f} : new[g] = flow[g]
              /\ new[f].fn = fn /\ new[f].at = at /\ new[f].for = c /\ new[f].run = r
              /\ new[f].present /\ ~new[f].current /\ ~new[f].header
<1> DEFINE one == [Ready EXCEPT !.fn = fn, !.at = at, !.present = TRUE, !.for = c, !.run = r]
<1>1. Launched(f, fn, at, c, r) = [flow EXCEPT ![f] = one]
  BY DEF Launched
<1>2. /\ one \in Flow /\ one.fn = fn /\ one.at = at /\ one.for = c /\ one.run = r
      /\ one.present = TRUE /\ one.current = FALSE /\ one.header = FALSE
  BY DEF Ready, Flow
<1> HIDE DEF one
<1>3. QED
  BY <1>1, <1>2

LEMMA Numbering ==
    ASSUME NEW fs \in [Flows -> Flow], NEW f \in Flows
    PROVE  LET new == Numbered(f, fs)
           IN /\ new \in [Flows -> Flow]
              /\ \A g \in Flows : /\ new[g].current <=> g = f
                                  /\ new[g].fn = fs[g].fn /\ new[g].at = fs[g].at
                                  /\ new[g].present = fs[g].present /\ new[g].for = fs[g].for
                                  /\ new[g].run = fs[g].run /\ new[g].header = fs[g].header
                                  /\ new[g].seen = fs[g].seen /\ new[g].owns = fs[g].owns
<1> DEFINE one(g) == [fs[g] EXCEPT !.current = (g = f)]
<1>1. ASSUME NEW g \in Flows
      PROVE  /\ one(g) \in Flow /\ (one(g).current <=> g = f)
             /\ one(g).fn = fs[g].fn /\ one(g).at = fs[g].at
             /\ one(g).present = fs[g].present /\ one(g).for = fs[g].for
             /\ one(g).run = fs[g].run /\ one(g).header = fs[g].header
             /\ one(g).seen = fs[g].seen /\ one(g).owns = fs[g].owns
  BY DEF Flow
<1>2. Numbered(f, fs) = [g \in Flows |-> one(g)]
  BY DEF Numbered
<1> HIDE DEF one
<1>3. Numbered(f, fs) \in [Flows -> Flow] /\ \A g \in Flows : Numbered(f, fs)[g] = one(g)
  BY <1>1, <1>2
<1>4. ASSUME NEW g \in Flows
      PROVE  LET new == Numbered(f, fs)
             IN /\ new[g].current <=> g = f
                /\ new[g].fn = fs[g].fn /\ new[g].at = fs[g].at
                /\ new[g].present = fs[g].present /\ new[g].for = fs[g].for
                /\ new[g].run = fs[g].run /\ new[g].header = fs[g].header
                /\ new[g].seen = fs[g].seen /\ new[g].owns = fs[g].owns
  <2>1. Numbered(f, fs)[g] = one(g)
    BY <1>3
  <2>2. QED
    BY <1>1, <2>1
<1>5. QED
  BY <1>3, <1>4

LEMMA LaunchedAlone ==
    ASSUME flow \in [Flows -> Flow], NEW f \in Flows, NEW fn \in Functions, NEW at \in Awaits,
           NEW c \in Threads \cup {Nowhere}, NEW r \in RunIds \cup {Nowhere},
           Launch(f, fn, at, c, r)
    PROVE  /\ flow' \in [Flows -> Flow] /\ Others(f) /\ LeftAlone(f) /\ flow[f].fn = "none"
           /\ flow'[f].fn = fn /\ flow'[f].at = at /\ flow'[f].for = c /\ flow'[f].run = r
           /\ flow'[f].present /\ ~flow'[f].current /\ ~flow'[f].header
<1>1. flow' = Launched(f, fn, at, c, r) /\ flow[f].fn = "none"
  BY DEF Launch
<1>2. QED
  BY <1>1, Launching DEF Others, LeftAlone

LEMMA LaunchedNumbered ==
    ASSUME flow \in [Flows -> Flow], NEW f \in Flows, NEW fn \in Functions, NEW at \in Awaits,
           NEW c \in Threads, LaunchNumbered(f, fn, at, c)
    PROVE  /\ flow' \in [Flows -> Flow] /\ flow[f].fn = "none" /\ LeftAlone(f)
           /\ \A g \in Flows \ {f} : ~flow'[g].current
           /\ flow'[f].fn = fn /\ flow'[f].at = at /\ flow'[f].for = c
<1> DEFINE fs == Launched(f, fn, at, c, Nowhere)
<1>1. /\ flow' = Numbered(f, fs) /\ flow[f].fn = "none"
  BY DEF LaunchNumbered
<1>2. /\ fs \in [Flows -> Flow] /\ \A g \in Flows \ {f} : fs[g] = flow[g]
      /\ fs[f].fn = fn /\ fs[f].at = at /\ fs[f].for = c
  BY Launching
<1> HIDE DEF fs
<1>3. QED
  BY <1>1, <1>2, Numbering DEF LeftAlone

\* The call awaits a refreshActiveRun, which has locked the page unless it was locked.
LooksAgain(f, r) ==
    /\ flow' \in [Flows -> Flow] /\ Others(f) /\ LeftAlone(f)
    /\ flow'[f].fn = flow[f].fn /\ flow'[f].at = "refresh"
    /\ flow'[f].present /\ flow'[f].current = flow[f].current
    /\ flow'[f].for = flow[f].for /\ flow'[f].run = r /\ r # Nowhere
    /\ flow'[f].seen = active' /\ active' # Nowhere
    /\ \/ busy = "none" /\ busy' = "refresh" /\ flow'[f].owns
       \/ busy # "none" /\ busy' = busy

LEMMA RefreshGoes ==
    ASSUME PageTyped, NEW f \in Flows, NEW r \in RunIds \cup {Nowhere},
           active' \in Threads \cup {Nowhere}, NEW next \in {"lists", "final"},
           Refreshing(f, r, next)
    PROVE  (MovesTo(f, next) /\ busy' = busy) \/ LooksAgain(f, r)
<1>1. CASE r = Nowhere \/ active' = Nowhere
  BY <1>1, Going DEF Refreshing, PageTyped, Awaits
<1>2. CASE ~(r = Nowhere \/ active' = Nowhere)
  <2>0. PICK c \in Threads, owns \in BOOLEAN : c = active' /\ owns = (busy = "none")
    BY <1>2
  <2> DEFINE new == [flow[f] EXCEPT !.at = "refresh", !.next = next, !.run = r, !.seen = c,
                                    !.owns = owns, !.present = TRUE]
  <2>1. flow' = [flow EXCEPT ![f] = new] /\ busy' = IF busy = "none" THEN "refresh" ELSE busy
    BY <1>2, <2>0 DEF Refreshing
  <2>2. /\ new \in Flow /\ new.fn = flow[f].fn /\ new.at = "refresh"
        /\ new.present = TRUE /\ new.current = flow[f].current
        /\ new.for = flow[f].for /\ new.run = r /\ new.seen = c
        /\ new.owns = owns
    <3>1. flow[f] \in Flow /\ "refresh" \in Awaits
      BY DEF PageTyped, Awaits
    <3>2. QED
      BY <3>1 DEF Flow
  <2> HIDE DEF new
  <2>3. QED
    BY <1>2, <2>0, <2>1, <2>2 DEF PageTyped, Others, LeftAlone, LooksAgain
<1>3. QED
  BY <1>1, <1>2

LEMMA SelectProjectStep ==
    ASSUME PageInv, NEW f \in Flows,  SelectProject(f)
    PROVE  PageInv'
<1> USE WebAssumption
<1>1. /\ active' = Nowhere /\ shown' = Nowhere /\ activeRunId' = Nowhere /\ activeRun' = NoRun
      /\ question' = Nowhere /\ UNCHANGED <<streaming, uploading, busy, remembered, asked>>
  BY DEF SelectProject, Page, Cleared, flagVars
<1>2. /\ flow' \in [Flows -> Flow] /\ flow[f].fn = "none" /\ LeftAlone(f)
      /\ \A g \in Flows \ {f} : ~flow'[g].current
      /\ flow'[f].fn = "navigate" /\ flow'[f].at = "lists" /\ flow'[f].for # Nowhere
  BY LaunchedNumbered, WebAssumption DEF PageInv, PageTyped, SelectProject, Functions, Awaits
<1>3. PageTyped'
  BY <1>1, <1>2 DEF PageInv, PageTyped, WebTypeOK, Flow, NoRun, Statuses
<1>4. ShownBelongs'
  BY <1>1, <1>2 DEF PageInv, PageTyped, ShownBelongs, WebTypeOK, Holding, Flow
<1>5. Holding'
  <2>1. Held(f)'
    BY <1>1, <1>2 DEF PageInv, PageTyped, WebTypeOK, Holding, Held, ShownBelongs, Flow,
       Continuations, Orders
  <2>2. QED
    BY <1>1, <1>2, <2>1, HoldingStays DEF PageInv
<1>6. Navigating'
  BY <1>1, <1>2 DEF PageInv, PageTyped, Navigating, ShownBelongs, Others
<1>7. Locks'
  BY <1>1, <1>2, LocksStay DEF PageInv, Holding, Held, Streams, Uploads, Refreshes, Continues,
     Ordered, Continuations, Orders
<1>8. QED
  BY <1>3, <1>4, <1>5, <1>6, <1>7 DEF PageInv

LEMMA SelectConversationStep ==
    ASSUME PageInv, NEW f \in Flows, NEW c \in Threads, SelectConversation(f, c)
    PROVE  PageInv'
<1> USE WebAssumption
<1>1. /\ active' = c /\ shown' = Nowhere /\ activeRunId' = Nowhere /\ activeRun' = NoRun
      /\ question' = Nowhere /\ UNCHANGED <<streaming, uploading, busy, remembered, asked>>
  BY DEF SelectConversation, Page, Cleared, flagVars
<1>2. /\ flow' \in [Flows -> Flow] /\ flow[f].fn = "none" /\ LeftAlone(f)
      /\ \A g \in Flows \ {f} : ~flow'[g].current
      /\ flow'[f].fn = "navigate" /\ flow'[f].at = "detail" /\ flow'[f].for = c
  BY LaunchedNumbered, WebAssumption DEF PageInv, PageTyped, SelectConversation, Functions, Awaits
<1>3. PageTyped'
  BY <1>1, <1>2 DEF PageInv, PageTyped, WebTypeOK, Flow, NoRun, Statuses
<1>4. ShownBelongs'
  BY <1>1, <1>2 DEF PageInv, PageTyped, ShownBelongs, WebTypeOK, Holding, Flow
<1>5. Holding'
  <2>1. Held(f)'
    BY <1>1, <1>2 DEF PageInv, PageTyped, WebTypeOK, Holding, Held, ShownBelongs, Flow,
       Continuations, Orders
  <2>2. QED
    BY <1>1, <1>2, <2>1, HoldingStays DEF PageInv
<1>6. Navigating'
  BY <1>1, <1>2 DEF PageInv, PageTyped, Navigating, ShownBelongs, Others
<1>7. Locks'
  BY <1>1, <1>2, LocksStay DEF PageInv, Holding, Held, Streams, Uploads, Refreshes, Continues,
     Ordered, Continuations, Orders
<1>8. QED
  BY <1>3, <1>4, <1>5, <1>6, <1>7 DEF PageInv

LEMMA AddConversationStep ==
    ASSUME PageInv, NEW f \in Flows, NEW c \in Threads, AddConversation(f, c)
    PROVE  PageInv'
<1> USE WebAssumption
<1>1. UNCHANGED <<active, shown, activeRunId, activeRun, question, streaming, uploading, busy,
                  remembered, asked>>
  BY DEF AddConversation, pageVars, flagVars
<1>2. /\ flow' \in [Flows -> Flow] /\ flow[f].fn = "none" /\ LeftAlone(f)
      /\ \A g \in Flows \ {f} : ~flow'[g].current
      /\ flow'[f].fn = "add" /\ flow'[f].at = "create" /\ flow'[f].for = c
  BY LaunchedNumbered, WebAssumption DEF PageInv, PageTyped, AddConversation, Functions, Awaits
<1>3. PageTyped'
  BY <1>1, <1>2 DEF PageInv, PageTyped, WebTypeOK, Flow
<1>4. ShownBelongs'
  BY <1>1, <1>2 DEF PageInv, PageTyped, ShownBelongs, WebTypeOK, Holding, Flow
<1>5. Holding'
  <2>1. Held(f)'
    BY <1>1, <1>2 DEF PageInv, PageTyped, WebTypeOK, Holding, Held, ShownBelongs, Flow,
       Continuations, Orders
  <2>2. QED
    BY <1>1, <1>2, <2>1, HoldingStays DEF PageInv
<1>6. Navigating'
  BY <1>1, <1>2 DEF PageInv, PageTyped, Navigating, ShownBelongs, Others
<1>7. Locks'
  BY <1>1, <1>2, LocksStay DEF PageInv, Holding, Held, Streams, Uploads, Refreshes, Continues,
     Ordered, Continuations, Orders
<1>8. QED
  BY <1>3, <1>4, <1>5, <1>6, <1>7 DEF PageInv

LEMMA RemoveConversationStep ==
    ASSUME PageInv, NEW f \in Flows, NEW c \in Threads, RemoveConversation(f, c)
    PROVE  PageInv'
<1> USE WebAssumption
<1>1. UNCHANGED <<active, shown, activeRunId, activeRun, question, streaming, uploading, busy,
                  remembered, asked>>
  BY DEF RemoveConversation, pageVars, flagVars
<1>0. Launch(f, "remove", "delete", c, Nowhere)
  BY DEF RemoveConversation
<1>2. /\ flow' \in [Flows -> Flow] /\ Others(f) /\ LeftAlone(f) /\ flow[f].fn = "none"
      /\ flow'[f].fn = "remove" /\ flow'[f].at = "delete" /\ flow'[f].for = c /\ flow'[f].run = Nowhere
      /\ flow'[f].present /\ ~flow'[f].current /\ ~flow'[f].header
  BY <1>0, LaunchedAlone DEF PageInv, PageTyped, Functions, Awaits
<1>4. PageTyped'
  BY <1>1, <1>0, <1>2 DEF PageInv, PageTyped, WebTypeOK, Flow
<1>5. ShownBelongs'
  BY <1>1, <1>0, <1>2 DEF PageInv, PageTyped, ShownBelongs, WebTypeOK, Holding, Flow
<1>6. Holding'
  <2>1. Held(f)'
    BY <1>1, <1>0, <1>2 DEF PageInv, PageTyped, WebTypeOK, Holding, Held, ShownBelongs, Flow,
       Continuations, Orders
  <2>2. QED
    BY <1>1, <1>0, <1>2, <2>1, HoldingStays DEF PageInv
<1>7. Navigating'
  BY <1>1, <1>0, <1>2 DEF PageInv, PageTyped, Navigating, ShownBelongs, Others
<1>8. Locks'
  BY <1>1, <1>0, <1>2, LocksStay DEF PageInv, Holding, Held, Streams, Uploads, Refreshes,
     Continues, Ordered, Continuations, Orders
<1>9. QED
  BY <1>4, <1>5, <1>6, <1>7, <1>8 DEF PageInv

LEMMA UploadFileStep ==
    ASSUME PageInv, NEW f \in Flows, UploadFile(f)
    PROVE  PageInv'
<1> USE WebAssumption
<1>1. /\ UNCHANGED <<active, shown, activeRunId, activeRun, question, streaming, busy,
                     remembered, asked>>
      /\ uploading' = TRUE /\ active # Nowhere
  BY DEF UploadFile, pageVars
<1>2. /\ flow' \in [Flows -> Flow] /\ Others(f) /\ LeftAlone(f) /\ flow[f].fn = "none"
      /\ flow'[f].fn = "upload" /\ flow'[f].at = "upload" /\ flow'[f].for = active /\ flow'[f].run = Nowhere
      /\ flow'[f].present /\ ~flow'[f].current /\ ~flow'[f].header
  <2>1. Launch(f, "upload", "upload", active, Nowhere)
    BY DEF UploadFile
  <2>2. /\ flow \in [Flows -> Flow] /\ active \in Threads \cup {Nowhere}
        /\ "upload" \in Functions /\ "upload" \in Awaits
    BY DEF PageInv, PageTyped, WebTypeOK, Functions, Awaits
  <2>3. QED
    BY <2>1, <2>2, LaunchedAlone
<1>3. PageTyped'
  BY <1>1, <1>2 DEF PageInv, PageTyped, WebTypeOK, Flow
<1>4. ShownBelongs'
  BY <1>1, <1>2 DEF PageInv, PageTyped, ShownBelongs, WebTypeOK, Holding, Flow
<1>5. Holding'
  <2>1. Held(f)'
    BY <1>1, <1>2 DEF PageInv, PageTyped, WebTypeOK, Holding, Held, ShownBelongs, Flow,
       Continuations, Orders
  <2>2. QED
    BY <1>1, <1>2, <2>1, HoldingStays DEF PageInv
<1>6. Navigating'
  BY <1>1, <1>2 DEF PageInv, PageTyped, Navigating, ShownBelongs, Others
<1>7. Locks'
  BY <1>1, <1>2, LocksStay DEF PageInv, Holding, Held, Streams, Uploads, Refreshes, Continues,
     Ordered, Continuations, Orders
<1>8. QED
  BY <1>3, <1>4, <1>5, <1>6, <1>7 DEF PageInv

LEMMA SendStep ==
    ASSUME PageInv, NEW f \in Flows, Send(f)
    PROVE  PageInv'
<1> USE WebAssumption
<1>1. /\ UNCHANGED <<active, shown, uploading, busy, asked>> /\ streaming' = TRUE
      /\ activeRunId' = Nowhere /\ activeRun' = NoRun /\ question' = Nowhere /\ active # Nowhere
      /\ remembered' = [remembered EXCEPT ![active] = Nowhere]
  BY DEF Send, Cleared, Remembers
<1>2. /\ flow' \in [Flows -> Flow] /\ Others(f) /\ LeftAlone(f) /\ flow[f].fn = "none"
      /\ flow'[f].fn = "send" /\ flow'[f].at = "stream" /\ flow'[f].for = active /\ flow'[f].run = Nowhere
      /\ flow'[f].present /\ ~flow'[f].current /\ ~flow'[f].header
  <2>1. Launch(f, "send", "stream", active, Nowhere)
    BY DEF Send
  <2>2. /\ flow \in [Flows -> Flow] /\ active \in Threads \cup {Nowhere}
        /\ "send" \in Functions /\ "stream" \in Awaits
    BY DEF PageInv, PageTyped, WebTypeOK, Functions, Awaits
  <2>3. QED
    BY <2>1, <2>2, LaunchedAlone
<1>3. PageTyped'
  BY <1>1, <1>2 DEF PageInv, PageTyped, WebTypeOK, Flow, NoRun, Statuses
<1>4. ShownBelongs'
  BY <1>1, <1>2 DEF PageInv, PageTyped, ShownBelongs, WebTypeOK, Holding, Flow
<1>5. Holding'
  <2>1. Held(f)'
    BY <1>1, <1>2 DEF PageInv, PageTyped, WebTypeOK, Holding, Held, ShownBelongs, Flow,
       Continuations, Orders
  <2>2. QED
    BY <1>1, <1>2, <2>1, HoldingStays DEF PageInv
<1>6. Navigating'
  BY <1>1, <1>2 DEF PageInv, PageTyped, Navigating, ShownBelongs, Others
<1>7. Locks'
  BY <1>1, <1>2, LocksStay DEF PageInv, Holding, Held, Streams, Uploads, Refreshes, Continues,
     Ordered, Continuations, Orders
<1>8. QED
  BY <1>3, <1>4, <1>5, <1>6, <1>7 DEF PageInv

LEMMA ContinueStep ==
    ASSUME PageInv, NEW f \in Flows, NEW op \in Continuations, Continue(f, op)
    PROVE  PageInv'
<1> USE WebAssumption
<1>1. /\ UNCHANGED <<active, shown, activeRunId, activeRun, question, uploading, remembered,
                     asked>>
      /\ streaming' = TRUE /\ busy = "none" /\ busy' = op
  BY DEF Continue, pageVars
<1>2. /\ flow' \in [Flows -> Flow] /\ Others(f) /\ LeftAlone(f) /\ flow[f].fn = "none"
      /\ flow'[f].fn = op /\ flow'[f].at = "fresh" /\ flow'[f].for = active /\ flow'[f].run = activeRunId
      /\ flow'[f].present /\ ~flow'[f].current /\ ~flow'[f].header
      /\ active # Nowhere /\ activeRunId # Nowhere
  BY LaunchedAlone DEF PageInv, PageTyped, WebTypeOK, ShownBelongs, Functions, Awaits, Continue,
     RunIds
<1>3. PageTyped'
  BY <1>1, <1>2 DEF PageInv, PageTyped, WebTypeOK, Flow, Functions
<1>4. ShownBelongs'
  BY <1>1, <1>2 DEF PageInv, PageTyped, ShownBelongs, WebTypeOK, Holding, Flow
<1>5. Holding'
  <2>1. Held(f)'
    BY <1>1, <1>2 DEF PageInv, PageTyped, WebTypeOK, Holding, Held, ShownBelongs, Flow,
       Continuations, Orders
  <2>2. QED
    BY <1>1, <1>2, <2>1, HoldingStays DEF PageInv
<1>6. Navigating'
  BY <1>1, <1>2 DEF PageInv, PageTyped, Navigating, ShownBelongs, Others
<1>7. Locks'
  BY <1>1, <1>2, LocksStay DEF PageInv, Holding, Held, Streams, Uploads, Refreshes, Continues,
     Ordered, Continuations, Orders
<1>8. QED
  BY <1>3, <1>4, <1>5, <1>6, <1>7 DEF PageInv

LEMMA CommandStep ==
    ASSUME PageInv, NEW f \in Flows, NEW op \in Orders, Command(f, op)
    PROVE  PageInv'
<1> USE WebAssumption
<1>1. /\ UNCHANGED <<active, shown, activeRunId, activeRun, question, streaming, uploading,
                     remembered, asked>>
      /\ busy = "none" /\ busy' = op
  BY DEF Command, pageVars
<1>2. /\ flow' \in [Flows -> Flow] /\ Others(f) /\ LeftAlone(f) /\ flow[f].fn = "none"
      /\ flow'[f].fn = op /\ flow'[f].at = "fresh" /\ flow'[f].for = active /\ flow'[f].run = activeRunId
      /\ flow'[f].present /\ ~flow'[f].current /\ ~flow'[f].header
      /\ active # Nowhere /\ activeRunId # Nowhere
  BY LaunchedAlone DEF PageInv, PageTyped, WebTypeOK, ShownBelongs, Functions, Awaits, Command,
     RunIds
<1>3. PageTyped'
  BY <1>1, <1>2 DEF PageInv, PageTyped, WebTypeOK, Flow, Functions
<1>4. ShownBelongs'
  BY <1>1, <1>2 DEF PageInv, PageTyped, ShownBelongs, WebTypeOK, Holding, Flow
<1>5. Holding'
  <2>1. Held(f)'
    BY <1>1, <1>2 DEF PageInv, PageTyped, WebTypeOK, Holding, Held, ShownBelongs, Flow,
       Continuations, Orders
  <2>2. QED
    BY <1>1, <1>2, <2>1, HoldingStays DEF PageInv
<1>6. Navigating'
  BY <1>1, <1>2 DEF PageInv, PageTyped, Navigating, ShownBelongs, Others
<1>7. Locks'
  BY <1>1, <1>2, LocksStay DEF PageInv, Holding, Held, Streams, Uploads, Refreshes, Continues,
     Ordered, Continuations, Orders
<1>8. QED
  BY <1>3, <1>4, <1>5, <1>6, <1>7 DEF PageInv

LEMMA ListedStep ==
    ASSUME PageInv, NEW f \in Flows, Listed(f)
    PROVE  PageInv'
<1> USE WebAssumption
<1>1. UNCHANGED <<active, shown, activeRunId, activeRun, question, streaming, uploading, busy,
                  remembered, asked>>
  BY DEF Listed, pageVars, flagVars
<1>2. flow[f].fn = "navigate" /\ flow[f].at = "lists"
  BY DEF Listed, At
<1>3. MovesTo(f, "detail") \/ IsOver(f)
  BY Going, Returning, WebAssumption DEF PageInv, PageTyped, Awaits, At, Listed
<1>r. Ready.fn = "none" /\ Ready.at = "none" /\ ~Ready.current
  BY ReadyIsFlow
<1>5. PageTyped'
  BY <1>1, <1>2, <1>3, <1>r DEF PageInv, PageTyped, WebTypeOK, Flow, MovesTo, IsOver, LooksAgain
<1>6. ShownBelongs'
  BY <1>1, <1>2, <1>3, <1>r DEF PageInv, PageTyped, ShownBelongs, WebTypeOK, Holding, Flow,
     MovesTo, IsOver, LooksAgain
<1>7. Holding'
  <2>1. Held(f)'
    BY <1>1, <1>2, <1>3, <1>r DEF PageInv, PageTyped, WebTypeOK, Holding, Held, ShownBelongs,
       Flow, Continuations, Orders, MovesTo, IsOver, LooksAgain
  <2>2. QED
    BY <1>1, <1>2, <1>3, <1>r, <2>1, HoldingStays DEF PageInv, MovesTo, IsOver, LooksAgain
<1>8. Navigating'
  BY <1>1, <1>2, <1>3, ReadyIsFlow, NavigatingStays DEF PageInv, MovesTo, IsOver, LooksAgain
<1>9. Locks'
  BY <1>1, <1>2, <1>3, <1>r, LocksStay DEF PageInv, Holding, Held, Streams, Uploads, Refreshes,
     Continues, Ordered, Continuations, Orders, MovesTo, IsOver, LooksAgain
<1>10. QED
  BY <1>5, <1>6, <1>7, <1>8, <1>9 DEF PageInv

LEMMA DetailedStep ==
    ASSUME PageInv, NEW f \in Flows, Detailed(f)
    PROVE  PageInv'
<1> USE WebAssumption
<1>1. UNCHANGED <<activeRunId, activeRun, question, streaming, uploading, busy, remembered,
                  asked>>
  BY DEF Detailed, flagVars
<1>2. flow[f].fn = "navigate" /\ flow[f].at = "detail" /\ flow[f].for \in Threads
  BY DEF Detailed, At, PageInv, PageTyped, Flow, Holding, Held
<1>3. \/ /\ flow[f].current /\ active' = flow[f].for /\ shown' = active' /\ MovesTo(f, "latest")
      \/ ~flow[f].current /\ UNCHANGED <<active, shown>> /\ IsOver(f)
  BY Going, Returning, WebAssumption DEF PageInv, PageTyped, Awaits, At, Detailed, Page
<1>4. active \in {Nowhere, flow[f].for} \/ ~flow[f].current
  BY <1>2 DEF PageInv, Navigating
<1>5. active = Nowhere => activeRunId = Nowhere /\ question = Nowhere
  BY DEF PageInv, PageTyped, WebTypeOK, ShownBelongs, RunIds
<1>r. Ready.fn = "none" /\ Ready.at = "none" /\ ~Ready.current
  BY ReadyIsFlow
<1>7. PageTyped'
  BY <1>1, <1>2, <1>3, <1>4, <1>5, <1>r DEF PageInv, PageTyped, WebTypeOK, Flow, MovesTo, IsOver,
     LooksAgain
<1>8. ShownBelongs'
  BY <1>1, <1>2, <1>3, <1>4, <1>5, <1>r DEF PageInv, PageTyped, ShownBelongs, WebTypeOK, Holding,
     Flow, MovesTo, IsOver, LooksAgain
<1>9. Holding'
  <2>1. Held(f)'
    BY <1>1, <1>2, <1>3, <1>4, <1>5, <1>r DEF PageInv, PageTyped, WebTypeOK, Holding, Held,
       ShownBelongs, Flow, Continuations, Orders, MovesTo, IsOver, LooksAgain
  <2>2. QED
    BY <1>1, <1>2, <1>3, <1>4, <1>5, <1>r, <2>1, HoldingStays DEF PageInv, MovesTo, IsOver,
       LooksAgain
<1>10. Navigating'
  BY <1>2, <1>3, ReadyIsFlow DEF PageInv, Navigating, MovesTo, IsOver, Others
<1>11. Locks'
  BY <1>1, <1>2, <1>3, <1>4, <1>5, <1>r, LocksStay DEF PageInv, Holding, Held, Streams, Uploads,
     Refreshes, Continues, Ordered, Continuations, Orders, MovesTo, IsOver, LooksAgain
<1>12. QED
  BY <1>7, <1>8, <1>9, <1>10, <1>11 DEF PageInv

LEMMA AddedStep ==
    ASSUME PageInv, NEW f \in Flows, Added(f)
    PROVE  PageInv'
<1> USE WebAssumption
<1>1. UNCHANGED <<streaming, uploading, busy, remembered, asked>>
  BY DEF Added, flagVars
<1>2. flow[f].fn = "add" /\ flow[f].at = "create" /\ flow[f].for \in Threads /\ IsOver(f)
  BY Returning DEF Added, At, PageInv, PageTyped, Flow, Holding, Held
<1>3. \/ /\ flow[f].current /\ active' = flow[f].for /\ shown' = active'
         /\ activeRunId' = Nowhere /\ activeRun' = NoRun /\ question' = Nowhere
      \/ ~flow[f].current /\ UNCHANGED <<active, shown, activeRunId, activeRun, question>>
  BY DEF Added, Page, Cleared, pageVars
<1>r. Ready.fn = "none" /\ Ready.at = "none" /\ ~Ready.current
  BY ReadyIsFlow
<1>5. PageTyped'
  BY <1>1, <1>2, <1>3, <1>r DEF PageInv, PageTyped, WebTypeOK, Flow, MovesTo, IsOver, LooksAgain,
     NoRun, Statuses
<1>6. ShownBelongs'
  BY <1>1, <1>2, <1>3, <1>r DEF PageInv, PageTyped, ShownBelongs, WebTypeOK, Holding, Flow,
     MovesTo, IsOver, LooksAgain
<1>7. Holding'
  <2>1. Held(f)'
    BY <1>1, <1>2, <1>3, <1>r DEF PageInv, PageTyped, WebTypeOK, Holding, Held, ShownBelongs,
       Flow, Continuations, Orders, MovesTo, IsOver, LooksAgain
  <2>2. QED
    BY <1>1, <1>2, <1>3, <1>r, <2>1, HoldingStays DEF PageInv, MovesTo, IsOver, LooksAgain
<1>8. Navigating'
  BY <1>2, <1>3, ReadyIsFlow DEF PageInv, Navigating, IsOver, Others
<1>9. Locks'
  BY <1>1, <1>2, <1>3, <1>r, LocksStay DEF PageInv, Holding, Held, Streams, Uploads, Refreshes,
     Continues, Ordered, Continuations, Orders, MovesTo, IsOver, LooksAgain
<1>10. QED
  BY <1>5, <1>6, <1>7, <1>8, <1>9 DEF PageInv

LEMMA UploadedStep ==
    ASSUME PageInv, NEW f \in Flows, Uploaded(f)
    PROVE  PageInv'
<1> USE WebAssumption
<1>1. UNCHANGED <<active, activeRunId, activeRun, question, streaming, busy, remembered,
                  asked>> /\ uploading' = FALSE
  BY DEF Uploaded
<1>2. flow[f].fn = "upload" /\ flow[f].at = "upload" /\ IsOver(f) /\ shown' \in {active, shown}
  BY Returning DEF Uploaded, At, PageInv, PageTyped
<1>r. Ready.fn = "none" /\ Ready.at = "none" /\ ~Ready.current
  BY ReadyIsFlow
<1>4. PageTyped'
  BY <1>1, <1>2, <1>r DEF PageInv, PageTyped, WebTypeOK, Flow, MovesTo, IsOver, LooksAgain
<1>5. ShownBelongs'
  BY <1>1, <1>2, <1>r DEF PageInv, PageTyped, ShownBelongs, WebTypeOK, Holding, Flow, MovesTo,
     IsOver, LooksAgain
<1>6. Holding'
  <2>1. Held(f)'
    BY <1>1, <1>2, <1>r DEF PageInv, PageTyped, WebTypeOK, Holding, Held, ShownBelongs, Flow,
       Continuations, Orders, MovesTo, IsOver, LooksAgain
  <2>2. QED
    BY <1>1, <1>2, <1>r, <2>1, HoldingStays DEF PageInv, MovesTo, IsOver, LooksAgain
<1>7. Navigating'
  BY <1>1, <1>2, ReadyIsFlow, NavigatingStays DEF PageInv, MovesTo, IsOver, LooksAgain
<1>8. Locks'
  BY <1>1, <1>2, <1>r, LocksStay DEF PageInv, Holding, Held, Streams, Uploads, Refreshes,
     Continues, Ordered, Continuations, Orders, MovesTo, IsOver, LooksAgain
<1>9. QED
  BY <1>4, <1>5, <1>6, <1>7, <1>8 DEF PageInv

LEMMA ReadLatestStep ==
    ASSUME PageInv, NEW f \in Flows, ReadLatest(f)
    PROVE  PageInv'
<1> USE WebAssumption
<1>1. UNCHANGED <<active, shown, activeRunId, activeRun, question, streaming, uploading, busy,
                  remembered, asked>>
  BY DEF ReadLatest, pageVars, flagVars
<1>2. flow[f].at = "latest" /\ flow[f].for \in Threads
  BY DEF ReadLatest, PageInv, PageTyped, Flow, Holding, Held
<1>3. \E r \in RunIds \cup {Nowhere} :
         /\ r # Nowhere => r[1] = flow[f].for
         /\ flow' = [flow EXCEPT ![f] = [flow[f] EXCEPT !.at = "restore", !.run = r]]
  <2> DEFINE r == IF asked[flow[f].for] = 0 THEN Nowhere
                     ELSE <<flow[f].for, asked[flow[f].for]>>
  <2>1. r \in RunIds \cup {Nowhere} /\ (r # Nowhere => r[1] = flow[f].for)
    BY <1>2 DEF PageInv, PageTyped, WebTypeOK, RunIds
  <2>2. flow' = [flow EXCEPT ![f] = [flow[f] EXCEPT !.at = "restore", !.run = r]]
    BY DEF ReadLatest, PageInv, PageTyped
  <2> HIDE DEF r
  <2>3. QED
    BY <2>1, <2>2
<1>4. /\ flow' \in [Flows -> Flow] /\ Others(f) /\ LeftAlone(f)
      /\ flow'[f].fn = flow[f].fn /\ flow'[f].at = "restore" /\ flow'[f].present = flow[f].present
      /\ flow'[f].current = flow[f].current /\ flow'[f].for = flow[f].for
      /\ flow'[f].run # Nowhere => flow'[f].run[1] = flow[f].for
  <2>1. PICK r \in RunIds \cup {Nowhere} :
              /\ r # Nowhere => r[1] = flow[f].for
              /\ flow' = [flow EXCEPT ![f] = [flow[f] EXCEPT !.at = "restore", !.run = r]]
    BY <1>3
  <2> DEFINE new == [flow[f] EXCEPT !.at = "restore", !.run = r]
  <2>2. /\ new \in Flow /\ new.fn = flow[f].fn /\ new.at = "restore" /\ new.run = r
        /\ new.present = flow[f].present /\ new.current = flow[f].current
        /\ new.for = flow[f].for
    <3>1. flow[f] \in Flow /\ "restore" \in Awaits
      BY DEF PageInv, PageTyped, Awaits
    <3>2. QED
      BY <3>1 DEF Flow
  <2>3. flow' = [flow EXCEPT ![f] = new]
    BY <2>1
  <2> HIDE DEF new
  <2>4. flow' \in [Flows -> Flow] /\ flow'[f] = new /\ \A g \in Flows \ {f} : flow'[g] = flow[g]
    BY <2>2, <2>3 DEF PageInv, PageTyped
  <2>5. QED
    BY <2>1, <2>2, <2>4 DEF Others, LeftAlone
<1>r. Ready.fn = "none" /\ Ready.at = "none" /\ ~Ready.current
  BY ReadyIsFlow
<1>6. PageTyped'
  BY <1>1, <1>2, <1>3, <1>4, <1>r DEF PageInv, PageTyped, WebTypeOK, Flow, MovesTo, IsOver,
     LooksAgain
<1>7. ShownBelongs'
  BY <1>1, <1>2, <1>3, <1>4, <1>r DEF PageInv, PageTyped, ShownBelongs, WebTypeOK, Holding, Flow,
     MovesTo, IsOver, LooksAgain
<1>8. Holding'
  <2>1. Held(f)'
    BY <1>1, <1>2, <1>3, <1>4, <1>r DEF PageInv, PageTyped, WebTypeOK, Holding, Held,
       ShownBelongs, Flow, Continuations, Orders, MovesTo, IsOver, LooksAgain
  <2>2. QED
    BY <1>1, <1>2, <1>3, <1>4, <1>r, <2>1, HoldingStays DEF PageInv, MovesTo, IsOver, LooksAgain
<1>9. Navigating'
  BY <1>1, <1>2, <1>3, <1>4, ReadyIsFlow, NavigatingStays DEF PageInv, MovesTo, IsOver, LooksAgain
<1>10. Locks'
  BY <1>1, <1>2, <1>3, <1>4, <1>r, LocksStay DEF PageInv, Holding, Held, Streams, Uploads,
     Refreshes, Continues, Ordered, Continuations, Orders, MovesTo, IsOver, LooksAgain
<1>11. QED
  BY <1>6, <1>7, <1>8, <1>9, <1>10 DEF PageInv

LEMMA RestoreLatestRunStep ==
    ASSUME PageInv, NEW f \in Flows, RestoreLatestRun(f)
    PROVE  PageInv'
<1> USE WebAssumption
<1>1. UNCHANGED <<active, shown, streaming, uploading, asked>>
  BY DEF RestoreLatestRun, pageVars
<1>2. /\ flow[f].at = "restore" /\ flow[f].for \in Threads /\ flow[f].run \in RunIds \cup {Nowhere}
      /\ flow[f].next \in {"lists", "final"} /\ active' \in Threads \cup {Nowhere}
      /\ flow[f].run # Nowhere => flow[f].run[1] = flow[f].for
  BY DEF RestoreLatestRun, pageVars, PageInv, PageTyped, WebTypeOK, Flow, Holding, Held
<1>3. /\ \/ (MovesTo(f, "lists") \/ MovesTo(f, "final")) /\ busy' = busy
         \/ LooksAgain(f, flow[f].run)
      /\ \/ UNCHANGED <<activeRunId, activeRun, question, remembered>>
         \/ /\ remembered' = [remembered EXCEPT ![flow[f].for] = Nowhere]
            /\ activeRunId' = Nowhere /\ activeRun' = NoRun /\ question' = Nowhere
         \/ /\ remembered' = [remembered EXCEPT ![flow[f].for] = flow[f].run]
            /\ flow[f].run # Nowhere /\ active = flow[f].for
            /\ activeRunId' = flow[f].run /\ UNCHANGED <<activeRun, question>>
  <2>1. CASE ~StillHere(f)
    BY <1>2, <2>1, Going DEF RestoreLatestRun, pageVars, PageInv, PageTyped, Awaits
  <2>2. CASE StillHere(f) /\ flow[f].run = Nowhere
    BY <1>2, <2>2, Going DEF RestoreLatestRun, Remembers, Cleared, PageInv, PageTyped, Awaits
  <2>3. CASE StillHere(f) /\ flow[f].run # Nowhere
    BY <1>2, <2>3, RefreshGoes DEF RestoreLatestRun, Remembers, StillHere, PageInv
  <2>4. QED
    BY <2>1, <2>2, <2>3
<1>r. Ready.fn = "none" /\ Ready.at = "none" /\ ~Ready.current
  BY ReadyIsFlow
<1>5. PageTyped'
  BY <1>1, <1>2, <1>3, <1>r DEF PageInv, PageTyped, WebTypeOK, Flow, MovesTo, IsOver, LooksAgain,
     NoRun, Statuses
<1>6. ShownBelongs'
  BY <1>1, <1>2, <1>3, <1>r DEF PageInv, PageTyped, ShownBelongs, WebTypeOK, Holding, Flow,
     MovesTo, IsOver, LooksAgain
<1>7. Holding'
  <2>1. Held(f)'
    BY <1>1, <1>2, <1>3, <1>r DEF PageInv, PageTyped, WebTypeOK, Holding, Held, ShownBelongs,
       Flow, Continuations, Orders, MovesTo, IsOver, LooksAgain
  <2>2. QED
    BY <1>1, <1>2, <1>3, <1>r, <2>1, HoldingStays DEF PageInv, MovesTo, IsOver, LooksAgain
<1>8. Navigating'
  BY <1>1, <1>2, <1>3, ReadyIsFlow, NavigatingStays DEF PageInv, MovesTo, IsOver, LooksAgain
<1>9. Locks'
  BY <1>1, <1>2, <1>3, <1>r, LocksStay DEF PageInv, Holding, Held, Streams, Uploads, Refreshes,
     Continues, Ordered, Continuations, Orders, MovesTo, IsOver, LooksAgain
<1>10. QED
  BY <1>5, <1>6, <1>7, <1>8, <1>9 DEF PageInv

LEMMA RefreshActiveRunStep ==
    ASSUME PageInv, NEW f \in Flows, NEW s \in Statuses, RefreshActiveRun(f, s)
    PROVE  PageInv'
<1> USE WebAssumption
<1>1. UNCHANGED <<active, shown, streaming, uploading, asked>>
  BY DEF RefreshActiveRun
<1>2. /\ flow[f].at = "refresh" /\ flow[f].run \in RunIds /\ flow[f].seen \in Threads
      /\ flow[f].next \in {"lists", "final"}
  BY DEF RefreshActiveRun, PageInv, PageTyped, Flow, Holding, Held
<1>3. MovesTo(f, "lists") \/ MovesTo(f, "final")
  BY <1>2, Going DEF RefreshActiveRun, PageInv, PageTyped, Awaits
<1>4. busy' = busy \/ (busy = "refresh" /\ busy' = "none")
  BY DEF RefreshActiveRun, Released
<1>5. Refreshes(f) => busy' # "refresh"
  BY DEF RefreshActiveRun, Released, Refreshes
<1>6. \/ UNCHANGED <<remembered, activeRunId, activeRun, question>>
      \/ /\ active = flow[f].seen /\ flow[f].run[1] = flow[f].seen
         /\ remembered' = [remembered EXCEPT ![flow[f].seen] = flow[f].run]
         /\ activeRunId' = flow[f].run /\ activeRun' = [id |-> flow[f].run, status |-> s]
         /\ question' \in {Nowhere, flow[f].run}
  BY DEF RefreshActiveRun, MayShow, Remembers
<1>r. Ready.fn = "none" /\ Ready.at = "none" /\ ~Ready.current
  BY ReadyIsFlow
<1>8. PageTyped'
  BY <1>1, <1>2, <1>3, <1>4, <1>5, <1>6, <1>r DEF PageInv, PageTyped, WebTypeOK, Flow, MovesTo,
     IsOver, LooksAgain
<1>9. ShownBelongs'
  BY <1>1, <1>2, <1>3, <1>4, <1>5, <1>6, <1>r DEF PageInv, PageTyped, ShownBelongs, WebTypeOK,
     Holding, Flow, MovesTo, IsOver, LooksAgain
<1>10. Holding'
  <2>1. Held(f)'
    BY <1>1, <1>2, <1>3, <1>4, <1>5, <1>6, <1>r DEF PageInv, PageTyped, WebTypeOK, Holding, Held,
       ShownBelongs, Flow, Continuations, Orders, MovesTo, IsOver, LooksAgain
  <2>2. QED
    BY <1>1, <1>2, <1>3, <1>4, <1>5, <1>6, <1>r, <2>1, HoldingStays DEF PageInv, MovesTo, IsOver,
       LooksAgain
<1>11. Navigating'
  BY <1>1, <1>2, <1>3, <1>4, <1>5, <1>6, ReadyIsFlow, NavigatingStays DEF PageInv, MovesTo,
     IsOver, LooksAgain
<1>12. Locks'
  BY <1>1, <1>2, <1>3, <1>4, <1>5, <1>6, <1>r, LocksStay DEF PageInv, Holding, Held, Streams,
     Uploads, Refreshes, Continues, Ordered, Continuations, Orders, MovesTo, IsOver, LooksAgain
<1>13. QED
  BY <1>8, <1>9, <1>10, <1>11, <1>12 DEF PageInv

LEMMA RefreshFailsStep ==
    ASSUME PageInv, NEW f \in Flows, RefreshFails(f)
    PROVE  PageInv'
<1> USE WebAssumption
<1>1. UNCHANGED <<active, shown, activeRunId, activeRun, question, streaming, uploading, asked>>
  BY DEF RefreshFails, pageVars
<1>2. /\ flow[f].at = "refresh" /\ flow[f].run \in RunIds /\ flow[f].seen \in Threads
      /\ flow[f].next \in {"lists", "final"}
  BY DEF RefreshFails, PageInv, PageTyped, Flow, Holding, Held
<1>3. MovesTo(f, "lists") \/ MovesTo(f, "final")
  BY <1>2, Going DEF RefreshFails, PageInv, PageTyped, Awaits
<1>4. busy' = busy \/ (busy = "refresh" /\ busy' = "none")
  BY DEF RefreshFails, Released
<1>5. Refreshes(f) => busy' # "refresh"
  BY DEF RefreshFails, Released, Refreshes
<1>6. \/ remembered' = remembered
      \/ remembered' = [remembered EXCEPT ![flow[f].seen] = Nowhere]
  BY DEF RefreshFails, Remembers
<1>r. Ready.fn = "none" /\ Ready.at = "none" /\ ~Ready.current
  BY ReadyIsFlow
<1>8. PageTyped'
  BY <1>1, <1>2, <1>3, <1>4, <1>5, <1>6, <1>r DEF PageInv, PageTyped, WebTypeOK, Flow, MovesTo,
     IsOver, LooksAgain
<1>9. ShownBelongs'
  BY <1>1, <1>2, <1>3, <1>4, <1>5, <1>6, <1>r DEF PageInv, PageTyped, ShownBelongs, WebTypeOK,
     Holding, Flow, MovesTo, IsOver, LooksAgain
<1>10. Holding'
  <2>1. Held(f)'
    BY <1>1, <1>2, <1>3, <1>4, <1>5, <1>6, <1>r DEF PageInv, PageTyped, WebTypeOK, Holding, Held,
       ShownBelongs, Flow, Continuations, Orders, MovesTo, IsOver, LooksAgain
  <2>2. QED
    BY <1>1, <1>2, <1>3, <1>4, <1>5, <1>6, <1>r, <2>1, HoldingStays DEF PageInv, MovesTo, IsOver,
       LooksAgain
<1>11. Navigating'
  BY <1>1, <1>2, <1>3, <1>4, <1>5, <1>6, ReadyIsFlow, NavigatingStays DEF PageInv, MovesTo,
     IsOver, LooksAgain
<1>12. Locks'
  BY <1>1, <1>2, <1>3, <1>4, <1>5, <1>6, <1>r, LocksStay DEF PageInv, Holding, Held, Streams,
     Uploads, Refreshes, Continues, Ordered, Continuations, Orders, MovesTo, IsOver, LooksAgain
<1>13. QED
  BY <1>8, <1>9, <1>10, <1>11, <1>12 DEF PageInv

LEMMA AcceptedStep ==
    ASSUME PageInv, NEW f \in Flows, Accepted(f)
    PROVE  PageInv'
<1> USE WebAssumption
<1>1. UNCHANGED <<active, shown, activeRunId, activeRun, question, streaming, uploading, busy,
                  remembered>>
  BY DEF Accepted, pageVars, flagVars
<1>2. flow[f].fn = "send" /\ flow[f].at = "stream" /\ flow[f].for \in Threads
  BY DEF Accepted, At, PageInv, PageTyped, Flow, Holding, Held
<1>3. /\ asked' = [asked EXCEPT ![flow[f].for] = @ + 1]
      /\ asked[flow[f].for] + 1 \in 1..MaxAsked
      /\ flow' = [flow EXCEPT ![f] = [flow[f] EXCEPT !.run = <<flow[f].for, asked[flow[f].for] + 1>>]]
  <2>1. /\ asked \in [Threads -> 0..MaxAsked] /\ asked[flow[f].for] < MaxAsked
        /\ flow[f].for \in Threads /\ MaxAsked \in Nat
        /\ asked' = [asked EXCEPT ![flow[f].for] = @ + 1]
        /\ flow' = [flow EXCEPT ![f].run = <<flow[f].for, asked'[flow[f].for]>>]
    BY <1>2 DEF Accepted, PageInv, PageTyped, WebTypeOK
  <2>2. asked'[flow[f].for] = asked[flow[f].for] + 1 /\ asked[flow[f].for] + 1 \in 1..MaxAsked
    BY <2>1
  <2>3. QED
    BY <2>1, <2>2 DEF PageInv, PageTyped
<1>4. /\ flow' \in [Flows -> Flow] /\ Others(f) /\ LeftAlone(f)
      /\ flow'[f].fn = flow[f].fn /\ flow'[f].at = flow[f].at /\ flow'[f].present = flow[f].present
      /\ flow'[f].current = flow[f].current /\ flow'[f].for = flow[f].for
      /\ flow'[f].run[1] = flow[f].for /\ flow'[f].header = flow[f].header
      /\ ~flow[f].header
  <2>0. PICK r \in RunIds : r = <<flow[f].for, asked[flow[f].for] + 1>>
    BY <1>2, <1>3 DEF RunIds
  <2> DEFINE new == [flow[f] EXCEPT !.run = r]
  <2>1. /\ new \in Flow /\ new.fn = flow[f].fn /\ new.at = flow[f].at /\ new.run = r
        /\ new.present = flow[f].present /\ new.current = flow[f].current
        /\ new.for = flow[f].for /\ new.header = flow[f].header
    <3>1. flow[f] \in Flow
      BY DEF PageInv, PageTyped
    <3>2. QED
      BY <3>1 DEF Flow
  <2>2. flow' = [flow EXCEPT ![f] = new]
    BY <1>3, <2>0
  <2> HIDE DEF new
  <2>3. flow' \in [Flows -> Flow] /\ flow'[f] = new /\ \A g \in Flows \ {f} : flow'[g] = flow[g]
    BY <2>1, <2>2 DEF PageInv, PageTyped
  <2>4. r[1] = flow[f].for /\ ~flow[f].header
    BY <1>2, <2>0 DEF Accepted, PageInv, Holding, Held
  <2>5. QED
    BY <2>1, <2>3, <2>4 DEF Others, LeftAlone
<1>r. Ready.fn = "none" /\ Ready.at = "none" /\ ~Ready.current
  BY ReadyIsFlow
<1>6. PageTyped'
  BY <1>1, <1>2, <1>3, <1>4, <1>r DEF PageInv, PageTyped, WebTypeOK, Flow, MovesTo, IsOver,
     LooksAgain
<1>7. ShownBelongs'
  BY <1>1, <1>2, <1>3, <1>4, <1>r DEF PageInv, PageTyped, ShownBelongs, WebTypeOK, Holding, Flow,
     MovesTo, IsOver, LooksAgain
<1>8. Holding'
  <2>1. Held(f)'
    BY <1>1, <1>2, <1>3, <1>4, <1>r DEF PageInv, PageTyped, WebTypeOK, Holding, Held,
       ShownBelongs, Flow, Continuations, Orders, MovesTo, IsOver, LooksAgain
  <2>2. QED
    BY <1>1, <1>2, <1>3, <1>4, <1>r, <2>1, HoldingStays DEF PageInv, MovesTo, IsOver, LooksAgain
<1>9. Navigating'
  BY <1>1, <1>2, <1>3, <1>4, ReadyIsFlow, NavigatingStays DEF PageInv, MovesTo, IsOver, LooksAgain
<1>10. Locks'
  BY <1>1, <1>2, <1>3, <1>4, <1>r, LocksStay DEF PageInv, Holding, Held, Streams, Uploads,
     Refreshes, Continues, Ordered, Continuations, Orders, MovesTo, IsOver, LooksAgain
<1>11. QED
  BY <1>6, <1>7, <1>8, <1>9, <1>10 DEF PageInv

LEMMA HeaderStep ==
    ASSUME PageInv, NEW f \in Flows, Header(f)
    PROVE  PageInv'
<1> USE WebAssumption
<1>1. UNCHANGED <<active, shown, question, streaming, uploading, busy, asked>>
  BY DEF Header, flagVars
<1>2. /\ flow[f].fn = "send" /\ flow[f].at = "stream" /\ flow[f].for \in Threads
      /\ flow[f].run \in RunIds /\ flow[f].run # Nowhere /\ flow[f].run[1] = flow[f].for
  BY DEF Header, At, PageInv, PageTyped, Flow, Holding, Held
<1>3. /\ flow' \in [Flows -> Flow] /\ Others(f) /\ LeftAlone(f)
      /\ flow'[f].fn = flow[f].fn /\ flow'[f].at = flow[f].at /\ flow'[f].present = flow[f].present
      /\ flow'[f].current = flow[f].current /\ flow'[f].for = flow[f].for
      /\ flow'[f].run = flow[f].run
  <2> DEFINE new == [flow[f] EXCEPT !.header = TRUE]
  <2>1. /\ new \in Flow /\ new.fn = flow[f].fn /\ new.at = flow[f].at
        /\ new.present = flow[f].present /\ new.current = flow[f].current
        /\ new.for = flow[f].for /\ new.run = flow[f].run
    <3>1. flow[f] \in Flow
      BY DEF PageInv, PageTyped
    <3>2. QED
      BY <3>1 DEF Flow, Awaits
  <2>2. flow' = [flow EXCEPT ![f] = new]
    BY DEF Header, PageInv, PageTyped
  <2> HIDE DEF new
  <2>3. flow' \in [Flows -> Flow] /\ flow'[f] = new /\ \A g \in Flows \ {f} : flow'[g] = flow[g]
    BY <2>1, <2>2 DEF PageInv, PageTyped
  <2>4. QED
    BY <2>1, <2>3 DEF Others, LeftAlone
<1>4. \/ UNCHANGED <<remembered, activeRunId, activeRun>>
      \/ /\ active = flow[f].for /\ activeRunId' = flow[f].run /\ activeRun' = NoRun
         /\ remembered' = [remembered EXCEPT ![flow[f].for] = flow[f].run]
  BY DEF Header, StillHere, Remembers
<1>r. Ready.fn = "none" /\ Ready.at = "none" /\ ~Ready.current
  BY ReadyIsFlow
<1>6. PageTyped'
  BY <1>1, <1>2, <1>3, <1>4, <1>r DEF PageInv, PageTyped, WebTypeOK, Flow, MovesTo, IsOver,
     LooksAgain, NoRun, Statuses
<1>7. ShownBelongs'
  BY <1>1, <1>2, <1>3, <1>4, <1>r DEF PageInv, PageTyped, ShownBelongs, WebTypeOK, Holding, Flow,
     MovesTo, IsOver, LooksAgain
<1>8. Holding'
  <2>1. Held(f)'
    BY <1>1, <1>2, <1>3, <1>4, <1>r DEF PageInv, PageTyped, WebTypeOK, Holding, Held,
       ShownBelongs, Flow, Continuations, Orders, MovesTo, IsOver, LooksAgain
  <2>2. QED
    BY <1>1, <1>2, <1>3, <1>4, <1>r, <2>1, HoldingStays DEF PageInv, MovesTo, IsOver, LooksAgain
<1>9. Navigating'
  BY <1>1, <1>2, <1>3, <1>4, ReadyIsFlow, NavigatingStays DEF PageInv, MovesTo, IsOver, LooksAgain
<1>10. Locks'
  BY <1>1, <1>2, <1>3, <1>4, <1>r, LocksStay DEF PageInv, Holding, Held, Streams, Uploads,
     Refreshes, Continues, Ordered, Continuations, Orders, MovesTo, IsOver, LooksAgain
<1>11. QED
  BY <1>6, <1>7, <1>8, <1>9, <1>10 DEF PageInv

LEMMA RunEventStep ==
    ASSUME PageInv, NEW f \in Flows, NEW s \in Statuses, RunEvent(f, s)
    PROVE  PageInv'
<1> USE WebAssumption
<1>1. UNCHANGED <<active, shown, streaming, uploading, busy, asked, flow>>
  BY DEF RunEvent, flagVars
<1>2. /\ flow[f].for \in Threads /\ flow[f].run \in RunIds /\ flow[f].run[1] = flow[f].for
      /\ active = flow[f].for
  <2>1. flow[f].at = "stream" /\ flow[f].header /\ active = flow[f].for
    BY DEF RunEvent, StillHere
  <2>2. Held(f) /\ flow[f] \in Flow
    BY DEF PageInv, PageTyped, Holding
  <2>3. flow[f].for # Nowhere /\ flow[f].run # Nowhere /\ flow[f].run[1] = flow[f].for
    BY <2>1, <2>2 DEF Held
  <2>4. flow[f].for \in Threads \cup {Nowhere} /\ flow[f].run \in RunIds \cup {Nowhere}
    BY <2>2 DEF Flow
  <2>5. QED
    BY <2>1, <2>3, <2>4
<1>3. /\ activeRunId' = flow[f].run
      /\ remembered' = [remembered EXCEPT ![flow[f].for] = flow[f].run]
      /\ question' \in {question, flow[f].run, Nowhere}
  BY DEF RunEvent, Remembers
<1>4. activeRun' \in [id : RunIds \cup {Nowhere}, status : Statuses]
  BY DEF RunEvent, PageInv, PageTyped, WebTypeOK
<1>5. Others(f) /\ LeftAlone(f)
  BY <1>1 DEF Others, LeftAlone
<1>6. PageTyped'
  BY <1>1, <1>2, <1>3, <1>4, <1>5 DEF PageInv, PageTyped, WebTypeOK, Flow
<1>7. ShownBelongs'
  BY <1>1, <1>2, <1>3, <1>4, <1>5 DEF PageInv, PageTyped, ShownBelongs, WebTypeOK, Holding, Flow
<1>8. Holding'
  <2>1. Held(f)'
    BY <1>1, <1>2, <1>3, <1>4, <1>5 DEF PageInv, PageTyped, WebTypeOK, Holding, Held,
       ShownBelongs, Flow, Continuations, Orders
  <2>2. QED
    BY <1>1, <1>2, <1>3, <1>4, <1>5, <2>1, HoldingStays DEF PageInv
<1>9. Navigating'
  BY <1>1, <1>5, NavigatingStays DEF PageInv
<1>10. Locks'
  BY <1>1 DEF PageInv, Locks, Streams, Uploads, Refreshes, Continues, Ordered, Continuations,
     Orders
<1>11. QED
  BY <1>6, <1>7, <1>8, <1>9, <1>10 DEF PageInv

LEMMA StreamEndsStep ==
    ASSUME PageInv, NEW f \in Flows, StreamEnds(f)
    PROVE  PageInv'
<1> USE WebAssumption
<1>1. UNCHANGED <<active, shown, activeRunId, activeRun, question, streaming, uploading, busy,
                  remembered, asked>>
  BY DEF StreamEnds, pageVars, flagVars
<1>2. flow[f].at = "stream" /\ flow[f].for \in Threads /\ flow[f].fn \in Continuations \cup {"send"}
  <2>1. flow[f].at = "stream"
    BY DEF StreamEnds
  <2>2. Held(f) /\ flow[f] \in Flow
    BY DEF PageInv, PageTyped, Holding
  <2>3. flow[f].for # Nowhere /\ flow[f].fn \in Continuations \cup {"send"}
    BY <2>1, <2>2 DEF Held
  <2>4. flow[f].for \in Threads \cup {Nowhere}
    BY <2>2 DEF Flow
  <2>5. QED
    BY <2>1, <2>3, <2>4
<1>3. \/ IsOver(f) /\ ~flow[f].present
      \/ MovesTo(f, "lists")
      \/ flow' = [flow EXCEPT ![f] = [flow[f] EXCEPT !.at = "latest", !.next = "lists"]]
  BY Going, Returning DEF StreamEnds, PageInv, PageTyped, Awaits
<1>4. flow' = [flow EXCEPT ![f] = [flow[f] EXCEPT !.at = "latest", !.next = "lists"]] =>
         MovesTo(f, "latest")
  <2> DEFINE new == [flow[f] EXCEPT !.at = "latest", !.next = "lists"]
  <2>1. /\ new \in Flow /\ new.fn = flow[f].fn /\ new.at = "latest"
        /\ new.present = flow[f].present /\ new.current = flow[f].current
        /\ new.for = flow[f].for /\ new.run = flow[f].run /\ new.header = flow[f].header
    <3>1. flow[f] \in Flow /\ "latest" \in Awaits
      BY DEF PageInv, PageTyped, Awaits
    <3>2. QED
      BY <3>1 DEF Flow
  <2>2. flow' = [flow EXCEPT ![f] = [flow[f] EXCEPT !.at = "latest", !.next = "lists"]] =>
            flow' = [flow EXCEPT ![f] = new]
    OBVIOUS
  <2> HIDE DEF new
  <2>3. flow' = [flow EXCEPT ![f] = new] =>
            /\ flow' \in [Flows -> Flow] /\ flow'[f] = new
            /\ \A g \in Flows \ {f} : flow'[g] = flow[g]
    BY <2>1 DEF PageInv, PageTyped
  <2>4. QED
    BY <2>1, <2>2, <2>3 DEF Others, LeftAlone, MovesTo
<1>5. (IsOver(f) /\ ~flow[f].present) \/ MovesTo(f, "lists") \/ MovesTo(f, "latest")
  BY <1>3, <1>4
<1>r. Ready.fn = "none" /\ Ready.at = "none" /\ ~Ready.current
  BY ReadyIsFlow
<1>7. PageTyped'
  BY <1>1, <1>2, <1>3, <1>4, <1>5, <1>r DEF PageInv, PageTyped, WebTypeOK, Flow, MovesTo, IsOver,
     LooksAgain
<1>8. ShownBelongs'
  BY <1>1, <1>2, <1>3, <1>4, <1>5, <1>r DEF PageInv, PageTyped, ShownBelongs, WebTypeOK, Holding,
     Flow, MovesTo, IsOver, LooksAgain
<1>9. Holding'
  <2>1. Held(f)'
    BY <1>1, <1>2, <1>3, <1>4, <1>5, <1>r DEF PageInv, PageTyped, WebTypeOK, Holding, Held,
       ShownBelongs, Flow, Continuations, Orders, MovesTo, IsOver, LooksAgain
  <2>2. QED
    BY <1>1, <1>2, <1>3, <1>4, <1>5, <1>r, <2>1, HoldingStays DEF PageInv, MovesTo, IsOver,
       LooksAgain
<1>10. Navigating'
  BY <1>1, <1>2, <1>5, ReadyIsFlow, NavigatingStays DEF PageInv, MovesTo, IsOver
<1>11. Locks'
  BY <1>1, <1>2, <1>3, <1>4, <1>5, <1>r, LocksStay DEF PageInv, Holding, Held, Streams, Uploads,
     Refreshes, Continues, Ordered, Continuations, Orders, MovesTo, IsOver, LooksAgain
<1>12. QED
  BY <1>7, <1>8, <1>9, <1>10, <1>11 DEF PageInv

LEMMA ReloadedStep ==
    ASSUME PageInv, NEW f \in Flows, Reloaded(f)
    PROVE  PageInv'
<1> USE WebAssumption
<1>1. UNCHANGED <<active, activeRunId, activeRun, question, streaming, uploading, remembered,
                  asked>>
  BY DEF Reloaded
<1>2. /\ flow[f].at = "lists" /\ flow[f].fn # "navigate" /\ flow[f].run \in RunIds \cup {Nowhere}
      /\ activeRunId \in RunIds \cup {Nowhere} /\ active' \in Threads \cup {Nowhere}
  BY DEF Reloaded, PageInv, PageTyped, WebTypeOK, Flow
<1>3. /\ shown' \in {active, shown}
      /\ \/ MovesTo(f, "final") /\ busy' = busy
         \/ \E r \in RunIds \cup {Nowhere} : LooksAgain(f, r)
  <2>1. CASE ~StillHere(f)
    BY <1>2, <2>1, Going DEF Reloaded, PageInv, PageTyped, Awaits
  <2>2. CASE StillHere(f)
    <3>1. PICK r \in RunIds \cup {Nowhere} :
              r = IF flow[f].fn = "send" THEN activeRunId ELSE flow[f].run
      BY <1>2
    <3>2. shown' = active /\ Refreshing(f, r, "final")
      BY <2>2, <3>1 DEF Reloaded
    <3>3. QED
      BY <1>2, <3>2, RefreshGoes DEF PageInv
  <2>3. QED
    BY <2>1, <2>2
<1>r. Ready.fn = "none" /\ Ready.at = "none" /\ ~Ready.current
  BY ReadyIsFlow
<1>5. PageTyped'
  BY <1>1, <1>2, <1>3, <1>r DEF PageInv, PageTyped, WebTypeOK, Flow, MovesTo, IsOver, LooksAgain
<1>6. ShownBelongs'
  BY <1>1, <1>2, <1>3, <1>r DEF PageInv, PageTyped, ShownBelongs, WebTypeOK, Holding, Flow,
     MovesTo, IsOver, LooksAgain
<1>7. Holding'
  <2>1. Held(f)'
    BY <1>1, <1>2, <1>3, <1>r DEF PageInv, PageTyped, WebTypeOK, Holding, Held, ShownBelongs,
       Flow, Continuations, Orders, MovesTo, IsOver, LooksAgain
  <2>2. QED
    BY <1>1, <1>2, <1>3, <1>r, <2>1, HoldingStays DEF PageInv, MovesTo, IsOver, LooksAgain
<1>8. Navigating'
  BY <1>1, <1>2, <1>3, ReadyIsFlow, NavigatingStays DEF PageInv, MovesTo, IsOver, LooksAgain
<1>9. Locks'
  BY <1>1, <1>2, <1>3, <1>r, LocksStay DEF PageInv, Holding, Held, Streams, Uploads, Refreshes,
     Continues, Ordered, Continuations, Orders, MovesTo, IsOver, LooksAgain
<1>10. QED
  BY <1>5, <1>6, <1>7, <1>8, <1>9 DEF PageInv

LEMMA ContinuedStep ==
    ASSUME PageInv, NEW f \in Flows, NEW s \in Statuses, Continued(f, s)
    PROVE  PageInv'
<1> USE WebAssumption
<1>1. UNCHANGED <<active, shown, activeRunId, question, streaming, uploading, busy, remembered,
                  asked>>
  BY DEF Continued, flagVars
<1>2. /\ flow[f].at = "fresh" /\ flow[f].fn \in Continuations
      /\ flow[f].run \in RunIds /\ flow[f].run # Nowhere
  BY DEF Continued, PageInv, PageTyped, Flow, Holding, Held
<1>3. \/ IsOver(f) /\ ~flow[f].present /\ activeRun' = activeRun
      \/ MovesTo(f, "lists") /\ activeRun' = activeRun
      \/ /\ flow[f].run[1] = flow[f].for /\ activeRun' = [id |-> flow[f].run, status |-> s]
         /\ flow' = [flow EXCEPT ![f] = [flow[f] EXCEPT !.at = "stream", !.header = TRUE]]
  BY Going, Returning DEF Continued, PageInv, PageTyped, Awaits
<1>4. flow' = [flow EXCEPT ![f] = [flow[f] EXCEPT !.at = "stream", !.header = TRUE]] =>
         /\ flow' \in [Flows -> Flow] /\ Others(f) /\ LeftAlone(f)
         /\ flow'[f].fn = flow[f].fn /\ flow'[f].at = "stream"
         /\ flow'[f].present = flow[f].present /\ flow'[f].current = flow[f].current
         /\ flow'[f].for = flow[f].for /\ flow'[f].run = flow[f].run
  <2> DEFINE new == [flow[f] EXCEPT !.at = "stream", !.header = TRUE]
  <2>1. /\ new \in Flow /\ new.fn = flow[f].fn /\ new.at = "stream"
        /\ new.present = flow[f].present /\ new.current = flow[f].current
        /\ new.for = flow[f].for /\ new.run = flow[f].run
    <3>1. flow[f] \in Flow /\ "stream" \in Awaits
      BY DEF PageInv, PageTyped, Awaits
    <3>2. QED
      BY <3>1 DEF Flow
  <2>2. flow' = [flow EXCEPT ![f] = [flow[f] EXCEPT !.at = "stream", !.header = TRUE]] =>
            flow' = [flow EXCEPT ![f] = new]
    OBVIOUS
  <2> HIDE DEF new
  <2>3. flow' = [flow EXCEPT ![f] = new] =>
            /\ flow' \in [Flows -> Flow] /\ flow'[f] = new
            /\ \A g \in Flows \ {f} : flow'[g] = flow[g]
    BY <2>1 DEF PageInv, PageTyped
  <2>4. QED
    BY <2>1, <2>2, <2>3 DEF Others, LeftAlone
<1>r. Ready.fn = "none" /\ Ready.at = "none" /\ ~Ready.current
  BY ReadyIsFlow
<1>6. PageTyped'
  BY <1>1, <1>2, <1>3, <1>4, <1>r DEF PageInv, PageTyped, WebTypeOK, Flow, MovesTo, IsOver,
     LooksAgain
<1>7. ShownBelongs'
  BY <1>1, <1>2, <1>3, <1>4, <1>r DEF PageInv, PageTyped, ShownBelongs, WebTypeOK, Holding, Flow,
     MovesTo, IsOver, LooksAgain
<1>8. Holding'
  <2>1. Held(f)'
    BY <1>1, <1>2, <1>3, <1>4, <1>r DEF PageInv, PageTyped, WebTypeOK, Holding, Held,
       ShownBelongs, Flow, Continuations, Orders, MovesTo, IsOver, LooksAgain
  <2>2. QED
    BY <1>1, <1>2, <1>3, <1>4, <1>r, <2>1, HoldingStays DEF PageInv, MovesTo, IsOver, LooksAgain
<1>9. Navigating'
  BY <1>1, <1>2, <1>3, <1>4, ReadyIsFlow, NavigatingStays DEF PageInv, MovesTo, IsOver,
     Continuations
<1>10. Locks'
  BY <1>1, <1>2, <1>3, <1>4, <1>r, LocksStay DEF PageInv, Holding, Held, Streams, Uploads,
     Refreshes, Continues, Ordered, Continuations, Orders, MovesTo, IsOver, LooksAgain
<1>11. QED
  BY <1>6, <1>7, <1>8, <1>9, <1>10 DEF PageInv

LEMMA CommandedStep ==
    ASSUME PageInv, NEW f \in Flows, NEW s \in Statuses, Commanded(f, s)
    PROVE  PageInv'
<1> USE WebAssumption
<1>1. UNCHANGED <<active, shown, activeRunId, streaming, uploading, remembered, asked>>
  BY DEF Commanded
<1>2. /\ flow[f].at = "fresh" /\ flow[f].fn \in Orders
      /\ flow[f].run \in RunIds /\ active' \in Threads \cup {Nowhere}
  BY DEF Commanded, PageInv, PageTyped, WebTypeOK, Flow, Holding, Held
<1>3. /\ activeRun' = [id |-> flow[f].run, status |-> s]
      /\ question' \in {question, Nowhere}
  BY DEF Commanded
<1>4. \/ MovesTo(f, "final") /\ busy' = busy
      \/ \E r \in RunIds \cup {Nowhere} : LooksAgain(f, r)
  <2>1. PICK r \in RunIds \cup {Nowhere} :
            r = IF flow[f].fn = "revise" THEN Nowhere ELSE flow[f].run
    BY <1>2
  <2>2. Refreshing(f, r, "final")
    BY <2>1 DEF Commanded
  <2>3. QED
    BY <1>2, <2>2, RefreshGoes DEF PageInv
<1>r. Ready.fn = "none" /\ Ready.at = "none" /\ ~Ready.current
  BY ReadyIsFlow
<1>6. PageTyped'
  BY <1>1, <1>2, <1>3, <1>4, <1>r DEF PageInv, PageTyped, WebTypeOK, Flow, MovesTo, IsOver,
     LooksAgain
<1>7. ShownBelongs'
  BY <1>1, <1>2, <1>3, <1>4, <1>r DEF PageInv, PageTyped, ShownBelongs, WebTypeOK, Holding, Flow,
     MovesTo, IsOver, LooksAgain
<1>8. Holding'
  <2>1. Held(f)'
    BY <1>1, <1>2, <1>3, <1>4, <1>r DEF PageInv, PageTyped, WebTypeOK, Holding, Held,
       ShownBelongs, Flow, Continuations, Orders, MovesTo, IsOver, LooksAgain
  <2>2. QED
    BY <1>1, <1>2, <1>3, <1>4, <1>r, <2>1, HoldingStays DEF PageInv, MovesTo, IsOver, LooksAgain
<1>9. Navigating'
  BY <1>1, <1>2, <1>4, ReadyIsFlow, NavigatingStays DEF PageInv, MovesTo, LooksAgain, Orders
<1>10. Locks'
  BY <1>1, <1>2, <1>3, <1>4, <1>r, LocksStay DEF PageInv, Holding, Held, Streams, Uploads,
     Refreshes, Continues, Ordered, Continuations, Orders, MovesTo, IsOver, LooksAgain
<1>11. QED
  BY <1>6, <1>7, <1>8, <1>9, <1>10 DEF PageInv

LEMMA FailsStep ==
    ASSUME PageInv, NEW f \in Flows, Fails(f)
    PROVE  PageInv'
<1> USE WebAssumption
<1>1. UNCHANGED <<active, shown, activeRunId, activeRun, question, streaming, uploading, busy,
                  remembered, asked>>
  BY DEF Fails, pageVars, flagVars
<1>2. /\ flow[f].next \in {"lists", "final"}
      /\ flow[f].at \in {"latest", "restore", "fresh", "lists", "detail", "create", "delete", "upload"}
  BY DEF Fails, PageInv, PageTyped, Flow
<1>3. \/ MovesTo(f, "lists") \/ MovesTo(f, "final")
      \/ IsOver(f) /\ ~flow[f].present /\ flow[f].fn \in Continuations
  BY <1>2, Going, Returning DEF Fails, PageInv, PageTyped, Awaits
<1>r. Ready.fn = "none" /\ Ready.at = "none" /\ ~Ready.current
  BY ReadyIsFlow
<1>5. PageTyped'
  BY <1>1, <1>2, <1>3, <1>r DEF PageInv, PageTyped, WebTypeOK, Flow, MovesTo, IsOver, LooksAgain
<1>6. ShownBelongs'
  BY <1>1, <1>2, <1>3, <1>r DEF PageInv, PageTyped, ShownBelongs, WebTypeOK, Holding, Flow,
     MovesTo, IsOver, LooksAgain
<1>7. Holding'
  <2>1. Held(f)'
    BY <1>1, <1>2, <1>3, <1>r DEF PageInv, PageTyped, WebTypeOK, Holding, Held, ShownBelongs,
       Flow, Continuations, Orders, MovesTo, IsOver, LooksAgain
  <2>2. QED
    BY <1>1, <1>2, <1>3, <1>r, <2>1, HoldingStays DEF PageInv, MovesTo, IsOver, LooksAgain
<1>8. Navigating'
  BY <1>1, <1>2, <1>3, ReadyIsFlow, NavigatingStays DEF PageInv, MovesTo, IsOver, LooksAgain
<1>9. Locks'
  BY <1>1, <1>2, <1>3, <1>r, LocksStay DEF PageInv, Holding, Held, Streams, Uploads, Refreshes,
     Continues, Ordered, Continuations, Orders, MovesTo, IsOver, LooksAgain
<1>10. QED
  BY <1>5, <1>6, <1>7, <1>8, <1>9 DEF PageInv

LEMMA FinalStep ==
    ASSUME PageInv, NEW f \in Flows, Final(f)
    PROVE  PageInv'
<1> USE WebAssumption
<1>1. UNCHANGED <<active, shown, activeRunId, activeRun, question, remembered, asked>>
  BY DEF Final, pageVars
<1>2. flow[f].at = "final" /\ IsOver(f)
  BY Returning DEF Final, PageInv, PageTyped
<1>3. /\ streaming' \in {streaming, FALSE} /\ (Streams(f) => ~streaming')
      /\ uploading' \in {uploading, FALSE} /\ (Uploads(f) => ~uploading')
  BY DEF Final, Streams, Uploads
<1>4. /\ busy' \in {busy, "none"}
      /\ Continues(f) \/ Ordered(f) => busy' = "none" 
  BY DEF Final, Continues, Ordered, Continuations, Orders
<1>r. Ready.fn = "none" /\ Ready.at = "none" /\ ~Ready.current
  BY ReadyIsFlow
<1>6. PageTyped'
  BY <1>1, <1>2, <1>3, <1>4, <1>r DEF PageInv, PageTyped, WebTypeOK, Flow, MovesTo, IsOver,
     LooksAgain
<1>7. ShownBelongs'
  BY <1>1, <1>2, <1>3, <1>4, <1>r DEF PageInv, PageTyped, ShownBelongs, WebTypeOK, Holding, Flow,
     MovesTo, IsOver, LooksAgain
<1>8. Holding'
  <2>1. Held(f)'
    BY <1>1, <1>2, <1>3, <1>4, <1>r DEF PageInv, PageTyped, WebTypeOK, Holding, Held,
       ShownBelongs, Flow, Continuations, Orders, MovesTo, IsOver, LooksAgain
  <2>2. QED
    BY <1>1, <1>2, <1>3, <1>4, <1>r, <2>1, HoldingStays DEF PageInv, MovesTo, IsOver, LooksAgain
<1>9. Navigating'
  BY <1>1, <1>2, <1>3, <1>4, ReadyIsFlow, NavigatingStays DEF PageInv, MovesTo, IsOver, LooksAgain
<1>10. Locks'
  <2>1. streaming' => streaming /\ ~Streams(f)
    BY <1>3
  <2>2. uploading' => uploading /\ ~Uploads(f)
    BY <1>3
  <2>3. ~Refreshes(f)
    BY <1>2 DEF Refreshes
  <2>4. busy' = "refresh" => busy = "refresh"
    BY <1>4
  <2>5. busy' \in Continuations => busy \in Continuations /\ ~Continues(f)
    BY <1>4 DEF Continuations
  <2>6. busy' \in Orders => busy \in Orders /\ ~Ordered(f)
    BY <1>4 DEF Orders
  <2>7. LeftAlone(f) /\ Locks
    BY <1>2 DEF IsOver, PageInv
  <2>8. QED
    BY <2>1, <2>2, <2>3, <2>4, <2>5, <2>6, <2>7, LocksStay
<1>11. QED
  BY <1>6, <1>7, <1>8, <1>9, <1>10 DEF PageInv

LEMMA RemovedStep ==
    ASSUME PageInv, NEW f \in Flows, Removed(f)
    PROVE  PageInv'
<1> USE WebAssumption
<1>1. UNCHANGED <<streaming, uploading, busy, asked>>
  BY DEF Removed, flagVars
<1>2. flow[f].fn = "remove" /\ flow[f].at = "delete" /\ flow[f].for \in Threads
  BY DEF Removed, At, PageInv, PageTyped, Flow, Holding, Held
<1>3. remembered' = [remembered EXCEPT ![flow[f].for] = Nowhere]
  BY DEF Removed, Remembers
<1>4. /\ flow' \in [Flows -> Flow] /\ LeftAlone(f)
      /\ \/ /\ UNCHANGED <<active, shown, activeRunId, activeRun, question>>
            /\ Others(f) /\ flow'[f] = Ready
         \/ /\ active' = Nowhere /\ shown' = Nowhere /\ activeRunId' = Nowhere
            /\ activeRun' = NoRun /\ question' = Nowhere
            /\ \A g \in Flows \ {f} : ~flow'[g].current
            /\ flow'[f].fn = "navigate" /\ flow'[f].at = "detail" /\ flow'[f].for \in Threads
  <2>1. CASE active # flow[f].for
    BY <2>1, Returning DEF Removed, pageVars, IsOver, PageInv, PageTyped
  <2>2. CASE active = flow[f].for
    <3>1. PICK c \in Threads \ {flow[f].for} :
              flow' = Numbered(f, [flow EXCEPT ![f].fn = "navigate", ![f].at = "detail",
                                               ![f].for = c])
      BY <2>2 DEF Removed
    <3> DEFINE new == [flow[f] EXCEPT !.fn = "navigate", !.at = "detail", !.for = c]
               fs == [flow EXCEPT ![f] = new]
    <3>2. flow' = Numbered(f, fs)
      BY <3>1 DEF PageInv, PageTyped
    <3>3. new \in Flow /\ new.fn = "navigate" /\ new.at = "detail" /\ new.for = c
      <4>1. flow[f] \in Flow /\ "navigate" \in Functions /\ "detail" \in Awaits
        BY DEF PageInv, PageTyped, Functions, Awaits
      <4>2. QED
        BY <4>1 DEF Flow
    <3> HIDE DEF new
    <3>4. /\ fs \in [Flows -> Flow] /\ fs[f] = new
          /\ \A g \in Flows \ {f} : fs[g] = flow[g]
      BY <3>3 DEF PageInv, PageTyped
    <3> HIDE DEF fs
    <3>5. /\ active' = Nowhere /\ shown' = Nowhere /\ activeRunId' = Nowhere
          /\ activeRun' = NoRun /\ question' = Nowhere
      BY <2>2 DEF Removed, Page, Cleared
    <3>6. flow' \in [Flows -> Flow] /\ LeftAlone(f)
      BY <3>2, <3>4, Numbering DEF LeftAlone
    <3>7. /\ \A g \in Flows \ {f} : ~flow'[g].current
          /\ flow'[f].fn = "navigate" /\ flow'[f].at = "detail" /\ flow'[f].for = c
      BY <3>2, <3>3, <3>4, Numbering
    <3>8. QED
      BY <3>5, <3>6, <3>7
  <2>3. QED
    BY <2>1, <2>2
<1>5. Ready.fn = "none" /\ Ready.at = "none" /\ ~Ready.current
  BY ReadyIsFlow
<1>6. PageTyped'
  BY <1>1, <1>2, <1>3, <1>4, <1>5 DEF PageInv, PageTyped, WebTypeOK, Flow, NoRun, Statuses
<1>7. ShownBelongs'
  BY <1>1, <1>2, <1>3, <1>4, <1>5 DEF PageInv, PageTyped, ShownBelongs, WebTypeOK, Holding, Flow
<1>8. Holding'
  <2>1. Held(f)'
    BY <1>1, <1>2, <1>3, <1>4, <1>5 DEF PageInv, PageTyped, WebTypeOK, Holding, Held,
       ShownBelongs, Flow, Continuations, Orders
  <2>2. QED
    BY <1>1, <1>2, <1>3, <1>4, <1>5, <2>1, HoldingStays DEF PageInv
<1>9. Navigating'
  BY <1>1, <1>2, <1>3, <1>4, <1>5 DEF PageInv, PageTyped, Navigating, ShownBelongs, Others
<1>10. Locks'
  BY <1>1, <1>2, <1>3, <1>4, <1>5, LocksStay DEF PageInv, Holding, Held, Streams, Uploads,
     Refreshes, Continues, Ordered, Continuations, Orders
<1>11. QED
  BY <1>6, <1>7, <1>8, <1>9, <1>10 DEF PageInv

\* A reset leaves no call that may touch the page, nor anything locked.
LEMMA ResetStep ==
    ASSUME PageInv, Reset
    PROVE  PageInv'
<1>1. /\ active' = Nowhere /\ shown' = Nowhere /\ activeRunId' = Nowhere /\ activeRun' = NoRun
      /\ question' = Nowhere /\ streaming' = FALSE /\ uploading' = FALSE /\ busy' = "none"
      /\ remembered' = [c \in Threads |-> Nowhere] /\ asked' = asked
  BY DEF Reset, Page, Cleared
<1>2. ASSUME NEW f \in Flows
      PROVE  LET new == [flow[f] EXCEPT !.current = FALSE, !.present = FALSE]
             IN /\ new \in Flow /\ ~new.current
                /\ new.fn = flow[f].fn /\ new.at = flow[f].at /\ new.for = flow[f].for
                /\ new.run = flow[f].run /\ new.header = flow[f].header /\ new.seen = flow[f].seen
  BY DEF PageInv, PageTyped, Flow
<1>3. flow' = [f \in Flows |-> [flow[f] EXCEPT !.current = FALSE, !.present = FALSE]]
  BY DEF Reset
<1>4. /\ flow' \in [Flows -> Flow]
      /\ \A f \in Flows :
             /\ ~flow'[f].current /\ flow'[f].fn = flow[f].fn /\ flow'[f].at = flow[f].at
             /\ flow'[f].for = flow[f].for /\ flow'[f].run = flow[f].run
             /\ flow'[f].header = flow[f].header /\ flow'[f].seen = flow[f].seen
  BY <1>2, <1>3
<1>5. PageTyped'
  BY <1>1, <1>4 DEF PageInv, PageTyped, WebTypeOK, NoRun, Statuses
<1>6. ShownBelongs'
  BY <1>1 DEF ShownBelongs
<1>7. Holding'
  BY <1>4 DEF PageInv, Holding, Held, Continuations
<1>8. Navigating'
  BY <1>4 DEF Navigating
<1>9. Locks'
  BY <1>1 DEF Locks, Continuations, Orders
<1>10. QED
  BY <1>5, <1>6, <1>7, <1>8, <1>9 DEF PageInv

LEMMA PageStands ==
    ASSUME PageInv, UNCHANGED webVars
    PROVE  PageInv'
<1>1. /\ UNCHANGED <<active, shown, activeRunId, activeRun, question, streaming, uploading, busy>>
      /\ UNCHANGED <<remembered, asked, flow>>
  BY DEF webVars, pageVars, flagVars
<1>2. PageTyped' /\ ShownBelongs'
  BY <1>1 DEF PageInv, PageTyped, WebTypeOK, ShownBelongs
<1>3. Holding' /\ Navigating'
  BY <1>1 DEF PageInv, Holding, Held, Navigating
<1>4. Locks'
  BY <1>1 DEF PageInv, Locks, Streams, Uploads, Refreshes, Continues, Ordered
<1>5. QED
  BY <1>2, <1>3, <1>4 DEF PageInv

LEMMA PageStarts ==
    ASSUME WebInit
    PROVE  PageInv
<1> USE WebAssumption
<1>1. flow \in [Flows -> Flow] /\ \A f \in Flows : flow[f] = Ready
  BY ReadyIsFlow DEF WebInit
<1>2. PageTyped
  <2>1. /\ remembered \in [Threads -> RunIds \cup {Nowhere}] /\ asked \in [Threads -> 0..MaxAsked]
    BY DEF WebInit
  <2>2. activeRun \in [id : RunIds \cup {Nowhere}, status : Statuses]
    BY DEF WebInit, NoRun, Statuses
  <2>3. QED
    BY <1>1, <2>1, <2>2 DEF WebInit, PageTyped, WebTypeOK
<1>3. ShownBelongs
  BY DEF WebInit, ShownBelongs
<1>4. Holding /\ Navigating
  BY <1>1, ReadyIsFlow DEF Holding, Held, Navigating
<1>5. Locks
  BY DEF WebInit, Locks, Continuations, Orders
<1>6. QED
  BY <1>2, <1>3, <1>4, <1>5 DEF PageInv

LEMMA PageStep ==
    ASSUME PageInv, [WebNext]_webVars
    PROVE  PageInv'
<1>1. CASE UNCHANGED webVars
  BY <1>1, PageStands
<1>2. CASE Reset
  BY <1>2, ResetStep
<1>3. ASSUME NEW f \in Flows,
             \/ SelectProject(f) \/ Listed(f) \/ Detailed(f) \/ Added(f) \/ Removed(f)
             \/ UploadFile(f) \/ Uploaded(f) \/ ReadLatest(f) \/ RestoreLatestRun(f)
             \/ RefreshFails(f) \/ Send(f) \/ Accepted(f) \/ Header(f) \/ StreamEnds(f)
             \/ Reloaded(f) \/ Fails(f) \/ Final(f)
      PROVE  PageInv'
  BY <1>3, SelectProjectStep, ListedStep, DetailedStep, AddedStep, RemovedStep, UploadFileStep,
     UploadedStep, ReadLatestStep, RestoreLatestRunStep, RefreshFailsStep, SendStep, AcceptedStep,
     HeaderStep, StreamEndsStep, ReloadedStep, FailsStep, FinalStep
<1>4. ASSUME NEW f \in Flows, NEW c \in Threads,
             SelectConversation(f, c) \/ AddConversation(f, c) \/ RemoveConversation(f, c)
      PROVE  PageInv'
  BY <1>4, SelectConversationStep, AddConversationStep, RemoveConversationStep
<1>5. ASSUME NEW f \in Flows, NEW op \in Continuations, Continue(f, op)
      PROVE  PageInv'
  BY <1>5, ContinueStep
<1>6. ASSUME NEW f \in Flows, NEW op \in Orders, Command(f, op)
      PROVE  PageInv'
  BY <1>6, CommandStep
<1>7. ASSUME NEW f \in Flows, NEW s \in Statuses,
             RefreshActiveRun(f, s) \/ RunEvent(f, s) \/ Continued(f, s) \/ Commanded(f, s)
      PROVE  PageInv'
  BY <1>7, RefreshActiveRunStep, RunEventStep, ContinuedStep, CommandedStep
<1>8. QED
  BY <1>1, <1>2, <1>3, <1>4, <1>5, <1>6, <1>7 DEF WebNext

(* The page's state is well formed, and each call under way holds what it    *)
(* needs: a conversation and a run of it, a newest number that only one call *)
(* has, and the locks that it is still there to free (workspace.ts).         *)
THEOREM CallsFit == WebSpec => []PageInv
<1>1. WebInit => PageInv
  BY PageStarts
<1>2. PageInv /\ [WebNext]_webVars => PageInv'
  BY PageStep
<1>3. QED
  BY <1>1, <1>2, PTL DEF WebSpec

(* The page never mixes conversations, and is never left locked: however     *)
(* late the answers to its requests arrive, whatever the user starts between *)
(* them and whichever requests fail, the messages, run and question it shows *)
(* are the active conversation's, and once no call is under way the marks    *)
(* streaming, uploading and collaborationBusy are gone.                      *)
THEOREM PageBelongs == WebSpec => []PageSound
<1>1. ASSUME PageInv
      PROVE  PageSound
  <2>1. WebTypeOK /\ ShownBelongs
    BY <1>1 DEF PageInv, PageTyped
  <2>2. ASSUME \A f \in Flows : flow[f].fn = "none"
        PROVE  ~streaming /\ ~uploading /\ busy = "none"
    <3>1. \A f \in Flows : flow[f].at = "none"
      BY <1>1, <2>2 DEF PageInv, Holding, Held
    <3>2. ~streaming /\ ~uploading
      BY <1>1, <2>2 DEF PageInv, Locks, Streams, Uploads, Continuations
    <3>3. busy # "refresh"
      BY <1>1, <3>1 DEF PageInv, Locks, Refreshes
    <3>4. busy \notin Continuations \cup Orders
      BY <1>1, <2>2 DEF PageInv, Locks, Continues, Ordered, Continuations, Orders
    <3>5. QED
      BY <2>1, <3>2, <3>3, <3>4 DEF WebTypeOK
  <2>3. QED
    BY <2>1, <2>2 DEF PageSound, NeverLocked
<1>2. QED
  BY <1>1, CallsFit, PTL
=============================================================================
