---------------------------- MODULE RunManager ----------------------------
(* AgentRunManager (apps/orchestrator/run_manager.py): the execution hosts   *)
(* of this process, the readers subscribed to them and the bounded queue of  *)
(* each reader.  Every method is synchronous, so on the event loop it is one *)
(* step.  An entry of _runs is named here by its host, a number; a reader is *)
(* one _QueueSubscription, from subscribe to close.                          *)
EXTENDS Naturals, Sequences

CONSTANTS
    Runs,            \* run ids
    Conversations,   \* conversation ids
    ConversationOf,  \* ConversationOf[r]: the conversation of run r
    Readers,         \* subscriptions, each used once
    MaxHosts,        \* bound: hosts this process ever starts
    QueueSize,       \* subscriber_queue_size
    None             \* Python's None

Hosts == 1..MaxHosts

ASSUME ManagerAssumption ==
    /\ ConversationOf \in [Runs -> Conversations]
    /\ MaxHosts \in Nat
    /\ QueueSize \in Nat \ {0}
    /\ None \notin Runs \cup Readers \cup Hosts

VARIABLES
    runs,              \* _runs: the entry registered for each run
    conversationRuns,  \* _conversation_runs
    started,           \* hosts started so far
    hostRun,           \* the run of each host
    finished,          \* entries whose producer has ended
    subscribers,       \* entry.subscribers: the queues the host broadcasts to
    entryOf,           \* the entry a reader subscribed to
    queue,             \* the reader's queue
    closed,            \* readers whose _close has run
    resting,           \* runs whose task is paused or waiting_user
    stopped            \* the manager was shut down

registryVars == <<runs, conversationRuns>>
hostVars == <<started, hostRun, finished>>
readerVars == <<subscribers, entryOf, queue, closed>>
managerVars == <<runs, conversationRuns, started, hostRun, finished, subscribers,
                 entryOf, queue, closed, resting, stopped>>
-----------------------------------------------------------------------------
(* What travels in a queue.  seq is a task event's sequence, or the          *)
(* last_sequence of done; RunManager itself does not look at it.             *)
Kinds == {"event", "done", "error", "end", "overflow"}
Item == [kind : Kinds, seq : Nat]
Event(n) == [kind |-> "event", seq |-> n]
Done(n) == [kind |-> "done", seq |-> n]
Error == [kind |-> "error", seq |-> 0]
End == [kind |-> "end", seq |-> 0]
Overflow == [kind |-> "overflow", seq |-> 0]
Sentinels == {End, Overflow}

Started == 1..started
LiveHosts == Started \ finished
Open(s) == entryOf[s] # None /\ s \notin closed

(* control_for: the host of r that can be reached, if any.                   *)
Reachable(r) == runs[r] # None /\ runs[r] \notin finished

ConversationBusy(r) ==
    LET other == conversationRuns[ConversationOf[r]]
    IN  other # None /\ Reachable(other)

(* put_nowait of the items one after the other: a queue that would exceed    *)
(* its size loses everything it held, gets the overflow mark, and no longer  *)
(* belongs to its host.                                                      *)
Lagging(S, items) == {s \in S : Len(queue[s]) + Len(items) > QueueSize}

\* Mutant: an evicted reader gets no sentinel.
OfferedUnmarked(S, items) ==
    [s \in Readers |-> IF s \in S \ Lagging(S, items) THEN queue[s] \o items ELSE queue[s]]

Offered(S, items) ==
    [s \in Readers |-> IF s \in Lagging(S, items) THEN <<Overflow>>
                       ELSE IF s \in S THEN queue[s] \o items
                       ELSE queue[s]]

Broadcast(h, items) ==
    /\ queue' = Offered(subscribers[h], items)
    /\ subscribers' = [subscribers EXCEPT ![h] = @ \ Lagging(@, items)]

(* A new subscription of an entry.                                           *)
Attach(s, h) ==
    /\ entryOf[s] = None
    /\ entryOf' = [entryOf EXCEPT ![s] = h]
    /\ subscribers' = [subscribers EXCEPT ![h] = @ \cup {s}]

(* The registry forgets the run, whatever entry it holds.                    *)
Pop(r) == runs' = [runs EXCEPT ![r] = None]
-----------------------------------------------------------------------------
ManagerInit ==
    /\ runs = [r \in Runs |-> None]
    /\ conversationRuns = [c \in Conversations |-> None]
    /\ started = 0
    /\ hostRun = [h \in Hosts |-> None]
    /\ finished = {}
    /\ subscribers = [h \in Hosts |-> {}]
    /\ entryOf = [s \in Readers |-> None]
    /\ queue = [s \in Readers |-> <<>>]
    /\ closed = {}
    /\ resting = {}
    /\ stopped = FALSE

(* start, when it does not raise.                                            *)
Start(r, s) ==
    /\ started < MaxHosts
    /\ runs[r] = None
    /\ ~ConversationBusy(r)
    /\ started' = started + 1
    /\ hostRun' = [hostRun EXCEPT ![started + 1] = r]
    /\ runs' = [runs EXCEPT ![r] = started + 1]
    /\ conversationRuns' = [conversationRuns EXCEPT ![ConversationOf[r]] = r]
    /\ Attach(s, started + 1)
    /\ UNCHANGED <<finished, queue, closed>>

(* chat_stream: a message starts a run with a fresh id.                      *)
Begin(r, s) ==
    /\ \A h \in Started : hostRun[h] # r
    /\ Start(r, s)
    /\ UNCHANGED resting

(* _start_recovered_run: a request continues a run at rest without a host.   *)
Recover(r, s) ==
    /\ r \in resting
    /\ Start(r, s)
    /\ resting' = resting \ {r}

(* resume, answer: a request continues a run whose host is parked.           *)
Wake(r, s) ==
    /\ r \in resting
    /\ Reachable(r)
    /\ Attach(s, runs[r])
    /\ resting' = resting \ {r}
    /\ UNCHANGED <<registryVars, hostVars, queue, closed>>

(* subscribe: a client follows a live host without controlling it.           *)
Subscribe(r, s) ==
    /\ Reachable(r)
    /\ Attach(s, runs[r])
    /\ UNCHANGED <<registryVars, hostVars, queue, closed, resting>>

(* The task comes to rest: its host parks on a signal or is about to return. *)
Rest(r) ==
    /\ \E h \in LiveHosts : hostRun[h] = r
    /\ resting' = resting \cup {r}
    /\ UNCHANGED <<registryVars, hostVars, readerVars>>

(* _produce: an item of the agent loop goes to every subscriber.             *)
HostYields(h, item) ==
    /\ h \in LiveHosts
    /\ Broadcast(h, <<item>>)
    /\ UNCHANGED <<registryVars, hostVars, entryOf, closed, resting>>

(* publish: a request handler's items go to the registered entry, also when  *)
(* its producer has ended.                                                   *)
Publish(r, items) ==
    /\ runs[r] # None
    /\ Broadcast(runs[r], items)
    /\ UNCHANGED <<registryVars, hostVars, entryOf, closed, resting>>

(* The end of _produce, after an exception (error) or not.                   *)
HostEnds(h, items) ==
    /\ h \in LiveHosts
    /\ finished' = finished \cup {h}
    /\ conversationRuns' =
         [c \in Conversations |->
            IF c = ConversationOf[hostRun[h]] /\ conversationRuns[c] = hostRun[h]
            THEN None ELSE conversationRuns[c]]
    /\ Broadcast(h, items)
    /\ IF subscribers'[h] = {} THEN Pop(hostRun[h]) ELSE UNCHANGED runs
    /\ UNCHANGED <<started, hostRun, entryOf, closed, resting>>

(* _close: by the reader at a sentinel or done, or by the response when its  *)
(* client has gone.                                                          *)
Close(s) ==
    /\ Open(s)
    /\ closed' = closed \cup {s}
    /\ queue' = [queue EXCEPT ![s] = <<>>]
    /\ subscribers' = [subscribers EXCEPT ![entryOf[s]] = @ \ {s}]
    /\ IF entryOf[s] \in finished /\ subscribers'[entryOf[s]] = {}
       THEN Pop(hostRun[entryOf[s]]) ELSE UNCHANGED runs
    /\ UNCHANGED <<conversationRuns, hostVars, entryOf, resting>>

(* __anext__: the reader takes the next item.                                *)
Read(s) ==
    /\ Open(s)
    /\ queue[s] # <<>>
    /\ \/ /\ Head(queue[s]).kind \in {"done", "end", "overflow"}
          /\ Close(s)
       \/ /\ Head(queue[s]).kind \in {"event", "error"}
          /\ queue' = [queue EXCEPT ![s] = Tail(@)]
          /\ UNCHANGED <<registryVars, hostVars, subscribers, entryOf, closed, resting>>

(* shutdown: every producer is cancelled and ends, the registry is cleared.  *)
Shutdown ==
    LET attached == UNION {subscribers[h] : h \in LiveHosts}
    IN  /\ finished' = Started
        /\ queue' = Offered(attached, <<End>>)
        /\ subscribers' = [h \in Hosts |->
             IF h \in LiveHosts THEN subscribers[h] \ Lagging(attached, <<End>>)
             ELSE subscribers[h]]
        /\ runs' = [r \in Runs |-> None]
        /\ conversationRuns' = [c \in Conversations |-> None]
        /\ stopped' = TRUE
        /\ UNCHANGED <<started, hostRun, entryOf, closed, resting>>

ManagerNext ==
    \/ /\ ~stopped
       /\ UNCHANGED stopped
       /\ \/ \E r \in Runs, s \in Readers :
               \/ Begin(r, s)
               \/ Recover(r, s)
               \/ Wake(r, s)
               \/ Subscribe(r, s)
          \/ \E r \in Runs :
               \/ Rest(r)
               \/ Publish(r, <<Event(0)>>)
               \/ Publish(r, <<Event(0), Done(0)>>)
          \/ \E h \in Hosts :
               \/ HostYields(h, Event(0))
               \/ HostYields(h, Done(0))
               \/ HostEnds(h, <<End>>)
               \/ HostEnds(h, <<Error, End>>)
    \/ /\ UNCHANGED stopped
       /\ \E s \in Readers : Close(s) \/ Read(s)
    \/ ~stopped /\ Shutdown

ManagerSpec == ManagerInit /\ [][ManagerNext]_managerVars
-----------------------------------------------------------------------------
(* The type invariant; a queue never holds more than its size.               *)
ManagerTypeOK ==
    /\ runs \in [Runs -> Hosts \cup {None}]
    /\ conversationRuns \in [Conversations -> Runs \cup {None}]
    /\ started \in 0..MaxHosts
    /\ hostRun \in [Hosts -> Runs \cup {None}]
    /\ finished \subseteq Started
    /\ subscribers \in [Hosts -> SUBSET Readers]
    /\ entryOf \in [Readers -> Hosts \cup {None}]
    /\ queue \in [Readers -> Seq(Item)]
    /\ \A s \in Readers : Len(queue[s]) <= QueueSize
    /\ closed \subseteq Readers
    /\ resting \subseteq Runs
    /\ stopped \in BOOLEAN

(* No consumer is left hanging: a reader its host no longer feeds, because   *)
(* it fell behind or the host has ended, finds a sentinel in its queue, even *)
(* when the queue was full at that moment or handlers published afterwards.  *)
NoHang ==
    \A s \in Readers :
        /\ Open(s)
        /\ entryOf[s] \in finished \/ s \notin subscribers[entryOf[s]]
        => \E i \in 1..Len(queue[s]) : queue[s][i] \in Sentinels

(* A finished entry stays registered, where it makes start refuse the run,   *)
(* only for a reader that still has to close.                                *)
RegistryDrains ==
    \A r \in Runs :
        runs[r] # None /\ runs[r] \in finished
        => \E s \in Readers : Open(s) /\ entryOf[s] = runs[r]

(* The registry owes its readers an end, and its runs that they can start.   *)
RegistryKept == NoHang /\ RegistryDrains

(* A host that executes is the one requests for its run find, and the one    *)
(* start finds when the conversation asks for another.                       *)
HostReachable ==
    ~stopped =>
        \A h \in LiveHosts :
            /\ runs[hostRun[h]] = h
            /\ conversationRuns[ConversationOf[hostRun[h]]] = hostRun[h]

(* What HostReachable takes: when another host starts, readers that fell     *)
(* behind a host which has ended have closed.                                *)
EvictedHaveClosed ==
    started > 1 =>
        \A s \in Readers : Open(s) /\ entryOf[s] \in finished => s \in subscribers[entryOf[s]]

(* A conversation has at most one executing host.                            *)
OneHostPerConversation ==
    \A g, h \in LiveHosts :
        ConversationOf[hostRun[g]] = ConversationOf[hostRun[h]] => g = h
=============================================================================
