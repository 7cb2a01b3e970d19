---------------------------- MODULE EventStream ----------------------------
(* How the events of one run reach its watchers.  task_events is an ordered  *)
(* log; its writers commit first and publish later: the host yields what it  *)
(* committed, a request handler publishes after its transaction returned,    *)
(* and the run.resumed event goes to the requester only.  A client (client.ts*)
(* consumeTaskStream) follows a POST stream, and when it breaks reconnects   *)
(* with its cursor to the GET stream, which replays the log and then joins   *)
(* the live queue (_replay_and_subscribe).                                   *)
EXTENDS RunManager, FiniteSetsExt

CONSTANTS
    Clients,     \* consumeTaskStream sessions
    Commands,    \* what request handlers may do: "pause", "revise", "cancel", "resume"
    MaxLog,      \* bound: events the run ever commits
    MaxTries     \* length of STREAM_RECONNECT_DELAYS_MS

ASSUME StreamAssumption ==
    /\ Runs # {}
    /\ Commands \subseteq {"pause", "revise", "cancel", "resume"}
    /\ MaxLog \in Nat
    /\ MaxTries \in Nat

VARIABLES
    log,        \* the last sequence in task_events
    over,       \* the task has a terminal status
    activity,   \* what each host is doing: running, parked, or leaving
    hostOut,    \* items each host has committed and not yet yielded
    outbox,     \* items handlers have committed and not yet published
    stream,     \* the response a client reads
    session     \* the client's side: what it has dispatched

streamVars == <<managerVars, log, over, activity, hostOut, outbox, stream, session>>
taskVars == <<log, over, resting, activity, hostOut, outbox>>

run == CHOOSE r \in Runs : TRUE
-----------------------------------------------------------------------------
(* The modes of a response.  idle: not requested yet.  live / cold: resume   *)
(* committed, with or without a host seen before.  first: the event it puts  *)
(* before the queue is next.  replay, check: _replay_and_subscribe before    *)
(* its query and before it reads the status.  raw, tail: a POST or a GET      *)
(* response forwards its queue.  gone: broken off.  ended: the session will  *)
(* not reconnect.                                                            *)
Modes == {"idle", "live", "cold", "first", "raw", "replay", "check", "tail", "gone", "ended"}
Following == {"raw", "tail"}
Attached == {"first", "replay", "check"} \cup Following
Stream == [mode : Modes, sub : Readers \cup {None}, delivered : 0..MaxLog, first : 0..MaxLog]
Session == [base : 0..MaxLog, cursor : 0..MaxLog, got : SUBSET (1..MaxLog),
            tries : 0..MaxTries]

Active == ~over /\ resting = {}
Here(h) == h \in LiveHosts /\ activity[h] = "running"

\* dispatch of client.ts for events: older ones are dropped, the cursor moves on.
Dispatched(c, events) ==
    [session[c] EXCEPT
       !.got = @ \cup {n \in events : n > session[c].cursor},
       !.cursor = Max(events \cup {@})]

\* done carries last_sequence, to which the cursor moves as well.
DispatchedDone(c, n) ==
    [session[c] EXCEPT !.cursor = Max({n, @})]

\* A handler holds back the host it reaches before that host's next boundary.
Parked == [activity EXCEPT ![runs[run]] = IF @ = "running" THEN "parked" ELSE @]

StreamInit ==
    /\ ManagerInit
    /\ log = 0
    /\ over = FALSE
    /\ activity = [h \in Hosts |-> "running"]
    /\ hostOut = [h \in Hosts |-> <<>>]
    /\ outbox = {}
    /\ stream = [c \in Clients |-> [mode |-> "idle", sub |-> None, delivered |-> 0, first |-> 0]]
    /\ session = [c \in Clients |-> [base |-> 0, cursor |-> 0, got |-> {}, tries |-> 0]]

(* A transaction that appends one event to the log.                          *)
Commit == log < MaxLog /\ log' = log + 1
-----------------------------------------------------------------------------
(* The host commits an event; a parallel frontier commits several before the *)
(* first of them is yielded.                                                 *)
HostCommits(h) ==
    /\ Here(h) /\ Active
    /\ Commit
    /\ hostOut' = [hostOut EXCEPT ![h] = Append(@, Event(log'))]
    /\ UNCHANGED <<managerVars, over, activity, outbox, stream, session>>

(* A clarification: the host then awaits the answer, or returns when it was  *)
(* a follow-up question.                                                     *)
HostAsks(h) ==
    /\ Here(h) /\ Active
    /\ Commit
    /\ hostOut' = [hostOut EXCEPT ![h] = @ \o <<Event(log'), Done(log')>>]
    /\ resting' = {run}
    /\ \E next \in {"parked", "leaving"} : activity' = [activity EXCEPT ![h] = next]
    /\ UNCHANGED <<registryVars, hostVars, readerVars, stopped, over, outbox, stream, session>>

(* A terminal transition of the host.                                        *)
HostFinishes(h) ==
    /\ Here(h) /\ Active
    /\ Commit
    /\ over' = TRUE
    /\ hostOut' = [hostOut EXCEPT ![h] = @ \o <<Event(log'), Done(log')>>]
    /\ activity' = [activity EXCEPT ![h] = "leaving"]
    /\ UNCHANGED <<managerVars, outbox, stream, session>>

(* An exception of the loop, such as a stale version after a pause it did    *)
(* not notice: stream_agent_chat terminates the run, even at rest, and       *)
(* nobody yields the event this commits.                                     *)
HostFails(h) ==
    /\ h \in LiveHosts /\ activity[h] # "leaving" /\ ~over
    /\ Commit
    /\ over' = TRUE
    /\ resting' = {}
    /\ hostOut' = [hostOut EXCEPT ![h] = <<Error>>]
    /\ activity' = [activity EXCEPT ![h] = "leaving"]
    /\ UNCHANGED <<registryVars, hostVars, readerVars, stopped, outbox, stream, session>>

HostYieldsNext(h) ==
    /\ hostOut[h] # <<>> /\ Head(hostOut[h]) # Error
    /\ HostYields(h, Head(hostOut[h]))
    /\ hostOut' = [hostOut EXCEPT ![h] = Tail(@)]
    /\ UNCHANGED <<stopped, log, over, activity, outbox, stream, session>>

(* The generator is exhausted: a follow-up question, a terminal status, the  *)
(* exception it re-raises, or a boundary where the host is not held back and *)
(* reads that the task is at rest or over (_controlled_run_boundary).        *)
HostReturns(h) ==
    /\ over \/ activity[h] = "leaving" \/ (activity[h] = "running" /\ resting # {})
    /\ \/ hostOut[h] = <<>> /\ HostEnds(h, <<End>>)
       \/ hostOut[h] = <<Error>> /\ HostEnds(h, <<Error, End>>)
    /\ hostOut' = [hostOut EXCEPT ![h] = <<>>]
    /\ UNCHANGED <<stopped, log, over, activity, outbox, stream, session>>
-----------------------------------------------------------------------------
\* Mutant: no done follows the pause's event.
PauseUntold ==
    /\ "pause" \in Commands
    /\ Active /\ Reachable(run)
    /\ Commit
    /\ resting' = {run}
    /\ activity' = Parked
    /\ outbox' = outbox \cup {<<Event(log')>>}
    /\ UNCHANGED <<registryVars, hostVars, readerVars, stopped, over, hostOut, stream, session>>

(* pause_agent_run up to its commit; it needs a host to signal.              *)
Pause ==
    /\ "pause" \in Commands
    /\ Active /\ Reachable(run)
    /\ Commit
    /\ resting' = {run}
    /\ activity' = Parked
    /\ outbox' = outbox \cup {<<Event(log'), Done(log')>>}
    /\ UNCHANGED <<registryVars, hostVars, readerVars, stopped, over, hostOut, stream, session>>

(* revise_agent_plan up to its commit.                                       *)
Revise ==
    /\ "revise" \in Commands
    /\ resting # {}
    /\ Commit
    /\ outbox' = outbox \cup {<<Event(log')>>}
    /\ UNCHANGED <<managerVars, over, activity, hostOut, stream, session>>

(* cancel_agent_run up to its commit.                                        *)
Cancel ==
    /\ "cancel" \in Commands
    /\ ~over /\ started > 0
    /\ Commit
    /\ over' = TRUE
    /\ resting' = {}
    /\ outbox' = outbox \cup {<<Event(log'), Done(log')>>}
    /\ UNCHANGED <<registryVars, hostVars, readerVars, stopped, activity, hostOut, stream,
                   session>>

(* Back from its thread, a handler publishes what it committed.              *)
HandlerPublishes ==
    \E items \in outbox :
        /\ outbox' = outbox \ {items}
        /\ IF runs[run] = None THEN UNCHANGED managerVars
           ELSE Publish(run, items) /\ UNCHANGED stopped
        /\ UNCHANGED <<log, over, activity, hostOut, stream, session>>

(* resume, answer or retry of a run at rest, up to its commit.               *)
Resume(c) ==
    /\ "resume" \in Commands
    /\ stream[c].mode = "idle"
    /\ resting # {}
    /\ Commit
    /\ resting' = {}
    /\ stream' = [stream EXCEPT ![c] =
         [mode |-> IF Reachable(run) THEN "live" ELSE "cold", sub |-> None,
          delivered |-> 0, first |-> log']]
    /\ session' = [session EXCEPT ![c].base = log]
    /\ UNCHANGED <<registryVars, hostVars, readerVars, stopped, over, activity, hostOut, outbox>>

(* The same handler afterwards: it wakes the host it saw, or starts one; a   *)
(* host that has gone, or an entry that still lingers, fails the request.    *)
ResumeAttaches(c, s) ==
    /\ UNCHANGED <<stopped, log, over, hostOut, outbox, session>>
    /\ \/ /\ stream[c].mode = "live"
          /\ Subscribe(run, s)
          /\ activity' = [activity EXCEPT ![runs[run]] = IF @ = "parked" THEN "running" ELSE @]
          /\ stream' = [stream EXCEPT ![c].mode = "first", ![c].sub = s]
       \/ /\ stream[c].mode = "cold"
          /\ Start(run, s)
          /\ stream' = [stream EXCEPT ![c].mode = "first", ![c].sub = s]
          /\ UNCHANGED <<activity, resting>>

ResumeFails(c) ==
    /\ \/ stream[c].mode = "live" /\ ~Reachable(run)
       \/ stream[c].mode = "cold" /\ runs[run] # None
    /\ stream' = [stream EXCEPT ![c].mode = "ended"]
    /\ UNCHANGED <<managerVars, log, over, activity, hostOut, outbox, session>>
-----------------------------------------------------------------------------
(* chat_stream: the run and its first watcher.                               *)
Chat(c, s) ==
    /\ stream[c].mode = "idle"
    /\ Begin(run, s)
    /\ stream' = [stream EXCEPT ![c].mode = "raw", ![c].sub = s]
    /\ UNCHANGED <<stopped, log, over, activity, hostOut, outbox, session>>

(* _prepend_event: the request's own event comes first.                      *)
ReadFirst(c) ==
    /\ stream[c].mode = "first"
    /\ session' = [session EXCEPT ![c] = Dispatched(c, {stream[c].first})]
    /\ stream' = [stream EXCEPT ![c].mode = "raw"]
    /\ UNCHANGED <<managerVars, log, over, activity, hostOut, outbox>>

(* The response forwards the next item of its queue.  A GET stream passes no *)
(* event it has delivered, a POST stream passes all.                         *)
ReadNext(c) ==
    LET s == stream[c].sub
        item == Head(queue[s])
    IN  /\ stream[c].mode \in Following
        /\ Read(s)
        /\ \/ /\ item.kind = "event" /\ item.seq > stream[c].delivered
              /\ session' = [session EXCEPT ![c] = Dispatched(c, {item.seq})]
              /\ stream' = [stream EXCEPT ![c].delivered =
                   IF stream[c].mode = "tail" THEN item.seq ELSE @]
           \/ /\ item.kind = "event" /\ item.seq <= stream[c].delivered
              /\ UNCHANGED <<session, stream>>
           \/ /\ item.kind = "done"
              /\ session' = [session EXCEPT ![c] = DispatchedDone(c, item.seq)]
              /\ stream' = [stream EXCEPT ![c].mode = "ended"]
           \/ /\ item.kind = "error"
              /\ stream' = [stream EXCEPT ![c].mode = "ended"]
              /\ UNCHANGED session
           \/ /\ item.kind \in {"end", "overflow"}
              /\ stream' = [stream EXCEPT ![c].mode = "gone"]
              /\ UNCHANGED session
        /\ UNCHANGED <<stopped, log, over, activity, hostOut, outbox>>

(* The connection breaks; the server closes the reader when it notices.      *)
Drop(c) ==
    /\ stream[c].mode \in Attached
    /\ stream' = [stream EXCEPT ![c].mode = "gone"]
    /\ UNCHANGED <<managerVars, log, over, activity, hostOut, outbox, session>>

CloseReader(s) ==
    /\ \A c \in Clients : stream[c].sub = s => stream[c].mode \notin Attached
    /\ Close(s)
    /\ UNCHANGED <<stopped, log, over, activity, hostOut, outbox, stream, session>>

(* reconnect_agent_run_stream: subscribe first, then replay from the cursor. *)
Reconnect(c) ==
    /\ stream[c].mode = "gone"
    /\ session[c].tries < MaxTries
    /\ session' = [session EXCEPT ![c].tries = @ + 1]
    /\ \/ /\ ~Reachable(run)
          /\ stream' = [stream EXCEPT ![c] = [mode |-> "replay", sub |-> None,
                           delivered |-> session[c].cursor, first |-> 0]]
          /\ UNCHANGED managerVars
       \/ \E s \in Readers :
          /\ Subscribe(run, s)
          /\ stream' = [stream EXCEPT ![c] = [mode |-> "replay", sub |-> s,
                           delivered |-> session[c].cursor, first |-> 0]]
          /\ UNCHANGED stopped
    /\ UNCHANGED <<log, over, activity, hostOut, outbox>>

\* Mutant: a replay is one event long.
ReplayFirstPage(c) ==
    /\ stream[c].mode = "replay"
    /\ session' = [session EXCEPT ![c] =
                     Dispatched(c, {n \in 1..log : n = stream[c].delivered + 1})]
    /\ stream' = [stream EXCEPT ![c].mode = "check", ![c].delivered = session'[c].cursor]
    /\ UNCHANGED <<managerVars, log, over, activity, hostOut, outbox>>

(* list_events after the cursor, page by page, to the end of the log.        *)
Replay(c) ==
    /\ stream[c].mode = "replay"
    /\ session' = [session EXCEPT ![c] = Dispatched(c, (stream[c].delivered + 1)..log)]
    /\ stream' = [stream EXCEPT ![c].mode = "check", ![c].delivered = log]
    /\ UNCHANGED <<managerVars, log, over, activity, hostOut, outbox>>

(* The status decides: done, an error when there is no host, or the queue.   *)
Check(c) ==
    LET s == stream[c].sub
    IN  /\ stream[c].mode = "check"
        /\ \/ /\ Active /\ s # None
              /\ stream' = [stream EXCEPT ![c].mode = "tail"]
              /\ UNCHANGED <<managerVars, session>>
           \/ /\ ~Active \/ s = None
              /\ stream' = [stream EXCEPT ![c].mode = "ended"]
              /\ session' = IF Active THEN session
                            ELSE [session EXCEPT ![c] = DispatchedDone(c, stream[c].delivered)]
              /\ IF s # None /\ Open(s) THEN Close(s) /\ UNCHANGED stopped
                 ELSE UNCHANGED managerVars
        /\ UNCHANGED <<log, over, activity, hostOut, outbox>>

StreamNext ==
    \/ \E h \in Hosts :
        \/ HostCommits(h)
        \/ HostAsks(h)
        \/ HostFinishes(h)
        \/ HostFails(h)
        \/ HostYieldsNext(h)
        \/ HostReturns(h)
    \/ Pause
    \/ Revise
    \/ Cancel
    \/ HandlerPublishes
    \/ \E c \in Clients :
        \/ Resume(c)
        \/ ResumeFails(c)
        \/ ReadFirst(c)
        \/ ReadNext(c)
        \/ Drop(c)
        \/ Reconnect(c)
        \/ Replay(c)
        \/ Check(c)
        \/ \E s \in Readers : ResumeAttaches(c, s) \/ Chat(c, s)
    \/ \E s \in Readers : CloseReader(s)

StreamSpec == StreamInit /\ [][StreamNext]_streamVars
-----------------------------------------------------------------------------
(* The type invariant; no client's cursor is ahead of the log it is compared *)
(* with when the client reconnects.                                          *)
StreamTypeOK ==
    /\ ManagerTypeOK
    /\ log \in 0..MaxLog
    /\ over \in BOOLEAN
    /\ activity \in [Hosts -> {"running", "parked", "leaving"}]
    /\ hostOut \in [Hosts -> Seq(Item)]
    /\ \A items \in outbox : items \in Seq(Item)
    /\ stream \in [Clients -> Stream]
    /\ session \in [Clients -> Session]
    /\ \A c \in Clients : session[c].cursor <= log /\ session[c].got \subseteq 1..log

(* A client is not left watching a task that came to rest or ended: when     *)
(* every writer has published and the host will say nothing more, what ends  *)
(* the stream is in its queue, whatever the order in which it subscribed,    *)
(* the status was read and the event was published.                          *)
RestTold ==
    \A c \in Clients :
        LET s == stream[c].sub IN
        /\ stream[c].mode \in Following
        /\ ~Active
        /\ outbox = {}
        /\ hostOut[entryOf[s]] = <<>>
        /\ entryOf[s] \in finished \/ (resting # {} /\ activity[entryOf[s]] = "parked")
        => \E i \in 1..Len(queue[s]) : queue[s][i].kind \in {"done", "end", "overflow"}

(* What a client has dispatched has no gap below its cursor: reconnecting,   *)
(* falling behind and the end of the host lose nothing.                      *)
Gapless ==
    \A c \in Clients : (session[c].base + 1)..session[c].cursor \subseteq session[c].got
=============================================================================
