-------------------------- MODULE ConversationLocks --------------------------
(* ConversationLockPool.hold (orchestrator/agent_loop.py): one turn of a     *)
(* conversation at a time.  An entry is shared by the turns that want it and *)
(* dropped with the last of them, so a turn that comes later makes another.  *)
(* The sections under _guard await nothing: they are steps.  Locks are those *)
(* of asyncio: first come first served, a lock that is released is handed to *)
(* the first waiter, which may be cancelled before it runs.                  *)
EXTENDS Naturals, Sequences, FiniteSets

CONSTANTS
    Turns,         \* requests that stream a turn, or hosted runs
    Talks,         \* conversations
    Entries,       \* lock entries made in a behaviour
    NoEntry

ASSUME LockAssumption == NoEntry \notin Entries /\ IsFiniteSet(Turns)

VARIABLES
    entries,    \* _entries
    users,      \* _LockEntry.users
    held,       \* _LockEntry.lock is locked
    waiters,    \* and the turns that wait for it
    turn        \* where each turn is: its conversation, its entry

lockVars == <<entries, users, held, waiters, turn>>
-----------------------------------------------------------------------------
Away == [stage |-> "away", entry |-> NoEntry]

LocksTypeOK ==
    /\ entries \in [Talks -> Entries \cup {NoEntry}]
    /\ users \in [Entries -> 0..Cardinality(Turns)]
    /\ held \subseteq Entries
    /\ waiters \in [Entries -> Seq(Turns)]
    /\ turn \in [Turns -> [stage : {"away", "waits", "woken", "inside"},
                           entry : Entries \cup {NoEntry}]]

LocksInit ==
    /\ entries = [c \in Talks |-> NoEntry]
    /\ users = [e \in Entries |-> 0]
    /\ held = {}
    /\ waiters = [e \in Entries |-> <<>>]
    /\ turn = [t \in Turns |-> Away]

Named(e) == \E c \in Talks : entries[c] = e
Unmade == {e \in Entries : users[e] = 0 /\ ~Named(e)}

(* lock.acquire: at once when the lock is free and nobody waits for it.      *)
Acquire(t, e) ==
    IF e \notin held /\ waiters[e] = <<>>
    THEN /\ held' = held \cup {e}
         /\ turn' = [turn EXCEPT ![t] = [stage |-> "inside", entry |-> e]]
         /\ UNCHANGED waiters
    ELSE /\ waiters' = [waiters EXCEPT ![e] = Append(@, t)]
         /\ turn' = [turn EXCEPT ![t] = [stage |-> "waits", entry |-> e]]
         /\ UNCHANGED held

Hold(t, c) ==
    /\ turn[t] = Away
    /\ \E e \in (IF entries[c] = NoEntry THEN Unmade ELSE {entries[c]}) :
          /\ entries' = [entries EXCEPT ![c] = e]
          /\ users' = [users EXCEPT ![e] = @ + 1]
          /\ Acquire(t, e)

\* The first waiter is woken when the lock is free.
Woken(queue, state) ==
    IF queue = <<>> THEN state ELSE [state EXCEPT ![Head(queue)].stage = "woken"]

\* deque.remove
Dequeued(queue, t) ==
    LET i == CHOOSE i \in DOMAIN queue : queue[i] = t
    IN [k \in 1..(Len(queue) - 1) |-> IF k < i THEN queue[k] ELSE queue[k + 1]]

\* The waiter runs.
Enter(t) ==
    LET e == turn[t].entry
    IN /\ turn[t].stage = "woken"
       /\ held' = held \cup {e}
       /\ waiters' = [waiters EXCEPT ![e] = Dequeued(@, t)]
       /\ turn' = [turn EXCEPT ![t].stage = "inside"]
       /\ UNCHANGED <<entries, users>>

\* Mutant: the entry goes with the first of its users.
ForgetAtOnce(e) ==
    /\ users' = [users EXCEPT ![e] = @ - 1]
    /\ entries' = [c \in Talks |-> IF entries[c] = e THEN NoEntry ELSE entries[c]]

(* The finally clause: the entry goes with the last of its users.            *)
Forget(e) ==
    /\ users' = [users EXCEPT ![e] = @ - 1]
    /\ entries' = IF users[e] = 1
                  THEN [c \in Talks |-> IF entries[c] = e THEN NoEntry ELSE entries[c]]
                  ELSE entries

Leave(t) ==
    LET e == turn[t].entry
    IN /\ turn[t].stage = "inside"
       /\ held' = held \ {e}
       /\ turn' = Woken(waiters[e], [turn EXCEPT ![t] = Away])
       /\ Forget(e)
       /\ UNCHANGED waiters

\* A waiter is cancelled; one that had been woken passes the lock on.
GiveUp(t) ==
    LET e == turn[t].entry
        rest == Dequeued(waiters[e], t)
        gone == [turn EXCEPT ![t] = Away]
    IN /\ turn[t].stage \in {"waits", "woken"}
       /\ waiters' = [waiters EXCEPT ![e] = rest]
       /\ turn' = IF e \in held THEN gone ELSE Woken(rest, gone)
       /\ Forget(e)
       /\ UNCHANGED held

LocksNext ==
    \E t \in Turns :
        \/ \E c \in Talks : Hold(t, c)
        \/ Enter(t) \/ Leave(t) \/ GiveUp(t)

LocksSpec == LocksInit /\ [][LocksNext]_lockVars
-----------------------------------------------------------------------------
Of(c) == {t \in Turns : turn[t] # Away /\ turn[t].entry = entries[c]}

(* Turns of a conversation do not cross: whoever waits for one, or is in     *)
(* it, does so at the entry that a newcomer would find, and one is inside.   *)
NeverTwo ==
    /\ \A t \in Turns : turn[t] # Away => Named(turn[t].entry)
    /\ \A c \in Talks : Cardinality({t \in Of(c) : turn[t].stage = "inside"}) <= 1

(* Nobody waits for a lock that nobody has: while there are waiters, one of  *)
(* them is awake or a turn is inside, which wakes the next when it leaves.   *)
SomeoneGoes ==
    \A e \in Entries : waiters[e] # <<>> =>
        \E t \in Turns : turn[t].entry = e /\ turn[t].stage \in {"woken", "inside"}

(* Entries are given back when the last turn has gone.                       *)
PoolDrains == (\A t \in Turns : turn[t] = Away) => \A c \in Talks : entries[c] = NoEntry

(* One turn at a time, and always a next one, whichever waiters give up.     *)
OneTurn == NeverTwo /\ SomeoneGoes /\ PoolDrains
=============================================================================
