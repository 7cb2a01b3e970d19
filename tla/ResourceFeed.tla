---------------------------- MODULE ResourceFeed ----------------------------
(* How a client hears that the catalogue of definitions changed: the         *)
(* subscription a server keeps for one key (subject, project, conversation,  *)
(* URI) of a session, the task that polls for it (sdk_adapter.py), and the   *)
(* managed gateway that subscribes again what its callers want when it       *)
(* connects again (client_gateway.py).  Each caller signs a context of that  *)
(* key, which has a deadline of its own.  What it then lists, page by page,  *)
(* is ResourceListing, which shares no state with the subscription.          *)
EXTENDS ResourceListing

CONSTANTS
    Subscribers,   \* callers of the gateway, each with its context
    MaxVersion,    \* bound: versions of the catalogue
    MaxBreaks,     \* bound: sessions that break
    Nobody

VARIABLES
    version,    \* the catalogue now; its resource has a new content with each
    lapsed,     \* contexts past their deadline or without access
    linked,     \* the gateway has a session
    breaks,
    watcher,    \* the subscription of the session and its task, or Nobody
    wanted,     \* _resource_subscriptions: the context to subscribe again with
    request,    \* what each caller is doing
    heard       \* the last version of each kind a notification told

feedVars == <<version, lapsed, linked, breaks, watcher, wanted, request, heard>>

FeedKinds == {"list_changed", "updated"}

ASSUME FeedAssumption == MaxVersion \in Nat /\ MaxBreaks \in Nat /\ Nobody \notin Subscribers
-----------------------------------------------------------------------------
AtRest == [op |-> "none", at |-> "rest", updated |-> 0]
Snapshot(updated, changed) == [updated |-> updated, list_changed |-> changed]

(* A subscription begins with a snapshot: what the task compares with.  When *)
(* it was last asked for (began) is what its caller knows by a read of its   *)
(* own.                                                                      *)
Subscribed(context, snapshot) ==
    [context |-> context, snapshot |-> snapshot, began |-> snapshot.list_changed,
     task |-> "asleep", current |-> Snapshot(0, 0)]

FeedInit ==
    /\ version = 0 /\ lapsed = {} /\ linked = FALSE /\ breaks = 0
    /\ watcher = Nobody /\ wanted = Nobody
    /\ request = [s \in Subscribers |-> AtRest]
    /\ heard = Snapshot(0, 0)

NewVersion ==
    /\ version < MaxVersion
    /\ version' = version + 1
    /\ UNCHANGED <<lapsed, linked, breaks, watcher, wanted, request, heard>>

TurnsInvalid(s) ==
    /\ s \notin lapsed
    /\ lapsed' = lapsed \cup {s}
    /\ UNCHANGED <<version, linked, breaks, watcher, wanted, request, heard>>

(* The session goes, with its subscriptions and what it has not delivered;   *)
(* a request under way is tried again.                                       *)
LinkBreaks ==
    /\ linked /\ breaks < MaxBreaks
    /\ linked' = FALSE /\ breaks' = breaks + 1
    /\ watcher' = Nobody
    /\ request' = [s \in Subscribers |->
                     IF request[s].at = "read" THEN [request[s] EXCEPT !.at = "asks", !.updated = 0]
                     ELSE request[s]]
    /\ UNCHANGED <<version, lapsed, wanted, heard>>

(* _ready_gateway, in one step under its lock: one wanted subscription that  *)
(* is refused, and there is no session.                                      *)
Reconnect ==
    /\ ~linked
    /\ wanted \notin lapsed
    /\ linked' = TRUE
    /\ watcher' = IF wanted = Nobody THEN Nobody
                  ELSE Subscribed(wanted, Snapshot(version, version))
    /\ UNCHANGED <<version, lapsed, breaks, wanted, request, heard>>

(* subscribe_resource and unsubscribe_resource of the gateway; the latter    *)
(* forgets the subscription first.                                           *)
AskFor(s, op) ==
    /\ request[s] = AtRest
    /\ request' = [request EXCEPT ![s] = [@ EXCEPT !.op = op, !.at = "asks"]]
    /\ wanted' = IF op = "unsubscribe" THEN Nobody ELSE wanted
    /\ UNCHANGED <<version, lapsed, linked, breaks, watcher, heard>>

(* No session to be had within max_reconnects, or the server refuses.        *)
GivesUp(s) ==
    /\ \/ request[s].at = "asks" /\ ~linked
       \/ request[s].at \in {"asks", "read"} /\ linked /\ s \in lapsed
    /\ request' = [request EXCEPT ![s] = AtRest]
    /\ UNCHANGED <<version, lapsed, linked, breaks, watcher, wanted, heard>>

\* Served: the server answers the request, whose context is good.
Served(s, op, at) ==
    /\ linked
    /\ request[s].op = op /\ request[s].at = at
    /\ s \notin lapsed

(* subscribe_resource of the server reads the resource, then the catalogue.  *)
ReadsContent(s) ==
    /\ Served(s, "subscribe", "asks")
    /\ request' = [request EXCEPT ![s] = [@ EXCEPT !.at = "read", !.updated = version]]
    /\ UNCHANGED <<version, lapsed, linked, breaks, watcher, wanted, heard>>

(* Of a subscription that there is only the snapshot changes.                *)
Watches(s) ==
    LET snapshot == Snapshot(request[s].updated, version)
    IN /\ Served(s, "subscribe", "read")
       /\ watcher' = IF watcher = Nobody THEN Subscribed(s, snapshot)
                     ELSE [watcher EXCEPT !.snapshot = snapshot, !.began = version]
       /\ request' = [request EXCEPT ![s] = [@ EXCEPT !.at = "answered", !.updated = 0]]
       /\ UNCHANGED <<version, lapsed, linked, breaks, wanted, heard>>

Remembers(s) ==
    /\ request[s].at = "answered"
    /\ wanted' = s
    /\ request' = [request EXCEPT ![s] = AtRest]
    /\ UNCHANGED <<version, lapsed, linked, breaks, watcher, heard>>

\* Mutant: the task is dropped from the table only.
UnwatchesNothing(s) ==
    /\ Served(s, "unsubscribe", "asks")
    /\ request' = [request EXCEPT ![s] = AtRest]
    /\ UNCHANGED <<version, lapsed, linked, breaks, watcher, wanted, heard>>

(* unsubscribe_resource of the server, which reads the resource first.       *)
Unwatches(s) ==
    /\ Served(s, "unsubscribe", "asks")
    /\ watcher' = Nobody
    /\ request' = [request EXCEPT ![s] = AtRest]
    /\ UNCHANGED <<version, lapsed, linked, breaks, wanted, heard>>
-----------------------------------------------------------------------------
(* watch_subscription: sleep, read the resource, read the catalogue, compare *)
(* with the snapshot there is by then, tell, and keep what was read.         *)
Task(at) == IF watcher = Nobody THEN FALSE ELSE watcher.task = at

Polls ==
    /\ Task("asleep")
    /\ watcher.context \notin lapsed
    /\ watcher' = [watcher EXCEPT !.task = "reads", !.current.updated = version]
    /\ UNCHANGED <<version, lapsed, linked, breaks, wanted, request, heard>>

ReadsCatalogue ==
    /\ Task("reads")
    /\ watcher.context \notin lapsed
    /\ watcher' = [watcher EXCEPT !.task = "tells", !.current.list_changed = version]
    /\ UNCHANGED <<version, lapsed, linked, breaks, wanted, request, heard>>

StopsWatching ==
    /\ Task("asleep") \/ Task("reads")
    /\ watcher.context \in lapsed
    /\ watcher' = Nobody
    /\ UNCHANGED <<version, lapsed, linked, breaks, wanted, request, heard>>

Differs(kind) == watcher.current[kind] # watcher.snapshot[kind]

\* Mutant: one notification per poll.
NewsOfOne(kind) ==
    Differs(kind) /\ (kind = "updated" => ~Differs("list_changed"))
News(kind) == Differs(kind)

Tells ==
    /\ Task("tells")
    /\ heard' = [kind \in FeedKinds |-> IF News(kind) THEN watcher.current[kind] ELSE heard[kind]]
    /\ watcher' = [watcher EXCEPT !.task = "keeps"]
    /\ UNCHANGED <<version, lapsed, linked, breaks, wanted, request>>

KeepsSnapshot ==
    /\ Task("keeps")
    /\ watcher' = [watcher EXCEPT !.task = "asleep", !.snapshot = watcher.current,
                                  !.current = Snapshot(0, 0)]
    /\ UNCHANGED <<version, lapsed, linked, breaks, wanted, request, heard>>
-----------------------------------------------------------------------------
FeedNext ==
    \/ NewVersion
    \/ LinkBreaks
    \/ Reconnect
    \/ \E s \in Subscribers :
          \/ TurnsInvalid(s)
          \/ \E op \in {"subscribe", "unsubscribe"} : AskFor(s, op)
          \/ GivesUp(s) \/ ReadsContent(s) \/ Watches(s) \/ Remembers(s) \/ Unwatches(s)
    \/ Polls \/ ReadsCatalogue \/ StopsWatching \/ Tells \/ KeepsSnapshot

FeedSpec == FeedInit /\ [][FeedNext]_feedVars
-----------------------------------------------------------------------------
FeedTypeOK ==
    /\ version \in 0..MaxVersion /\ lapsed \subseteq Subscribers /\ breaks \in 0..MaxBreaks
    /\ wanted \in Subscribers \cup {Nobody}
    /\ heard \in [FeedKinds -> 0..version]
    /\ watcher # Nobody =>
          /\ linked
          /\ watcher.context \in Subscribers /\ watcher.snapshot \in [FeedKinds -> 0..version]
    /\ \A s \in Subscribers : request[s].at \in {"rest", "asks", "read", "answered"}

(* What the task has seen has been told, of each kind (the notifications of  *)
(* a session stay in order, and those a break loses are of a task that is    *)
(* gone); or it is as old as the last request for the subscription, though   *)
(* that replaces the snapshot while the task reads, tells or keeps.          *)
Informed ==
    Task("asleep") =>
        \A kind \in FeedKinds :
            watcher.snapshot[kind] <= watcher.began \/ watcher.snapshot[kind] = heard[kind]

(* Nobody hears of what nobody wants any more: a task is left without a      *)
(* wish only by a request that was refused.                                  *)
Silence ==
    watcher # Nobody /\ wanted = Nobody /\ lapsed = {} =>
        \E s \in Subscribers : request[s].op # "none"

(* What a client lists (ResourceListing) and hears of the definitions is     *)
(* true of them.                                                             *)
ResourcesSound == ListingTypeOK /\ FeedTypeOK /\ ListingSound /\ Informed /\ Silence
=============================================================================
