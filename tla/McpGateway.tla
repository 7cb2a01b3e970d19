----------------------------- MODULE McpGateway -----------------------------
(* One ManagedMCPClientGateway (mcp_servers/common/client_gateway.py): the   *)
(* calls of a run share one connection to a tool service, any of them may    *)
(* open it, and any of them that fails throws away the connection that is    *)
(* current by then.  A request that was sent may run on the server long      *)
(* after its caller gave up.  A tool call is one invocation; the watcher of  *)
(* the tool catalogue (_watch_catalog in agent_tools.py) shares the          *)
(* connection with the calls.                                                *)
EXTENDS Naturals, FiniteSets

CONSTANTS
    Readers,        \* calls of read-only idempotent tools
    Writers,        \* calls of other tools
    Watchers,       \* catalogue watchers
    MaxReconnects,  \* MCPClientConfig.max_reconnects
    Fallback,       \* MCPClientConfig.allow_in_process_fallback
    MaxGateways     \* bound: MCPClientGateways created

RemoteCalls == Readers \cup Writers
Users == RemoteCalls \cup Watchers
Gateways == 1..MaxGateways
NoGateway == 0

ASSUME McpAssumption ==
    /\ MaxReconnects \in Nat /\ MaxGateways \in Nat
    /\ Fallback \in BOOLEAN
    /\ Readers \cap Writers = {} /\ RemoteCalls \cap Watchers = {}
    /\ IsFiniteSet(Users)

VARIABLES
    current,    \* ManagedMCPClientGateway._gateway
    created,    \* gateways created so far
    connector,  \* who holds _lock to connect, as a set of at most one
    session,    \* the SDK session a gateway's transport owns
    reopened,   \* gateways whose transport was opened again after it was closed
    at,         \* where each user is in its coroutine
    uses,       \* the gateway it works with
    attempt,    \* its attempt, from 0
    next,       \* what follows once _invalidate is over
    flight,     \* calls with a request the server has not run
    executed,   \* how often the server, or the fallback, ran a call
    reply       \* what the server answered to the request in flight last

mcpVars == <<current, created, connector, session, reopened, at, uses, attempt, next,
             flight, executed, reply>>
-----------------------------------------------------------------------------
(* begin: before _ready_gateway.  connect: holds the lock, refreshing.       *)
(* sent: awaits an answer.  invalidate: failed, before the lock is taken.    *)
(* watch: awaits tools/list_changed.  refresh: a change was announced.       *)
(* fallback: goes on in process.  The rest are outcomes; unknown is          *)
(* result_unknown=True, failed any other error, ended a watcher that is over.*)
Outcomes == {"ok", "failed", "unknown", "cancelled", "ended"}
Places == {"begin", "connect", "sent", "watch", "refresh", "invalidate", "fallback"}
          \cup Outcomes
Sessions == {"none", "open", "broken"}
Replies == {"none", "ok", "error", "invalid"}

McpTypeOK ==
    /\ current \in Gateways \cup {NoGateway}
    /\ created \in 0..MaxGateways
    /\ connector \subseteq Users
    /\ session \in [Gateways -> Sessions]
    /\ reopened \subseteq Gateways
    /\ at \in [Users -> Places]
    /\ uses \in [Users -> Gateways \cup {NoGateway}]
    /\ attempt \in [Users -> 0..MaxReconnects]
    /\ next \in [Users -> Outcomes \cup {"begin", "fallback"}]
    /\ flight \subseteq RemoteCalls
    /\ executed \in [RemoteCalls -> Nat]
    /\ reply \in [RemoteCalls -> Replies]

McpInit ==
    /\ current = NoGateway /\ created = 0 /\ connector = {}
    /\ session = [g \in Gateways |-> "none"]
    /\ reopened = {}
    /\ at = [u \in Users |-> "begin"]
    /\ uses = [u \in Users |-> NoGateway]
    /\ attempt = [u \in Users |-> 0]
    /\ next = [u \in Users |-> "begin"]
    /\ flight = {}
    /\ executed = [c \in RemoteCalls |-> 0]
    /\ reply = [c \in RemoteCalls |-> "none"]

requestVars == <<flight, executed, reply>>
gatewayVars == <<current, created, connector, session, reopened>>
Goes(u, to) == at' = [at EXCEPT ![u] = to]
Attempts(u) == IF u \in Writers THEN 1 ELSE 1 + MaxReconnects
-----------------------------------------------------------------------------
(* OfficialSDKClientTransport._connected_transport: a dead owner is discarded*)
(* and the call fails; without an owner a new session is opened, whoever     *)
(* asks and whatever became of the gateway.                                  *)
Reconnects(g) == session[g] = "none"
Dead(g) == session[g] = "broken"
Connected(g) == [session EXCEPT ![g] = "open"]

\* The transport fails after call_started: a read is tried again, a write is unknown.
Broken(c) == IF attempt[c] + 1 < Attempts(c) THEN "begin" ELSE "unknown"

\* A request over gateway g, whose transport connects again if it has to.
Sends(c, g) ==
    /\ uses' = [uses EXCEPT ![c] = g]
    /\ session' = Connected(g)
    /\ flight' = flight \cup {c}
    /\ reply' = [reply EXCEPT ![c] = "none"]
    /\ Goes(c, "sent")
    /\ UNCHANGED next

\* After _ready_gateway a call goes on to tools/call, a watcher waits.
Proceeds(u, g) ==
    \/ u \in RemoteCalls /\ Sends(u, g)
    \/ /\ u \in Watchers
       /\ session' = Connected(g)
       /\ uses' = [uses EXCEPT ![u] = g]
       /\ Goes(u, "watch")
       /\ UNCHANGED <<next, flight, reply>>

\* _ready_gateway, when a gateway is there; the lock is not taken.
UseCurrent(u) ==
    /\ at[u] = "begin" /\ current # NoGateway /\ ~Dead(current)
    /\ Proceeds(u, current)
    /\ UNCHANGED <<current, created, connector, reopened, attempt, executed>>

(* The transport of the current gateway is dead, or a new session fails: a   *)
(* session that is refused for its authentication is no unknown result.      *)
SendFails(c) ==
    /\ at[c] = "begin" /\ current # NoGateway
    /\ Dead(current) \/ Reconnects(current)
    /\ session' = [session EXCEPT ![current] = "none"]
    /\ uses' = [uses EXCEPT ![c] = current]
    /\ Goes(c, "invalidate")
    /\ \/ next' = [next EXCEPT ![c] = Broken(c)]
       \/ Reconnects(current) /\ next' = [next EXCEPT ![c] = "failed"]
    /\ UNCHANGED <<current, created, connector, reopened, attempt, requestVars>>

(* A watcher waits on the notification queue of a dead session as on a live  *)
(* one, unless its owner has ended.                                          *)
WatchDead(w) ==
    /\ at[w] = "begin" /\ current # NoGateway /\ Dead(current)
    /\ uses' = [uses EXCEPT ![w] = current]
    /\ \/ Goes(w, "watch") /\ UNCHANGED <<session, next>>
       \/ /\ session' = [session EXCEPT ![current] = "none"]
          /\ Goes(w, "invalidate") /\ next' = [next EXCEPT ![w] = "ended"]
    /\ UNCHANGED <<current, created, connector, reopened, attempt, requestVars>>

\* _ready_gateway, when there is none: create one and refresh it, under the lock.
Connect(u) ==
    /\ at[u] = "begin" /\ current = NoGateway /\ connector = {}
    /\ created < MaxGateways
    /\ connector' = {u}
    /\ created' = created + 1
    /\ uses' = [uses EXCEPT ![u] = created + 1]
    /\ session' = [session EXCEPT ![created + 1] = "open"]
    /\ Goes(u, "connect")
    /\ UNCHANGED <<current, reopened, attempt, next, requestVars>>

Publish(u) ==
    /\ at[u] = "connect" /\ ~Dead(uses[u])
    /\ current' = uses[u]
    /\ connector' = {}
    /\ Proceeds(u, uses[u])
    /\ UNCHANGED <<created, reopened, attempt, executed>>

\* What a failure before tools/call leads to: it is never retried.
NotStarted(u, transport) ==
    IF u \in Watchers THEN "ended"
    ELSE IF transport /\ Fallback /\ u \in Readers THEN "fallback"
    ELSE "failed"

(* The refresh of a new gateway fails: its session is closed before the lock *)
(* is released.  A timeout, an authentication failure and a drift of the     *)
(* catalogue are final, a broken transport is not.  A watcher that met a     *)
(* drift invalidates nothing.                                                *)
ConnectFails(u) ==
    /\ at[u] = "connect"
    /\ session' = [session EXCEPT ![uses[u]] = "none"]
    /\ connector' = {}
    /\ \/ /\ Goes(u, "invalidate")
          /\ \E transport \in BOOLEAN : next' = [next EXCEPT ![u] = NotStarted(u, transport)]
       \/ u \in Watchers /\ Goes(u, "ended") /\ UNCHANGED next
    /\ UNCHANGED <<current, created, reopened, uses, attempt, requestVars>>

\* The time is up while another user connects, or the service cannot be reached at all.
ConnectTimeout(u) ==
    /\ at[u] = "begin" /\ current = NoGateway
    /\ connector # {} \/ created = MaxGateways
    /\ Goes(u, "invalidate")
    /\ next' = [next EXCEPT ![u] = NotStarted(u, FALSE)]
    /\ UNCHANGED <<gatewayVars, uses, attempt, requestVars>>
-----------------------------------------------------------------------------
(* The call.                                                                 *)
Answered(c) == at[c] = "sent" /\ session[uses[c]] = "open" /\ reply[c] # "none"

\* The answer: the result, an error of the server, or output that breaks the contract.
GetAnswer(c) ==
    /\ Answered(c)
    /\ \/ reply[c] = "ok" /\ Goes(c, "ok") /\ UNCHANGED next
       \/ reply[c] = "error" /\ Goes(c, "failed") /\ UNCHANGED next
       \/ reply[c] = "invalid" /\ Goes(c, "invalidate")
          /\ next' = [next EXCEPT ![c] = "unknown"]
    /\ UNCHANGED <<gatewayVars, uses, attempt, requestVars>>

\* The connection breaks under a call, or is closed by another user.
Interrupted(c) ==
    /\ at[c] = "sent" /\ session[uses[c]] # "open"
    /\ Goes(c, "invalidate")
    /\ next' = [next EXCEPT ![c] = Broken(c)]
    /\ UNCHANGED <<gatewayVars, uses, attempt, requestVars>>

\* The server refuses the request itself: 401 or 403.
Unauthorized(c) ==
    /\ at[c] = "sent" /\ c \in flight
    /\ flight' = flight \ {c}
    /\ Goes(c, "invalidate")
    /\ next' = [next EXCEPT ![c] = "failed"]
    /\ UNCHANGED <<gatewayVars, uses, attempt, executed, reply>>

\* Mutant: a timeout is reported as a failure.
CallTimeoutFails(c) ==
    /\ at[c] = "sent" /\ ~Answered(c)
    /\ Goes(c, "invalidate")
    /\ next' = [next EXCEPT ![c] = "failed"]
    /\ UNCHANGED <<gatewayVars, uses, attempt, requestVars>>

\* Mutant: only a call over a dead connection times out.
CallTimeoutOfDead(c) ==
    /\ at[c] = "sent" /\ Dead(uses[c])
    /\ Goes(c, "invalidate")
    /\ next' = [next EXCEPT ![c] = "unknown"]
    /\ UNCHANGED <<gatewayVars, uses, attempt, requestVars>>

\* asyncio.timeout around the call.
CallTimeout(c) ==
    /\ at[c] = "sent" /\ ~Answered(c)
    /\ Goes(c, "invalidate")
    /\ next' = [next EXCEPT ![c] = "unknown"]
    /\ UNCHANGED <<gatewayVars, uses, attempt, requestVars>>

\* The run is cancelled under the call, wherever it waits.
CancelCall(c) ==
    /\ at[c] \in {"begin", "connect", "sent", "invalidate", "fallback"}
    /\ at[c] \in {"begin", "invalidate"} => connector # {}
    /\ session' = IF at[c] = "connect" THEN [session EXCEPT ![uses[c]] = "none"] ELSE session
    /\ connector' = connector \ {c}
    /\ Goes(c, IF at[c] \in {"invalidate", "fallback"} THEN "cancelled" ELSE "invalidate")
    /\ next' = [next EXCEPT ![c] = "cancelled"]
    /\ UNCHANGED <<current, created, reopened, uses, attempt, requestVars>>

(* _invalidate: pops and closes the gateway that is current now, which need  *)
(* not be the one that failed.                                               *)
Invalidate(u) ==
    /\ at[u] = "invalidate" /\ connector = {}
    /\ current' = NoGateway
    /\ session' = [g \in Gateways |-> IF g = current THEN "none" ELSE session[g]]
    /\ Goes(u, next[u])
    /\ attempt' = [attempt EXCEPT ![u] = IF next[u] = "begin" THEN @ + 1 ELSE @]
    /\ next' = [next EXCEPT ![u] = "begin"]
    /\ uses' = [uses EXCEPT ![u] = NoGateway]
    /\ UNCHANGED <<created, connector, reopened, requestVars>>

\* _execute_fallback: the tool runs in process.
RunInProcess(c) ==
    /\ at[c] = "fallback"
    /\ executed' = [executed EXCEPT ![c] = @ + 1]
    /\ Goes(c, "ok") \/ Goes(c, "failed")
    /\ UNCHANGED <<gatewayVars, uses, attempt, next, flight, reply>>
-----------------------------------------------------------------------------
(* The watcher of the catalogue.                                             *)
\* A change arrives while the session lives; the watcher goes on some time later.
ListChanged(w) ==
    /\ at[w] = "watch" /\ session[uses[w]] = "open"
    /\ Goes(w, "refresh")
    /\ UNCHANGED <<gatewayVars, uses, attempt, next, requestVars>>

\* The wait is over without one; only a wait on another gateway than the current matters.
Quiet(w) ==
    /\ at[w] = "watch" /\ current # uses[w]
    /\ Goes(w, "begin")
    /\ UNCHANGED <<gatewayVars, uses, attempt, next, requestVars>>

(* gateway.refresh() without a look at whether the gateway is still current: *)
(* the catalogue is the expected one, has drifted, or cannot be read.        *)
RefreshCatalog(w) ==
    /\ at[w] = "refresh"
    /\ \/ /\ ~Dead(uses[w])
          /\ session' = Connected(uses[w])
          /\ reopened' = IF current = uses[w] THEN reopened ELSE reopened \cup {uses[w]}
          /\ \/ Goes(w, "begin") /\ UNCHANGED next
             \/ Goes(w, "invalidate") /\ next' = [next EXCEPT ![w] = "ended"]
       \/ /\ Dead(uses[w]) \/ Reconnects(uses[w])
          /\ session' = [session EXCEPT ![uses[w]] = "none"]
          /\ Goes(w, "invalidate") /\ next' = [next EXCEPT ![w] = "ended"]
          /\ UNCHANGED reopened
    /\ UNCHANGED <<current, created, connector, uses, attempt, requestVars>>
-----------------------------------------------------------------------------
(* The server (call_tool of mcp_servers/common/adapter.py and sdk_adapter.py):*)
(* it runs a request it received, even for a session that is gone, or never  *)
(* received it.  Context, arguments and approval are checked before the      *)
(* handler runs; the output is checked after it, and whatever is raised, by  *)
(* the handler in the middle of its work too, is an error like any other.    *)
Run(c) ==
    /\ c \in flight
    /\ flight' = flight \ {c}
    /\ executed' = [executed EXCEPT ![c] = @ + 1]
    /\ \E r \in {"ok", "error", "invalid"} : reply' = [reply EXCEPT ![c] = r]
    /\ UNCHANGED <<gatewayVars, at, uses, attempt, next>>

\* Refused before the handler: an unknown tool, a bad context, arguments or approval.
ServerRejects(c) ==
    /\ c \in flight
    /\ flight' = flight \ {c}
    /\ reply' = [reply EXCEPT ![c] = "error"]
    /\ UNCHANGED <<gatewayVars, at, uses, attempt, next, executed>>

Lose(c) ==
    /\ c \in flight
    /\ at[c] = "sent" => session[uses[c]] # "open"
    /\ flight' = flight \ {c}
    /\ UNCHANGED <<gatewayVars, at, uses, attempt, next, executed, reply>>

Break(g) ==
    /\ session[g] = "open"
    /\ session' = [session EXCEPT ![g] = "broken"]
    /\ UNCHANGED <<current, created, connector, reopened, at, uses, attempt, next,
                   requestVars>>

GatewayStep(u) == UseCurrent(u) \/ Connect(u) \/ Publish(u) \/ ConnectFails(u)
                  \/ ConnectTimeout(u) \/ Invalidate(u)
CallStep(c) == SendFails(c) \/ GetAnswer(c) \/ Interrupted(c) \/ CallTimeout(c) \/ RunInProcess(c)
ServerStep(c) == Run(c) \/ ServerRejects(c) \/ Lose(c) \/ Unauthorized(c)
WatchStep(w) == WatchDead(w) \/ ListChanged(w) \/ Quiet(w) \/ RefreshCatalog(w)

McpNext ==
    \/ \E u \in Users : GatewayStep(u)
    \/ \E c \in RemoteCalls : CallStep(c) \/ CancelCall(c) \/ ServerStep(c)
    \/ \E w \in Watchers : WatchStep(w)
    \/ \E g \in Gateways : Break(g)

\* What a user does by itself; fairness is assumed of it: it is scheduled, and every
\* await has its timeout.
Advances(u) == GatewayStep(u) \/ (u \in RemoteCalls /\ CallStep(u))

McpSpec == McpInit /\ [][McpNext]_mcpVars
-----------------------------------------------------------------------------
(* The tool of a write runs at most once, and when the caller has its result *)
(* it ran: execute (client_gateway.py) repeats only what is read-only and    *)
(* idempotent.                                                               *)
WritesOnce ==
    \A c \in Writers : executed[c] <= 1 /\ (at[c] = "ok" => executed[c] = 1)

(* A write that is reported failed, and not unknown, is over: no request of  *)
(* it is under way, and it never ran unless the server itself answered with  *)
(* an error.  Whatever the client decides by itself, on a timeout, a broken  *)
(* connection or output it cannot accept, is unknown once a request left.    *)
(* (That an error of the server may follow an effect is the code's:          *)
(* call_tool of adapter.py answers alike before and after the handler.)      *)
HonestFailure ==
    \A c \in Writers : at[c] = "failed" =>
        c \notin flight /\ (executed[c] = 0 \/ reply[c] = "error")

(* Every open session belongs to the current gateway or to the one being     *)
(* connected, so aclose, which closes the current one, leaves none behind;   *)
(* the only exception is a gateway that a watcher refreshed after it was     *)
(* closed.                                                                   *)
OnlyRefreshLeaks ==
    \A g \in Gateways : session[g] = "open" =>
        g = current \/ g \in reopened \/ \E u \in connector : uses[u] = g

(* What the gateway says of a call is true, and it leaks no session.         *)
GatewaySound == McpTypeOK /\ WritesOnce /\ HonestFailure /\ OnlyRefreshLeaks

(* Every call ends, whatever breaks and whoever holds the lock: no await of  *)
(* execute is without a timeout.                                             *)
CallsEnd == \A c \in RemoteCalls : <>(at[c] \in Outcomes)
=============================================================================
