# EXCEL ChatBI: TLA+ specifications, model checking and proofs

This directory holds a verification project for the program in `src/`. It
specifies how a user's request becomes a *task run* and is carried to its end: the
plan, the model's turns, the tool calls, the questions, the answer; how the run is
stored, interrupted, recovered and watched; and the stores and services beside it:
conversations, memories, the knowledge base, domain definitions, the schema. TLC
checks the specifications on small instances; TLAPS proves, for every value of the
constants, the safety properties of every module: of the run, its hosts, turns and
results, of what a plan, a join, a hypothesis and an answer rest on, of the registry,
the streams and the page, and of all that is kept.

## The system

A user turn becomes a **task run**. A *host* (one asyncio task of the API process)
asks a model for a plan, executes the tool calls the model proposes, verifies the
candidate answer and ends the run. Users pause, resume, cancel, answer questions,
revise the plan and retry failed steps through HTTP while the host is working.
The process may stop at any point; the next start recovers what it finds.

| component | state | operations | what makes it hard | what makes it correct |
|---|---|---|---|---|
| Task run store (`packages/session/task_store.py`) | `task_runs`, plans, steps, `tool_invocations`, cancellation nodes, snapshot, checkpoints, events; all in one SQLite file | one `BEGIN IMMEDIATE` transaction per method, guarded by `state_version` and an idempotency key | two writers (host, handlers), crashes between transactions, ten tables that must agree | rows agree; a resting run can be resumed; what is finished stays finished; a call is executed once |
| Agent loop (`apps/orchestrator/agent_loop.py`) | position in the loop, the run record it read last, call counters, the lock of the conversation | plan, ask, model round, serial call, parallel frontier, verify, fail | every `await` lets commands in; results arrive late; one call of a batch fails or ends unknown | unknown outcomes end the run; budget; every call of a turn is answered |
| Run control API (`apps/api/routers/agent_runs.py`) | none of its own | pause, resume, answer, revise, retry, cancel, reconnect | state is read before an `await` and used after it | a command is applied to the run it was meant for; the host learns of it |
| Run manager and events (`apps/orchestrator/run_manager.py`, `task_events`) | one producer per run, its control signals, a bounded queue per subscriber, the log | start, subscribe, publish, replay, cancel, shutdown | slow readers, producers that end while someone reads | a reader that reconnects misses nothing and is told of the end |
| Outline and contract (`control/task_outline.py`, `contracts.py`, `request_intent.py`) | none | read a request's words into artifacts required and steps planned | two sets of rules over the same words | a plan serves its contract and can be carried out |
| Claims, verifier, answer (`control/claims.py`, `semantic_identity.py`, `verifier.py`) | the claims of a run | claim, verify, retry, repair, deliver | several attempts, evidence that grows, deterministic edits of text | the delivered text rests on evidence |
| Hypotheses, joins, data roles (`control/`, `orchestration/hypothesis_*.py`) | hypothesis records, role confirmations, preflight evidence | screen, select, project, offer; assess and confirm a join; confirm a role | confirmations go stale when data, plan or host change | a call rests on what was confirmed for the data it uses |
| Agent tools, tool results (`apps/orchestrator/agent_tools.py`) | files and rows a call derives, with their owner | call, finalise, commit, clean up | four threads, each of which may be given up | no orphan and no loss |
| MCP gateway and resources (`mcp_servers/common/`) | connection, session, subscriptions | call, reconnect, fall back, list, subscribe, notify | a call is lost after it was sent; a catalogue changes under a client | only idempotent reads are repeated; clients hear of changes |
| Model access (`packages/models/`) | none | stream a turn over candidates | protocol text within streamed text, failures half way | the user sees the text of one model |
| Conversation store (`packages/session/store.py`, `cache.py`, backup) | projects, conversations, data sets, files, cache, offline copies | upload, delete, read, back up, restore | file and row are apart; cache and row are apart | every row has its file; no work is lost |
| Lineage graph (`packages/session/lineage.py`) | none of its own: rows of data sets, anchors, edges, calls, artifacts, claims | build the graph of a project or a conversation, check the integrity | rows are deleted while others still name them | a claim is traced to its data; no sequence of deletions degrades the database |
| Conversation context (`coref.py`, `compaction.py`) | bound references, compactions | resolve, bind, restore; summarise | data sets come and go; uploads between messages | a run means the same thing all along |
| Long-term memory (`memory_store.py`, `memory_refs.py`) | versions, links, snapshots | remember, revise, delete, resolve, restore | concurrent revisions | one history |
| Schema migrations (`packages/session/migrations/`) | `user_version`, the registry, the schema | upgrade, back up, roll back | crashes between versions, two starting processes | the version says what is there |
| Domain knowledge (`packages/knowledge/domain_store.py`) | versioned definitions, mappings | publish, map, look up, bind | republication between lookup and use | a number names the definition that computed it |
| Knowledge base (`packages/rag/`) | originals, index generations, pointer or alias | ingest, delete, rebuild, roll back, clean up, retrieve | two stores, several processes | an update is whole; a rebuild repairs |
| Web client (`apps/web/src/`) | what the page shows, streams, session storage | navigate, send, upload, command, follow a stream | answers arrive late | the page shows one conversation and is never locked |

How the parts interact: the host and the handlers meet only in the database, and
in the run manager's control signals. The host publishes every committed event to
its subscribers; a handler publishes the events of its own command. A handler that
finds no host starts a recovered one from the latest checkpoint. Start-up and
shutdown call `recover_stale_runs`, which parks a running run at its last safe
boundary or ends it. A host reaches tools through one gateway of its registry and
the models through the model gateway, and reads references, memories, compactions
and definitions from their stores when it plans.

Analysis tool servers, governance and scripts compute, format or measure and are not
modelled; `PROJECT.json` lists them and, for every component, what is left out.

## Modules

| module | what it is |
|---|---|
| `RunLifecycle` | what a run promises its observers: the status table, finished work is never undone, a run rests only with nothing open, doubt ends it without success |
| `TaskRun` | the rows of one run, every operation that changes them, and the host's control flow |
| `TaskRunProofs` | proofs about `TaskRun`: the inductive invariant, the theorems and the refinement of `RunLifecycle` |
| `AgentHost` | one run again, with every read, await and write of its hosts and of the request handlers apart |
| `AgentTurn` | the rounds of a host: messages, counters, batches, take-over by another host |
| `RunManager` | the hosts of the process, the registry, the readers and their bounded queues |
| `EventStream` | extends `RunManager` with the event log, its writers, publication, replay and the client's cursor |
| `WebWorkspace` | the page's store and its asynchronous functions |
| `ConversationLocks` | the lock pool that admits one turn of a conversation at a time |
| `TaskOutline` | contract and outline of a request, validation, user revisions |
| `FinalAnswer` | candidates, claims, verification, retries, repair and delivery |
| `Hypothesis`, `Joins`, `DataRoles` | the three kinds of confirmed analysis |
| `ToolResult` | who owns what one deriving call leaves behind |
| `McpGateway` | calls and watchers over one reconnecting connection |
| `ResourceListing`, `ResourceFeed` | pages, subscriptions and notifications of definitions |
| `ModelTurn` | one streamed turn over the candidates of a route |
| `Workspace`, `WorkspaceBackup` | rows, files and cache; offline backup and restore |
| `References`, `Compaction`, `MemoryStore` | what a run takes from its conversation and project |
| `Migrations` | the schema under starts, crashes and rollback |
| `DomainDefinitions` | definitions, lookups and the data calls they bind |
| `KnowledgeBase`, `MilvusStore` | originals and local index; the Milvus index |
| `LineageGraph` | the rows a figure is traced back through, and the graph drawn from them |
| `HostProofs` | proofs about `AgentHost` and `ModelTurn` |
| `TurnProofs` | proofs about `AgentTurn`, `ToolResult`, `McpGateway`, `Joins`, `DataRoles`, `ResourceListing`, `ResourceFeed` and `TaskOutline` |
| `AnswerProofs` | proofs about `FinalAnswer`, `Hypothesis` and `DomainDefinitions` |
| `StreamProofs` | proofs about `RunManager`, `EventStream` and `WebWorkspace` |
| `StoreProofs` | proofs about `ConversationLocks`, `Migrations`, `WorkspaceBackup`, `MilvusStore`, `MemoryStore` and `KnowledgeBase` |
| `WorkspaceProofs` | proofs about `Workspace`, `References` and `Compaction` |
| `LineageProofs` | proofs about `LineageGraph` |
| `MCTaskRun`, `MCCalls`, `MCRunManager`, `MCEventStream`, `MCAgentHost`, `MCTools`, `MCStores`, `MCReferences`, `MCHypothesis` | instances for TLC |

Modules that share no state are checked side by side: `MCTools`, `MCStores`,
`MCCalls` and `MCEventStream` have a variable (`area`, `scenario`) fixed at the start
that says which module the behaviour is of; the rows of a run (`TaskRun`, with the values of
`MCTaskRun`) are one of the areas of `MCTools`. Where one property speaks of two modules, the
second extends the first and states it: `DataRoles` with `Joins` (`CallsGoverned`),
`ResourceFeed` with `ResourceListing` (`ResourcesSound`), `WorkspaceBackup` with `Migrations`
(`DatabaseSafe`), `Compaction` with `References` (`ContextKept`). The composition of components that do
interact is inside the modules: `EventStream` composes registry, log, handlers and
clients; `AgentHost` hosts and handlers; `ToolResult` the lease, the registry, the
finaliser and the commit; `DomainDefinitions` the definitions and the run; `ResourceFeed`
the server's task and the client's gateway; `MilvusStore` the API and a script.

### TaskRun

State. `status`, `planVersion`, `retryOf` and `steps` are the run row, the active
plan and its step rows; `used`, `inv`, `outcome` are the `tool_invocations` in the
order of their insertion, `branch` and `root` the cancellation tree; `dataVersion`
counts bound derived datasets; `snapshot` and `checkpoint` are the
`completed_step_ids` (and plan version) of the snapshot and of the latest checkpoint;
`asked` the questions; `loop` and `rounds` where the host is and the rounds it has used.

Step rows of superseded plans are not kept: nothing reads them except through an
invocation that still points at one, and `Current` tells those apart. A finished
step that a new plan version copies is a new row with the old status, which is what
`Recovers` looks at.

Actions. One per store method and caller: `SavePlan`, `AskUser`, `StartRunning`,
`ModelTurn`, `EndOfTurn`, `StartCall`, `StartBatch`, `RejectCall`, `CommitSuccess`,
`CommitFailure`, `BlockOnUnknown`, `BlockOnJoinGuard`, `BeginVerify`, `Complete`,
`Reject`, `VerifyRetry`, `RoundsExhausted` and `HostFails` of the host; `Answer`,
`Pause`, `Resume`, `RevisePlan`, `RetryStep`, `Cancel` of the users; `Crash`;
`RecoverPause` and `RecoverFail` of the next start. What a transaction does on the
way (refreshing the snapshot, inserting a checkpoint, closing the cancellation tree,
skipping prerequisites) is part of its action.

Atomicity. Every method is one SQLite write transaction that compares the caller's
`state_version` with the row. A caller whose version is stale changes nothing and
gets an exception; the host then runs into `stream_agent_chat`'s handlers, which end
the run without a version check. So a read and the transaction based on it are one
step of the model, and the stale case is `HostFails`, possible in every phase and
status. Between any two transactions every other action may happen.

A paused host. `Pause` leaves the phase where it is; the host goes on after
`Resume`. The control signal in memory is not a variable: the host acts only
while the row says it may, which is what the version check enforces.

Abstractions. A call stands for a tool with its arguments; `Tool` says which calls
`_recovers` takes for repetitions, `Capable` which steps a call can serve. The
content checks of the verifier are a free choice between `Complete`, `VerifyRetry` and
`Reject`. `BlockOnJoinGuard` is free too. The per-host counters that stop a model
from proposing the same call again in one host's life are in `AgentTurn`: they only
forbid calls, so every safety property holds a fortiori, and the properties about
repeated calls rest on the durable rows alone. `refused` is a row whose status is
`failed` and whose error says that the call was not executed.

### AgentHost

`TaskRun` and `AgentHost` are two views of one run. `TaskRun` keeps all rows and
takes a read and the transaction based on it as one step, which the version check
justifies for the rows. `AgentHost` keeps of the rows what the guards read and takes
the steps apart, because the signals in memory and the registry have no version.

State. `status`, `calls`, `asked` and `applied` are what guards read of the rows. The
version column is not a number: `fresh` holds who knows the current one, so a write of
another is refused whatever it is. `registered` is the entry of `_runs`; `phase`,
`runnable`, `cancelled` and `heard` are where a host is and its `ManagedRunControl`.
A handler is a slot that serves one request at a time; `stage`, `message`, `saw` and
`found` are its local variables; `lost` remembers that a request failed after
its command had been applied.

Actions. The host: `SavePlan`, `Ask`, `StartRunning`, `GetAnswer`, `ReadAnswered`,
`ReadRecovered`, `WaitForSignal`, `PassBoundary`, `Look`, `Think`, `Record`,
`StartExecution`, `Return`, `Settle`, `Verify`, `End`; `Raise` and `HandleException`
for every exception; `Leave` and `TerminateLeft` for the last look in its `finally`.
A request: `Begin` (read and, for most, the look at the manager), `Signal` (pause only),
then the transaction as `Apply`, `Replay` or `Refuse`, then `Paused`, `Cancelled`,
`Answered`, `Wake` or `StartRecovered`. Setting the signal (`Releases`) wakes a host that
waits even if the signal is cleared at once, as `asyncio.Event` does. Revisions of the
plan (`Revise`) take a new version from everybody; a lingering entry goes with its last
reader (`Forget`). Clients send the messages of the instance any number of times.

Left out: shutdown, feedback and claims, requests whose `If-Match` is stale from the
start (they are refused like those that are overtaken), and the rows themselves.

### AgentTurn

The inner loop of a host from the point of view of the messages: `offered` and `copy`
are the plan version the model was shown and the one the host holds, `attempts` and
`invalid` its counters beside the stored `usage` and `refused`, `batch` and `answers`
the calls of the last response and how many tool messages answer each. `Open` is the
start or take-over by a host with `_restored_usage`; `CallTools`, `Reserve`, `OneByOne`,
`NextCall`, `Reuse` and the `Reject...` actions are the branches of the serial and
parallel paths; `SupersededFrom` a turn whose plan was revised. A tool is executed and
committed in one step (the outcomes in between are `TaskRun`'s); failing writes are
`Fails`; each verification issue is sent back once.

### RunManager, EventStream, WebWorkspace

`RunManager`. An entry of `_runs` is named by the number of its host; `runs` and
`conversationRuns` are the two dictionaries, `started` counts hosts, `hostRun` and
`finished` are the run of a host and whether its producer has ended. A reader is one
`_QueueSubscription`: `subscribers` are the queues an entry still feeds, `entryOf`
and `queue` the reader's entry and its content, `closed` whether it was closed. Actions:
`Begin`, `Recover` (the callers of `start`), `Wake`, `Subscribe`, `HostYields`,
`Publish`, `HostEnds`, `Read`, `Close`, `Shutdown`. The manager has no await inside a
method, so each is one step of the event loop. A queue that would exceed its size is
emptied, marked and dropped, as in `_evict_lagged_subscriber`.

`EventStream`. `log` is the last sequence in `task_events`; `hostOut` what a host has
committed and not yet yielded, `outbox` what a handler has committed and not yet
published; `activity` whether a host runs, is held back or is about to return; `stream`
the response a client reads, `session` its side in `client.ts`: where it began, its
cursor, what it has dispatched and how often it has reconnected. A commit and the
publication that follows are two actions for both writers, because a handler awaits its
transaction and a host is an async generator. `Replay` and `Check` are the two queries
of `_replay_and_subscribe` after the subscription. A pause holds back the host that is
registered for the run, and no other. A connection may `Drop` at any point
and the server close the reader later.

`WebWorkspace`. The Zustand store: `active`, `shown`, `activeRun`, `question`,
`streaming`, `busy`, `remembered` (session storage), and a number of flows, each one
call of an asynchronous function at one of its awaits. A flow carries what the source
compares after the await (`navigationSequence`, `workspaceGeneration`, the conversation
it was called for). What the server says of a run's status is free; its requests may
fail. Cancel behaves like pause, retry and answer like resume. Projects, renames, the
data set list, feedback and the disabling of buttons are left out.

### From a request to its calls

`TaskOutline`. `Plan` reads the contract and the outline off the words of the request:
`words` is a set of token groups that the two sets of rules tell apart, `usable` the
frozen catalogue of capabilities, `artifacts` what the conversation already has. A
request may first be clarified (`Answer` adds words), a hypothesis chosen, and the plan
revised one step at a time within the rules of `task_plan_contract.py`. An outline is a set
of steps: the rules of `create_task_outline` are numbered in the order in which they are
tried, a step's id is the number of the rule that wrote it (`PlaceOf`, `CapabilityAt`), and
`after` is what it depends on; `Redrawn` and `Appended` are the rules that look at the steps
before them, `Ancestors` what a step waits for directly or not. Left out: the route of an
outline, conditions and texts; one user revision.

`Hypothesis`. `screened`, `chosen` and `record` are the candidates, the selection and
the execution record; `step`, `calling`, `tests`, `unrecovered` and `evidence` what the
record is projected from. Every projection is part of the transaction that changes the
run. Rejections count approximately, an unknown outcome is a commit without evidence
followed by the end of the run.

`Joins`. `goal` is what the user wants, `text` what the host knows of it, `joins` the
invocation rows of `join_preflight` and `join_datasets`, `verdict` what a preflight finds
for given arguments. A host asks the open parts (`Ask`, `Answer`), pins confirmed
arguments, passes the guard or is stopped, takes a repetition from the ledger or executes.
A crash during a call makes it unknown and fails the run; one retry by the user.

`DataRoles`. `profiles` are the columns of each data version; `Ambiguous` and `Primary` the
inference of `advisor.py`; one question, one confirmation bound to data set and version,
and the guard before each call. Deriving a data set appends a profile.

`ModelTurn`. A candidate's `utterance` arrives in pieces; `held` is the suffix that may
be the begin of a mark, `handed` what the user has, sign by sign with the candidate it came
from. Text is a sequence of signs that stand for the marks of a call block, letters and
blanks; what `normalize_dsml_tool_response` takes out is a set of places, and `Pick` the signs
at the others in their order. Structured tool calls of providers, prices and the registry are
left out.

`McpGateway`. A gateway object is a number; `connector` holds the lock, `session` is the SDK
session of each, `flight`, `executed` and `reply` the server's side of a call. `Broken` is
the retry rule of `execute` for reads and writes. The server answers with an error before its
handler ran (`ServerRejects`) or after it had its effect (`Run`): the adapter validates the
output last and turns every exception into an error. Left out: a remote result that a late server leaves behind, drift of the catalogue.

`ToolResult`. The file, the row and the binding of one derived data set, the tool's thread
with its lease, the finaliser's thread, the commit's thread and the host, each step by step;
the host may be stopped at each await. The removal of a file by the lease may fail up to
`MaxAttempts` times; the adapter may refuse the output of a tool whose file is written
(`RefuseOutput`), and the host, which sees a failed call, never learns of the file; ownership cleanup does not fail.

`ResourceListing`, `ResourceFeed`. The pages of a listing carry a cursor of offset and
version; a stale cursor is refused. A subscription is one key: `watcher` is the server's
task with its snapshot and context, `wanted` what the gateway subscribes again after a
reconnection, `heard` the last version notified. The queue of notifications is FIFO, so what
was heard is what was told last; `_ready_gateway` and the read and removal of an unsubscribe
are one step each.

`FinalAnswer`. A candidate is a set of sentences with at most one figure each; `facts` the
numbers of the ledger with tool, data set, group and role; `Identity`, `Agrees` and `Shows`
are the matching of `semantic_identity.py` with units and rounding. `Judge` is the
verification, `Repair` the removal of unsupported sentences, `claims` the rows replaced
with each verification. Units beyond rounding, filters, report totals, definition lineage and
failed persistence are left out; each kind of issue is retried once.

### What is kept

`Workspace`. Rows of a project, its data set files, and the LRU cache. A request is a
sequence of steps in a thread of the API: upload (file, row, cleanup), deletion (row, listing,
files), read through the cache (`ReadRows`, `Put`). Left out: report files, renames, derived
edges, failures of file deletion. `WorkspaceBackup`: the database file, its WAL and two
trees, as `Backup`, `Verify`, `Quarantine` and the four replacements, each of which may be
the last; the service may be killed with commits in the WAL.

`References`. A word is a set of mentions; `Resolve` gives targets and one of resolved,
ambiguous, missing or no reference; `inquiry` is the run with the bindings of its contract and
plan, `host` who works on it. `Compaction`: messages by time, `versions` the stored
compactions with what they cover, `shown` what a host shows the model. An upload writes a
message of an earlier time (`late`). Size is the number of messages; text, redaction and
scopes are left out. `MemoryStore`: the versions of a memory with their status, supersession
and conflict; `reference` and `stage` are a run that resolves, keeps and restores one.

`Migrations`. `version` is `user_version`; `tables`, `columns` and `registry` what each
version brought; `rows` and `tasks` what the tables of version 1 and those added since hold, `copies` the
snapshots beside the database, `start` what each starting process found and does next. Each
version is a transaction. The rollback refuses while a run is unfinished, exports the database
(`Export`) and then drops the added tables with their rows (`Downgrade`); added columns of
older tables stay. An earlier release may serve a database of its version (`ServeEarlier`).

`DomainDefinitions`. Two published versions of one metric with validity intervals, one field
mapping, calls of a batch that resolve, compile and commit, and the ledger whose entries bind
the data calls after them. Calls are single or a batch.

`KnowledgeBase`, `MilvusStore`. `manifest` is the originals, `generations` and `pointer` the
index, `store` what the API has loaded, `kbAdmin` a script. Requests publish, read, embed,
write and point, and may fail in between. In `MilvusStore` a `job` goes through create,
insert, publish, adopt and drop; `memory` is each process's `_collection` and
`_previous_collection`; retrievals pin a collection. `may` collects the states that the
reports of those who changed the index allow, and `whole` the collections that updates published from the empty index, from documents
given in full or from such a collection: a rollback publishes whatever was inferred as the
previous collection, and only for one of `whole` it sets `may`. The legacy `index.json` and the base
collection are left out; a failed publish took no effect.

`LineageGraph`. `stored`, `anchors` and `edges` are the data set rows, their anchors and
the edges of descent, with what the triggers of schema versions 6 and 11 add when a row is
inserted, renamed or deleted; `invoked`, `pieces` and `claimed` the calls (evidence is a
call that succeeded), the artifacts and the claims of a run with the evidence of each;
`home` the project of a conversation. Actions: `UploadTable`, `Derive`, `RecordCall`,
`Produce`, `CloseCall`, `ReplaceClaims`, `Rename`, `DeleteTable`, `CloseChat`,
`CloseProject`; the parents that a registration read may be gone when it inserts. The graph
is an operator over the rows (`GraphNodes`, `GraphEdges`), the integrity check the
conjuncts of `LineageWhole`. Left out: access rules, audit rows, hashes, reports and the
truncation of a large graph.

`ConversationLocks`. `hold` as `Hold`, `Enter`, `Leave`, `GiveUp`; an `asyncio.Lock` that is
released is handed to its first waiter, which may be cancelled before it runs.

## Properties

Each is aimed at a hazard listed in `PROJECT.json`.

* `RestIsResumable`: whatever led to `paused` or `waiting_user`, the latest checkpoint
  passes `_validate_checkpoint`, so resume and answer are possible.
* `RowsAgree`: invocation rows, step rows and cancellation nodes agree in every
  interleaving.
* `CompletedHasEvidence`: a completed step has a call that succeeded for it, through
  revisions, retries and skipped prerequisites.
* `DataStable`: a call executes on the data version it was reserved for.
* `WithinBudget`: frontiers, hosts and retries together stay within the scope.
* `NothingUndone`: finished steps (`FinishedIrrevocable`), the outcomes of calls
  (`OutcomeFinal`) and doubt (`UnknownStopsRun`) are final.
* `NoReexecution`: a call is made again only for the step whose retry the user asked
  for, one time per request.
* `ImplementsLifecycle`: `TaskRun` refines `RunLifecycle` (finished work is the set of
  completed and skipped steps, open the running rows, doubt the unknown rows).
* `MCSettles`: a run in progress ends or comes to rest (`Settles` of `TaskRun`), or has been
  stranded by an answer to an earlier question, which is finding 7.
* `AnswerContinues`: an answer that is accepted lets the run go on. It does not hold.
* `MCCallsEnd`: every call through the gateway ends, whatever breaks.
* `GatewaySound`: a write runs at most once; one that was reported failed and not unknown is
  over, and has run only if the server itself answered with an error: what the client decides
  by itself is reported as unknown once the request has left; sessions are not leaked but by a watcher's refresh.
* `QuietAtRest`: nothing executes for a run at rest.
* `HostListens`: an accepted answer reaches the host that awaits it, and a pause leaves no
  trace on a run that goes on.
* `AttendedOrTold`: a run in progress that no host acts on is known to a client by an
  error. It is as strong as the code allows: between the look at the manager and
  `manager.resume` the host may return, and between the transaction and `start` a
  finished entry may linger for its readers. The request then ends with an error after
  its command was applied, and the run stays in progress, without host, until the next
  start-up recovers it.
* `EndedIsFinal`: a run that ended stays ended, though hosts terminate it without version.
* `RegistryKept`: a reader that its host no longer feeds has a sentinel in its queue, and
  a finished entry stays registered only for a reader still to close.
* `RestTold`: a client that follows a task at rest or over has what ends its stream in
  its queue, in whatever order it subscribed, the status was read and the event came.
* `NothingMissed`: an executing host is the one that requests find, while readers that were
  evicted have closed before the next host starts (`HostFound`); and a client that
  reconnects misses no event while only the host writes (`ReconnectsGapless`).
* `PageSound`: the page never mixes conversations however late answers come, and no flag
  keeps it locked when nothing is under way.
* `TurnSound`: every tool call of a response has exactly one tool message in the next
  request; a host that takes over never counts less than what is stored.
* `ResultSound`: nothing is left of a result that was not committed, in whatever order the
  host gave up and its threads ended, and a committed result stays. The exceptions are a sweep
  that failed `MaxAttempts` times and a file whose tool's output was refused.
* `StreamSound`: what the user sees is the text of one model, without marks, nothing lost.
* `CallsGoverned`: a join is made of what a preflight of the same arguments and data
  found; the page's "ready" means that the host would go on; a column's role is either
  beyond doubt or confirmed for this data version.
* `OutlineSound`: a plan serves its contract, its steps can be carried out, and a request is
  refused only for the reasons listed in it.
* `ResourcesSound`: the pages of a listing are one version of the catalogue; what a
  watcher has seen has been told; nobody hears what nobody wants.
* `HypothesisSound`: a conclusion is earned, and what is offered next can be done.
* `OneHistory`: the versions of a memory do not fork.
* `DatabaseSafe`: the schema version says what is there wherever an upgrade stopped; what an
  upgrade or a rollback is about to change is in a copy first; the next start can go on
  through every version ahead, or, past columns a rollback left, a copy it can go on from is
  beside the database; a rollback drops no run that is not over. And a restore neither loses what was there nor leaves it in the
  restored.
* `FilesMatch`: every registered data set has its file, and no file is left without a row.
* `Traceable`: whatever is uploaded, derived, renamed and deleted in whatever order, the
  integrity check that the readiness probe runs finds nothing (`LineageWhole`), no edge
  leads out of a graph, and a claim can be followed to its evidence, the call behind it and
  all the data that call read (`Traced`).
* `DescentKept`: what a data set was derived from does not change but with its project.
* `OneTurn`: one turn of a conversation at a time, always a next one, whoever gives up.
* `Lineage`: a number that names a definition was computed by it, and altered arguments
  are refused.
* `MilvusSound`: a retrieval's collection stays until it is done; what is published and
  served has every update reported done, none reported failed, and one that died in full or
  not at all, except after a rollback to what a crashed or failed update left behind.
* `ContextKept`: all hosts of a run work on what its references first meant and see the
  conversation through one compaction; later compactions lose nothing.
* `AnswerSound`: each figure of a delivered answer rests on one fact and no other statistic
  it could mean says otherwise; knowledge has a source; nothing promised or failed is left.
* `Heals`: a rebuild that nothing runs beside leaves the index saying what the originals
  say, whatever crashed or crossed before.
* `TypeOK`, `HostTypeOK`, `StoresTypeOK`: the type invariants; those of the other modules are
  conjuncts of their properties (`GatewaySound`, `PageSound`, `CallsGoverned`...) or, for
  `RunManager`, `EventStream`, `AgentTurn` and `ToolResult`, of the invariants that are proved.

## Runs

| run | instance | question |
|---|---|---|
| `calls` | `TaskRun`: the second step needs the first, a call both can use and a deriving one, budget 3, 4 rows, 2 rounds, 2 questions; and `McpGateway`: a read, a write, a watcher, 2 gateways, 1 reconnection, fallback; fairness | what has to end; evidence and checkpoints of a chain |
| `handover` | `AgentHost`: up to three hosts, two requests at a time out of five messages (pause, resume, cancel, two answers), two questions | hosts and handlers step by step |
| `streams` | the four scenarios of `MCEventStream`: the registry with two runs, two hosts, three readers; two clients and every handler, two hosts, three events; a client with two reconnections; the page with two conversations and two flows; queues of two | who is told of what, and what the page shows |
| `tools` | the modules of `MCTools`: two calls, two data sets or columns, two hosts, plans of three steps, three definitions with pages of two, two subscribers of one key with two versions and a break of the session; and `TaskRun`: two independent steps, two read-only calls and a deriving one, frontiers of two, budget 3, 4 rows, 3 rounds, 2 plan versions, 1 question | from a request to the calls of a turn and their results; interleavings of the commits of a frontier with commands, crashes and recoveries; refinement of `RunLifecycle` |
| `stores` | the twelve modules of `MCStores`: mostly two callers, two contents and three keys; lineage of two projects, two conversations, three data sets and one call; a schema of three versions; three index generations; three backups; two hosts of an answer | what is kept under concurrent requests, crashes and offline tools |
| `lagging` | `RunManager`: two runs of one conversation, three hosts | finding 1 |
| `parked` | `AgentHost`: one host, two pauses with different keys and a cancel, `FairSpec` | finding 2 |
| `guessed` | `References`: a request that says "this data set", two uploads | finding 3 |
| `stale` | `Workspace`: the cache | finding 4 |
| `untracked` | `Hypothesis`: as in `tools` | finding 5 |
| `beside` | `MilvusStore`: the API and a script beside it | finding 6 |
| `answered` | `TaskRun`: the chain of `calls`, two questions | finding 7 |

Bounds. `MaxInvocations` bounds the rows, `MaxPlans` the versions after which users
stop revising, `MaxQuestions` the questions; each appears in a guard. Two steps with
a dependency are the smallest plan with a prerequisite, two independent ones the
smallest with a frontier; four rows are one more than the budget, so that a host that went
beyond it would be seen. `MaxToolCalls` and `MaxRounds` (`MaxTurnCalls` and `MaxTurnRounds` in
`AgentTurn`) are the program's own limits, set small enough to be reached. The theorems need
none of these values.

`MaxHosts`, `MaxLog` and `MaxTries` bound hosts, events and reconnections; queues of two
are the smallest in which a reader can be behind without being evicted, and are filled,
overrun and drained. `EvictedHaveClosed` restricts one scenario to behaviours in which a
reader that was evicted has closed before the next host starts; without it finding 1 also
breaks `HostReachable` and `RestTold`. With handlers that commit, a client's cursor
may pass an event that it has not dispatched (observation below), so completeness of what it
sees is checked where only the host writes.

In `handover` each command has one key: sent again it is a repetition. Two pauses with
different keys are the subject of `parked`; they would break `HostListens` in the same way,
with a resume in place of the cancel. Nor does a client of the instance
answer a question again under a new key: that is the subject of `answered`. The instance of
`calls` has no such restriction: an answer to any question may come at any time, once the run
waits for one. Two requests at a time suffice for every pair of
handlers to overlap; three hosts for an answer, a recovery and one more.

In `tools` the words of a request are all pairs of words the rules know, and the
combinations on which they disagree; utterances are the ones that put a mark in every
position relative to text and to the end; the profiles of columns are one of each kind of
inference. `MaxJoinCalls` 3 allows a preflight, a join and its repetition with other data.
`MaxTests` and `MaxPlanned` allow a failure, a revision, a retry and a success.

In `stores` the sets of different modules share model values, so that one permutation group
serves all. Two values are what a race needs in each module; `MaxGenerations`,
`MaxCandidates` and `MaxBackups` 3 are a current, a previous and a new one; a schema of three
versions is one with an upgrade over several, the last of which adds columns as version 6 of
the code does; `MaxCopies` 3 allows the copies of upgrades and of a rollback side by side.

Deadlock is not examined in any run: a run that has ended, or rests with no revisions left, a
stream whose clients are done, a turn, listing or answer that is over have no further step.
Whether somebody waits for ever is asked instead by `MCSettles`, `MCCallsEnd`, `OneTurn`,
`RegistryKept`, `PageSound` and `EndedFrees`.

Fairness of `TaskRun`. Weak fairness of the host's steps together: model and tool
calls are wrapped in timeouts whose expiry is itself a host step, and the asyncio
loop schedules a ready task. Weak fairness of recovery while there is no host:
`recover_stale_runs` is called at every start of the application, so this assumes
that a stopped application is started again. Nothing is assumed of users, and
crashes and failures may happen at any time; they are finite because each ends a
run or leaves it without host.

Fairness of `McpGateway`. Weak fairness of what a call or watcher does by itself
(`Advances`): every await of `execute` has a timeout, and the lock is released on every
way out. Nothing is assumed of the server or the connection.

Fairness of `AgentHost`. Weak fairness of the host and of each handler that is in the
middle of a request: their awaits are threads that return, signals, or calls with a
timeout. A host waiting for an answer or for its signal has no enabled step, so nothing
is assumed of it until the signal comes. No client is assumed to send anything.

All other runs look at safety only and assume no fairness.

## Proofs

The proofs assume what the modules declare of their constants (`...Assumption`: natural
bounds, values that are not in the sets they mark, read-only calls that derive no dataset,
texts that are sequences of signs). Seven theorems have a hypothesis of their own, because the
code breaks the property without it (below, *Hypotheses*). Each module of proofs has the same course: a property is seldom inductive by
itself, so an invariant adds conjuncts, each of which answers a question that a step asks;
lemmas say what the operators of the model do; one step per action shows that the
invariant is kept; and the property follows.

| theorem | says | of |
|---|---|---|
| `TypeCorrect`, `RestsResumable`, `RowsFollow`, `Evidence`, `DataFixed`, `Budgeted`, `SettledForGood`, `CallsNotRepeated`, `Refinement` | every property of `TaskRun` above but `Settles`; `Refinement` that it implements `RunLifecycle` | `Spec` of `TaskRun` |
| `HostTypes`, `NothingRunsAtRest`, `RunsAreAttended`, `TheEndIsFinal` | `HostTypeOK`, `QuietAtRest`, `AttendedOrTold`, `EndedIsFinal` | `Spec` of `AgentHost` |
| `HostsListen` | `HostListens` if no step is `Untimely` | `Spec` of `AgentHost` |
| `OneModelSpeaks` | `StreamSound` | `ModelSpec` |
| `TurnsAnswerAndCount`, `NoResultIsLeftOrLost`, `GatewayKeepsItsWord` | `TurnSound`, `ResultSound`, `GatewaySound` | `TurnSpec`, `ResultSpec`, `McpSpec` |
| `JoinsFollowEvidence`, `CallsRestOnEvidence` | the joins of `CallsGoverned`; the whole | `JoinSpec`, `RolesSpec` |
| `ResourcesTold` | `ResourcesSound` | `ListingSpec`, `FeedSpec` |
| `OutlinesServe` | `OutlineSound` | `OutlineSpec` |
| `AnswersRestOnEvidence`, `AnswersStand` | `AnswerSound`; what the user has been told, and what it rests on, is not taken back | `AnswerSpec` |
| `ConclusionsAreEarned` | `HypothesisSound` | `HypSpec` |
| `NumbersNameTheirDefinition` | `Lineage` | `DomainSpec` |
| `ReadersAreServed`, `WatchersAreServed` | `RegistryKept` | `ManagerSpec`, `StreamSpec` |
| `LiveHostsAreFound` | `HostReachable` (that of `NothingMissed`) while `EvictedHaveClosed` | `ManagerSpec` |
| `NobodyWatchesAtRest` | `RestTold` while `EvictedHaveClosed` | `StreamSpec` |
| `NobodyMisses` | `NothingMissed` while `EvictedHaveClosed` where it is about two hosts | `MCSpec` of `MCEventStream` |
| `PageBelongs` | `PageSound` | `WebSpec` |
| `TurnsInOrder` | `OneTurn` | `LocksSpec` |
| `MigrationsRecover`, `NothingSavedIsLost`, `DatabasesSurvive` | the two halves of `DatabaseSafe`, and the whole | `MigSpec`, `BackupSpec` |
| `IndexStands`, `LiteStands` | `MilvusSound` while `OneAtATime`; if the deployment is Milvus Lite, or no script runs beside the API | `MilvusSpec` |
| `HistoriesDoNotFork`, `NothingForgotten` | `OneHistory`; no step loses or rewrites a version, or makes one active that was not | `MemSpec` |
| `RebuildsHeal` | `Heals` | `KBSpec` |
| `FilesAndRowsMatch` | `FilesMatch` | `WsSpec` |
| `WordsKeepTheirMeaning`, `ContextsKept` | the references of `ContextKept`; the whole | `ReferencesSpec`, `CompactionSpec` |
| `ClaimsAreTraced`, `DescentIsForGood` | `Traceable`, `DescentKept` | `LineageSpec` |

The inductive invariants are theorems too (`InductiveInvariant`, `HostsSound`,
`TurnsCount`, `ResultsSettle`, `McpCallsKeep`, `FeedsStand`, `ListingsStand`, `AnswersJudged`,
`HypothesesFit`, `DefinitionsFit`, `RegistryAgrees`, `StreamsAgree`, `CallsFit`,
`EntriesAgree`, `SchemaFits`, `RestoresKeep`, `IndexFits`, `MemoriesSound`, `BasesFit`,
`WorkspaceSound`, `ViewsStand`, `LineageSound`).

**Hypotheses.** `LiveHostsAreFound`, `NobodyWatchesAtRest` and the half of `NobodyMisses` that is
about commands have the hypothesis `[]EvictedHaveClosed`: without it they are false, which is finding 1. It is about
behaviours (readers that fell behind close before the next host starts), most have it,
and the `streams` run explores them. `HostsListen` has `[][~Untimely]_hostVars`, which rules out two steps: an
answer is accepted to a question before the one that is asked (`AnswersEarlier`, finding 7), and
a refused pause that had read the run as paused answers when the run has gone on and not ended
(`PausesLate`, the step behind finding 2). Everything else is covered: messages under any keys,
pauses, resumes and pauses again, repetitions and refusals, several requests at once.
`IndexFits` and `IndexStands` have `[]OneAtATime`: scripts run while the API is down, or the
reverse. `LiteStands` follows where that is so by construction, in a deployment on Milvus Lite
(one embedded file, opened by one process) or where no script runs beside the API; on a Milvus
server they may, and finding 6 is what happens then. The `stores` run explores both deployments
without scripts beside the API.

**`TaskRunProofs`**, `IInv`. `RowsInOrder`: rows are inserted in order; without it a new row
could collide with one that exists. `CallsInRun`: calls execute only in a running run, in a
phase that awaits them or left behind by a host that is gone; it is what makes `Pause`,
`BeginVerify` and the terminal transitions find nothing open, and `Crash` harmless.
`OneAtATime`, `BatchReadOnly`: a single call is alone, and a frontier derives no dataset;
they carry `DataStable` over `CommitSuccess`. `DoubtEndsRun`: after an unknown outcome the
host is about to block the run, or gone. `SnapshotCurrent`: the snapshot is never behind the
step rows, which is why `RevisePlan`, which saves the checkpoint from the old snapshot,
still leaves a valid one. `PlanFirst`: a run leaves planning only with a plan, so a run at
rest has a checkpoint. `Refinement` shows that the initial state maps to that of
`RunLifecycle` and every step to `Progress`, `Revise`, `Move` or a stutter.

**`HostProofs`**, `HostInv`. `Versioned`: only a live host can hold the current version, and
once the run has ended none that still has something to write: that is why `TerminateLeft`
and `HandleException`, which compare no version, do not reopen a run. `Known` and `Calm`
relate what a host executes to what the rows say; `Handled` says what a handler in the
middle of a request has found. `Attended` is `AttendedOrTold` between the steps: a run with
nobody to go on has a request that has been applied and will wake or start a host. With
`OneLives` (a live host is the registered one) a write of one host never meets another's.

`ListenInv` adds to it what `HostListens` needs. `Current`: the holder of the current version is
right about the status. `Awaited` and `FoundIt`: the answer to a host that waits is with a handler
that has found it until the host has heard it; this is what fails when an earlier question is
answered anew, and the attempt to prove it is how finding 7 was found. `Released`: a signal that
is cleared on a run that goes on has a request under way that sets it again, which is the pause
that cleared it or a resume. `Judged`: only a pause looks at the manager before its transaction,
and the host it found has started. `Ready`: a host starts with its signal set.

`StreamInv` of `ModelTurn` says that at every moment the signs handed on are exactly the begin of
what the current candidate has said, each with its name (`Signed`), that the rest is held back
(`PartsOf`, `WasSaid`), and that no mark begins among the signs handed on. At the end
(`WellEnded`) what was handed on is the whole but for blocks taken out and blanks at the end.
`normalize_dsml_tool_response` is about places in a text, so the lemmas are about picking signs
by rank: `NthInOrder`, `NthGrows` (the k-th kept place exists and the ranks follow the
places), `CleanedMarks` (no mark appears where blanks are removed), `UnblockedBegins`
(taking blocks out leaves what comes before the first mark), `CleanedEnds` (what is cleaned off
the end is blank, by counting the solid places), and `SafePart`: what `HeldBack` lets through
cannot become the begin of a mark with the next piece.

**`TurnProofs`**. `TurnInv`: `InOrder` says which calls of the response have their message
at each stage, `Underway` that what executes was reserved, and `Accounted` that every stored
call is in the counter of the host or is one of the batch under way; at a take-over the
counters start from the rows. `ResultInv`: `Leased` decides who of the tool's thread and the
host that gives up comes second and sweeps; `Untouched` and `ClaimedOnce` who claims;
`Kept` that nobody cleans up what is owned or released; `Swept` that what nobody owns any
more is under somebody's cleaning hand. `McpInv`: `SentOnce` follows a write through
reservation, flight, server and reply, `Repeating` says that only reads go round again.
`JoinInv` shows `JoinsGoverned` row by row with `LastRuns`: the host makes one call at a time, so
only the last row can run and the guard that looks at the rows before it looks at settled ones.
`RolesInv`: `AskedOnce` and `AnalysedThere` tie confirmations to the one question and calls to
data sets that exist, so that a confirmation for this version is one of these columns.
`ListingInv`: `Chained` says that a chain of cursors has listed the first entries of the
catalogue it began with. `FeedInv`: `AlwaysInformed` says that what the watcher compares with was
told or is as old as the last request, also between its reading, telling and keeping.
`OutlineInv`: `Promised` (a contract only wants what was said, and words are only added),
`Orderly` (a step waits for steps of lower places, a join for a preflight), `PlanServes`,
`Reported` and `RefusedForAReason`; the lemmas say what each rule appends, that the dependencies
of a place are places below it (`RulesInOrder`), and thus that nothing waits for itself.

**`AnswerProofs`**. `SupportedIsGrounded` is the heart of `AnswerSound`: the counting tests of
`semantic_identity.py` (one identity, one value) mean that there is one fact and no rival, for
every finite ledger. `AnswerInv`: `HostFits` says which statuses a host works in, `Gathered`
that the ledger is finite, `Owed` that what is promised is in the contract, `Judged` that from
the claims to the delivery nothing a candidate rests on changes, `Told` that a stored message
passed and that no host works after it. `HypothesisInv`: `StepFits` and `RecordFits` follow
step, call, evidence and record through plan versions, `Unplanned` and `FollowupFits` say when
there is a choice and when an offer. `DomainInv`: `CallsFit` and `MappingFits` (what a lookup
resolved is still there), `Batched` (no call of a batch runs while it is prepared), `CompiledSo`
(what was compiled is what the version says), `BoundSo` and `UnboundSo` (a binding is a lookup
that compiled the same call; a call without one saw only lookups of its own batch).

**`StreamProofs`**. `RegistryInv`: `Fed` (a subscriber of an entry is an open reader of it),
`Followed`, `Registered` and `HasRun` tie the two dictionaries, the subscriber sets and the
readers; with them a full queue that is emptied and marked, an end that is put and a
late `_close` keep `RegistryKept`. `StreamInv` adds `Sequenced` (nothing that travels is
numbered beyond the log), `OneRun` and `Owned` (a response has its reader to itself).
`Telling` is `RestTold` on the way: a parked host has its `done` yielded, in an outbox or in
the queue of every reader. `GapInv`, for a run without commands: what a reader has in its queue
and its host has still to yield are events that follow on one another (`FollowsOn`), up to the
end of the log while the host writes and feeds the reader (`Hears`), from a number that the
cursor has reached except between subscribe and replay, where the replay starts from the cursor
(`Placed`); a `done` never counts an event that is not before it, so it moves no cursor over a gap.
`GapInv` does not bound the log, the reconnections or the evictions. Handlers are left out
because the property is false with them: they publish past what the host has committed and not
yielded, and the cursor moves over it (below, *Observations*).

`PageInv` of `WebWorkspace`: `Holding` says what each function holds at each await (a
conversation, a run that belongs to it), `Navigating` that one call has the newest number and
the page shows its conversation or none, `Locks` that for every flag that locks the page there
is a call under way that will free it.

**`StoreProofs`**. `LocksInv`. `Counted`: the number of users is the cardinality of the turns at
the entry, so an entry is dropped when and only when nobody is there; `Found`: turns are
only at entries that newcomers find; `InLine`: the queue is exactly who waits, without
repetition; `FirstAwake`: only the first of a free lock has been woken, so a cancellation
between wake-up and entry passes the lock on.
`MigInv`: `Accounted` says what the tables, columns and registry are at each version,
`CopiedFirst` that what is about to change is in a copy, `Left` that of a column no start gets
past, a copy made at or after the version that adds it is beside the database, `Emptied` that a
database without the added tables holds no rows of theirs, `Behind` that what a starting process found is
not ahead of the database, so that two that cross apply a version once; `Offline` that the
rollback tool is alone. `BackupInv`: `ServiceStopped`, `Quarantined` (once the restore overwrites,
what users had is in a backup) and `PutBack` (what each stage has replaced; until the log is
removed it can be replayed into the restored file).
`MilvusInv`: `OneOpen`; `Serves` (what is published and served stands and, if it is `Whole`, is one of the
states that the reports allow), `Updated`, `CandidateFits` and `Drops` follow one update from its
candidate to the cleanup. `BaseInv`: `OnlyOne` and `LockFits` say who is alone and who is in the
lock, `Faithful` that what a rebuild was given stays what the originals say.
`MemInv`. `OneActive`, `Superseded`, `NoFork` and `ConflictsOlder` are about
all versions of all memories: only the active version can be revised, and its revision
closes the conflicts beside it, so what is superseded stays so and has one successor.

**`WorkspaceProofs`**, `WsInv`. `Private`: the reference of an upload that has a file and no row is
known to that request alone, so nobody deletes the file under it; `Unused`: a new reference
has no file; `Gone`: files are deleted only of rows that are gone for good. `Owned` names
the request that will register or delete a file without row. `ReferencesInv`: `PlannedClear` and
`ResumedClear` (a run is planned with nothing in doubt, and a host that goes on has resolved what
the plan did) with `AgainAnswered`. `CompactionInv`: `OneView` (the snapshot is what the first
host saw) and `StayBehind` (what a version covers stays behind the newest messages its
settings keep, also when a late upload comes between).

**`LineageProofs`**, `LineageInv`. The conjuncts of the integrity check, with `Housed` (a call is of
a conversation that is there) and `Dated`: a parent was given out before its child. Descent
thus follows `created_at`, and `NoCycle` comes from the well-foundedness of the naturals,
for infinitely many data sets too.

### Only model-checked

* `MCSettles` and `MCCallsEnd`: liveness under fairness needs ENABLED, which the prover does
  not handle.
* `StoresTypeOK` joins the type invariants of the modules of `MCStores`. Each of them is a
  conjunct of an inductive invariant above, in three modules of proofs.

## Findings

1. *A late reader unregisters a live host* (`lagging`). `_close` removes whatever entry the
   run has, also one of a later host than its own; the conversation can get a second
   executing host, against `docs/PROJECT_HANDOVER.md:848`.
2. *The host of a cancelled run waits for ever* (`parked`). A refused pause restores the
   signal from a status it read before the cancel; the host keeps the lock and the
   registration of its conversation, against `docs/v2.4/阶段2C实施记录.md:45`.
3. *A resumed host guesses again* (`guessed`). The binding in the plan is only consulted when
   today's resolution fails; a data set chosen by the user and deleted since is replaced by
   the only other one, against the docstring at `apps/orchestrator/agent_loop.py:4001`.
4. *The cache keeps what is no longer stored* (`stale`). Read and put are two steps that a
   change and its invalidation fit between, against `packages/session/cache.py:14`.
5. *A retried hypothesis step is not tracked* (`untracked`). `retry_step` saves a plan version
   without binding the hypothesis to it; the record says failed although the evidence is
   there, against `docs/v2.5/阶段6C实施记录.md:59`.
6. *A script drops a collection the API reads* (`beside`). Pins are kept per process, against
   the docstring at `packages/rag/milvus_store.py:156`.
7. *An earlier question answered anew strands the run* (`answered`). `answer_clarification`
   (`packages/session/task_store.py:935`) accepts the token of any question of the run; under a
   new key the answer to an old question takes a run that waits for a later one to planning,
   while its host, told of the old question, waits without timeout (`run_manager.py:88`),
   against `docs/v2.4/SSE与任务控制协议.md:182` and `:277` and the refusal at
   `task_store.py:949`. The properties about what must end or be heard except just this.

### Observations

What the models show, or reading for them did, without a run of its own. Those marked (r)
were reproduced by running the code concerned.

Runs and their control:
* `_recovers` compares persisted step ids, and a retry gives its step a new one, so a user's
  retry never recovers the failure it repeats (`verifier.py` 569).
* The parallel frontier derives its keys without the retry's scope, the serial path with
  it (`agent_loop.py` 4858).
* Handlers publish past what the host has committed and not yielded; the client moves its
  cursor over the gap instead of fetching it (`client.ts` 603, against
  `docs/v2.4/SSE与任务控制协议.md:44`). `done` of a pause can reach the stream of the resume
  that followed it and end it.
* A pause that commits while the host is past its boundary is undone by the host's own
  failure: its next write is refused and the exception ends the run as failed.
* A pause during `wait_for_answer` opens no second suspension (`run_manager.py` 104); parking
  a stale run that meets a version conflict falls through to termination
  (`task_store.py` 616).
* The question's message is appended before the transition to `waiting_user`; a final answer
  can be stored for a run that then fails; a committed result is rolled back at shutdown
  (`agent_loop.py` ~5447).
* `signature_counts` restored on resume use keys the serial path never looks up (2228 against
  2976), a host may execute calls though it offered no tools, a limit on invalid calls can be
  exceeded within one batch, and `list_events(limit=1000)` caps the recount.
* An error of SQLite after `start_run_with_user_turn` returns without ending the run.

Requests, calls, answers:
* "graph" and "visualize" make the contract require a chart that the outline does not plan,
  so that the run fails (r) (`request_intent.py` 13, `task_outline.py` 558, against
  `docs/ChatBI设计文档.md:230`); "不要图" still plans one; "换成…并生成报告" without 图 puts the
  chart after the report.
* A whole DSML block followed by a cut-short one leaks the mark (r) (`dsml.py:5`); text with
  blank lines before a mark differs from the normalised content and fails the run; an opener
  with a blank before ">" is shown raw.
* After a resume by a new host, confirmed join arguments are no longer pinned (against
  `docs/v2.5/阶段6E实施记录.md`); a join before its preflight gets a failed row and then counts
  as a repetition; a second ambiguous role is never asked, and confirmations are void after a
  transformation and cannot be renewed in the run.
* A repair drops an unsupported sentence together with its citation and adds none, because it
  looks at the claims from before the removal (`claims.py` 507); numbers in knowledge texts
  are never supported, so such a run ends blocked. A figure of a group that no evidence knows
  is taken for the ungrouped total (r).
* The adapter validates a tool's output after the handler had its effect and turns any
  exception into an error, which the client reports as a known failure of a write that has
  run (`mcp_servers/common/adapter.py` 164, `mcp_servers/common/client_gateway.py` 1420);
  `docs/PROJECT_HANDOVER.md:220` has only timeouts made unknown. A file the tool wrote before
  is left without owner.
* In a batch a data call is not bound by the lookup beside it (`task_store.py` 3471); two
  versions with one formula make the call impossible.

What is kept:
* Two first starts at once leave a database no start can open (several replicas are ruled out
  by `docs/Agent自主化开发规划.md:297`); a schema rolled back to version 1 keeps the columns of
  version 6 and cannot be upgraded again (`runner.py` 273, against
  `docs/v2.4/控制面与持久化设计.md:378`), so that an upgrade has to start from the export
  instead; `GoesOn` states this exception.
* The usage test of `delete_dataset` is not atomic; data set files can be orphaned by a crash;
  a WAL stays after an interrupted restore.
* A file name that no file had at planning may resolve at resume with tools open; the deletion
  of the data set of a bound chart leaves a run without host until the next start; before the
  trigger of a compaction messages beyond the window are dropped without a summary; uploads
  between start and compaction can push a run's own request into the summary.
* Deleting an active memory leaves its conflicts.
* A bootstrap rebuild can overwrite an ingest; crossing ingests leave the index older until a
  rebuild; a collection half built at a crash is inferred as the previous one and can be
  published by a rollback (against `milvus_store.py:3`; `AllOrNothing` states the exception); the API never refreshes its collection
  after a script rebuilt or rolled back.

Resources and page:
* Changes made while a session is down are never announced; a renewal keeps the old context
  so that the watcher dies at the old deadline; an intent that has lapsed makes every
  reconnection of that gateway fail until it is unsubscribed; subscribing while reconnecting
  or unsubscribing can leave a wish without watcher or the reverse; the watcher's refresh of
  a closed gateway reopens a session nobody closes.
* Pause, cancel, revise and continue set `activeRun` without comparing the conversation
  (`workspace.ts` 630, 664, 727, 785); the end of `sendMessage` resets `streaming` while
  another stream continues; slow answers of `selectConversation` override newer messages.

## Not modelled

Analysis tool servers (numerical code over data frames), governance (stateless policies; a
refused call is `RejectCall`), scripts, probes and evaluations, deployment, the views of the
web client. Of the modelled components the parts left out are named above and in
`PROJECT.json`; they are texts, formats, prices, scopes and access rules, and read-only
requests.

## Plan

All modules are in place, and every safety property that a run checks has its theorem but for
`StoresTypeOK`, whose parts have theirs. What is left are the parts of components that
`PROJECT.json` names beside *partly*.
