------------------------------ MODULE TaskRun ------------------------------
(* One task run: the rows packages/session/task_store.py keeps for it and    *)
(* every operation that changes them, with the conditions under which        *)
(* apps/orchestrator/agent_loop.py (the run's host) and the HTTP handlers    *)
(* of apps/api/routers/agent_runs.py call it.  Each method of TaskStore is   *)
(* one BEGIN IMMEDIATE transaction and refuses a caller whose state_version  *)
(* is stale, so a method and the reads its caller based it on are one step   *)
(* here; a stale caller changes nothing, and the failure path it then takes  *)
(* is HostFails.                                                             *)
EXTENDS Naturals, FiniteSets

CONSTANTS
    Steps,           \* logical step ids a plan may contain
    Deps,            \* Deps[s]: the steps s depends on
    Calls,           \* tool calls the model may make: a tool with its arguments
    Tool,            \* Tool[c]: what _recovers compares of c: its tool and data scope
    Capable,         \* Capable[c]: the steps whose capability that tool offers
    ReadOnly,        \* calls the parallel frontier accepts
    Deriving,        \* calls that bind a derived dataset when they succeed
    MaxToolCalls,    \* task_execution_scopes.max_tool_calls
    MaxParallelism,  \* task_execution_scopes.max_parallelism
    MaxInvocations,  \* bound: rows of tool_invocations that can exist
    MaxRounds,       \* AgentLoopConfig.max_model_rounds
    MaxPlans,        \* bound: plan versions after which users stop revising
    MaxQuestions,    \* bound: clarification questions a run may ask
    NoStep           \* an invocation bound to no step of the plan

ASSUME StepAssumption ==
    /\ IsFiniteSet(Steps)
    /\ NoStep \notin Steps
    /\ Deps \in [Steps -> SUBSET Steps]

ASSUME CallAssumption ==
    /\ Capable \in [Calls -> SUBSET Steps]
    /\ ReadOnly \subseteq Calls
    /\ Deriving \subseteq Calls
    /\ ReadOnly \cap Deriving = {}   \* derived-dataset tools are excluded

ASSUME BoundAssumption ==
    /\ MaxToolCalls \in Nat
    /\ MaxParallelism \in Nat
    /\ MaxInvocations \in Nat
    /\ MaxRounds \in Nat
    /\ MaxPlans \in Nat
    /\ MaxQuestions \in Nat

VARIABLES
    status,       \* task_runs.status
    planVersion,  \* task_runs.plan_version
    retryOf,      \* the step named by the active plan's user_retry reason
    steps,        \* status of each step of the active plan, or "absent"
    used,         \* number of rows in tool_invocations
    inv,          \* what each invocation row says of its call
    outcome,      \* status of each invocation row
    branch,       \* status of each invocation's cancellation node
    root,         \* status of the run's root cancellation node
    dataVersion,  \* how many derived datasets are bound: the data version
    snapshot,     \* completed_step_ids of task_snapshots.state_json
    checkpoint,   \* the latest checkpoint
    asked,        \* clarification questions asked so far; the last is pending
    loop,         \* where the host is in the agent loop
    rounds        \* model rounds this host has used

planVars == <<planVersion, retryOf, steps>>
callVars == <<used, inv, outcome, branch>>
savedVars == <<snapshot, checkpoint>>
talkVars == <<asked>>
vars == <<status, planVersion, retryOf, steps, used, inv, outcome, branch, root,
          dataVersion, snapshot, checkpoint, asked, loop, rounds>>
-----------------------------------------------------------------------------
InvIds == 1..MaxInvocations
Questions == 1..MaxQuestions

RunStatus == {"planning", "waiting_user", "running", "verifying", "paused",
              "completed", "blocked", "failed", "cancelled"}
Terminal == {"completed", "blocked", "failed", "cancelled"}
Stale == {"planning", "running", "verifying"}

StepStatus == {"absent", "pending", "running", "completed", "skipped", "failed", "blocked"}
Finished == {"completed", "skipped"}
Unsatisfied == {"pending", "failed", "blocked"}

(* "failed" is an execution that went wrong, "refused" a reserved call the   *)
(* loop did not execute: the same row status, told apart by its error text.  *)
Outcome == {"free", "running", "succeeded", "failed", "refused", "unknown"}
NodeStatus == {"none", "active", "completed", "cancel_requested"}

(* none: no host.  plan, planned / replan, replanned: before and after the   *)
(* outline is saved, at the start and after an answer.  wait: the producer   *)
(* awaits an answer.  model: before a model turn.  turn, calls: going        *)
(* through the turn's tool calls, at the first or a later one.  serial,      *)
(* batch, doubtful: a single call, a parallel frontier, a frontier with an   *)
(* unknown outcome in it is executing.  halt: an unknown outcome was         *)
(* recorded and the run must be blocked.                                     *)
Phases == {"none", "plan", "planned", "wait", "replan", "replanned", "model", "turn",
           "calls", "serial", "batch", "doubtful", "halt", "verify"}
InTurn == {"turn", "calls"}

Invocation == [call : Calls \cup {"none"}, step : Steps \cup {NoStep},
               plan : Nat, scope : Nat, data : Nat]
NoInvocation == [call |-> "none", step |-> NoStep, plan |-> 0, scope |-> 0, data |-> 0]
Checkpoint == [plan : Nat, completed : SUBSET Steps]
NoCheckpoint == [plan |-> 0, completed |-> {}]

Successors(st) ==
    CASE st = "planning"     -> {"running", "waiting_user", "paused", "failed", "cancelled"}
      [] st = "waiting_user" -> {"planning", "running", "cancelled", "failed"}
      [] st = "running"      -> {"planning", "verifying", "waiting_user", "paused",
                                 "blocked", "failed", "cancelled"}
      [] st = "verifying"    -> {"planning", "running", "completed", "waiting_user",
                                 "blocked", "failed", "cancelled"}
      [] st = "paused"       -> {"running", "cancelled", "failed"}
      [] OTHER               -> {}

Completed(plan) == {s \in Steps : plan[s] = "completed"}
Planned == {s \in Steps : steps[s] # "absent"}
Unfinished == {s \in Planned : steps[s] \notin Finished}
Running == {i \in InvIds : outcome[i] = "running"}
Unknown == {i \in InvIds : outcome[i] = "unknown"}

\* Mutant: only running calls count as unsettled, not unknown ones.
IdleDespiteUnknown == Running = {}

\* require_idle: nothing is executing and no outcome is unknown.
Idle == Running \cup Unknown = {}

\* The step row an invocation points at belongs to the active plan.
Current(i) == inv[i].plan = planVersion /\ inv[i].step \in Steps

CheckpointValid ==
    /\ checkpoint # NoCheckpoint
    /\ checkpoint.plan = planVersion
    /\ checkpoint.completed = Completed(steps)
    /\ Idle

\* A transition refreshes the snapshot; some also insert it as a checkpoint.
\* Mutant: the checkpoint is written before the plan version changes.
SaveOldVersion == checkpoint' = [plan |-> planVersion, completed |-> snapshot']
Refresh == snapshot' = Completed(steps')
Save == checkpoint' = [plan |-> planVersion', completed |-> snapshot']
-----------------------------------------------------------------------------
Init ==
    /\ status = "planning"
    /\ planVersion = 0
    /\ retryOf = NoStep
    /\ steps = [s \in Steps |-> "absent"]
    /\ used = 0
    /\ inv = [i \in InvIds |-> NoInvocation]
    /\ outcome = [i \in InvIds |-> "free"]
    /\ branch = [i \in InvIds |-> "none"]
    /\ root = "active"
    /\ dataVersion = 0
    /\ snapshot = {}
    /\ checkpoint = NoCheckpoint
    /\ asked = 0
    /\ loop = "plan"
    /\ rounds = 0
-----------------------------------------------------------------------------
(* Plans.                                                                    *)

\* A plan that passes validate_task_plan: its dependencies are in the plan.
Closed(P) == \A s \in P : Deps[s] \subseteq P

\* Mutant: a revision may drop a finished step.
KeepsAny(P) == P \subseteq Steps

\* A revision may not drop a finished step.
Keeps(P) == {s \in Steps : steps[s] \in Finished} \subseteq P

\* Mutant: a skipped step counts as completed.
RevisedSkipCompletes(P, skip) ==
    [s \in Steps |-> IF s \notin P THEN "absent"
                     ELSE IF steps[s] \in Finished THEN steps[s]
                     ELSE IF s \in skip THEN "completed" ELSE "pending"]

\* The steps of the next plan version: finished ones are copied.
Revised(P, skip) ==
    [s \in Steps |-> IF s \notin P THEN "absent"
                     ELSE IF steps[s] \in Finished THEN steps[s]
                     ELSE IF s \in skip THEN "skipped" ELSE "pending"]

InstallPlan(P, skip) ==
    /\ Closed(P) /\ Keeps(P) /\ skip \subseteq P
    /\ planVersion' = planVersion + 1
    /\ retryOf' = NoStep
    /\ steps' = Revised(P, skip)

SavePlan(P) ==
    /\ loop \in {"plan", "replan"}
    /\ status = "planning"
    /\ InstallPlan(P, {})
    /\ loop' = IF loop = "plan" THEN "planned" ELSE "replanned"
    /\ UNCHANGED <<status, root, dataVersion, rounds, callVars, savedVars, talkVars>>

(* A blocking question (its plan has no steps) parks the run; the producer   *)
(* stays to await the first answer but returns after a follow-up question.   *)
AskUser ==
    /\ loop \in {"planned", "replanned"}
    /\ status = "planning"
    /\ Planned = {}
    /\ asked < MaxQuestions
    /\ status' = "waiting_user"
    /\ asked' = asked + 1
    /\ loop' = IF loop = "planned" THEN "wait" ELSE "none"
    /\ UNCHANGED <<planVars, callVars, root, dataVersion, rounds>>
    /\ Refresh /\ Save

(* answer_clarification accepts any question of the run whose token matches. *)
(* A producer that awaits another question goes on waiting; with no producer *)
(* the handler starts a recovered one.                                       *)
Answer(q) ==
    /\ status = "waiting_user"
    /\ q <= asked
    /\ CheckpointValid
    /\ status' = "planning"
    /\ loop' = IF loop # "wait" THEN "plan" ELSE IF q = asked THEN "replan" ELSE "wait"
    /\ UNCHANGED <<planVars, callVars, root, dataVersion, savedVars, asked, rounds>>

StartRunning ==
    /\ loop \in {"planned", "replanned"}
    /\ status = "planning"
    /\ status' = "running"
    /\ loop' = "model"
    /\ rounds' = 0
    /\ UNCHANGED <<planVars, callVars, root, dataVersion, checkpoint, talkVars>>
    /\ Refresh
-----------------------------------------------------------------------------
(* Tool calls.                                                               *)

\* match_ready_step, else match_planned_step: open steps with the capability.
Candidates(c) == {s \in Capable[c] : steps[s] \in Unsatisfied}
Ready(s) == steps[s] = "pending" /\ \A d \in Deps[s] : steps[d] \in Finished
Binding(c) == IF Candidates(c) = {} THEN {NoStep} ELSE Candidates(c)

\* Mutant: the retry scope of a plan holds for all its steps.
ScopeOfAnyStep(s) == IF retryOf # NoStep THEN planVersion ELSE 0

\* effect_scope: a step the user retries has idempotency keys of its own.
Scope(s) == IF s # NoStep /\ s = retryOf THEN planVersion ELSE 0

\* Earlier invocations with the call's idempotency or business key.
Prior(c, scope) == {i \in 1..used : inv[i].call = c /\ scope \in {0, inv[i].scope}}

\* Mutant: the budget is compared before the new calls are added.
BudgetChecksBefore(n) == used <= MaxToolCalls /\ used + n <= MaxInvocations

\* _assert_tool_budget_available, in the transaction that adds the rows.
Budget(n) == used + n <= MaxToolCalls /\ used + n <= MaxInvocations

NewInvocation(c, s, scope) ==
    [call |-> c, step |-> s, plan |-> planVersion, scope |-> scope, data |-> dataVersion]

\* Mutant: the rounds of the loop are not bounded.
ModelTurnUnbounded ==
    /\ loop = "model" /\ status = "running"
    /\ loop' = "turn" /\ rounds' = rounds + 1
    /\ UNCHANGED <<status, planVars, callVars, root, dataVersion, savedVars, talkVars>>

ModelTurn ==
    /\ loop = "model"
    /\ status = "running"
    /\ rounds < MaxRounds
    /\ loop' = "turn"
    /\ rounds' = rounds + 1
    /\ UNCHANGED <<status, planVars, callVars, root, dataVersion, savedVars, talkVars>>

EndOfTurn ==
    /\ loop \in InTurn
    /\ status = "running"
    /\ loop' = "model"
    /\ UNCHANGED <<status, planVars, callVars, root, dataVersion, savedVars, talkVars, rounds>>

\* start_invocation_with_event
StartCall(c, s) ==
    /\ loop \in InTurn
    /\ status = "running"
    /\ s \in Binding(c)
    /\ Prior(c, Scope(s)) = {}
    /\ Budget(1)
    /\ used' = used + 1
    /\ inv' = [inv EXCEPT ![used + 1] = NewInvocation(c, s, Scope(s))]
    /\ outcome' = [outcome EXCEPT ![used + 1] = "running"]
    /\ branch' = [branch EXCEPT ![used + 1] = "active"]
    /\ steps' = IF s = NoStep THEN steps ELSE [steps EXCEPT ![s] = "running"]
    /\ loop' = "serial"
    /\ UNCHANGED <<status, planVersion, retryOf, root, dataVersion, savedVars, talkVars, rounds>>

\* Mutant: writes may join a frontier.
EligibleUnlessTaken(c, s) == s \in Capable[c] /\ Ready(s) /\ Prior(c, 0) = {}

\* What the frontier demands of each of its calls and of any two of them.
Eligible(c, s) == c \in ReadOnly /\ s \in Capable[c] /\ Ready(s) /\ Prior(c, 0) = {}

Distinct(n, order, bind) ==
    \A k, m \in 1..n : k # m => order[k] # order[m] /\ bind[k] # bind[m]

(* reserve_parallel_invocations: order[k] is the k-th call of the turn and   *)
(* bind[k] its step.  All rows are reserved in one transaction, or none.     *)
StartBatch(n, order, bind) ==
    /\ loop = "turn"
    /\ status = "running"
    /\ n \in 2..MaxParallelism
    /\ \A k \in 1..n : Eligible(order[k], bind[k])
    /\ Distinct(n, order, bind)
    /\ Budget(n)
    /\ used' = used + n
    /\ inv' = [i \in InvIds |-> IF i - used \in 1..n
                                THEN NewInvocation(order[i - used], bind[i - used], 0)
                                ELSE inv[i]]
    /\ outcome' = [i \in InvIds |-> IF i - used \in 1..n THEN "running" ELSE outcome[i]]
    /\ branch' = [i \in InvIds |-> IF i - used \in 1..n THEN "active" ELSE branch[i]]
    /\ steps' = [s \in Steps |-> IF \E k \in 1..n : bind[k] = s THEN "running" ELSE steps[s]]
    /\ loop' = "batch"
    /\ UNCHANGED <<status, planVersion, retryOf, root, dataVersion, savedVars, talkVars, rounds>>

(* record_tool_rejection: a duplicate, a call over budget or one the data    *)
(* role guard refuses gets no row, but fails the step it was meant for.      *)
RejectCall(c, s) ==
    /\ loop \in InTurn
    /\ status = "running"
    /\ s \in Candidates(c)
    /\ steps' = [steps EXCEPT ![s] = "failed"]
    /\ loop' = "calls"
    /\ UNCHANGED <<status, planVersion, retryOf, callVars, root, dataVersion, savedVars,
                   talkVars, rounds>>

\* Results of a frontier are committed in the order of its calls.
Earliest(i) == i \in Running /\ \A j \in Running : i <= j

\* Mutant: the last call of a frontier decides alone how the turn goes on.
AfterForgetsDoubt(i, o) ==
    IF loop = "serial" THEN IF o = "unknown" THEN "halt" ELSE "calls"
    ELSE IF Running # {i} THEN IF o = "unknown" THEN "doubtful" ELSE loop
    ELSE IF o = "unknown" THEN "halt" ELSE "model"

\* The run's phase once invocation i has ended as o.
After(i, o) ==
    IF loop = "serial" THEN IF o = "unknown" THEN "halt" ELSE "calls"
    ELSE IF Running # {i} THEN IF o = "unknown" THEN "doubtful" ELSE loop
    ELSE IF o = "unknown" \/ loop = "doubtful" THEN "halt" ELSE "model"

\* The invocation row, its node and its step row change together.
Settle(i, o, st) ==
    /\ loop \in {"serial", "batch", "doubtful"}
    /\ status = "running"
    /\ Earliest(i)
    /\ outcome' = [outcome EXCEPT ![i] = o]
    /\ branch' = [branch EXCEPT ![i] = "completed"]
    /\ steps' = IF Current(i) THEN [steps EXCEPT ![inv[i].step] = st] ELSE steps
    /\ loop' = After(i, o)
    /\ UNCHANGED <<status, planVersion, retryOf, used, inv, root, talkVars, rounds>>

\* commit_tool_success: evidence, step, checkpoint in one transaction.
CommitSuccess(i) ==
    /\ Settle(i, "succeeded", "completed")
    /\ dataVersion' = IF inv[i].call \in Deriving THEN dataVersion + 1 ELSE dataVersion
    /\ Refresh /\ Save

\* commit_tool_failure, also of a reserved call the loop refuses to execute.
CommitFailure(i, o) ==
    /\ o \in {"failed", "refused", "unknown"}
    /\ o = "refused" => loop = "serial"
    /\ Settle(i, o, "failed")
    /\ UNCHANGED <<dataVersion, savedVars>>
-----------------------------------------------------------------------------
(* Verification and the ends of a run.                                       *)

\* transition to a terminal status: refused while a branch is active.
Finish(st) ==
    /\ \A i \in InvIds : branch[i] # "active"
    /\ status' = st
    /\ root' = "completed"
    /\ loop' = "none"
    /\ UNCHANGED <<planVars, callVars, dataVersion, checkpoint, talkVars, rounds>>
    /\ Refresh

BlockOnUnknown == loop = "halt" /\ status = "running" /\ Finish("blocked")

\* A join whose preflight or data version no longer holds ends the run.
BlockOnJoinGuard == loop \in InTurn /\ status = "running" /\ Finish("blocked")

\* Ancestors of the finished steps, whatever their own status.
Prerequisites ==
    LET Reach[n \in 0..Cardinality(Steps)] ==
            IF n = 0 THEN {s \in Planned : steps[s] \in Finished}
            ELSE Reach[n - 1] \cup UNION {Deps[s] : s \in Reach[n - 1]}
    IN  Reach[Cardinality(Steps)]

\* A turn without tool calls is a candidate answer.
BeginVerify ==
    /\ loop = "model"
    /\ status = "running"
    /\ rounds < MaxRounds
    /\ status' = "verifying"
    /\ rounds' = rounds + 1
    /\ steps' = [s \in Steps |-> IF s \in Prerequisites /\ steps[s] \in Unsatisfied
                                 THEN "skipped" ELSE steps[s]]
    /\ loop' = "verify"
    /\ UNCHANGED <<planVersion, retryOf, callVars, root, dataVersion, checkpoint, talkVars>>
    /\ Refresh

\* _recovers: a later success of the same tool for the same step row.
Recovers(i, j) ==
    /\ i < j
    /\ outcome[j] = "succeeded"
    /\ Tool[inv[i].call] = Tool[inv[j].call]
    /\ inv[i].step = inv[j].step
    /\ inv[i].step \in Steps => inv[i].plan = inv[j].plan

(* What verify_completion demands of the rows modelled here; its other       *)
(* checks (answer, artifacts, claims) may fail at any time.                  *)
Verified ==
    /\ Unfinished = {}
    /\ Unknown = {}
    /\ \A i \in 1..used : outcome[i] = "failed" => \E j \in 1..used : Recovers(i, j)

Complete == loop = "verify" /\ status = "verifying" /\ Verified /\ Finish("completed")

Reject(st) ==
    /\ loop = "verify"
    /\ status = "verifying"
    /\ st \in {"blocked", "failed"}
    /\ Finish(st)

VerifyRetry ==
    /\ loop = "verify"
    /\ status = "verifying"
    /\ status' = "running"
    /\ loop' = "model"
    /\ UNCHANGED <<planVars, callVars, root, dataVersion, checkpoint, talkVars, rounds>>
    /\ Refresh

\* Mutant: committing one branch closes all of them.
CloseBranches(node) ==
    /\ branch' = [i \in InvIds |-> IF branch[i] = "active" THEN node ELSE branch[i]]
    /\ root' = root

\* Every active node of the run's cancellation tree.
CloseNodes(node) ==
    /\ branch' = [i \in InvIds |-> IF branch[i] = "active" THEN node ELSE branch[i]]
    /\ root' = IF root = "active" THEN node ELSE root

\* Running calls can not be killed: their outcomes become unknown.
Abandon(node) ==
    /\ outcome' = [i \in InvIds |-> IF i \in Running THEN "unknown" ELSE outcome[i]]
    /\ steps' = [s \in Steps |-> IF \E i \in Running : Current(i) /\ inv[i].step = s
                                 THEN "blocked" ELSE steps[s]]
    /\ CloseNodes(node)
    /\ loop' = "none"
    /\ UNCHANGED <<planVersion, retryOf, used, inv, dataVersion, checkpoint, talkVars, rounds>>

\* terminate_active_run
Terminate(st) ==
    /\ st \in Successors(status)
    /\ status' = st
    /\ Abandon(IF Running = {} THEN "completed" ELSE "cancel_requested")
    /\ UNCHANGED snapshot

RoundsExhausted ==
    /\ loop = "model"
    /\ status = "running"
    /\ rounds = MaxRounds
    /\ Terminate("failed")

(* The host's generator fails, times out or is closed: from any line, so in  *)
(* any phase, and in any status an API call may meanwhile have given the run.*)
HostFails(st) ==
    /\ loop # "none"
    /\ st \in {"failed", "cancelled"}
    /\ Terminate(st)
-----------------------------------------------------------------------------
(* Control commands.                                                         *)

Park == status' = "paused" /\ Refresh /\ Save

Pause ==
    /\ loop # "none"
    /\ status = "running"
    /\ Idle
    /\ UNCHANGED <<planVars, callVars, root, dataVersion, talkVars, loop, rounds>>
    /\ Park

\* A run without a host gets a recovered one, which starts at a model turn.
WakeHost ==
    /\ loop' = IF loop = "none" THEN "model" ELSE loop
    /\ rounds' = IF loop = "none" THEN 0 ELSE rounds

Resume ==
    /\ status = "paused"
    /\ CheckpointValid
    /\ status' = "running"
    /\ WakeHost
    /\ UNCHANGED <<planVars, callVars, root, dataVersion, checkpoint, talkVars>>
    /\ Refresh

\* The calls of a turn are superseded when the plan has changed meanwhile.
Superseded == IF loop \in InTurn THEN "model" ELSE loop

RevisePlan(P, skip) ==
    /\ status = "paused"
    /\ Idle
    /\ planVersion < MaxPlans
    /\ InstallPlan(P, skip)
    /\ loop' = Superseded
    /\ UNCHANGED <<status, callVars, root, dataVersion, snapshot, talkVars, rounds>>
    /\ Save

RetryStep(s) ==
    /\ status = "paused"
    /\ Running = {}
    /\ steps[s] \in {"failed", "blocked"}
    /\ \A t \in Steps : steps[t] # "running"
    /\ planVersion < MaxPlans
    /\ status' = "running"
    /\ planVersion' = planVersion + 1
    /\ retryOf' = s
    /\ steps' = [t \in Steps |-> IF t = s THEN "pending"
                                 ELSE IF steps[t] = "failed" THEN "blocked" ELSE steps[t]]
    /\ loop' = IF loop = "none" THEN "model" ELSE Superseded
    /\ rounds' = IF loop = "none" THEN 0 ELSE rounds
    /\ UNCHANGED <<callVars, root, dataVersion, talkVars>>
    /\ Refresh /\ Save

Cancel ==
    /\ status \notin Terminal
    /\ status' = "cancelled"
    /\ Abandon("cancel_requested")
    /\ Refresh

\* The process dies or stops, or a host that has parked its run returns.
Crash ==
    /\ loop # "none"
    /\ loop' = "none"
    /\ UNCHANGED <<status, planVars, callVars, root, dataVersion, savedVars, talkVars, rounds>>

\* recover_stale_runs, at start-up and at shutdown.
RecoverPause ==
    /\ status = "running"
    /\ Idle
    /\ loop' = "none"
    /\ UNCHANGED <<planVars, callVars, root, dataVersion, talkVars, rounds>>
    /\ Park

\* Mutant: recovery fails planning runs only.
RecoverFailPlanning == status = "planning" /\ Terminate("failed")

RecoverFail ==
    /\ status \in Stale
    /\ status = "running" => ~Idle
    /\ Terminate("failed")
-----------------------------------------------------------------------------
HostStep ==
    \/ \E P \in SUBSET Steps : SavePlan(P)
    \/ AskUser
    \/ StartRunning
    \/ ModelTurn
    \/ EndOfTurn
    \/ \E c \in Calls, s \in Steps \cup {NoStep} : StartCall(c, s)
    \/ \E n \in 2..MaxParallelism :
         \E order \in [1..n -> Calls], bind \in [1..n -> Steps] : StartBatch(n, order, bind)
    \/ \E c \in Calls, s \in Steps : RejectCall(c, s)
    \/ \E i \in InvIds : CommitSuccess(i)
    \/ \E i \in InvIds, o \in {"failed", "refused", "unknown"} : CommitFailure(i, o)
    \/ BlockOnUnknown
    \/ BlockOnJoinGuard
    \/ BeginVerify
    \/ Complete
    \/ \E st \in {"blocked", "failed"} : Reject(st)
    \/ VerifyRetry
    \/ RoundsExhausted

Recovery == RecoverPause \/ RecoverFail

UserStep ==
    \/ \E q \in Questions : Answer(q)
    \/ Pause
    \/ Resume
    \/ \E P \in SUBSET Steps : \E skip \in SUBSET P : RevisePlan(P, skip)
    \/ \E s \in Steps : RetryStep(s)
    \/ Cancel

Next ==
    \/ HostStep
    \/ \E st \in {"failed", "cancelled"} : HostFails(st)
    \/ UserStep
    \/ Crash
    \/ Recovery

Spec == Init /\ [][Next]_vars

(* Model and tool calls end or time out, so a host that can act does; and a  *)
(* run whose host is gone is found by recover_stale_runs at the next start.  *)
FairSpec == Spec /\ WF_vars(HostStep) /\ WF_vars(loop = "none" /\ Recovery)
-----------------------------------------------------------------------------
(* Properties.                                                               *)

TypeOK ==
    /\ status \in RunStatus
    /\ planVersion \in Nat
    /\ retryOf \in Steps \cup {NoStep}
    /\ steps \in [Steps -> StepStatus]
    /\ used \in 0..MaxInvocations
    /\ inv \in [InvIds -> Invocation]
    /\ outcome \in [InvIds -> Outcome]
    /\ branch \in [InvIds -> NodeStatus]
    /\ root \in NodeStatus \ {"none"}
    /\ dataVersion \in Nat
    /\ snapshot \in SUBSET Steps
    /\ checkpoint \in Checkpoint
    /\ asked \in 0..MaxQuestions
    /\ loop \in Phases
    /\ rounds \in 0..MaxRounds

(* A run that rests can be continued: whatever led to paused or waiting_user *)
(* (a boundary, a recovery, a question) and whatever the user then did to    *)
(* the plan, the latest checkpoint passes _validate_checkpoint.              *)
RestIsResumable == status \in {"paused", "waiting_user"} => CheckpointValid

(* A call that executes has an active cancellation node and no other has; a  *)
(* finished run leaves no active node behind, its own included.              *)
NodesFollowCalls ==
    /\ \A i \in InvIds : (branch[i] = "active") <=> (outcome[i] = "running")
    /\ status \in Terminal => root # "active" /\ Running = {}

(* A step row says running exactly while a call made for it under the active *)
(* plan executes, and one step never has two calls executing at once.        *)
StepsFollowCalls ==
    /\ \A i \in Running : inv[i].plan = planVersion
    /\ \A s \in Steps : (steps[s] = "running") <=> (\E i \in Running : inv[i].step = s)
    /\ \A i, j \in Running : inv[i].step = inv[j].step => i = j

(* The three tables a call is spread over agree in every interleaving of     *)
(* commits with commands, terminations and recoveries.                       *)
RowsAgree == NodesFollowCalls /\ StepsFollowCalls

(* Completed means executed: through any chain of revisions, retries and     *)
(* recoveries, a completed step has a call of its own that succeeded.        *)
CompletedHasEvidence ==
    \A s \in Steps : steps[s] = "completed" =>
        \E i \in InvIds : outcome[i] = "succeeded" /\ inv[i].step = s

(* The data a call was reserved for is the data it executes on: nothing      *)
(* binds a derived dataset while another call is running.                    *)
DataStable == \A i \in Running : inv[i].data = dataVersion

(* No sequence of hosts, resumes and retries spends more calls than the      *)
(* run's scope allows, a batch counted in full.                              *)
WithinBudget == used <= MaxToolCalls

(* A call is made again only for the step whose retry the user asked for,    *)
(* once in the scope of that request and never twice in a batch, whatever    *)
(* plans, crashes and recoveries lie in between: otherwise its saved result  *)
(* is reused.                                                                *)
NoReexecution ==
    [][\A i \in used + 1..used' :
           /\ \A k \in used + 1..used' : k # i => inv'[k].call # inv'[i].call
           /\ \A j \in 1..used : inv[j].call = inv'[i].call =>
                  inv'[i].step = retryOf /\ inv[j].scope # planVersion]_vars

(* Finished work is never undone: no call, replan, revision, retry or        *)
(* recovery takes a completed or skipped step back or out of the plan.       *)
FinishedIrrevocable ==
    [][\A s \in Steps : steps[s] \in Finished => steps'[s] = steps[s]]_vars

(* What became of a call is written once: a late commit does not overwrite   *)
(* an outcome already settled, by the call itself or by a termination.       *)
OutcomeFinal ==
    [][\A i \in InvIds : outcome[i] \notin {"free", "running"} =>
           outcome'[i] = outcome[i] /\ inv'[i] = inv[i]]_vars

(* Once the outcome of a call is unknown the run starts no further call and  *)
(* can only end without success: it is never parked, resumed or completed.   *)
UnknownStopsRun ==
    [][Unknown # {} => /\ used' = used
                       /\ status' \in {status, "blocked", "failed", "cancelled"}]_vars

(* What is settled stays settled: steps that are done, outcomes of calls, and*)
(* a run whose state nobody can know.                                        *)
NothingUndone == FinishedIrrevocable /\ OutcomeFinal /\ UnknownStopsRun

Abstract == INSTANCE RunLifecycle WITH
                Work <- Steps,
                finished <- {s \in Steps : steps[s] \in Finished},
                open <- Running # {},
                doubt <- Unknown # {}

(* The run keeps the promise of RunLifecycle.                                *)
ImplementsLifecycle == Abstract!Lifecycle

\* An earlier question was answered anew while the host awaits a later one: the run is in
\* planning, and its host waits for an answer that can no longer be given.
Stranded == status = "planning" /\ loop = "wait"

(* "resume_token 绑定 run、用户和问题" (a token is bound to the run, the user *)
(* and the question) and is used once (docs/v2.4/SSE与任务控制协议.md:182,   *)
(* 277), and the store refuses one that no longer belongs to the current     *)
(* question (packages/session/task_store.py:949): an answer that is accepted *)
(* lets the run go on.                                                       *)
AnswerContinues == ~Stranded

(* A run does not stay in progress for ever: it ends, or rests until a user  *)
(* speaks, also when hosts fail and the process dies at any point.  The      *)
(* exception is a run stranded by an answer to a question before the last:   *)
(* the wait has no timeout, so it stays until the user cancels it or its     *)
(* process ends.                                                             *)
Settles ==
    (status \in Stale) ~> (status \in Terminal \cup {"paused", "waiting_user"} \/ Stranded)
=============================================================================
