--------------------------- MODULE TaskRunProofs ---------------------------
(* Proofs about TaskRun: they hold for every set of steps and calls, every   *)
(* plan and every bound that satisfies the assumptions of TaskRun.           *)
EXTENDS TaskRun, TLAPS

USE BoundAssumption DEF InvIds, Questions
-----------------------------------------------------------------------------
(* The inductive invariant: the properties of TaskRun and what they rest on. *)

\* Rows are inserted in order and never deleted.
RowsInOrder == \A i \in InvIds : outcome[i] = "free" <=> i > used

\* Calls execute while the run is running, in a phase that awaits them, or
\* left behind by a host that is gone.
CallsInRun ==
    Running # {} => status = "running" /\ loop \in {"serial", "batch", "doubtful", "none"}

\* Only a frontier has several calls, and all of them read only.
OneAtATime == loop = "serial" => \A i, j \in Running : i = j
BatchReadOnly == loop \in {"batch", "doubtful"} => \A i \in Running : inv[i].call \in ReadOnly

\* After an unknown outcome the host is about to block the run, or gone.
DoubtEndsRun ==
    Unknown # {} => \/ status \in Terminal \ {"completed"}
                    \/ status = "running" /\ loop \in {"doubtful", "halt", "none"}

\* completed_step_ids of the snapshot is never behind the step rows.
SnapshotCurrent == snapshot = Completed(steps)

\* A run leaves planning, and its host the outline, only with a plan.
PlanFirst ==
    planVersion = 0 => status \in {"planning"} \cup Terminal /\ loop \in {"plan", "none"}

Strengthening ==
    /\ RowsInOrder
    /\ CallsInRun
    /\ OneAtATime
    /\ BatchReadOnly
    /\ DoubtEndsRun
    /\ SnapshotCurrent
    /\ PlanFirst

IInv ==
    /\ TypeOK
    /\ Strengthening
    /\ NodesFollowCalls
    /\ StepsFollowCalls
    /\ CompletedHasEvidence
    /\ DataStable
    /\ WithinBudget
    /\ RestIsResumable
-----------------------------------------------------------------------------
(* Every action keeps every variable in its type.                            *)
LEMMA ActionTypes ==
    ASSUME TypeOK, [Next]_vars
    PROVE  TypeOK'
<1> USE DEF TypeOK, Invocation, Checkpoint, Outcome, NodeStatus, StepStatus, RunStatus, Phases,
            planVars, callVars, savedVars, talkVars
<1>1. CASE UNCHANGED vars
  BY <1>1 DEF vars
<1>2. ASSUME NEW P \in SUBSET Steps, SavePlan(P) PROVE TypeOK'
  BY <1>2 DEF SavePlan, InstallPlan, Revised, Finished
<1>3. CASE AskUser
  BY <1>3 DEF AskUser, Refresh, Save, Completed
<1>4. CASE StartRunning
  BY <1>4 DEF StartRunning, Refresh, Completed
<1>5. CASE ModelTurn
  BY <1>5 DEF ModelTurn
<1>6. CASE EndOfTurn
  BY <1>6 DEF EndOfTurn
<1>7. ASSUME NEW c \in Calls, NEW s \in Steps \cup {NoStep}, StartCall(c, s) PROVE TypeOK'
  <2>1. NewInvocation(c, s, Scope(s)) \in Invocation
    BY DEF NewInvocation, Scope
  <2>2. used + 1 \in 0..MaxInvocations /\ loop' \in Phases
    BY <1>7 DEF StartCall, Budget
  <2>3. QED
    BY <1>7, <2>1, <2>2 DEF StartCall
<1>8. ASSUME NEW n \in 2..MaxParallelism, NEW order \in [1..n -> Calls],
             NEW bind \in [1..n -> Steps], StartBatch(n, order, bind)
      PROVE  TypeOK'
  BY <1>8 DEF StartBatch, Budget, NewInvocation
<1>9. ASSUME NEW c \in Calls, NEW s \in Steps, RejectCall(c, s) PROVE TypeOK'
  BY <1>9 DEF RejectCall
<1>10. ASSUME NEW i \in InvIds, CommitSuccess(i) PROVE TypeOK'
  <2>1. snapshot' \in SUBSET Steps /\ checkpoint' \in Checkpoint
    <3>1. snapshot' \in SUBSET Steps
      BY <1>10 DEF CommitSuccess, Refresh, Completed
    <3>2. QED
      BY <1>10, <3>1 DEF CommitSuccess, Settle, Save
  <2>2. steps' \in [Steps -> StepStatus] /\ loop' \in Phases
    BY <1>10 DEF CommitSuccess, Settle, After, Current
  <2>3. /\ outcome' \in [InvIds -> Outcome]
        /\ branch' \in [InvIds -> NodeStatus]
        /\ dataVersion' \in Nat
    BY <1>10 DEF CommitSuccess, Settle
  <2>4. UNCHANGED <<status, planVersion, retryOf, used, inv, root, talkVars, rounds>>
    BY <1>10 DEF CommitSuccess, Settle
  <2>5. QED
    BY <2>1, <2>2, <2>3, <2>4
<1>11. ASSUME NEW i \in InvIds, NEW o \in {"failed", "refused", "unknown"}, CommitFailure(i, o)
       PROVE  TypeOK'
  BY <1>11 DEF CommitFailure, Settle, After, Current
<1>12. ASSUME NEW st \in Terminal, Finish(st) PROVE TypeOK'
  BY <1>12 DEF Finish, Refresh, Completed, Terminal
<1>13. CASE BeginVerify
  BY <1>13 DEF BeginVerify, Refresh, Completed
<1>14. CASE VerifyRetry
  BY <1>14 DEF VerifyRetry, Refresh, Completed
<1>15. ASSUME NEW node \in {"completed", "cancel_requested"}, NEW st \in RunStatus,
              Abandon(node), status' = st, snapshot' \in SUBSET Steps
       PROVE  TypeOK'
  BY <1>15 DEF Abandon, CloseNodes
<1>16. ASSUME NEW st \in {"failed", "cancelled"}, Terminate(st) PROVE TypeOK'
  BY <1>15, <1>16 DEF Terminate
<1>17. ASSUME NEW q \in Questions, Answer(q) PROVE TypeOK'
  BY <1>17 DEF Answer
<1>18. CASE Pause
  BY <1>18 DEF Pause, Park, Refresh, Save, Completed
<1>19. CASE Resume
  BY <1>19 DEF Resume, WakeHost, Refresh, Completed
<1>20. ASSUME NEW P \in SUBSET Steps, NEW skip \in SUBSET P, RevisePlan(P, skip) PROVE TypeOK'
  BY <1>20 DEF RevisePlan, InstallPlan, Revised, Finished, Superseded, Save
<1>21. ASSUME NEW s \in Steps, RetryStep(s) PROVE TypeOK'
  BY <1>21 DEF RetryStep, Superseded, Refresh, Save, Completed
<1>22. CASE Cancel
  BY <1>15, <1>22 DEF Cancel, Refresh, Completed
<1>23. CASE Crash
  BY <1>23 DEF Crash
<1>24. CASE RecoverPause
  BY <1>24 DEF RecoverPause, Park, Refresh, Save, Completed
<1>25. QED
  <2>1. CASE HostStep
    BY <1>2, <1>3, <1>4, <1>5, <1>6, <1>7, <1>8, <1>9, <1>10, <1>11, <1>12, <1>13, <1>14, <1>16,
       <2>1 DEF HostStep, BlockOnUnknown, BlockOnJoinGuard, Complete, Reject, RoundsExhausted, Terminal
  <2>2. CASE UserStep
    BY <1>17, <1>18, <1>19, <1>20, <1>21, <1>22, <2>2 DEF UserStep
  <2>3. QED
    BY <1>1, <1>16, <1>23, <1>24, <2>1, <2>2 DEF Next, HostFails, Recovery, RecoverFail
-----------------------------------------------------------------------------
(* What does not touch the rows of calls and steps leaves every fact about   *)
(* them alone.                                                               *)
LEMMA RowsKept ==
    ASSUME IInv, UNCHANGED <<callVars, steps, planVersion, dataVersion>>
    PROVE  /\ RowsInOrder' /\ StepsFollowCalls' /\ CompletedHasEvidence'
           /\ DataStable' /\ WithinBudget'
           /\ Running' = Running /\ Unknown' = Unknown
           /\ Completed(steps') = Completed(steps)
<1>1. UNCHANGED <<used, inv, outcome, branch>>
  BY DEF callVars
<1>2. Running' = Running /\ Unknown' = Unknown
  BY <1>1 DEF Running, Unknown
<1>3. RowsInOrder' /\ DataStable' /\ WithinBudget' /\ CompletedHasEvidence'
  BY <1>1, <1>2 DEF IInv, Strengthening, RowsInOrder, DataStable, WithinBudget, CompletedHasEvidence
<1>4. StepsFollowCalls'
  BY <1>1, <1>2 DEF IInv, StepsFollowCalls
<1>5. QED
  BY <1>2, <1>3, <1>4

(* Actions that touch neither a call nor a step keep the invariant: turns,   *)
(* questions and answers, parking and waking, a crash.                       *)
LEMMA QuietActions ==
    ASSUME IInv,
           \/ AskUser \/ StartRunning \/ ModelTurn \/ EndOfTurn \/ VerifyRetry
           \/ Pause \/ Resume \/ Crash \/ RecoverPause
           \/ \E q \in Questions : Answer(q)
    PROVE  Strengthening' /\ NodesFollowCalls' /\ StepsFollowCalls' /\ CompletedHasEvidence'
           /\ DataStable' /\ WithinBudget' /\ RestIsResumable'
<1>1. UNCHANGED <<callVars, steps, planVersion, dataVersion, root>>
  BY DEF AskUser, StartRunning, ModelTurn, EndOfTurn, VerifyRetry, Pause, Resume, Crash,
         RecoverPause, Answer, planVars
<1>2. /\ RowsInOrder' /\ StepsFollowCalls' /\ CompletedHasEvidence'
      /\ DataStable' /\ WithinBudget'
      /\ Running' = Running /\ Unknown' = Unknown
      /\ Completed(steps') = Completed(steps)
  BY <1>1, RowsKept
<1>3. CallsInRun'
  BY <1>2 DEF IInv, Strengthening, CallsInRun, AskUser, StartRunning, ModelTurn, EndOfTurn,
              VerifyRetry, Pause, Resume, WakeHost, Park, Idle, Crash, RecoverPause, Answer, InTurn
<1>4. OneAtATime' /\ BatchReadOnly'
  BY <1>1, <1>2 DEF callVars, IInv, Strengthening, CallsInRun, OneAtATime, BatchReadOnly, AskUser,
                    StartRunning, ModelTurn, EndOfTurn, VerifyRetry, Pause, Resume, WakeHost,
                    Crash, RecoverPause, Answer
<1>5. DoubtEndsRun'
  BY <1>2 DEF IInv, Strengthening, DoubtEndsRun, Terminal, AskUser, StartRunning, ModelTurn,
              EndOfTurn, VerifyRetry, Pause, Resume, WakeHost, CheckpointValid, Park, Idle, Crash,
              RecoverPause, Answer, InTurn
<1>6. SnapshotCurrent'
  BY <1>1, <1>2 DEF IInv, Strengthening, SnapshotCurrent, AskUser, StartRunning, ModelTurn,
                    EndOfTurn, VerifyRetry, Pause, Resume, Park, Refresh, Crash, RecoverPause,
                    Answer, savedVars
<1>7. PlanFirst'
  BY <1>1 DEF IInv, Strengthening, PlanFirst, Terminal, AskUser, StartRunning, ModelTurn, EndOfTurn,
              VerifyRetry, Pause, Resume, WakeHost, Park, Crash, RecoverPause, Answer, InTurn
<1>8. NodesFollowCalls'
  BY <1>1, <1>2 DEF IInv, NodesFollowCalls, callVars, Terminal, AskUser, StartRunning, ModelTurn,
                    EndOfTurn, VerifyRetry, Pause, Resume, Park, Crash, RecoverPause, Answer
<1>9. RestIsResumable'
  <2>1. ASSUME Refresh, Save, status' \in {"paused", "waiting_user"}, Idle, planVersion # 0
        PROVE  RestIsResumable'
    BY <1>1, <1>2, <2>1 DEF RestIsResumable, CheckpointValid, Refresh, Save, NoCheckpoint, Idle
  <2>2. CASE AskUser
    BY <2>1, <2>2 DEF AskUser, IInv, Strengthening, PlanFirst, CallsInRun, DoubtEndsRun, Terminal,
                      Idle
  <2>3. CASE Pause \/ RecoverPause
    BY <2>1, <2>3 DEF Pause, RecoverPause, Park, IInv, Strengthening, PlanFirst, Terminal
  <2>4. CASE Crash \/ EndOfTurn
    BY <1>1, <1>2, <2>4 DEF Crash, EndOfTurn, savedVars, IInv, RestIsResumable, CheckpointValid, Idle
  <2>5. QED
    BY <2>2, <2>3, <2>4 DEF StartRunning, ModelTurn, VerifyRetry, Resume, Answer, RestIsResumable
<1>10. QED
  BY <1>2, <1>3, <1>4, <1>5, <1>6, <1>7, <1>8, <1>9 DEF Strengthening

(* Leaving for a terminal status through transition, which refuses while a   *)
(* node is active.                                                           *)
LEMMA FinishPreserves ==
    ASSUME IInv, NEW st \in Terminal, Finish(st), status # "completed",
           st = "completed" => Unknown = {}
    PROVE  Strengthening' /\ NodesFollowCalls' /\ StepsFollowCalls' /\ CompletedHasEvidence'
           /\ DataStable' /\ WithinBudget' /\ RestIsResumable'
<1>1. UNCHANGED <<callVars, steps, planVersion, dataVersion>>
  BY DEF Finish, planVars
<1>2. /\ RowsInOrder' /\ StepsFollowCalls' /\ CompletedHasEvidence'
      /\ DataStable' /\ WithinBudget'
      /\ Running' = Running /\ Unknown' = Unknown
      /\ Completed(steps') = Completed(steps)
  BY <1>1, RowsKept
<1>3. Running = {}
  BY DEF Finish, IInv, NodesFollowCalls, Running
<1>4. NodesFollowCalls'
  BY <1>1, <1>2, <1>3 DEF IInv, NodesFollowCalls, callVars, Finish
<1>5. CallsInRun' /\ OneAtATime' /\ BatchReadOnly'
  BY <1>2, <1>3 DEF CallsInRun, OneAtATime, BatchReadOnly
<1>6. DoubtEndsRun' /\ SnapshotCurrent' /\ PlanFirst' /\ RestIsResumable'
  BY <1>2 DEF Finish, Refresh, DoubtEndsRun, SnapshotCurrent, PlanFirst, RestIsResumable, Terminal
<1>7. QED
  BY <1>2, <1>4, <1>5, <1>6 DEF Strengthening

(* The steps change, no call does and none is running: a new plan, a         *)
(* rejected call, prerequisites skipped.                                     *)
LEMMA StepRowsChanged ==
    ASSUME IInv, TypeOK', Running = {}, UNCHANGED <<callVars, dataVersion>>,
           \A s \in Steps : steps'[s] # "running",
           \A s \in Steps : steps'[s] = "completed" <=> steps[s] = "completed"
    PROVE  /\ RowsInOrder' /\ StepsFollowCalls' /\ CompletedHasEvidence'
           /\ DataStable' /\ WithinBudget' /\ CallsInRun' /\ OneAtATime' /\ BatchReadOnly'
           /\ Running' = {} /\ Unknown' = Unknown
           /\ Completed(steps') = Completed(steps)
<1>1. UNCHANGED <<used, inv, outcome, branch>>
  BY DEF callVars
<1>2. Running' = {} /\ Unknown' = Unknown
  BY <1>1 DEF Running, Unknown
<1>3. Completed(steps') = Completed(steps)
  BY DEF Completed
<1>4. RowsInOrder' /\ WithinBudget' /\ CompletedHasEvidence'
  BY <1>1 DEF IInv, Strengthening, RowsInOrder, WithinBudget, CompletedHasEvidence
<1>5. StepsFollowCalls' /\ DataStable' /\ CallsInRun' /\ OneAtATime' /\ BatchReadOnly'
  BY <1>2 DEF StepsFollowCalls, DataStable, CallsInRun, OneAtATime, BatchReadOnly
<1>6. QED
  BY <1>2, <1>3, <1>4, <1>5

(* Nothing runs, and no step says it does, outside the running status.       *)
LEMMA QuietOutsideRunning ==
    ASSUME IInv, status # "running" \/ loop \notin {"serial", "batch", "doubtful", "none"}
    PROVE  Running = {} /\ \A s \in Steps : steps[s] # "running"
  BY DEF IInv, Strengthening, CallsInRun, StepsFollowCalls

(* A new plan version has no running step, completes none and keeps what is  *)
(* finished.                                                                 *)
LEMMA InstallPlanSteps ==
    ASSUME IInv, NEW P \in SUBSET Steps, NEW skip \in SUBSET P, InstallPlan(P, skip)
    PROVE  \A s \in Steps : /\ steps'[s] # "running"
                            /\ steps'[s] = "completed" <=> steps[s] = "completed"
                            /\ steps[s] \in Finished => steps'[s] = steps[s]
  BY DEF InstallPlan, Revised, Keeps, Finished

(* Actions that change steps and no call keep the invariant: new plans, a    *)
(* user's retry, a rejected call, prerequisites skipped before verification. *)
LEMMA PlanActions ==
    ASSUME IInv, TypeOK',
           \/ \E P \in SUBSET Steps : SavePlan(P)
           \/ \E P \in SUBSET Steps : \E skip \in SUBSET P : RevisePlan(P, skip)
           \/ \E s \in Steps : RetryStep(s)
           \/ \E c \in Calls, s \in Steps : RejectCall(c, s)
           \/ BeginVerify
    PROVE  Strengthening' /\ NodesFollowCalls' /\ StepsFollowCalls' /\ CompletedHasEvidence'
           /\ DataStable' /\ WithinBudget' /\ RestIsResumable'
<1>1. Running = {} /\ \A s \in Steps : steps[s] # "running"
  BY QuietOutsideRunning DEF SavePlan, RevisePlan, RetryStep, RejectCall, BeginVerify, InTurn
<1>2. UNCHANGED <<callVars, dataVersion, root>>
  BY DEF SavePlan, RevisePlan, RetryStep, RejectCall, BeginVerify
<1>3. \A s \in Steps : /\ steps'[s] # "running"
                       /\ steps'[s] = "completed" <=> steps[s] = "completed"
  <2>1. ASSUME NEW P \in SUBSET Steps, SavePlan(P)
        PROVE  \A s \in Steps : /\ steps'[s] # "running"
                                /\ steps'[s] = "completed" <=> steps[s] = "completed"
    BY <2>1, InstallPlanSteps DEF SavePlan
  <2>2. ASSUME NEW P \in SUBSET Steps, NEW skip \in SUBSET P, RevisePlan(P, skip)
        PROVE  \A s \in Steps : /\ steps'[s] # "running"
                                /\ steps'[s] = "completed" <=> steps[s] = "completed"
    BY <2>2, InstallPlanSteps DEF RevisePlan
  <2>3. ASSUME NEW t \in Steps, RetryStep(t)
        PROVE  \A s \in Steps : /\ steps'[s] # "running"
                                /\ steps'[s] = "completed" <=> steps[s] = "completed"
    BY <1>1, <2>3 DEF RetryStep
  <2>4. ASSUME NEW c \in Calls, NEW t \in Steps, RejectCall(c, t)
        PROVE  \A s \in Steps : /\ steps'[s] # "running"
                                /\ steps'[s] = "completed" <=> steps[s] = "completed"
    BY <1>1, <2>4 DEF RejectCall, Candidates, Unsatisfied, IInv, TypeOK
  <2>5. CASE BeginVerify
    BY <1>1, <2>5 DEF BeginVerify, Unsatisfied
  <2>6. QED
    BY <2>1, <2>2, <2>3, <2>4, <2>5
<1>4. /\ RowsInOrder' /\ StepsFollowCalls' /\ CompletedHasEvidence'
      /\ DataStable' /\ WithinBudget' /\ CallsInRun' /\ OneAtATime' /\ BatchReadOnly'
      /\ Running' = {} /\ Unknown' = Unknown
      /\ Completed(steps') = Completed(steps)
  BY <1>1, <1>2, <1>3, StepRowsChanged
<1>5. NodesFollowCalls'
  BY <1>2, <1>4 DEF IInv, NodesFollowCalls, callVars, Terminal, SavePlan, RevisePlan, RetryStep,
                    RejectCall, BeginVerify
<1>6. DoubtEndsRun'
  BY <1>4 DEF IInv, Strengthening, DoubtEndsRun, Terminal, InTurn, SavePlan, RevisePlan, RetryStep,
              RejectCall, BeginVerify
<1>7. SnapshotCurrent'
  BY <1>4 DEF IInv, Strengthening, SnapshotCurrent, Refresh, savedVars, SavePlan, RevisePlan,
              RetryStep, RejectCall, BeginVerify
<1>8. PlanFirst'
  BY DEF IInv, TypeOK, Strengthening, PlanFirst, Terminal, InTurn, InstallPlan, SavePlan,
         RevisePlan, RetryStep, RejectCall, BeginVerify
<1>9. RestIsResumable'
  <2>1. ASSUME NEW P \in SUBSET Steps, NEW skip \in SUBSET P, RevisePlan(P, skip)
        PROVE  RestIsResumable'
    <3>1. checkpoint' = [plan |-> planVersion', completed |-> snapshot']
      BY <2>1 DEF RevisePlan, Save
    <3>2. planVersion' # 0
      BY <2>1 DEF RevisePlan, InstallPlan, IInv, TypeOK
    <3>3. Unknown' = {}
      BY <1>4, <2>1 DEF RevisePlan, Idle
    <3>4. QED
      BY <1>4, <1>7, <3>1, <3>2, <3>3 DEF SnapshotCurrent, RestIsResumable, CheckpointValid,
                                          NoCheckpoint, Idle
  <2>2. QED
    BY <2>1 DEF RestIsResumable, SavePlan, RetryStep, RejectCall, BeginVerify
<1>10. QED
  BY <1>4, <1>5, <1>6, <1>7, <1>8, <1>9 DEF Strengthening

(* Both ways of starting calls add the rows used+1..used' in a turn: nothing *)
(* else runs then, and the new rows point at the active plan and its data.   *)
LEMMA StartPreserves ==
    ASSUME IInv, TypeOK', NEW n \in Nat, status = "running", loop \in InTurn,
           UNCHANGED <<status, planVersion, root, dataVersion, snapshot, checkpoint>>,
           Budget(n), used' = used + n,
           \A i \in 1..used : inv'[i] = inv[i],
           \A i \in InvIds : outcome'[i] = IF i \in used + 1..used' THEN "running" ELSE outcome[i],
           \A i \in InvIds : branch'[i] = IF i \in used + 1..used' THEN "active" ELSE branch[i],
           \A i \in used + 1..used' : inv'[i].plan = planVersion /\ inv'[i].data = dataVersion,
           \A i, j \in used + 1..used' : inv'[i].step = inv'[j].step => i = j,
           \A s \in Steps : steps'[s] = IF \E i \in used + 1..used' : inv'[i].step = s
                                        THEN "running" ELSE steps[s],
           \A i \in used + 1..used' : \A s \in Steps :
               inv'[i].step = s => steps[s] \in Unsatisfied,
           \/ loop' = "serial" /\ n = 1
           \/ loop' = "batch" /\ \A i \in used + 1..used' : inv'[i].call \in ReadOnly
    PROVE  Strengthening' /\ NodesFollowCalls' /\ StepsFollowCalls' /\ CompletedHasEvidence'
           /\ DataStable' /\ WithinBudget' /\ RestIsResumable'
<1>1. Running = {} /\ \A s \in Steps : steps[s] # "running"
  BY QuietOutsideRunning DEF InTurn
<1>2. used + 1..used' \subseteq InvIds /\ used' <= MaxToolCalls
  BY DEF Budget, IInv, TypeOK
<1>3. Running' = used + 1..used'
  BY <1>1, <1>2 DEF Running
<1>4. \A i \in InvIds : outcome[i] = "free" <=> i > used
  BY DEF IInv, Strengthening, RowsInOrder
<1>5. Unknown' = Unknown
  BY <1>2, <1>4 DEF Unknown, IInv, TypeOK
<1>6. Completed(steps') = Completed(steps)
  BY DEF Completed, Unsatisfied
<1>7. RowsInOrder' /\ WithinBudget'
  BY <1>2, <1>4 DEF RowsInOrder, WithinBudget, IInv, TypeOK
<1>8. CallsInRun' /\ OneAtATime' /\ BatchReadOnly'
  <2>1. CallsInRun'
    BY DEF CallsInRun
  <2>2. OneAtATime'
    BY <1>2, <1>3 DEF OneAtATime, IInv, TypeOK
  <2>3. BatchReadOnly'
    BY <1>3 DEF BatchReadOnly
  <2>4. QED
    BY <2>1, <2>2, <2>3
<1>9. DoubtEndsRun' /\ SnapshotCurrent' /\ PlanFirst'
  BY <1>5, <1>6 DEF IInv, Strengthening, DoubtEndsRun, SnapshotCurrent, PlanFirst, InTurn, Terminal
<1>10. NodesFollowCalls'
  BY <1>2 DEF IInv, NodesFollowCalls, Terminal
<1>11. StepsFollowCalls'
  BY <1>1, <1>3 DEF StepsFollowCalls
<1>12. DataStable'
  BY <1>3 DEF DataStable
<1>13. CompletedHasEvidence'
  <2>1. ASSUME NEW s \in Steps, steps'[s] = "completed"
        PROVE  \E i \in InvIds : outcome'[i] = "succeeded" /\ inv'[i].step = s
    <3>1. steps[s] = "completed"
      BY <2>1
    <3>2. PICK i \in InvIds : outcome[i] = "succeeded" /\ inv[i].step = s
      BY <3>1 DEF IInv, CompletedHasEvidence
    <3>3. i \in 1..used
      BY <1>4, <3>2 DEF IInv, TypeOK
    <3>4. QED
      BY <3>2, <3>3 DEF IInv, TypeOK
  <2>2. QED
    BY <2>1 DEF CompletedHasEvidence
<1>14. RestIsResumable'
  BY DEF RestIsResumable
<1>15. QED
  BY <1>7, <1>8, <1>9, <1>10, <1>11, <1>12, <1>13, <1>14 DEF Strengthening

(* start_invocation_with_event keeps the invariant.                          *)
LEMMA StartCallPreserves ==
    ASSUME IInv, TypeOK', NEW c \in Calls, NEW s \in Steps \cup {NoStep}, StartCall(c, s)
    PROVE  Strengthening' /\ NodesFollowCalls' /\ StepsFollowCalls' /\ CompletedHasEvidence'
           /\ DataStable' /\ WithinBudget' /\ RestIsResumable'
<1>1. used \in Nat /\ used' = used + 1 /\ used + 1..used' = {used + 1} /\ used + 1 \in InvIds
  BY DEF StartCall, Budget, IInv, TypeOK
<1>2. inv'[used + 1] = NewInvocation(c, s, Scope(s)) /\ \A i \in 1..used : inv'[i] = inv[i]
  BY <1>1 DEF StartCall, IInv, TypeOK
<1>3. /\ \A i \in InvIds : outcome'[i] = IF i \in used + 1..used' THEN "running" ELSE outcome[i]
      /\ \A i \in InvIds : branch'[i] = IF i \in used + 1..used' THEN "active" ELSE branch[i]
  BY <1>1 DEF StartCall, IInv, TypeOK
<1>4. inv'[used + 1].plan = planVersion /\ inv'[used + 1].data = dataVersion
      /\ inv'[used + 1].step = s
  BY <1>2 DEF NewInvocation
<1>5. s \in Steps => steps[s] \in Unsatisfied
  BY StepAssumption DEF StartCall, Binding, Candidates
<1>6. \A t \in Steps : steps'[t] = IF t = s THEN "running" ELSE steps[t]
  BY StepAssumption DEF StartCall, IInv, TypeOK
<1>7. /\ status = "running" /\ loop \in InTurn /\ loop' = "serial" /\ Budget(1)
      /\ UNCHANGED <<status, planVersion, root, dataVersion, snapshot, checkpoint>>
  BY DEF StartCall, savedVars
<1>8. /\ \A i \in used + 1..used' : inv'[i].plan = planVersion /\ inv'[i].data = dataVersion
      /\ \A i, j \in used + 1..used' : inv'[i].step = inv'[j].step => i = j
      /\ \A t \in Steps : steps'[t] = IF \E i \in used + 1..used' : inv'[i].step = t
                                      THEN "running" ELSE steps[t]
      /\ \A i \in used + 1..used' : \A t \in Steps :
             inv'[i].step = t => steps[t] \in Unsatisfied
  BY <1>1, <1>4, <1>5, <1>6
<1>9. used' = used + 1 /\ \A i \in 1..used : inv'[i] = inv[i]
  BY <1>1, <1>2
<1>10. QED
  BY <1>3, <1>7, <1>8, <1>9, StartPreserves

(* reserve_parallel_invocations keeps the invariant.                         *)
LEMMA StartBatchPreserves ==
    ASSUME IInv, TypeOK', NEW n \in 2..MaxParallelism, NEW order \in [1..n -> Calls],
           NEW bind \in [1..n -> Steps], StartBatch(n, order, bind)
    PROVE  Strengthening' /\ NodesFollowCalls' /\ StepsFollowCalls' /\ CompletedHasEvidence'
           /\ DataStable' /\ WithinBudget' /\ RestIsResumable'
<1>1. n \in Nat /\ used \in Nat /\ used' = used + n /\ used + 1..used' \subseteq InvIds
  BY DEF StartBatch, Budget, IInv, TypeOK
<1>2. \A i \in InvIds : i - used \in 1..n <=> i \in used + 1..used'
  BY <1>1
<1>3. \A i \in used + 1..used' :
         i - used \in 1..n /\ inv'[i] = NewInvocation(order[i - used], bind[i - used], 0)
  BY <1>1, <1>2 DEF StartBatch
<1>4. \A i \in 1..used : inv'[i] = inv[i]
  BY <1>1, <1>2 DEF StartBatch, IInv, TypeOK
<1>5. /\ \A i \in InvIds : outcome'[i] = IF i \in used + 1..used' THEN "running" ELSE outcome[i]
      /\ \A i \in InvIds : branch'[i] = IF i \in used + 1..used' THEN "active" ELSE branch[i]
  BY <1>2 DEF StartBatch
<1>6. \A i \in used + 1..used' : /\ inv'[i].plan = planVersion /\ inv'[i].data = dataVersion
                                 /\ inv'[i].step = bind[i - used]
                                 /\ inv'[i].call = order[i - used]
  <2>1. TAKE i \in used + 1..used'
  <2>2. inv'[i] = NewInvocation(order[i - used], bind[i - used], 0)
    BY <1>3
  <2>3. QED
    BY <2>2 DEF NewInvocation
<1>7. \A k \in 1..n : /\ steps[bind[k]] \in Unsatisfied
                      /\ order[k] \in ReadOnly
  BY DEF StartBatch, Eligible, Ready, Unsatisfied
<1>8. \A i, j \in used + 1..used' : inv'[i].step = inv'[j].step => i = j
  <2>1. \A k, m \in 1..n : k # m => bind[k] # bind[m]
    BY DEF StartBatch, Distinct
  <2>2. QED
    BY <1>1, <1>3, <1>6, <2>1
<1>9. \A s \in Steps : (\E k \in 1..n : bind[k] = s) <=> (\E i \in used + 1..used' : inv'[i].step = s)
  <2>1. \A k \in 1..n : used + k \in used + 1..used' /\ (used + k) - used = k
    BY <1>1
  <2>2. QED
    BY <1>3, <1>6, <2>1
<1>10. \A s \in Steps : steps'[s] = IF \E i \in used + 1..used' : inv'[i].step = s
                                    THEN "running" ELSE steps[s]
  BY <1>9 DEF StartBatch
<1>11. /\ status = "running" /\ loop \in InTurn /\ loop' = "batch" /\ Budget(n)
       /\ UNCHANGED <<status, planVersion, root, dataVersion, snapshot, checkpoint>>
  BY DEF StartBatch, savedVars, InTurn
<1>12. \A i \in used + 1..used' : /\ inv'[i].call \in ReadOnly
                                  /\ \A s \in Steps : inv'[i].step = s => steps[s] \in Unsatisfied
  BY <1>3, <1>6, <1>7
<1>13. QED
  BY <1>1, <1>4, <1>5, <1>6, <1>8, <1>10, <1>11, <1>12, StartPreserves

(* The end of a call: its row, its node and its step leave running together. *)
LEMMA SettlePreserves ==
    ASSUME IInv, TypeOK', NEW i \in InvIds, NEW o \in Outcome \ {"free", "running"},
           NEW st \in {"completed", "failed"}, Settle(i, o, st),
           st = "completed" => o = "succeeded",
           dataVersion' # dataVersion => inv[i].call \in Deriving,
           snapshot' = Completed(steps')
    PROVE  Strengthening' /\ NodesFollowCalls' /\ StepsFollowCalls' /\ CompletedHasEvidence'
           /\ DataStable' /\ WithinBudget' /\ RestIsResumable'
<1>1. /\ i \in Running /\ status = "running" /\ loop \in {"serial", "batch", "doubtful"}
      /\ UNCHANGED <<status, planVersion, used, inv, root>>
  BY DEF Settle, Earliest
<1>2. /\ \A j \in InvIds : outcome'[j] = IF j = i THEN o ELSE outcome[j]
      /\ \A j \in InvIds : branch'[j] = IF j = i THEN "completed" ELSE branch[j]
  BY DEF Settle, IInv, TypeOK
<1>3. Running' = Running \ {i} /\ Unknown' = IF o = "unknown" THEN Unknown \cup {i} ELSE Unknown
  BY <1>1, <1>2 DEF Running, Unknown
<1>4. inv[i].plan = planVersion /\ outcome[i] = "running"
  BY <1>1 DEF IInv, StepsFollowCalls, Running
<1>5. \A s \in Steps : steps'[s] = IF inv[i].step = s THEN st ELSE steps[s]
  BY <1>4 DEF Settle, Current, IInv, TypeOK
<1>6. RowsInOrder' /\ WithinBudget'
  BY <1>1, <1>2, <1>4 DEF RowsInOrder, WithinBudget, IInv, Strengthening
<1>7. CallsInRun'
  <2>1. CASE loop = "serial"
    BY <1>1, <1>3, <2>1 DEF IInv, Strengthening, OneAtATime, CallsInRun
  <2>2. CASE loop # "serial" /\ Running = {i}
    BY <1>3, <2>2 DEF CallsInRun
  <2>3. CASE loop # "serial" /\ Running # {i}
    BY <1>1, <2>3 DEF Settle, After, CallsInRun
  <2>4. QED
    BY <2>1, <2>2, <2>3
<1>8. OneAtATime' /\ BatchReadOnly'
  <2>1. loop' # "serial"
    BY <1>1 DEF Settle, After
  <2>2. loop' \in {"batch", "doubtful"} => loop \in {"batch", "doubtful"}
    BY <1>1 DEF Settle, After
  <2>3. QED
    BY <1>1, <1>3, <2>1, <2>2 DEF IInv, Strengthening, OneAtATime, BatchReadOnly
<1>9. DoubtEndsRun'
  <2>1. Unknown # {} => loop = "doubtful"
    BY <1>1 DEF IInv, Strengthening, DoubtEndsRun, Terminal
  <2>2. loop = "doubtful" \/ o = "unknown" => loop' \in {"doubtful", "halt"}
    BY <1>1 DEF Settle, After
  <2>3. QED
    BY <1>1, <1>3, <2>1, <2>2 DEF DoubtEndsRun
<1>10. SnapshotCurrent' /\ PlanFirst' /\ RestIsResumable'
  BY <1>1 DEF SnapshotCurrent, PlanFirst, RestIsResumable, IInv, Strengthening, Terminal
<1>11. NodesFollowCalls'
  BY <1>1, <1>2 DEF IInv, NodesFollowCalls, Terminal
<1>12. StepsFollowCalls'
  <2>1. \A j \in Running' : j \in Running /\ inv[j].step # inv[i].step
    BY <1>1, <1>3 DEF IInv, StepsFollowCalls
  <2>2. ASSUME NEW s \in Steps
        PROVE  (steps'[s] = "running") <=> (\E j \in Running' : inv[j].step = s)
    <3>1. CASE inv[i].step = s
      BY <1>5, <2>1, <3>1
    <3>2. CASE inv[i].step # s
      <4>1. (\E j \in Running' : inv[j].step = s) <=> (\E j \in Running : inv[j].step = s)
        BY <1>3, <3>2
      <4>2. QED
        BY <1>5, <3>2, <4>1 DEF IInv, StepsFollowCalls
    <3>3. QED
      BY <3>1, <3>2
  <2>3. \A j \in Running' : inv'[j] = inv[j] /\ planVersion' = planVersion
    BY <1>1
  <2>4. QED
    BY <1>1, <1>3, <2>1, <2>2, <2>3 DEF IInv, StepsFollowCalls
<1>13. CompletedHasEvidence'
  <2>1. ASSUME NEW s \in Steps, steps'[s] = "completed"
        PROVE  \E j \in InvIds : outcome'[j] = "succeeded" /\ inv'[j].step = s
    <3>1. CASE inv[i].step = s
      BY <1>1, <1>2, <1>5, <2>1, <3>1
    <3>2. CASE inv[i].step # s
      <4>1. PICK j \in InvIds : outcome[j] = "succeeded" /\ inv[j].step = s
        BY <1>5, <2>1, <3>2 DEF IInv, CompletedHasEvidence
      <4>2. QED
        BY <1>1, <1>2, <1>4, <4>1
    <3>3. QED
      BY <3>1, <3>2
  <2>2. QED
    BY <2>1 DEF CompletedHasEvidence
<1>14. DataStable'
  <2>1. CASE Running = {i}
    BY <1>3, <2>1 DEF DataStable
  <2>2. CASE Running # {i}
    <3>1. loop \in {"batch", "doubtful"}
      BY <1>1, <2>2 DEF IInv, Strengthening, OneAtATime
    <3>2. dataVersion' = dataVersion
      BY <1>1, <3>1, CallAssumption DEF IInv, Strengthening, BatchReadOnly
    <3>3. QED
      BY <1>1, <1>3, <3>2 DEF IInv, DataStable
  <2>3. QED
    BY <2>1, <2>2
<1>15. QED
  BY <1>6, <1>7, <1>8, <1>9, <1>10, <1>11, <1>12, <1>13, <1>14 DEF Strengthening

(* Running calls become unknown with the run.                                *)
LEMMA AbandonPreserves ==
    ASSUME IInv, TypeOK', NEW node \in {"completed", "cancel_requested"}, Abandon(node),
           status \notin Terminal, status' \in {"failed", "cancelled"},
           snapshot' = Completed(steps') \/ snapshot' = snapshot
    PROVE  Strengthening' /\ NodesFollowCalls' /\ StepsFollowCalls' /\ CompletedHasEvidence'
           /\ DataStable' /\ WithinBudget' /\ RestIsResumable'
<1>1. UNCHANGED <<planVersion, used, inv, dataVersion>> /\ loop' = "none"
  BY DEF Abandon
<1>2. /\ \A i \in InvIds : outcome'[i] = IF i \in Running THEN "unknown" ELSE outcome[i]
      /\ \A i \in InvIds : branch'[i] # "active"
      /\ root' # "active"
  BY DEF Abandon, CloseNodes
<1>3. Running' = {}
  BY <1>2 DEF Running
<1>4. \A s \in Steps : steps'[s] = IF steps[s] = "running" THEN "blocked" ELSE steps[s]
  <2>1. ASSUME NEW s \in Steps
        PROVE  (\E i \in Running : Current(i) /\ inv[i].step = s) <=> steps[s] = "running"
    BY DEF IInv, StepsFollowCalls, Current
  <2>2. QED
    BY <2>1 DEF Abandon
<1>5. Completed(steps') = Completed(steps)
  BY <1>4 DEF Completed
<1>6. RowsInOrder' /\ WithinBudget'
  BY <1>1, <1>2 DEF IInv, Strengthening, RowsInOrder, WithinBudget, Running
<1>7. CompletedHasEvidence'
  BY <1>1, <1>2, <1>4 DEF IInv, CompletedHasEvidence, Running
<1>8. /\ CallsInRun' /\ OneAtATime' /\ BatchReadOnly' /\ DataStable' /\ NodesFollowCalls'
  BY <1>2, <1>3 DEF CallsInRun, OneAtATime, BatchReadOnly, DataStable, NodesFollowCalls, Running
<1>9. StepsFollowCalls'
  BY <1>3, <1>4 DEF StepsFollowCalls
<1>10. DoubtEndsRun' /\ SnapshotCurrent' /\ PlanFirst' /\ RestIsResumable'
  BY <1>1, <1>5 DEF IInv, Strengthening, DoubtEndsRun, SnapshotCurrent, PlanFirst, RestIsResumable,
                    Terminal
<1>11. QED
  BY <1>6, <1>7, <1>8, <1>9, <1>10 DEF Strengthening

(* A new run satisfies the inductive invariant.                              *)
LEMMA InitInvariant == Init => IInv
<1> SUFFICES ASSUME Init PROVE IInv
  OBVIOUS
<1>1. TypeOK
  BY DEF Init, TypeOK, Invocation, NoInvocation, Checkpoint, NoCheckpoint, Outcome, NodeStatus,
         StepStatus, RunStatus, Phases
<1>2. Running = {} /\ Unknown = {}
  BY DEF Init, Running, Unknown
<1>3. Strengthening
  BY <1>2 DEF Init, Strengthening, RowsInOrder, CallsInRun, OneAtATime, BatchReadOnly,
              DoubtEndsRun, SnapshotCurrent, Completed, PlanFirst
<1>4. QED
  BY <1>1, <1>2, <1>3 DEF Init, IInv, NodesFollowCalls, StepsFollowCalls, CompletedHasEvidence,
                          DataStable, WithinBudget, RestIsResumable, Terminal

(* Every step keeps the inductive invariant.                                 *)
LEMMA NextInvariant ==
    ASSUME IInv, [Next]_vars
    PROVE  IInv'
<1>1. TypeOK'
  BY ActionTypes DEF IInv
<1>2. CASE UNCHANGED vars
  <2>1. UNCHANGED <<callVars, steps, planVersion, dataVersion>>
    BY <1>2 DEF vars, callVars
  <2>2. /\ RowsInOrder' /\ StepsFollowCalls' /\ CompletedHasEvidence'
        /\ DataStable' /\ WithinBudget'
        /\ Running' = Running /\ Unknown' = Unknown
        /\ Completed(steps') = Completed(steps)
    BY <2>1, RowsKept
  <2>3. QED
    BY <1>1, <1>2, <2>2 DEF vars, IInv, Strengthening, CallsInRun, OneAtATime, BatchReadOnly,
                            DoubtEndsRun, SnapshotCurrent, PlanFirst, NodesFollowCalls,
                            RestIsResumable, CheckpointValid, Idle
<1>3. ASSUME NEW i \in InvIds, CommitSuccess(i) PROVE IInv'
  BY <1>1, <1>3, SettlePreserves DEF CommitSuccess, Refresh, IInv, Outcome
<1>4. ASSUME NEW i \in InvIds, NEW o \in {"failed", "refused", "unknown"}, CommitFailure(i, o)
      PROVE  IInv'
  <2>1. Settle(i, o, "failed") /\ UNCHANGED <<dataVersion, snapshot>>
    BY <1>4 DEF CommitFailure, savedVars
  <2>2. inv[i].plan = planVersion /\ \A s \in Steps : inv[i].step = s => steps[s] = "running"
    BY <2>1 DEF Settle, Earliest, IInv, StepsFollowCalls
  <2>3. Completed(steps') = Completed(steps)
    BY <2>1, <2>2 DEF Settle, Current, Completed, IInv, TypeOK
  <2>4. snapshot' = Completed(steps')
    BY <2>1, <2>3 DEF IInv, Strengthening, SnapshotCurrent
  <2>5. QED
    BY <1>1, <2>1, <2>4, SettlePreserves DEF IInv, Outcome
<1>5. ASSUME NEW st \in {"failed", "cancelled"}, Terminate(st) PROVE IInv'
  <2>1. status \notin Terminal
    BY <1>5 DEF Terminate, Successors, Terminal
  <2>2. QED
    BY <1>1, <1>5, <2>1, AbandonPreserves DEF Terminate, IInv
<1>6. CASE Cancel
  BY <1>1, <1>6, AbandonPreserves DEF Cancel, Refresh, IInv
<1>7. CASE BlockOnUnknown \/ BlockOnJoinGuard \/ Complete \/ \E st \in {"blocked", "failed"} : Reject(st)
  BY <1>1, <1>7, FinishPreserves DEF BlockOnUnknown, BlockOnJoinGuard, Complete, Reject, Verified,
                                     Terminal, IInv
<1>8. CASE HostStep
  BY <1>1, <1>3, <1>4, <1>5, <1>7, <1>8, QuietActions, PlanActions, StartCallPreserves,
     StartBatchPreserves DEF HostStep, RoundsExhausted, IInv
<1>9. CASE UserStep
  BY <1>1, <1>6, <1>9, QuietActions, PlanActions DEF UserStep, IInv
<1>10. QED
  BY <1>1, <1>2, <1>5, <1>8, <1>9, QuietActions DEF Next, HostFails, Recovery, RecoverFail, IInv
-----------------------------------------------------------------------------
(* The invariant of every behaviour.                                         *)
THEOREM InductiveInvariant == Spec => []IInv
  BY InitInvariant, NextInvariant, PTL DEF Spec

(* Every variable keeps its type: statuses stay within their tables, row     *)
(* numbers and rounds within their limits.                                   *)
THEOREM TypeCorrect == Spec => []TypeOK
  BY InductiveInvariant, PTL DEF IInv

(* A run that rests can be continued (control_transition, ask_clarification, *)
(* recover_stale_runs, _save_plan against _validate_checkpoint).             *)
THEOREM RestsResumable == Spec => []RestIsResumable
  BY InductiveInvariant, PTL DEF IInv

(* The cancellation tree and the step rows of the active plan agree with the *)
(* calls that execute.                                                       *)
THEOREM RowsFollow == Spec => []RowsAgree
  BY InductiveInvariant, PTL DEF IInv, RowsAgree

(* A completed step has a successful call of its own.                        *)
THEOREM Evidence == Spec => []CompletedHasEvidence
  BY InductiveInvariant, PTL DEF IInv

(* A call executes on the data version it was reserved for.                  *)
THEOREM DataFixed == Spec => []DataStable
  BY InductiveInvariant, PTL DEF IInv

(* A run never spends more calls than its scope allows.                      *)
THEOREM Budgeted == Spec => []WithinBudget
  BY InductiveInvariant, PTL DEF IInv
-----------------------------------------------------------------------------
(* What a step may never do.                                                 *)

(* A finished step is no candidate for a call, a rejection or a retry, and   *)
(* no call executes for it: so nothing overwrites it.                        *)
LEMMA StepKeepsFinished ==
    ASSUME IInv, [Next]_vars
    PROVE  \A s \in Steps : steps[s] \in Finished => steps'[s] = steps[s]
<1> USE DEF Finished
<1>1. CASE UNCHANGED vars
  BY <1>1 DEF vars
<1>2. ASSUME NEW P \in SUBSET Steps, SavePlan(P)
      PROVE  \A s \in Steps : steps[s] \in Finished => steps'[s] = steps[s]
  BY <1>2, InstallPlanSteps DEF SavePlan
<1>3. ASSUME NEW P \in SUBSET Steps, NEW skip \in SUBSET P, RevisePlan(P, skip)
      PROVE  \A s \in Steps : steps[s] \in Finished => steps'[s] = steps[s]
  BY <1>3, InstallPlanSteps DEF RevisePlan
<1>4. ASSUME NEW c \in Calls, NEW s \in Steps \cup {NoStep}, StartCall(c, s)
      PROVE  \A t \in Steps : steps[t] \in Finished => steps'[t] = steps[t]
  BY <1>4 DEF StartCall, Binding, Candidates, Unsatisfied, IInv, TypeOK
<1>5. ASSUME NEW n \in 2..MaxParallelism, NEW order \in [1..n -> Calls],
             NEW bind \in [1..n -> Steps], StartBatch(n, order, bind)
      PROVE  \A s \in Steps : steps[s] \in Finished => steps'[s] = steps[s]
  BY <1>5 DEF StartBatch, Eligible, Ready
<1>6. ASSUME NEW c \in Calls, NEW s \in Steps, RejectCall(c, s)
      PROVE  \A t \in Steps : steps[t] \in Finished => steps'[t] = steps[t]
  BY <1>6 DEF RejectCall, Candidates, Unsatisfied, IInv, TypeOK
<1>7. ASSUME NEW i \in InvIds, NEW o \in Outcome, NEW st \in StepStatus, Settle(i, o, st)
      PROVE  \A s \in Steps : steps[s] \in Finished => steps'[s] = steps[s]
  BY <1>7 DEF Settle, Earliest, Current, IInv, TypeOK, StepsFollowCalls
<1>8. ASSUME NEW node \in NodeStatus, Abandon(node)
      PROVE  \A s \in Steps : steps[s] \in Finished => steps'[s] = steps[s]
  BY <1>8 DEF Abandon, Current, IInv, StepsFollowCalls
<1>9. CASE BeginVerify
  BY <1>9 DEF BeginVerify, Unsatisfied
<1>10. ASSUME NEW s \in Steps, RetryStep(s)
       PROVE  \A t \in Steps : steps[t] \in Finished => steps'[t] = steps[t]
  BY <1>10 DEF RetryStep
<1>11. CASE HostStep
  <2>1. ASSUME NEW i \in InvIds, CommitSuccess(i)
        PROVE  \A s \in Steps : steps[s] \in Finished => steps'[s] = steps[s]
    BY <1>7, <2>1 DEF CommitSuccess, Outcome, StepStatus
  <2>2. ASSUME NEW i \in InvIds, NEW o \in {"failed", "refused", "unknown"}, CommitFailure(i, o)
        PROVE  \A s \in Steps : steps[s] \in Finished => steps'[s] = steps[s]
    BY <1>7, <2>2 DEF CommitFailure, Outcome, StepStatus
  <2>3. CASE RoundsExhausted
    BY <1>8, <2>3 DEF RoundsExhausted, Terminate, NodeStatus
  <2>4. CASE AskUser \/ StartRunning \/ ModelTurn \/ EndOfTurn \/ VerifyRetry
    BY <2>4 DEF AskUser, StartRunning, ModelTurn, EndOfTurn, VerifyRetry, planVars
  <2>5. CASE BlockOnUnknown \/ BlockOnJoinGuard \/ Complete \/ \E st \in {"blocked", "failed"} : Reject(st)
    BY <2>5 DEF BlockOnUnknown, BlockOnJoinGuard, Complete, Reject, Finish, planVars
  <2>6. QED
    BY <1>2, <1>4, <1>5, <1>6, <1>9, <1>11, <2>1, <2>2, <2>3, <2>4, <2>5 DEF HostStep
<1>12. CASE UserStep
  <2>1. CASE Pause \/ Resume \/ \E q \in Questions : Answer(q)
    BY <2>1 DEF Pause, Resume, Answer, planVars
  <2>2. CASE Cancel
    BY <1>8, <2>2 DEF Cancel, NodeStatus
  <2>3. QED
    BY <1>3, <1>10, <1>12, <2>1, <2>2 DEF UserStep
<1>13. ASSUME NEW st \in {"failed", "cancelled"}, Terminate(st)
       PROVE  \A s \in Steps : steps[s] \in Finished => steps'[s] = steps[s]
  BY <1>8, <1>13 DEF Terminate, NodeStatus
<1>14. QED
  BY <1>1, <1>11, <1>12, <1>13 DEF Next, HostFails, Crash, Recovery, RecoverPause, RecoverFail, planVars

(* Finished work is never undone (_save_plan, retry_step, the bindings of    *)
(* calls to open steps).                                                     *)
THEOREM WorkIrrevocable == Spec => FinishedIrrevocable
<1>1. IInv /\ [Next]_vars
        => [\A s \in Steps : steps[s] \in Finished => steps'[s] = steps[s]]_vars
  BY StepKeepsFinished
<1>2. QED
  BY <1>1, InductiveInvariant, PTL DEF Spec, FinishedIrrevocable

(* Only a free row is filled and only a running row is settled.              *)
LEMMA StepKeepsOutcomes ==
    ASSUME IInv, [Next]_vars
    PROVE  \A i \in InvIds : outcome[i] \notin {"free", "running"} =>
               outcome'[i] = outcome[i] /\ inv'[i] = inv[i]
<1> DEFINE Kept == \A i \in InvIds : outcome[i] \notin {"free", "running"} =>
                       outcome'[i] = outcome[i] /\ inv'[i] = inv[i]
<1>1. CASE UNCHANGED <<inv, outcome>>
  BY <1>1
<1>2. ASSUME NEW c \in Calls, NEW s \in Steps \cup {NoStep}, StartCall(c, s) PROVE Kept
  BY <1>2 DEF StartCall, Budget, IInv, TypeOK, Strengthening, RowsInOrder
<1>3. ASSUME NEW n \in 2..MaxParallelism, NEW order \in [1..n -> Calls],
             NEW bind \in [1..n -> Steps], StartBatch(n, order, bind)
      PROVE  Kept
  BY <1>3 DEF StartBatch, IInv, TypeOK, Strengthening, RowsInOrder
<1>4. ASSUME NEW i \in InvIds, NEW o, NEW st, Settle(i, o, st) PROVE Kept
  BY <1>4 DEF Settle, Earliest, Running, IInv, TypeOK
<1>5. ASSUME NEW node, Abandon(node) PROVE Kept
  BY <1>5 DEF Abandon, Running
<1>6. CASE HostStep
  <2>1. CASE \/ \E P \in SUBSET Steps : SavePlan(P)
             \/ AskUser \/ StartRunning \/ ModelTurn \/ EndOfTurn
             \/ \E c \in Calls, s \in Steps : RejectCall(c, s)
             \/ BlockOnUnknown \/ BlockOnJoinGuard \/ BeginVerify \/ Complete
             \/ \E st \in {"blocked", "failed"} : Reject(st)
             \/ VerifyRetry
    <3>1. UNCHANGED callVars
      BY <2>1 DEF SavePlan, AskUser, StartRunning, ModelTurn, EndOfTurn, RejectCall, BlockOnUnknown,
                  BlockOnJoinGuard, BeginVerify, Complete, Reject, VerifyRetry, Finish
    <3>2. QED
      BY <1>1, <3>1 DEF callVars
  <2>2. QED
    BY <1>2, <1>3, <1>4, <1>5, <1>6, <2>1 DEF HostStep, CommitSuccess, CommitFailure,
       RoundsExhausted, Terminate
<1>7. CASE UserStep
  <2>1. CASE \/ \E q \in Questions : Answer(q)
             \/ Pause \/ Resume
             \/ \E P \in SUBSET Steps : \E skip \in SUBSET P : RevisePlan(P, skip)
             \/ \E s \in Steps : RetryStep(s)
    <3>1. UNCHANGED callVars
      BY <2>1 DEF Answer, Pause, Resume, RevisePlan, RetryStep
    <3>2. QED
      BY <1>1, <3>1 DEF callVars
  <2>2. QED
    BY <1>5, <1>7, <2>1 DEF UserStep, Cancel
<1>8. QED
  BY <1>1, <1>5, <1>6, <1>7 DEF Next, HostFails, Terminate, Crash, Recovery, RecoverPause,
     RecoverFail, callVars, vars

(* What became of a call is written once (commit_tool_success,               *)
(* commit_tool_failure, terminate_active_run).                               *)
THEOREM OutcomesFinal == Spec => OutcomeFinal
<1>1. IInv /\ [Next]_vars
        => [\A i \in InvIds : outcome[i] \notin {"free", "running"} =>
               outcome'[i] = outcome[i] /\ inv'[i] = inv[i]]_vars
  BY StepKeepsOutcomes
<1>2. QED
  BY <1>1, InductiveInvariant, PTL DEF Spec, OutcomeFinal

(* Where an unknown outcome can be found, only blocking, failing and         *)
(* cancelling are left, and the commits of the same frontier.                *)
LEMMA StepRespectsDoubt ==
    ASSUME IInv, [Next]_vars, Unknown # {}
    PROVE  used' = used /\ status' \in {status, "blocked", "failed", "cancelled"}
<1>1. \/ status \in Terminal \ {"completed"}
      \/ status = "running" /\ loop \in {"doubtful", "halt", "none"}
  BY DEF IInv, Strengthening, DoubtEndsRun
<1>2. ~Idle
  BY DEF Idle
<1>3. CASE HostStep
  BY <1>1, <1>2, <1>3 DEF HostStep, Terminal, InTurn, SavePlan, AskUser, StartRunning, ModelTurn,
     EndOfTurn, StartCall, StartBatch, RejectCall, CommitSuccess, CommitFailure, Settle,
     BlockOnUnknown, BlockOnJoinGuard, BeginVerify, Complete, Reject, VerifyRetry,
     RoundsExhausted, Finish, callVars
<1>4. ASSUME NEW st \in {"failed", "cancelled"}, Terminate(st)
      PROVE  used' = used /\ status' \in {status, "blocked", "failed", "cancelled"}
  BY <1>4 DEF Terminate, Abandon
<1>5. CASE UserStep
  <2>1. ~ \E s \in Steps : RetryStep(s)
    BY <1>1 DEF RetryStep, Terminal
  <2>2. QED
    BY <1>1, <1>2, <1>5, <2>1 DEF UserStep, Answer, CheckpointValid, Pause, Resume, RevisePlan,
       Cancel, Abandon, Terminal
<1>6. QED
  BY <1>2, <1>3, <1>4, <1>5 DEF Next, HostFails, Crash, Recovery, RecoverPause, RecoverFail,
     callVars, vars

(* An unknown outcome stops the run (the frontier of agent_loop, and the     *)
(* require_idle of control_transition, _validate_checkpoint, recovery).      *)
THEOREM DoubtStopsRun == Spec => UnknownStopsRun
<1>1. IInv /\ [Next]_vars
        => [Unknown # {} => /\ used' = used
                            /\ status' \in {status, "blocked", "failed", "cancelled"}]_vars
  BY StepRespectsDoubt
<1>2. QED
  BY <1>1, InductiveInvariant, PTL DEF Spec, UnknownStopsRun

(* What is settled stays settled: finished steps, outcomes of calls, and a   *)
(* run in doubt (_save_plan, commit_tool_success, block_tool_unknown).       *)
THEOREM SettledForGood == Spec => NothingUndone
BY WorkIrrevocable, OutcomesFinal, DoubtStopsRun, PTL DEF NothingUndone

(* Calls start in two ways, and both look for earlier rows of the call.      *)
LEMMA StepStartsNewCalls ==
    ASSUME IInv, [Next]_vars
    PROVE  \A i \in used + 1..used' :
               /\ \A k \in used + 1..used' : k # i => inv'[k].call # inv'[i].call
               /\ \A j \in 1..used : inv[j].call = inv'[i].call =>
                      inv'[i].step = retryOf /\ inv[j].scope # planVersion
<1> DEFINE New == \A i \in used + 1..used' :
                      /\ \A k \in used + 1..used' : k # i => inv'[k].call # inv'[i].call
                      /\ \A j \in 1..used : inv[j].call = inv'[i].call =>
                             inv'[i].step = retryOf /\ inv[j].scope # planVersion
<1>1. CASE used' = used
  BY <1>1 DEF IInv, TypeOK
<1>2. ASSUME NEW c \in Calls, NEW s \in Steps \cup {NoStep}, StartCall(c, s) PROVE New
  <2>1. used \in Nat /\ used + 1..used' = {used + 1} /\ used + 1 \in InvIds
    BY <1>2 DEF StartCall, Budget, IInv, TypeOK
  <2>2. inv'[used + 1].call = c /\ inv'[used + 1].step = s
    BY <1>2, <2>1 DEF StartCall, NewInvocation, IInv, TypeOK
  <2>3. ASSUME NEW j \in 1..used, inv[j].call = c
        PROVE  s = retryOf /\ inv[j].scope # planVersion
    <3>1. Scope(s) \notin {0, inv[j].scope}
      BY <1>2, <2>3 DEF StartCall, Prior
    <3>2. QED
      BY <3>1 DEF Scope
  <2>4. QED
    BY <2>1, <2>2, <2>3
<1>3. ASSUME NEW n \in 2..MaxParallelism, NEW order \in [1..n -> Calls],
             NEW bind \in [1..n -> Steps], StartBatch(n, order, bind)
      PROVE  New
  <2>1. used \in Nat /\ n \in Nat /\ used' = used + n /\ used + n <= MaxInvocations
    BY <1>3 DEF StartBatch, Budget, IInv, TypeOK
  <2>2. \A i \in used + 1..used' : i \in InvIds /\ i - used \in 1..n
    BY <2>1
  <2>3. \A i \in used + 1..used' : inv'[i].call = order[i - used]
    BY <1>3, <2>2 DEF StartBatch, NewInvocation
  <2>4. \A k, m \in 1..n : k # m => order[k] # order[m]
    BY <1>3 DEF StartBatch, Distinct
  <2>5. \A k \in 1..n : \A j \in 1..used : inv[j].call # order[k]
    BY <1>3 DEF StartBatch, Eligible, Prior
  <2>6. ASSUME NEW i \in used + 1..used', NEW k \in used + 1..used', k # i
        PROVE  inv'[k].call # inv'[i].call
    <3>1. i - used # k - used
      BY <2>1, <2>6
    <3>2. order[k - used] # order[i - used]
      BY <2>2, <2>4, <3>1
    <3>3. QED
      BY <2>3, <3>2
  <2>7. ASSUME NEW i \in used + 1..used', NEW j \in 1..used
        PROVE  inv[j].call # inv'[i].call
    BY <2>2, <2>3, <2>5
  <2>8. QED
    BY <2>6, <2>7
<1>4. QED
  <2>1. CASE \/ \E c \in Calls, s \in Steps \cup {NoStep} : StartCall(c, s)
             \/ \E n \in 2..MaxParallelism :
                    \E order \in [1..n -> Calls], bind \in [1..n -> Steps] :
                        StartBatch(n, order, bind)
    BY <1>2, <1>3, <2>1
  <2>2. CASE \/ \E P \in SUBSET Steps : SavePlan(P)
             \/ AskUser \/ StartRunning \/ ModelTurn \/ EndOfTurn
             \/ \E c \in Calls, s \in Steps : RejectCall(c, s)
             \/ \E i \in InvIds : CommitSuccess(i)
             \/ \E i \in InvIds, o \in {"failed", "refused", "unknown"} : CommitFailure(i, o)
             \/ BlockOnUnknown \/ BlockOnJoinGuard \/ BeginVerify \/ Complete
             \/ \E st \in {"blocked", "failed"} : Reject(st)
             \/ VerifyRetry \/ RoundsExhausted
    BY <1>1, <2>2 DEF SavePlan, AskUser, StartRunning, ModelTurn, EndOfTurn, RejectCall,
       CommitSuccess, CommitFailure, Settle, BlockOnUnknown, BlockOnJoinGuard, BeginVerify,
       Complete, Reject, VerifyRetry, Finish, RoundsExhausted, Terminate, Abandon, callVars
  <2>3. CASE UserStep
    BY <1>1, <2>3 DEF UserStep, Answer, Pause, Resume, RevisePlan, RetryStep, Cancel, Abandon,
       callVars
  <2>4. QED
    BY <1>1, <2>1, <2>2, <2>3 DEF Next, HostStep, HostFails, Terminate, Abandon, Crash, Recovery,
       RecoverPause, RecoverFail, callVars, vars

(* A call is repeated only in the scope of a retry the user asked for        *)
(* (effect_scope and the two searches for earlier invocations).              *)
THEOREM CallsNotRepeated == Spec => NoReexecution
<1>1. IInv /\ [Next]_vars
        => [\A i \in used + 1..used' :
               /\ \A k \in used + 1..used' : k # i => inv'[k].call # inv'[i].call
               /\ \A j \in 1..used : inv[j].call = inv'[i].call =>
                      inv'[i].step = retryOf /\ inv[j].scope # planVersion]_vars
  BY StepStartsNewCalls
<1>2. QED
  BY <1>1, InductiveInvariant, PTL DEF Spec, NoReexecution
-----------------------------------------------------------------------------
(* TaskRun implements RunLifecycle.                                          *)

FinishedSteps == {s \in Steps : steps[s] \in Finished}

(* Once an outcome is unknown, no row begins to run.                         *)
LEMMA DoubtOpensNothing ==
    ASSUME IInv, IInv', [Next]_vars, Unknown # {}
    PROVE  Running' \subseteq Running
<1>1. used' = used
  BY StepRespectsDoubt
<1>2. ASSUME NEW i \in Running' PROVE i \in Running
  <2>1. i \in InvIds /\ outcome'[i] = "running"
    BY <1>2 DEF Running
  <2>2. outcome[i] # "free"
    BY <1>1, <2>1 DEF IInv, Strengthening, RowsInOrder
  <2>3. outcome[i] = "running"
    BY <2>1, <2>2, StepKeepsOutcomes
  <2>4. QED
    BY <2>1, <2>3 DEF Running
<1>3. QED
  BY <1>2

(* Every change of status follows the table of state.py, finds or leaves no  *)
(* call executing, and rests or succeeds only without doubt.                 *)
LEMMA StepMoves ==
    ASSUME IInv, [Next]_vars, status' # status
    PROVE  /\ status' \in Successors(status)
           /\ Running' = {} /\ Unknown' = Unknown \cup Running
           /\ status' \notin Terminal \/ status' = "completed" => Running = {} /\ Unknown = {}
<1>1. ASSUME UNCHANGED outcome, Running = {}
      PROVE  Running' = {} /\ Unknown' = Unknown \cup Running
  BY <1>1 DEF Running, Unknown
<1>2. ASSUME NEW node, Abandon(node)
      PROVE  Running' = {} /\ Unknown' = Unknown \cup Running
  BY <1>2 DEF Abandon, Running, Unknown, IInv, TypeOK
<1>3. ASSUME NEW st \in {"failed", "cancelled"}, Terminate(st)
      PROVE  /\ status' \in Successors(status)
             /\ Running' = {} /\ Unknown' = Unknown \cup Running
             /\ status' \in Terminal \ {"completed"}
  BY <1>2, <1>3 DEF Terminate, Terminal
<1>4. CASE Cancel
  <2>1. status' \in Successors(status)
    BY <1>4 DEF Cancel, Successors, Terminal, IInv, TypeOK, RunStatus
  <2>2. QED
    BY <1>2, <1>4, <2>1 DEF Cancel, Terminal
<1>5. ASSUME NEW st, Finish(st) PROVE UNCHANGED outcome /\ Running = {}
  BY <1>5 DEF Finish, callVars, IInv, NodesFollowCalls, Running
<1>6. CASE BlockOnUnknown \/ BlockOnJoinGuard \/ Complete \/ \E st \in {"blocked", "failed"} : Reject(st)
  <2>1. UNCHANGED outcome /\ Running = {}
    BY <1>5, <1>6 DEF BlockOnUnknown, BlockOnJoinGuard, Complete, Reject
  <2>2. status' \in Successors(status) /\ status' \in Terminal
    BY <1>6 DEF BlockOnUnknown, BlockOnJoinGuard, Complete, Reject, Finish, Successors, Terminal
  <2>3. status' = "completed" => Unknown = {}
    BY <1>6 DEF BlockOnUnknown, BlockOnJoinGuard, Complete, Reject, Finish, Verified
  <2>4. QED
    BY <1>1, <2>1, <2>2, <2>3
<1>7. CASE \/ AskUser \/ StartRunning \/ BeginVerify \/ VerifyRetry \/ Pause \/ Resume
           \/ RecoverPause
           \/ \E q \in Questions : Answer(q)
           \/ \E s \in Steps : RetryStep(s)
  <2>1. UNCHANGED outcome
    BY <1>7 DEF AskUser, StartRunning, BeginVerify, VerifyRetry, Pause, Resume, RecoverPause,
       Answer, RetryStep, callVars
  <2>2. Running = {}
    BY <1>7, QuietOutsideRunning DEF AskUser, StartRunning, BeginVerify, VerifyRetry, Pause, Resume,
       RecoverPause, Answer, RetryStep, Idle
  <2>3. Unknown = {}
    BY <1>7 DEF AskUser, StartRunning, BeginVerify, VerifyRetry, Pause, Resume, RecoverPause,
       Answer, RetryStep, Idle, CheckpointValid, IInv, Strengthening, DoubtEndsRun, Terminal
  <2>4. status' \in Successors(status)
    BY <1>7 DEF AskUser, StartRunning, BeginVerify, VerifyRetry, Pause, Resume, RecoverPause, Park,
       Answer, RetryStep, Successors
  <2>5. QED
    BY <1>1, <2>1, <2>2, <2>3, <2>4
<1>8. CASE HostStep
  <2>1. ~ (\/ \E P \in SUBSET Steps : SavePlan(P)
           \/ ModelTurn \/ EndOfTurn
           \/ \E c \in Calls, s \in Steps \cup {NoStep} : StartCall(c, s)
           \/ \E n \in 2..MaxParallelism :
                 \E order \in [1..n -> Calls], bind \in [1..n -> Steps] :
                    StartBatch(n, order, bind)
           \/ \E c \in Calls, s \in Steps : RejectCall(c, s)
           \/ \E i \in InvIds : CommitSuccess(i)
           \/ \E i \in InvIds, o \in {"failed", "refused", "unknown"} : CommitFailure(i, o))
    BY DEF SavePlan, ModelTurn, EndOfTurn, StartCall, StartBatch, RejectCall, CommitSuccess,
           CommitFailure, Settle
  <2>2. QED
    BY <1>3, <1>6, <1>7, <1>8, <2>1 DEF HostStep, RoundsExhausted
<1>9. CASE UserStep
  BY <1>4, <1>7, <1>9 DEF UserStep, RevisePlan
<1>10. QED
  BY <1>3, <1>7, <1>8, <1>9 DEF Next, HostFails, Crash, Recovery, RecoverFail, vars

(* Nothing finishes and nothing starts unless the run is running or paused.  *)
LEMMA StepStays ==
    ASSUME IInv, [Next]_vars, status' = status, status \notin {"running", "paused"}
    PROVE  UNCHANGED <<FinishedSteps, outcome>>
<1>1. ASSUME UNCHANGED <<steps, outcome>> PROVE UNCHANGED <<FinishedSteps, outcome>>
  BY <1>1 DEF FinishedSteps
<1>2. ASSUME NEW P \in SUBSET Steps, SavePlan(P) PROVE UNCHANGED <<FinishedSteps, outcome>>
  <2>1. \A s \in Steps : steps'[s] \in Finished <=> steps[s] \in Finished
    BY <1>2 DEF SavePlan, InstallPlan, Keeps, Revised, Finished
  <2>2. QED
    BY <1>2, <2>1 DEF SavePlan, callVars, FinishedSteps
<1>3. ~ \E st \in {"failed", "cancelled"} : Terminate(st)
  BY DEF Terminate, Successors
<1>4. CASE HostStep
  BY <1>2, <1>3, <1>4 DEF HostStep, AskUser, StartRunning, ModelTurn, EndOfTurn, StartCall,
     StartBatch, RejectCall, CommitSuccess, CommitFailure, Settle, BlockOnUnknown,
     BlockOnJoinGuard, BeginVerify, Complete, Reject, VerifyRetry, RoundsExhausted, Finish
<1>5. CASE UserStep
  BY <1>5 DEF UserStep, Answer, Pause, Resume, RevisePlan, RetryStep, Cancel, Terminal
<1>6. QED
  BY <1>1, <1>3, <1>4, <1>5 DEF Next, HostFails, Crash, Recovery, RecoverPause, RecoverFail,
     planVars, callVars, vars

(* A step of the run is a step of its lifecycle, or changes nothing of it.   *)
LEMMA StepSimulates ==
    ASSUME IInv, IInv', [Next]_vars
    PROVE  [Abstract!LifecycleNext]_Abstract!lifecycleVars
<1>1. FinishedSteps \subseteq FinishedSteps' /\ FinishedSteps' \subseteq Steps
  BY StepKeepsFinished DEF FinishedSteps
<1>2. Unknown \subseteq Unknown'
  BY StepKeepsOutcomes DEF Unknown
<1>3. CASE status' # status
  <2>1. ASSUME NEW st \in RunStatus, st = status' PROVE Abstract!Move(st)
    BY <1>1, <1>3, <2>1, StepMoves DEF Abstract!Move, Abstract!Successors, Abstract!Terminal,
       Successors, Terminal, FinishedSteps
  <2>2. status' \in RunStatus
    BY DEF IInv, TypeOK
  <2>3. QED
    BY <2>1, <2>2 DEF Abstract!LifecycleNext, Abstract!RunStatus, RunStatus
<1>4. CASE status' = status /\ status = "running"
  <2>1. Abstract!Progress
    BY <1>1, <1>2, <1>4, DoubtOpensNothing DEF Abstract!Progress, FinishedSteps
  <2>2. QED
    BY <2>1 DEF Abstract!LifecycleNext
<1>5. CASE status' = status /\ status = "paused"
  <2>1. Running = {} /\ Unknown = {} /\ Running' = {} /\ Unknown' = {}
    BY <1>5 DEF IInv, Strengthening, CallsInRun, DoubtEndsRun, Terminal
  <2>2. Abstract!Revise
    BY <1>1, <1>5, <2>1 DEF Abstract!Revise, FinishedSteps
  <2>3. QED
    BY <2>2 DEF Abstract!LifecycleNext
<1>6. CASE status' = status /\ status \notin {"running", "paused"}
  <2>1. FinishedSteps' = FinishedSteps /\ Running' = Running /\ Unknown' = Unknown
    BY <1>6, StepStays DEF Running, Unknown
  <2>2. QED
    BY <1>6, <2>1 DEF Abstract!lifecycleVars, FinishedSteps
<1>7. QED
  BY <1>3, <1>4, <1>5, <1>6

(* The rows of task_store, driven by host, users, crashes and recovery, keep *)
(* the promise of RunLifecycle.                                              *)
THEOREM Refinement == Spec => ImplementsLifecycle
<1>1. Init => Abstract!LifecycleInit
  <2>1. Init => Running = {} /\ Unknown = {} /\ FinishedSteps = {}
    BY DEF Init, Running, Unknown, FinishedSteps, Finished
  <2>2. QED
    BY <2>1 DEF Init, Abstract!LifecycleInit, FinishedSteps
<1>2. IInv /\ IInv' /\ [Next]_vars => [Abstract!LifecycleNext]_Abstract!lifecycleVars
  BY StepSimulates
<1>3. QED
  BY <1>1, <1>2, InductiveInvariant, PTL DEF Spec, ImplementsLifecycle, Abstract!Lifecycle
=============================================================================
