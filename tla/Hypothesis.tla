----------------------------- MODULE Hypothesis -----------------------------
(* The hypothesis an open exploration tests, from the screening of its       *)
(* candidates (control/hypotheses.py) through the plan step that carries the *)
(* selected one, the projection of the step's calls on its execution record  *)
(* (orchestration/hypothesis_lifecycle.py) and the verdict of the run, to    *)
(* the follow-up offered to the user (orchestration/hypothesis_followup.py). *)
(* Every projection is part of the transaction of session/task_store.py that *)
(* changes the run.  Of the run only what the record depends on is kept: its *)
(* status, its plan version, the state of the one step that carries the      *)
(* hypothesis and that step's calls; the rest is TaskRun's.                  *)
EXTENDS Naturals, FiniteSets

CONSTANTS Profiles,      \* what data profiles and catalogues may tell
          Unselected,    \* no candidate
          MaxTests,      \* tool calls the run's scope allows
          MaxReplans,    \* plan versions after the binding one
          MaxPlanned     \* bound of the model on plan versions

VARIABLES
    screened,    \* what the screening says of each kind of hypothesis
    chosen,      \* the candidate the user selected
    state,       \* of the run
    planned,     \* version of the active plan
    step,        \* status of the hypothesis step in the active plan
    calling,     \* plan version of the step's executing call, or 0
    tests,       \* tool calls made
    unrecovered, \* plan versions of the step with a failure no success followed
    observed,    \* what the latest observation of the step says
    evidence,    \* what the evidence of the step says, "untested" if there is none
    tree,        \* the root of the run's cancellation tree
    record,      \* the hypothesis execution
    followup     \* what to do next

hypVars == <<screened, chosen, state, planned, step, calling, tests, unrecovered,
             observed, evidence, tree, record, followup>>
stepVars == <<calling, tests, unrecovered, observed, evidence>>
-----------------------------------------------------------------------------
(* Screening.                                                                *)

Kinds == {"trend", "anomaly", "segment_comparison", "correlation"}
DataRoles == {"time", "metric", "dimension"}
Priority == [trend |-> 1, anomaly |-> 2, segment_comparison |-> 3, correlation |-> 4]

\* Columns a kind needs in each role.
Needs ==
    [trend |-> [time |-> 1, metric |-> 1, dimension |-> 0],
     anomaly |-> [time |-> 0, metric |-> 1, dimension |-> 0],
     segment_comparison |-> [time |-> 0, metric |-> 1, dimension |-> 1],
     correlation |-> [time |-> 0, metric |-> 2, dimension |-> 0]]

(* A profile: how many columns surely and how many possibly have a role, and *)
(* the kinds whose capability the catalogue allows.                          *)
Profile == [sure : [DataRoles -> Nat], doubtful : [DataRoles -> Nat], allowed : SUBSET Kinds]

ASSUME HypothesisAssumption ==
    /\ Profiles \subseteq Profile
    /\ Unselected \notin Kinds
    /\ MaxTests \in Nat /\ MaxReplans \in Nat /\ MaxPlanned \in Nat \ {0}

Lacks(p, k) == \E r \in DataRoles : p.sure[r] + p.doubtful[r] < Needs[k][r]
Doubts(p, k) == \E r \in DataRoles : p.sure[r] < Needs[k][r]

Candidate(p, k) ==
    CASE k \notin p.allowed \/ Lacks(p, k) -> "rejected"
      [] k \in p.allowed /\ ~Lacks(p, k) /\ Doubts(p, k) -> "needs_confirmation"
      [] OTHER -> "eligible"

ScreenCandidates(p) == [k \in Kinds |-> Candidate(p, k)]
EligibleKinds == {k \in Kinds : screened[k] = "eligible"}
-----------------------------------------------------------------------------
(* The execution record.                                                     *)

TestResults == {"untested", "supported", "not_supported", "inconclusive"}
ExecutionStatus == {"planned", "running", "evidence_collected", "supported", "not_supported",
                    "inconclusive", "partial", "failed", "cancelled"}
FinalExecution == {"supported", "not_supported", "inconclusive", "failed", "cancelled"}
Ended == {"completed", "blocked", "failed", "cancelled"}

Unbound == [bound |-> 0, status |-> "planned", called |-> FALSE, found |-> "untested",
            outcome |-> "untested"]
Tested(e) == e.found # "untested"

RebindStatus(e) ==
    IF Tested(e) THEN "evidence_collected"
    ELSE IF e.status = "partial" THEN "planned"
    ELSE IF e.called THEN "running" ELSE "planned"

\* bind_hypothesis_to_plan: the record follows the step into plan version v.
BindToPlan(e, v) ==
    IF e.status \in FinalExecution THEN e
    ELSE [e EXCEPT !.bound = v, !.status = RebindStatus(e), !.outcome = "untested"]

\* Calls of another step than the bound one leave the record alone.
Moves(e, v) == e.bound = v /\ e.status \notin FinalExecution

InvocationStarted(e, v) ==
    IF Moves(e, v) THEN [e EXCEPT !.status = "running", !.called = TRUE] ELSE e
InvocationFailed(e, v) ==
    IF Moves(e, v) THEN [e EXCEPT !.status = "partial"] ELSE e
EvidenceCollected(e, v, o) ==
    IF Moves(e, v) THEN [e EXCEPT !.status = "evidence_collected", !.called = TRUE,
                                  !.found = o, !.outcome = "untested"]
    ELSE e

\* Mutant: whatever the run came to, the evidence decides.
FinalizeOnEvidence(e, st) ==
    IF e.bound = 0 \/ st \notin Ended THEN e ELSE
    CASE st = "cancelled" -> [e EXCEPT !.status = "cancelled"]
      [] st \in Ended \ {"cancelled"} /\ Tested(e) ->
             [e EXCEPT !.status = e.found, !.outcome = e.found]
      [] OTHER -> [e EXCEPT !.status = "failed", !.outcome = "untested"]

(* finalize_hypothesis_execution.  A run is completed by the transition that *)
(* records the verdict PASS, and by no other.                                *)
Finalize(e, st) ==
    IF e.bound = 0 \/ st \notin Ended THEN e ELSE
    CASE st = "cancelled" ->
             [e EXCEPT !.status = "cancelled",
                       !.outcome = IF Tested(e) THEN "inconclusive" ELSE "untested"]
      [] st = "completed" /\ Tested(e) ->
             [e EXCEPT !.status = e.found, !.outcome = e.found]
      [] st \in {"blocked", "failed"} /\ Tested(e) ->
             [e EXCEPT !.status = "partial", !.outcome = "inconclusive"]
      [] OTHER -> [e EXCEPT !.status = "failed", !.outcome = "untested"]
-----------------------------------------------------------------------------
(* The follow-up.                                                            *)

Undecided == [decision |-> "none", candidate |-> Unselected]
Decisions == {"none", "stop", "degrade", "supplement_evidence", "propose_next"}

Others == EligibleKinds \ {chosen}
First(K) == CHOOSE k \in K : \A l \in K : Priority[k] <= Priority[l]

\* decide_hypothesis_followup, of the values the transaction has written.
Decide(e, st, v, node) ==
    LET callsLeft == tests' < MaxTests
        replansLeft == v - e.bound < MaxReplans
        only(d) == [decision |-> d, candidate |-> Unselected]
    IN  IF st = "cancelled" \/ e.status = "cancelled" \/ node # "completed"
        THEN only("stop")
        ELSE IF e.status = "supported" THEN only("stop")
        ELSE IF e.status = "not_supported"
        THEN IF callsLeft /\ replansLeft /\ Others # {}
             THEN [decision |-> "propose_next", candidate |-> First(Others)]
             ELSE only("stop")
        ELSE IF observed' = "retryable" /\ callsLeft /\ replansLeft
        THEN [decision |-> "supplement_evidence", candidate |-> chosen]
        ELSE only("degrade")

(* _merged_snapshot, part of every write of the run: the record is finalised *)
(* and a follow-up decided when the run has ended; a decided one is kept.    *)
Merge(e) ==
    /\ record' = Finalize(e, state')
    /\ followup' = IF followup # Undecided THEN followup
                   ELSE IF record'.bound = 0 \/ state' \notin Ended THEN Undecided
                   ELSE Decide(record', state', planned', tree')
-----------------------------------------------------------------------------
(* The run waits for the user to choose among the eligible candidates.       *)
HypInit ==
    /\ \E p \in Profiles : screened = ScreenCandidates(p)
    /\ chosen = Unselected
    /\ state = "waiting_user"
    /\ planned = 1
    /\ step = "absent"
    /\ calling = 0
    /\ tests = 0
    /\ unrecovered = {}
    /\ observed = "none"
    /\ evidence = "untested"
    /\ tree = "active"
    /\ record = Unbound
    /\ followup = Undecided

SelectCandidate(k) ==
    /\ state = "waiting_user"
    /\ k \in EligibleKinds
    /\ chosen' = k
    /\ state' = "planning"
    /\ UNCHANGED <<screened, planned, step, stepVars, tree>>
    /\ Merge(record)

\* The outline of the selected hypothesis has one step, of its capability.
SaveOutline ==
    /\ state = "planning"
    /\ step = "absent"
    /\ planned' = planned + 1
    /\ step' = "pending"
    /\ UNCHANGED <<screened, chosen, state, stepVars, tree>>
    /\ Merge(BindToPlan(record, planned'))

RunOutline ==
    /\ state = "planning"
    /\ step # "absent"
    /\ state' = "running"
    /\ UNCHANGED <<screened, chosen, planned, step, stepVars, tree>>
    /\ Merge(record)

StartTest ==
    /\ state = "running"
    /\ step \in {"pending", "failed", "blocked"}
    /\ tests < MaxTests
    /\ calling = 0
    /\ tests' = tests + 1
    /\ calling' = planned
    /\ step' = "running"
    /\ UNCHANGED <<screened, chosen, state, planned, unrecovered, observed, evidence, tree>>
    /\ Merge(InvocationStarted(record, planned))

\* A call of another step, or of none, takes from the same scope.
CallElsewhere ==
    /\ state = "running"
    /\ tests < MaxTests
    /\ tests' = tests + 1
    /\ UNCHANGED <<screened, chosen, state, planned, step, calling, unrecovered, observed,
                   evidence, tree>>
    /\ Merge(record)

CommitEvidence(o) ==
    /\ state = "running"
    /\ calling # 0
    /\ calling' = 0
    /\ step' = "completed"
    /\ observed' = "success"
    /\ evidence' = o
    /\ unrecovered' = unrecovered \ {calling}
    /\ UNCHANGED <<screened, chosen, state, planned, tests, tree>>
    /\ Merge(EvidenceCollected(record, calling, o))

CommitNoEvidence(o) ==
    /\ state = "running"
    /\ calling # 0
    /\ calling' = 0
    /\ step' = "failed"
    /\ observed' = o
    /\ unrecovered' = unrecovered \cup {calling}
    /\ UNCHANGED <<screened, chosen, state, planned, tests, evidence, tree>>
    /\ Merge(InvocationFailed(record, calling))

\* record_tool_rejection: no call is made, so there is none to recover.
RejectTest(o) ==
    /\ state = "running"
    /\ calling = 0
    /\ step \in {"pending", "failed", "blocked"}
    /\ step' = "failed"
    /\ observed' = o
    /\ UNCHANGED <<screened, chosen, state, planned, calling, tests, unrecovered, evidence,
                   tree>>
    /\ Merge(InvocationFailed(record, planned))

PauseTest ==
    /\ state = "running" /\ calling = 0
    /\ state' = "paused"
    /\ UNCHANGED <<screened, chosen, planned, step, stepVars, tree>>
    /\ Merge(record)

ResumeTest ==
    /\ state = "paused"
    /\ state' = "running"
    /\ UNCHANGED <<screened, chosen, planned, step, stepVars, tree>>
    /\ Merge(record)

\* revise_plan: the user edits the plan, and may skip the hypothesis step.
ReviseOutline(st) ==
    /\ state = "paused"
    /\ planned < MaxPlanned
    /\ st \in {"pending", "skipped"}
    /\ planned' = planned + 1
    /\ step' = IF step \in {"completed", "skipped"} THEN step ELSE st
    /\ UNCHANGED <<screened, chosen, state, stepVars, tree>>
    /\ Merge(BindToPlan(record, planned'))

\* retry_step writes a plan version of its own, with new step rows.
RetryTest ==
    /\ state = "paused"
    /\ planned < MaxPlanned
    /\ step \in {"failed", "blocked"}
    /\ planned' = planned + 1
    /\ step' = "pending"
    /\ state' = "running"
    /\ UNCHANGED <<screened, chosen, stepVars, tree>>
    /\ Merge(record)

(* The verdict.  PASS demands a finished plan without a failure that no      *)
(* later success of the same step row made good.                             *)
PassTest ==
    /\ state = "running" /\ calling = 0
    /\ step \in {"completed", "skipped"}
    /\ unrecovered = {}
    /\ state' = "completed"
    /\ tree' = "completed"
    /\ UNCHANGED <<screened, chosen, planned, step, stepVars>>
    /\ Merge(record)

EndTest(st) ==
    /\ state = "running" /\ calling = 0
    /\ st \in {"blocked", "failed"}
    /\ state' = st
    /\ tree' = "completed"
    /\ UNCHANGED <<screened, chosen, planned, step, stepVars>>
    /\ Merge(record)

\* The outcome of an executing call is unknown from here on.
AbandonTest(st, node) ==
    /\ state \notin Ended
    /\ state' = st
    /\ calling' = 0
    /\ step' = IF calling # 0 THEN "blocked" ELSE step
    /\ tree' = node
    /\ UNCHANGED <<screened, chosen, planned, tests, unrecovered, observed, evidence>>
    /\ Merge(record)

TerminateTest(st) ==
    /\ st \in {"failed", "cancelled"}
    /\ AbandonTest(st, IF calling # 0 THEN "cancel_requested" ELSE "completed")

CancelTest == AbandonTest("cancelled", "cancel_requested")

\* record_user_feedback writes an ended run once more.
Feedback ==
    /\ state \in Ended
    /\ UNCHANGED <<screened, chosen, state, planned, step, stepVars, tree>>
    /\ Merge(record)

HypNext ==
    \/ \E k \in Kinds : SelectCandidate(k)
    \/ SaveOutline
    \/ RunOutline
    \/ StartTest
    \/ CallElsewhere
    \/ \E o \in TestResults \ {"untested"} : CommitEvidence(o)
    \/ \E o \in {"retryable", "final"} : CommitNoEvidence(o) \/ RejectTest(o)
    \/ PauseTest
    \/ ResumeTest
    \/ \E st \in {"pending", "skipped"} : ReviseOutline(st)
    \/ RetryTest
    \/ PassTest
    \/ \E st \in {"blocked", "failed"} : EndTest(st)
    \/ \E st \in {"failed", "cancelled"} : TerminateTest(st)
    \/ CancelTest
    \/ Feedback

HypSpec == HypInit /\ [][HypNext]_hypVars
-----------------------------------------------------------------------------
HypTypeOK ==
    /\ screened \in [Kinds -> {"eligible", "needs_confirmation", "rejected"}]
    /\ chosen \in Kinds \cup {Unselected}
    /\ state \in {"waiting_user", "planning", "running", "paused"} \cup Ended
    /\ planned \in 1..MaxPlanned + 1
    /\ step \in {"absent", "pending", "running", "completed", "skipped", "failed", "blocked"}
    /\ calling \in 0..planned
    /\ tests \in 0..MaxTests
    /\ unrecovered \subseteq 1..planned
    /\ observed \in {"none", "success", "retryable", "final"}
    /\ evidence \in TestResults
    /\ tree \in {"active", "completed", "cancel_requested"}
    /\ record \in [bound : 0..planned, status : ExecutionStatus, called : BOOLEAN,
                   found : TestResults, outcome : TestResults]
    /\ followup \in [decision : Decisions, candidate : Kinds \cup {Unselected}]

(* A conclusion is earned: the record calls the hypothesis supported or not  *)
(* supported only when the run was completed and verified and its evidence   *)
(* says exactly that, through any chain of failures, revisions and retries.  *)
Earned ==
    record.outcome \in {"supported", "not_supported"} =>
        state = "completed" /\ evidence = record.outcome

(* What is offered to the user after the run can still be done: only when no *)
(* call of the run may still be executing, within what its scope leaves, and *)
(* for the same candidate only while it has no evidence that settles it.     *)
Offerable ==
    followup.candidate # Unselected =>
        /\ tree = "completed"
        /\ tests < MaxTests
        /\ screened[followup.candidate] = "eligible"
        /\ followup.candidate = chosen => evidence \in {"untested", "inconclusive"}

HypothesisSound == HypTypeOK /\ Earned /\ Offerable

(* "Without evidence: failed" (docs/v2.5): evidence the ledger holds for the *)
(* hypothesis step always reaches the record, so a record of an ended run    *)
(* says failed only when there is none.                                      *)
FailedHasNoEvidence == record.status = "failed" => evidence = "untested"
=============================================================================
