------------------------------ MODULE AgentTurn ------------------------------
(* The rounds of a hosted run (_stream_agent_chat_inner and                  *)
(* _try_execute_parallel_frontier, orchestrator/agent_loop.py): what the     *)
(* host sends to the model, what it does with the tool calls it gets back    *)
(* and what it counts.  TaskRun is about the rows of the run; here they are  *)
(* what a host that takes over has to go on from.                            *)
EXTENDS Naturals, Sequences, FiniteSets

CONSTANTS
    Signatures,     \* a tool and its arguments: business_invocation_key
    Parallel,       \* those the frontier takes: read-only, idempotent, of little risk
    MaxTurnCalls,   \* AgentLoopConfig
    MaxInvalid,     \* max_invalid_tool_calls
    MaxTurnRounds,  \* max_model_rounds
    MaxBatch,       \* bound: tool calls of a response
    Issues,         \* kinds of verification issues that may be retried once
    MaxTurnPlans,   \* bound: plan versions
    MaxHosts        \* bound: hosts of the run, one after the other

ASSUME TurnAssumption ==
    /\ Parallel \subseteq Signatures
    /\ MaxTurnCalls \in Nat \ {0} /\ MaxInvalid \in Nat \ {0}
    /\ MaxTurnRounds \in Nat \ {0} /\ MaxBatch \in Nat \ {0}
    /\ MaxTurnPlans \in Nat \ {0} /\ MaxHosts \in Nat \ {0}

VARIABLES
    turnStatus,   \* of the run: task_runs
    plan,         \* its plan version
    invocation,   \* tool_invocations
    usage,        \* the counts a transition stored last
    refused,      \* stored events _count_invalid_tool_events counts
    hosts,        \* hosts so far
    stage,        \* where the host is
    round,        \* _round
    copy,         \* the plan version of the host's copy of the run
    offered,      \* offered_plan_version
    enabled,      \* tools_enabled: the model was sent the tools
    allowed,      \* tools_allowed
    attempts,     \* attempts_used
    invalid,      \* invalid_attempts_used
    made,         \* signature_counts
    batch,        \* the tool calls of the last response
    answers,      \* the tool messages of working that answer each of them
    index,        \* the call it is at
    tried         \* verification issues it has sent back to the model

countVars == <<enabled, allowed, attempts, invalid, made>>
storedVars == <<turnStatus, plan, invocation, usage, refused, hosts>>
roundVars == <<round, copy, offered>>
batchVars == <<batch, answers, index>>
turnVars == <<storedVars, stage, roundVars, countVars, batchVars, tried>>
-----------------------------------------------------------------------------
CallOutcomes == {"none", "running", "succeeded", "failed", "unknown"}
Stages == {"down", "top", "model", "frontier", "call", "decide", "refused", "executing",
           "batch", "verify", "final", "over"}

TurnTypeOK ==
    /\ turnStatus \in {"running", "verifying", "completed", "blocked", "failed"}
    /\ plan \in 1..MaxTurnPlans /\ hosts \in 0..MaxHosts
    /\ invocation \in [Signatures -> CallOutcomes]
    /\ stage \in Stages
    /\ round \in 0..MaxTurnRounds /\ copy \in 0..plan /\ offered \in 0..plan
    /\ made \subseteq Signatures /\ tried \subseteq Issues
    /\ batch \in Seq(Signatures) /\ Len(batch) <= MaxBatch
    /\ answers \in [DOMAIN batch -> Nat]

With(outcome) == {s \in Signatures : invocation[s] = outcome}
Invoked == Signatures \ With("none")
Unsettled == With("running") \cup With("unknown")

TurnInit ==
    /\ turnStatus = "running" /\ plan = 1
    /\ invocation = [s \in Signatures |-> "none"]
    /\ usage = [attempts |-> 0, invalid |-> 0] /\ refused = 0
    /\ hosts = 0 /\ stage = "down"
    /\ round = 0 /\ copy = 0 /\ offered = 0
    /\ enabled = FALSE /\ allowed = FALSE /\ attempts = 0 /\ invalid = 0 /\ made = {}
    /\ batch = <<>> /\ answers = <<>> /\ index = 1
    /\ tried = {}

Larger(m, n) == IF m < n THEN n ELSE m
-----------------------------------------------------------------------------
(* A host starts the run, or takes it over: it counts what is stored.  What  *)
(* it puts into signature_counts then has keys of another form than those it *)
(* is asked for.                                                             *)
Open ==
    /\ stage = "down" /\ turnStatus = "running" /\ hosts < MaxHosts
    /\ hosts' = hosts + 1
    /\ attempts' = Larger(usage.attempts, Cardinality(Invoked))
    /\ invalid' = Larger(usage.invalid, refused)
    /\ allowed' = (attempts' < MaxTurnCalls /\ invalid' < MaxInvalid)
    /\ enabled' = FALSE /\ made' = {}
    /\ round' = 0 /\ copy' = plan /\ offered' = 0
    /\ batch' = <<>> /\ answers' = <<>> /\ index' = 1
    /\ tried' = {}
    /\ stage' = "top"
    /\ UNCHANGED <<turnStatus, plan, invocation, usage, refused>>

(* The process dies, or the host leaves at a boundary: the next start fails  *)
(* a run that it cannot park (recover_stale_runs).                           *)
Down ==
    /\ stage \notin {"down", "over"}
    /\ stage' = "down"
    /\ turnStatus' = IF turnStatus = "running" /\ Unsettled = {} THEN turnStatus ELSE "failed"
    /\ UNCHANGED <<plan, invocation, usage, refused, hosts, roundVars, countVars, batchVars,
                   tried>>

(* The user pauses, revises the plan and resumes; refused while a call is    *)
(* open.                                                                     *)
Revise ==
    /\ turnStatus = "running" /\ Unsettled = {} /\ plan < MaxTurnPlans
    /\ plan' = plan + 1
    /\ UNCHANGED <<turnStatus, invocation, usage, refused, hosts, stage, roundVars, countVars,
                   batchVars, tried>>

(* A write fails, or the run has changed since the host read it; the model   *)
(* fails; the rounds are over.                                               *)
Ends(outcome) == turnStatus' = outcome /\ stage' = "over"

Fails ==
    /\ stage \notin {"down", "over", "batch", "executing"}
    /\ Unsettled = {}
    /\ stage = "top" => round = MaxTurnRounds
    /\ Ends("failed")
    /\ UNCHANGED <<plan, invocation, usage, refused, hosts, roundVars, countVars, batchVars,
                   tried>>
-----------------------------------------------------------------------------
\* The boundary and the model's turn.
Ask ==
    /\ stage = "top" /\ round < MaxTurnRounds
    /\ round' = round + 1
    /\ copy' = plan /\ offered' = plan
    /\ enabled' = allowed
    /\ stage' = "model"
    /\ UNCHANGED <<storedVars, allowed, attempts, invalid, made, batchVars, tried>>

\* The model calls tools, whether it was offered any or not.
CallTools(b) ==
    /\ stage = "model"
    /\ copy' = plan
    /\ batch' = b /\ answers' = [i \in DOMAIN b |-> 0] /\ index' = 1
    /\ stage' = "frontier"
    /\ UNCHANGED <<storedVars, round, offered, countVars, tried>>

\* It answers: the transition to verifying stores the counts.
Answers ==
    /\ stage = "model"
    /\ copy' = plan
    /\ turnStatus' = "verifying"
    /\ usage' = [attempts |-> attempts, invalid |-> invalid]
    /\ batch' = <<>> /\ answers' = <<>> /\ index' = 1
    /\ stage' = "verify"
    /\ UNCHANGED <<plan, invocation, refused, hosts, round, offered, countVars, tried>>
-----------------------------------------------------------------------------
DistinctCalls(b) == \A i, j \in DOMAIN b : i # j => b[i] # b[j]
Called == {batch[i] : i \in DOMAIN batch}

(* The frontier: all calls of the response at once, when the model was       *)
(* offered a step for each and none is new to the budget or known already.   *)
TakesFrontier ==
    /\ Len(batch) >= 2 /\ DistinctCalls(batch)
    /\ enabled
    /\ Called \subseteq Parallel \cap With("none")
    /\ Called \cap made = {}
    /\ attempts + Len(batch) <= MaxTurnCalls
    /\ Cardinality(Invoked) + Len(batch) <= MaxTurnCalls

Reserve ==
    /\ stage = "frontier" /\ TakesFrontier
    /\ copy = plan
    /\ invocation' = [s \in Signatures |-> IF s \in Called THEN "running" ELSE invocation[s]]
    /\ made' = made \cup Called
    /\ stage' = "batch"
    /\ UNCHANGED <<turnStatus, plan, usage, refused, hosts, roundVars, enabled, allowed, attempts,
                   invalid, batchVars, tried>>

\* _try_execute_parallel_frontier returns None.
OneByOne ==
    /\ stage = "frontier"
    /\ stage' = "call"
    /\ UNCHANGED <<storedVars, roundVars, countVars, batchVars, tried>>

AddAnswer(i) == answers' = [answers EXCEPT ![i] = @ + 1]
SetOutcome(s, outcome) == invocation' = [invocation EXCEPT ![s] = outcome]

\* The results are committed in the order of the calls.
CommitNext(outcome) ==
    /\ stage = "batch" /\ index \in DOMAIN batch
    /\ SetOutcome(batch[index], outcome)
    /\ AddAnswer(index)
    /\ index' = index + 1
    /\ UNCHANGED <<turnStatus, plan, usage, refused, hosts, stage, roundVars, countVars, batch,
                   tried>>

\* The last result is in: an unknown one ends the run.
EndBatch ==
    /\ stage = "batch" /\ index > Len(batch)
    /\ attempts' = attempts + Len(batch)
    /\ allowed' = (allowed /\ attempts' < MaxTurnCalls)
    /\ IF With("unknown") = {} THEN stage' = "top" /\ UNCHANGED turnStatus ELSE Ends("blocked")
    /\ UNCHANGED <<plan, invocation, usage, refused, hosts, roundVars, enabled, invalid, made,
                   batchVars, tried>>
-----------------------------------------------------------------------------
\* Mutant: the calls after the first that a new plan supersedes get no message.
SupersededOnce(i) == [j \in DOMAIN batch |-> IF j = i THEN answers[j] + 1 ELSE answers[j]]

\* The calls that a new plan supersedes, from call_index on.
SupersededFrom(i) == [j \in DOMAIN batch |-> IF j >= i THEN answers[j] + 1 ELSE answers[j]]

\* The boundary before each call.
NextCall ==
    /\ stage = "call" /\ index \in DOMAIN batch
    /\ copy' = plan
    /\ IF plan # offered THEN answers' = SupersededFrom(index) /\ stage' = "top"
       ELSE stage' = "decide" /\ UNCHANGED answers
    /\ UNCHANGED <<storedVars, round, offered, countVars, batch, index, tried>>

LastCall ==
    /\ stage = "call" /\ index > Len(batch)
    /\ stage' = "top"
    /\ UNCHANGED <<storedVars, roundVars, countVars, batchVars, tried>>

Known(s) == invocation[s] # "none" \/ s \in made

\* A call that has succeeded before answers with what it has shown then.
Reuse ==
    /\ stage = "decide" /\ invocation[batch[index]] = "succeeded"
    /\ AddAnswer(index) /\ index' = index + 1
    /\ stage' = "call"
    /\ UNCHANGED <<storedVars, roundVars, countVars, batch, tried>>

\* The attempt is counted, an invalid one as such.
Counts(valid) ==
    /\ attempts' = attempts + 1
    /\ invalid' = IF valid THEN invalid ELSE invalid + 1
    /\ made' = made \cup {batch[index]}
    /\ UNCHANGED enabled

Withdrawn == attempts' >= MaxTurnCalls \/ invalid' >= MaxInvalid

(* record_tool_rejection: over the budget, known already, or of a data role  *)
(* that does not fit; the first is not counted as invalid.                   *)
Rejects(counted, stops) ==
    /\ copy = plan
    /\ Counts(~counted)
    /\ refused' = IF counted THEN refused + 1 ELSE refused
    /\ allowed' = (allowed /\ ~stops /\ ~Withdrawn)
    /\ AddAnswer(index) /\ index' = index + 1
    /\ stage' = "call"
    /\ UNCHANGED <<turnStatus, plan, invocation, usage, hosts, roundVars, batch, tried>>

RejectOverBudget == stage = "decide" /\ attempts >= MaxTurnCalls /\ Rejects(FALSE, TRUE)

RejectDuplicate ==
    /\ stage = "decide" /\ attempts < MaxTurnCalls
    /\ Known(batch[index])
    /\ Rejects(TRUE, TRUE)

Fresh == stage = "decide" /\ attempts < MaxTurnCalls /\ ~Known(batch[index])

RejectDataRole == Fresh /\ invalid < MaxInvalid /\ Rejects(TRUE, FALSE)

(* start_invocation_with_event: also for a call that is over the limit of    *)
(* invalid ones or that a policy, a scope or a guard refuses, which fails in *)
(* a transaction of its own.                                                 *)
Starts(valid, place) ==
    /\ Fresh
    /\ copy = plan
    /\ SetOutcome(batch[index], "running")
    /\ Counts(valid)
    /\ allowed' = (allowed /\ ~Withdrawn)
    /\ stage' = place
    /\ UNCHANGED <<turnStatus, plan, usage, refused, hosts, roundVars, batchVars, tried>>

StartOverLimit == invalid >= MaxInvalid /\ Starts(TRUE, "refused")
StartRefused == invalid < MaxInvalid /\ Starts(FALSE, "refused")
Execute == invalid < MaxInvalid /\ Starts(TRUE, "executing")

\* A join guard's refusal ends the run.
Refuse(guard) ==
    /\ stage = "refused"
    /\ SetOutcome(batch[index], "failed")
    /\ refused' = refused + 1
    /\ AddAnswer(index) /\ index' = index + 1
    /\ IF guard THEN Ends("blocked") ELSE stage' = "call" /\ UNCHANGED turnStatus
    /\ UNCHANGED <<plan, usage, hosts, roundVars, countVars, batch, tried>>

\* _execute_tool, and the commit of what it returned.
Commit(outcome) ==
    /\ stage = "executing"
    /\ SetOutcome(batch[index], outcome)
    /\ AddAnswer(index) /\ index' = index + 1
    /\ IF outcome = "unknown" THEN Ends("blocked") ELSE stage' = "call" /\ UNCHANGED turnStatus
    /\ UNCHANGED <<plan, usage, refused, hosts, roundVars, countVars, batch, tried>>
-----------------------------------------------------------------------------
(* verify_completion: an issue goes back to the model once, while it has     *)
(* tools to resolve it with.                                                 *)
Retry(issue) ==
    /\ stage = "verify" /\ enabled /\ issue \notin tried
    /\ tried' = tried \cup {issue}
    /\ turnStatus' = "running"
    /\ usage' = [attempts |-> attempts, invalid |-> invalid]
    /\ stage' = "top"
    /\ UNCHANGED <<plan, invocation, refused, hosts, roundVars, countVars, batchVars>>

NotPassed(issue) ==
    /\ stage = "verify" /\ (enabled => issue \in tried)
    /\ \E outcome \in {"blocked", "failed"} : Ends(outcome)
    /\ usage' = [attempts |-> attempts, invalid |-> invalid]
    /\ UNCHANGED <<plan, invocation, refused, hosts, roundVars, countVars, batchVars, tried>>

Passed ==
    /\ stage = "verify"
    /\ stage' = "final"
    /\ UNCHANGED <<storedVars, roundVars, countVars, batchVars, tried>>

\* The answer is stored, and the run completed.
CompletesTurn ==
    /\ stage = "final"
    /\ Ends("completed")
    /\ usage' = [attempts |-> attempts, invalid |-> invalid]
    /\ UNCHANGED <<plan, invocation, refused, hosts, roundVars, countVars, batchVars, tried>>

Responses == UNION {[1..n -> Signatures] : n \in 1..MaxBatch}

TurnNext ==
    \/ Open \/ Down \/ Revise \/ Fails
    \/ Ask \/ Answers \/ \E b \in Responses : CallTools(b)
    \/ Reserve \/ OneByOne \/ EndBatch
    \/ NextCall \/ LastCall \/ Reuse
    \/ RejectOverBudget \/ RejectDuplicate \/ RejectDataRole
    \/ StartOverLimit \/ StartRefused \/ Execute
    \/ \E guard \in BOOLEAN : Refuse(guard)
    \/ \E outcome \in {"succeeded", "failed", "unknown"} : CommitNext(outcome) \/ Commit(outcome)
    \/ \E issue \in Issues : Retry(issue) \/ NotPassed(issue)
    \/ Passed \/ CompletesTurn

TurnSpec == TurnInit /\ [][TurnNext]_turnVars
-----------------------------------------------------------------------------
(* Every tool call of a response has exactly one tool message in what is     *)
(* sent to the model next: whether it was executed, reused, refused, run     *)
(* with others or superseded by a new plan.                                  *)
EveryCallAnswered == stage = "model" => \A i \in DOMAIN batch : answers[i] = 1

(* A host never counts less than what is stored, whichever host stored it:   *)
(* a run that is taken over does not get new attempts (agent_loop.py:2189),  *)
(* and the store never has to refuse a call the host allowed.                *)
CountsKept ==
    stage \notin {"down", "over", "batch"} =>
        /\ Cardinality(Invoked) <= attempts
        /\ refused <= invalid \/ invalid >= MaxInvalid

(* A turn neither drops a call's answer nor gives a run new attempts.        *)
TurnSound == EveryCallAnswered /\ CountsKept
=============================================================================
