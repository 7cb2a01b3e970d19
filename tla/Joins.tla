------------------------------- MODULE Joins -------------------------------
(* A run that is to join two data sets: the questions that close what the    *)
(* request leaves open (agent_loop._blocking_clarification), the arguments   *)
(* the host pins (_enrich_tool_arguments), the guard that wants the evidence *)
(* of a preflight (control/join_collaboration.py), the reuse and refusal of  *)
(* repeated calls, and what the page shows of the join.  Hosts pause, crash  *)
(* and are replaced; a new host reads the request again.                     *)
EXTENDS Naturals, Sequences

CONSTANTS
    Namable,      \* what may be named for each part of a join
    Unnamed,         \* a part that is not named, or named in two ways
    Verdicts,     \* what preflights may find: functions on arguments
    MaxJoinCalls, \* attempts the run may make
    MaxJoinData   \* bound of the model on data versions

VARIABLES
    goal,     \* the request
    text,     \* what the host last planned with
    askedFor, \* the part asked for, or NoPart
    run,      \* status of the run
    agent,     \* what its host does
    data,     \* data version of the run's branch
    joins,    \* the invocation rows of the two tools
    attempted,    \* attempts made
    retried,  \* the tool whose step the user retried, or NoPart
    verdict   \* what a preflight finds

joinVars == <<goal, text, askedFor, run, agent, data, joins, attempted, retried, verdict>>

JoinParts == {"join_datasets", "join_keys", "join_type"}
JoinTools == {"join_preflight", "join_datasets"}
NoPart == "none"
JoinValues == UNION {Namable[p] : p \in JoinParts}
Args == {a \in [JoinParts -> JoinValues] : \A p \in JoinParts : a[p] \in Namable[p]}
JoinTexts ==
    {t \in [JoinParts -> JoinValues \cup {Unnamed}] :
         \A p \in JoinParts : t[p] \in Namable[p] \cup {Unnamed}}

ASSUME JoinsAssumption ==
    /\ \A p \in JoinParts : Unnamed \notin Namable[p] /\ Namable[p] # {}
    /\ Verdicts \subseteq [Args -> {"ready", "requires_confirmation", "blocked"}]
    /\ MaxJoinCalls \in Nat /\ MaxJoinData \in Nat \ {0}
-----------------------------------------------------------------------------
(* The request.                                                              *)

(* The request and one answer in one text: a part named in two ways is as    *)
(* good as not named.  Earlier answers are not in it.                        *)
Combined(t, answer) ==
    [p \in JoinParts |->
        IF t[p] = Unnamed \/ t[p] = answer[p] THEN answer[p]
        ELSE IF answer[p] = Unnamed THEN t[p] ELSE Unnamed]

Clarification(t) ==
    IF t["join_datasets"] = Unnamed THEN "join_datasets"
    ELSE IF t["join_keys"] = Unnamed THEN "join_keys"
    ELSE IF t["join_type"] = Unnamed THEN "join_type" ELSE NoPart

\* The model proposes m; what the text names replaces it once the data sets are known.
Enriched(t, m) ==
    [p \in JoinParts |-> IF t["join_datasets"] = Unnamed \/ t[p] = Unnamed THEN m[p] ELSE t[p]]
-----------------------------------------------------------------------------
(* Evidence.  A succeeded row is evidence with the data version it was       *)
(* committed at and, for a preflight, its finding.                           *)

Rows(tool, a) == {i \in DOMAIN joins : joins[i].tool = tool /\ joins[i].args = a}
LastOf(S) == CHOOSE i \in S : \A j \in S : j <= i
Found(tool, a) == {i \in Rows(tool, a) : joins[i].status = "succeeded"}

\* Mutant: the data version of the preflight is not compared.
JoinGuardAnyVersion(a) ==
    LET found == Found("join_preflight", a) IN
    IF found = {} THEN "join_preflight_evidence_required"
    ELSE IF joins[LastOf(found)].finding = "blocked" THEN "join_preflight_blocked"
    ELSE "allowed"

JoinGuard(a) ==
    LET found == Found("join_preflight", a) IN
    IF found = {} THEN "join_preflight_evidence_required"
    ELSE IF joins[LastOf(found)].finding = "blocked" THEN "join_preflight_blocked"
    ELSE IF joins[LastOf(found)].data # data THEN "join_data_version_drift"
    ELSE "allowed"

Refusal(tool, a) == IF tool = "join_datasets" THEN JoinGuard(a) ELSE "allowed"

(* A call made for a retried step has a key of its own; any other is the     *)
(* same call as every earlier one with its tool and arguments.               *)
EarlierRows(tool, a) == {i \in Rows(tool, a) : retried = tool => joins[i].retry}
Reusable(tool, a) ==
    /\ EarlierRows(tool, a) # {}
    /\ joins[LastOf(EarlierRows(tool, a))].status = "succeeded"
    /\ Refusal(tool, a) = "allowed"

Row(tool, a, status) ==
    [tool |-> tool, args |-> a, retry |-> retried = tool, data |-> data, status |-> status,
     finding |-> "none"]
Calling == \E i \in DOMAIN joins : joins[i].status = "running"

(* What the page shows: of the latest preflight and the last execution with  *)
(* its arguments.                                                            *)
JoinStatus ==
    LET preflights == {i \in DOMAIN joins : joins[i].tool = "join_preflight"
                                            /\ joins[i].status = "succeeded"}
        p == joins[LastOf(preflights)]
        tries == Rows("join_datasets", p.args)
    IN IF preflights = {} THEN NoPart
       ELSE IF Found("join_datasets", p.args) # {} THEN "completed"
       ELSE IF tries # {} /\ joins[LastOf(tries)].status \in {"failed", "unknown"} THEN "failed"
       ELSE IF p.data # data THEN "version_drift"
       ELSE IF p.finding = "blocked" THEN "blocked"
       ELSE IF tries # {} /\ joins[LastOf(tries)].status = "running" THEN "executing"
       ELSE "preflight_ready"
-----------------------------------------------------------------------------
JoinInit ==
    /\ goal \in JoinTexts /\ text = goal
    /\ verdict \in Verdicts
    /\ askedFor = NoPart
    /\ run = "planning" /\ agent = "fresh"
    /\ data = 1
    /\ joins = <<>> /\ attempted = 0
    /\ retried = NoPart

(* A plan is saved; it starts or asks.  A host that asks awaits the answer,  *)
(* except when it asks for the second time: then it returns.                 *)
PlanJoin ==
    /\ run = "planning" /\ agent \in {"fresh", "again"}
    /\ askedFor' = Clarification(text)
    /\ IF askedFor' = NoPart
       THEN run' = "running" /\ agent' = "working"
       ELSE run' = "waiting_user" /\ agent' = IF agent = "fresh" THEN "awaiting" ELSE "none"
    /\ UNCHANGED <<goal, text, data, joins, attempted, retried, verdict>>

(* The answer wakes the host that awaits it or brings a new one; either      *)
(* plans with the request and this answer.                                   *)
AnswerJoin(a) ==
    /\ run = "waiting_user"
    /\ run' = "planning"
    /\ text' = Combined(goal, a)
    /\ agent' = IF agent = "awaiting" THEN "again" ELSE "fresh"
    /\ UNCHANGED <<goal, askedFor, data, joins, attempted, retried, verdict>>

Working == run = "running" /\ agent = "working" /\ ~Calling

(* A call of the model, up to its row.  A reused or repeated call has none;  *)
(* a call the guard refuses has a failed one, and ends the run when no later *)
(* call of the run could be allowed.                                         *)
ProposeJoin(tool, m) ==
    LET a == Enriched(text, m) IN
    /\ Working
    /\ attempted < MaxJoinCalls
    /\ ~Reusable(tool, a)
    /\ attempted' = attempted + 1
    /\ IF EarlierRows(tool, a) # {} THEN UNCHANGED <<joins, run, agent>>
       ELSE IF Refusal(tool, a) = "allowed"
       THEN joins' = Append(joins, Row(tool, a, "running")) /\ UNCHANGED <<run, agent>>
       ELSE /\ joins' = Append(joins, Row(tool, a, "failed"))
            /\ IF Refusal(tool, a) = "join_preflight_evidence_required"
               THEN UNCHANGED <<run, agent>> ELSE run' = "blocked" /\ agent' = "none"
    /\ UNCHANGED <<goal, text, askedFor, data, retried, verdict>>

\* What the files say of a join; join_datasets repeats the preflight and finds the same.
Finding(a) == verdict[a]
Joinable(a) == Finding(a) # "blocked"

(* The tool ends.  join_datasets makes its own preflight first and removes   *)
(* its output when it cannot stand by it; its result is a new data version.  *)
FinishJoin(good) ==
    /\ run = "running" /\ agent = "working" /\ Calling
    /\ LET i == Len(joins)
           done == [joins[i] EXCEPT !.status = IF good THEN "succeeded" ELSE "failed",
                                    !.finding = IF good THEN Finding(joins[i].args) ELSE "none"]
           derives == good /\ joins[i].tool = "join_datasets"
       IN /\ derives => Joinable(joins[i].args) /\ data < MaxJoinData
          /\ joins' = [joins EXCEPT ![i] = done]
          /\ data' = IF derives THEN data + 1 ELSE data
    /\ UNCHANGED <<goal, text, askedFor, run, agent, attempted, retried, verdict>>

\* Another tool derives a data set.
DeriveOther ==
    /\ Working
    /\ attempted < MaxJoinCalls /\ data < MaxJoinData
    /\ attempted' = attempted + 1
    /\ data' = data + 1
    /\ UNCHANGED <<goal, text, askedFor, run, agent, joins, retried, verdict>>

PauseJoin ==
    /\ run = "running" /\ ~Calling
    /\ run' = "paused"
    /\ UNCHANGED <<goal, text, askedFor, agent, data, joins, attempted, retried, verdict>>

\* A new host of a resumed run has the request alone.
Continue == agent' = "working" /\ text' = IF agent = "none" THEN goal ELSE text

ResumeJoin ==
    /\ run = "paused"
    /\ run' = "running"
    /\ Continue
    /\ UNCHANGED <<goal, askedFor, data, joins, attempted, retried, verdict>>

(* The user retries the step of a tool whose last call failed.               *)
RetryJoin(tool) ==
    /\ run = "paused" /\ retried = NoPart
    /\ \E i \in DOMAIN joins :
           /\ joins[i].tool = tool /\ joins[i].status = "failed"
           /\ \A j \in DOMAIN joins : j > i => joins[j].tool # tool
    /\ retried' = tool
    /\ run' = "running"
    /\ Continue
    /\ UNCHANGED <<goal, askedFor, data, joins, attempted, verdict>>

(* The process dies and recovery parks the run or ends it: an executing call *)
(* has an unknown outcome, a run in planning cannot go on.                   *)
CrashJoin ==
    /\ agent # "none"
    /\ agent' = "none"
    /\ run' = IF run = "planning" \/ Calling THEN "failed"
              ELSE IF run = "running" THEN "paused" ELSE run
    /\ joins' = [i \in DOMAIN joins |->
                    IF joins[i].status = "running" THEN [joins[i] EXCEPT !.status = "unknown"]
                    ELSE joins[i]]
    /\ UNCHANGED <<goal, text, askedFor, data, attempted, retried, verdict>>

CompleteJoin ==
    /\ Working
    /\ run' = "completed" /\ agent' = "none"
    /\ UNCHANGED <<goal, text, askedFor, data, joins, attempted, retried, verdict>>

JoinNext ==
    \/ PlanJoin
    \/ \E a \in JoinTexts : AnswerJoin(a)
    \/ \E tool \in JoinTools, m \in Args : ProposeJoin(tool, m)
    \/ \E good \in BOOLEAN : FinishJoin(good)
    \/ DeriveOther
    \/ PauseJoin
    \/ ResumeJoin
    \/ \E tool \in JoinTools : RetryJoin(tool)
    \/ CrashJoin
    \/ CompleteJoin

JoinSpec == JoinInit /\ [][JoinNext]_joinVars
-----------------------------------------------------------------------------
JoinTypeOK ==
    /\ goal \in JoinTexts /\ text \in JoinTexts
    /\ askedFor \in JoinParts \cup {NoPart}
    /\ run \in {"planning", "waiting_user", "running", "paused", "blocked", "failed", "completed"}
    /\ agent \in {"none", "fresh", "again", "awaiting", "working"}
    /\ data \in 1..MaxJoinData
    /\ attempted \in 0..MaxJoinCalls
    /\ Len(joins) <= attempted
    /\ \A i \in DOMAIN joins :
           /\ joins[i].tool \in JoinTools /\ joins[i].args \in Args
           /\ joins[i].status \in {"running", "succeeded", "failed", "unknown"}
    /\ retried \in JoinTools \cup {NoPart}

(* A join is made of what a preflight has seen: every derived data set comes *)
(* from a call whose very arguments a preflight of the run found possible on *)
(* the data of the moment, and no data set is derived twice by the same call *)
(* of the model, through pauses, crashes, resumed hosts and other changes of *)
(* the data.                                                                 *)
JoinsGoverned ==
    \A i \in DOMAIN joins :
        joins[i].tool = "join_datasets"
        /\ joins[i].status \in {"running", "succeeded", "unknown"} =>
            /\ \E j \in 1..i - 1 :
                   /\ joins[j].tool = "join_preflight" /\ joins[j].status = "succeeded"
                   /\ joins[j].args = joins[i].args /\ joins[j].data = joins[i].data
                   /\ joins[j].finding # "blocked"
            /\ \A j \in 1..i - 1 :
                   joins[j].tool = "join_datasets" /\ joins[j].args = joins[i].args
                   /\ joins[j].status # "failed" => joins[i].retry /\ ~joins[j].retry

(* "preflight_ready" on the page means it: the host would start a join with  *)
(* these arguments now, neither refused nor taken for a repetition.          *)
ReadyIsReady ==
    JoinStatus = "preflight_ready" =>
        \E a \in Args :
            /\ Found("join_preflight", a) # {} /\ JoinGuard(a) = "allowed"
            /\ Rows("join_datasets", a) = {}

JoinsSound == JoinsGoverned /\ ReadyIsReady
=============================================================================
