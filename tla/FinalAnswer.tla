---------------------------- MODULE FinalAnswer ----------------------------
(* From the evidence of a run to its final answer: candidates of the model,  *)
(* their claims (control/claims.py, control/semantic_identity.py), the       *)
(* verification (control/verifier.py), the one more attempt each kind of     *)
(* issue has, the deterministic repair and the delivery                      *)
(* (agent_loop._stream_agent_chat_inner).  Hosts crash, users cancel.        *)
EXTENDS Naturals, FiniteSetsExt

CONSTANTS
    Findings,    \* numbers tools may find: records with tool, on, group, role and value
    DraftTexts,  \* texts a model may write: sets of records with figure, cites and denies
    Asked,       \* what may be asked: records with artifacts and total
    MaxRounds, MaxToolCalls, \* model turns of a host, tool calls of a run
    MaxAnswerers \* bound of the model: hosts of the run

VARIABLES
    request,    \* the contract, which only grows
    promised,   \* history: artifacts the model set out to make
    unfinished, \* steps of the plan
    facts, found, drawn, \* the evidence: numbers, results of searches, artifacts
    failed,     \* tools with a failed call that no later one made good
    spentCalls, \* tool calls used
    claims,     \* the claim rows of the run
    message,    \* the final message stored
    status,     \* of the run
    answerer,   \* what its host does
    answerers   \* hosts so far

runEvidence == <<facts, found, drawn, failed, spentCalls, unfinished>>
answerVars == <<request, promised, runEvidence, claims, message, status, answerer, answerers>>

Undisclosed == "none"
NoFigure == [on |-> Undisclosed, group |-> Undisclosed, role |-> Undisclosed, unit |-> 1, value |-> 0]
Plain == [figure |-> NoFigure, cites |-> FALSE, denies |-> FALSE]
Citation == [Plain EXCEPT !.cites = TRUE]
NoText == {}
Gone == [mode |-> "none", round |-> 0, spent |-> {}, tools |-> FALSE, text |-> NoText]

ASSUME AnswerAssumption ==
    /\ {MaxRounds, MaxToolCalls} \subseteq Nat /\ MaxAnswerers \in Nat \ {0}
    /\ Findings \subseteq [tool : {"table", "stats"}, on : STRING, group : STRING, role : STRING,
                           value : Int]
    /\ Asked \subseteq [artifacts : SUBSET {"chart"}, total : BOOLEAN]
-----------------------------------------------------------------------------
(* Figures and facts.  A figure names a data set or does not, and shows a    *)
(* value in its unit, rounded half up.                                       *)

Shows(figure, fact) == (fact.value + figure.unit \div 2) \div figure.unit = figure.value
Statistical(fact) == fact.tool = "stats"
Identity(fact) == [fact EXCEPT !.value = 0]

(* A figure that names its object names that of the fact.                    *)
SameObject(figure, fact) == figure.on \in {Undisclosed, fact.on}

(* A fact the figure may be about: nothing it names differs (a group that no *)
(* evidence knows does not count as named), and what is more than a plain    *)
(* measurement or a total is named.                                          *)
KnownGroup(figure) == IF \E f \in facts : f.group = figure.group THEN figure.group ELSE Undisclosed
Agrees(figure, fact) ==
    /\ SameObject(figure, fact)
    /\ KnownGroup(figure) = fact.group
    /\ IF figure.role \in {Undisclosed, "total"} THEN fact.role \in {"value", "total"}
       ELSE figure.role = fact.role

\* Mutant: statistics are told apart by their values, as other facts are.
CandidatesByValue(figure) == {f \in facts : Agrees(figure, f)}

Candidates(figure) ==
    LET all == {f \in facts : Agrees(figure, f)}
        statistics == {f \in all : Statistical(f)}
    IN IF \/ Cardinality({Identity(f) : f \in statistics}) > 1
          \/ statistics # {} /\ Cardinality({f.value : f \in all}) > 1
       THEN {} ELSE all

Proofs(figure) == {f \in Candidates(figure) : Shows(figure, f)}
Supported(figure) == Cardinality({Identity(f) : f \in Proofs(figure)}) = 1

Numeric(text) == {s.figure : s \in {t \in text : t.figure # NoFigure}}
Knowledge(text) ==
    IF found = {} \/ text = {} THEN "none"
    ELSE IF "hit" \in found
         THEN IF \E s \in text : s.cites THEN "supported" ELSE "unsupported"
         ELSE IF \E s \in text : s.denies THEN "supported" ELSE "unsupported"

ClaimsOf(text) ==
    [supported |-> {g \in Numeric(text) : Supported(g)},
     unsupported |-> {g \in Numeric(text) : ~Supported(g)},
     knowledge |-> Knowledge(text)]
NoClaims == [supported |-> {}, unsupported |-> {}, knowledge |-> "none"]
-----------------------------------------------------------------------------
(* verify_completion.                                                        *)

Totals == {f \in facts : f.role = "total"}
TotalIssues(rows) ==
    IF ~request.total THEN {}
    ELSE IF Cardinality({f.on : f \in Totals}) # 1 THEN {"missing_required_total_evidence"}
    ELSE IF \E g \in rows.supported : g.role = "total" /\ Proofs(g) \cap Totals # {} THEN {}
    ELSE {"missing_required_total_delivery"}

Issues(text, rows) ==
    TotalIssues(rows)
    \cup {i \in {"empty_response"} : text = {}}
    \cup {i \in {"incomplete_plan_steps"} : unfinished # {}}
    \cup {i \in {"missing_artifact"} : ~(request.artifacts \subseteq drawn)}
    \cup {i \in {"unrecovered_tool_failure"} : failed # {}}
    \cup {i \in {"unsupported_numeric_claim"} : rows.unsupported # {}}
    \cup {i \in {"unsupported_knowledge_claim"} : rows.knowledge = "unsupported"}

Exhausted == spentCalls >= MaxToolCalls
EndStatus(issues) ==
    IF ~Exhausted /\ "unrecovered_tool_failure" \in issues THEN "failed" ELSE "blocked"

(* The kind of issue that owns the decision on another attempt: each has one *)
(* per host.                                                                 *)
Concern(issues) ==
    CASE "missing_artifact" \in issues -> "artifact"
      [] "missing_artifact" \notin issues /\ TotalIssues(claims) \cap issues # {} -> "total"
      [] OTHER ->
         IF issues \cap {"unsupported_numeric_claim", "unsupported_knowledge_claim"} # {} THEN "claim"
         ELSE IF "incomplete_plan_steps" \in issues THEN "plan" ELSE "none"
Concerns == {"artifact", "total", "claim", "plan"}
Retries(issues) ==
    /\ issues # {} /\ answerer.tools
    /\ Concern(issues) \in Concerns \ answerer.spent

(* repair_candidate_with_evidence: unsupported figures go with their         *)
(* statements, a limitation comes, and sources if the knowledge was not      *)
(* supported and none is cited.                                              *)
Repaired(text, rows, fallback) ==
    LET bad == {s \in text : s.figure \in rows.unsupported}
        kept == IF text = bad THEN {fallback} ELSE text \ bad
        shorter == IF bad = {} THEN text ELSE kept \cup {Plain}
    IN IF rows.knowledge = "unsupported" /\ "hit" \in found /\ \A s \in shorter : ~s.cites
       THEN shorter \cup {Citation} ELSE shorter
Repairable(issues) == issues \cap {"unsupported_numeric_claim", "unsupported_knowledge_claim"} # {}
-----------------------------------------------------------------------------
FreshHost == [Gone EXCEPT !.mode = "turn", !.tools = ~Exhausted]

AnswerInit ==
    /\ request \in Asked /\ promised = {} /\ unfinished = {"analysis"}
    /\ facts = {} /\ found = {} /\ drawn = {} /\ failed = {} /\ spentCalls = 0
    /\ claims = NoClaims /\ message = NoText
    /\ status = "running" /\ answerer = FreshHost /\ answerers = 1

InRun(mode) == status = "running" /\ answerer.mode = mode
Verifying(mode) == status = "verifying" /\ answerer.mode = mode

(* A turn ends with a call or with a candidate.                              *)
Turn == InRun("turn") /\ answerer.round < MaxRounds

(* A call of a tool: its result becomes evidence and finishes the step, or   *)
(* it fails and stays failed until the tool succeeds.                        *)
Call(tool, ok) ==
    /\ spentCalls < MaxToolCalls
    /\ spentCalls' = spentCalls + 1
    /\ failed' = IF ok THEN failed \ {tool} ELSE failed \cup {tool}
    /\ unfinished' = IF ok THEN {} ELSE unfinished
    /\ answerer' = [answerer EXCEPT !.mode = "turn", !.round = @ + 1,
                                   !.tools = @ /\ spentCalls' < MaxToolCalls]
Rest == UNCHANGED <<request, promised, claims, message, status, answerers>>

Compute(fact, ok) ==
    /\ Turn /\ Call(fact.tool, ok)
    /\ facts' = IF ok THEN facts \cup {fact} ELSE facts
    /\ UNCHANGED <<found, drawn>> /\ Rest

Search(result) ==
    /\ Turn /\ Call("search", TRUE)
    /\ found' = found \cup {result}
    /\ UNCHANGED <<facts, drawn>> /\ Rest

\* Mutant: a chart the model sets out to draw is not written into the contract.
PromiseUnwritten ==
    /\ Turn /\ spentCalls < MaxToolCalls
    /\ promised' = promised \cup {"chart"}
    /\ answerer' = [answerer EXCEPT !.mode = "draw"]
    /\ UNCHANGED <<request, runEvidence, claims, message, status, answerers>>

(* A model that calls for a chart owes it from then on: the contract is         *)
(* written before the tool runs.                                             *)
Promise ==
    /\ Turn /\ spentCalls < MaxToolCalls
    /\ promised' = promised \cup {"chart"}
    /\ request' = [request EXCEPT !.artifacts = @ \cup {"chart"}]
    /\ answerer' = [answerer EXCEPT !.mode = "draw"]
    /\ UNCHANGED <<runEvidence, claims, message, status, answerers>>

Draw(ok) ==
    /\ InRun("draw") /\ Call("chart", ok)
    /\ drawn' = IF ok THEN drawn \cup {"chart"} ELSE drawn
    /\ UNCHANGED <<facts, found>> /\ Rest

(* A call that is repeated too often is refused and closes the tools.        *)
Break ==
    /\ Turn /\ answerer.tools
    /\ answerer' = [answerer EXCEPT !.round = @ + 1, !.tools = FALSE]
    /\ UNCHANGED runEvidence /\ Rest

Offer(text) ==
    /\ Turn
    /\ status' = "verifying"
    /\ answerer' = [answerer EXCEPT !.mode = "claim", !.round = @ + 1, !.text = text]
    /\ UNCHANGED <<request, promised, runEvidence, claims, message, answerers>>

WriteClaims ==
    /\ Verifying("claim")
    /\ claims' = ClaimsOf(answerer.text)
    /\ answerer' = [answerer EXCEPT !.mode = "judge"]
    /\ UNCHANGED <<request, promised, runEvidence, message, status, answerers>>

Now == Issues(answerer.text, claims)

Retry ==
    /\ Verifying("judge") /\ Retries(Now)
    /\ status' = "running"
    /\ answerer' = [answerer EXCEPT !.mode = "turn", !.spent = @ \cup {Concern(Now)}, !.text = NoText]
    /\ UNCHANGED <<request, promised, runEvidence, claims, message, answerers>>

\* Mutant: a repaired answer goes out without another look at it.
RepairUnverified(fallback) ==
    LET text == Repaired(answerer.text, claims, fallback)
    IN /\ Verifying("judge") /\ Repairable(Now) /\ ~Retries(Now)
       /\ claims' = ClaimsOf(text)
       /\ answerer' = [answerer EXCEPT !.mode = "deliver", !.text = text]
       /\ UNCHANGED <<request, promised, runEvidence, message, status, answerers>>

Repair(fallback) ==
    LET text == Repaired(answerer.text, claims, fallback)
    IN /\ Verifying("judge") /\ Repairable(Now) /\ ~Retries(Now)
       /\ claims' = ClaimsOf(text)
       /\ answerer' = [answerer EXCEPT !.mode = "last", !.text = text]
       /\ UNCHANGED <<request, promised, runEvidence, message, status, answerers>>

(* What neither another attempt nor a repair can help ends the run.          *)
Settled ==
    \/ Verifying("judge") /\ ~Retries(Now) /\ ~Repairable(Now)
    \/ Verifying("last")
Refuse ==
    /\ Settled /\ Now # {}
    /\ status' = EndStatus(Now) /\ answerer' = Gone
    /\ UNCHANGED <<request, promised, runEvidence, claims, message, answerers>>
Pass ==
    /\ Settled /\ Now = {}
    /\ answerer' = [answerer EXCEPT !.mode = "deliver"]
    /\ UNCHANGED <<request, promised, runEvidence, claims, message, status, answerers>>

(* The answer is stored before the run completes.                            *)
StoreMessage ==
    /\ Verifying("deliver")
    /\ message' = answerer.text
    /\ answerer' = [answerer EXCEPT !.mode = "stored"]
    /\ UNCHANGED <<request, promised, runEvidence, claims, status, answerers>>
Complete ==
    /\ Verifying("stored")
    /\ status' = "completed" /\ answerer' = Gone
    /\ UNCHANGED <<request, promised, runEvidence, claims, message, answerers>>

RoundLimit ==
    /\ InRun("turn") /\ answerer.round >= MaxRounds
    /\ status' = "failed" /\ answerer' = Gone
    /\ UNCHANGED <<request, promised, runEvidence, claims, message, answerers>>

(* A user cancels, a process crashes: what ran is paused, a verification is  *)
(* lost with the run.                                                        *)
EndEarly(by, end) ==
    /\ status \in by
    /\ status' = end /\ answerer' = Gone
    /\ UNCHANGED <<request, promised, runEvidence, claims, message, answerers>>
Resume ==
    /\ status = "paused" /\ answerers < MaxAnswerers
    /\ status' = "running" /\ answerer' = FreshHost /\ answerers' = answerers + 1
    /\ UNCHANGED <<request, promised, runEvidence, claims, message>>

AnswerNext ==
    \/ \E fact \in Findings, ok \in BOOLEAN : Compute(fact, ok)
    \/ \E result \in {"hit", "empty"} : Search(result)
    \/ Promise
    \/ \E ok \in BOOLEAN : Draw(ok)
    \/ Break
    \/ \E text \in DraftTexts : Offer(text)
    \/ WriteClaims
    \/ Retry
    \/ \E fallback \in UNION DraftTexts : Repair(fallback)
    \/ Refuse
    \/ Pass
    \/ StoreMessage
    \/ Complete
    \/ RoundLimit
    \/ EndEarly({"running", "paused", "verifying"}, "cancelled")
    \/ EndEarly({"running"}, "paused")
    \/ EndEarly({"verifying"}, "failed")
    \/ Resume

AnswerSpec == AnswerInit /\ [][AnswerNext]_answerVars
-----------------------------------------------------------------------------
Modes == {"none", "turn", "draw", "claim", "judge", "last", "deliver", "stored"}
Sayable == {Plain, Citation} \cup UNION DraftTexts

AnswerTypeOK ==
    /\ request \in [artifacts : SUBSET {"chart"}, total : BOOLEAN]
    /\ promised \subseteq {"chart"} /\ unfinished \subseteq {"analysis"}
    /\ facts \subseteq Findings /\ found \subseteq {"hit", "empty"} /\ drawn \subseteq {"chart"}
    /\ failed \subseteq {"table", "stats", "chart"} /\ spentCalls \in 0..MaxToolCalls
    /\ claims.knowledge \in {"none", "supported", "unsupported"}
    /\ status \in {"running", "verifying", "paused", "completed", "blocked", "failed", "cancelled"}
    /\ answerer \in [mode : Modes, round : 0..MaxRounds, spent : SUBSET Concerns, tools : BOOLEAN,
                    text : SUBSET Sayable]
    /\ message \subseteq Sayable /\ answerers \in 1..MaxAnswerers

(* One fact of the run says what the figure says, and no statistic the       *)
(* figure may mean as well says otherwise.                                   *)
Grounded(figure) ==
    \E fact \in facts :
        /\ Agrees(figure, fact) /\ Shows(figure, fact)
        /\ \A other \in facts :
               /\ Agrees(figure, other) /\ Shows(figure, other) => Identity(other) = Identity(fact)
               /\ Agrees(figure, other) /\ Statistical(other) => other = fact

(* The answer a user gets rests on the evidence of its run: each figure on   *)
(* one fact, knowledge on a source found or said to be missing, the total    *)
(* asked for on a total, and nothing the model set out to make, no step of   *)
(* the plan and no failure is left; its claims are the rows of the run.  A    *)
(* run that completes has one.                                               *)
AnswerSound ==
    /\ status = "completed" => message # NoText
    /\ message # NoText =>
          /\ \A figure \in Numeric(message) : Grounded(figure)
          /\ "hit" \in found => \E s \in message : s.cites
          /\ found = {"empty"} => \E s \in message : s.denies
          /\ request.total => \E s \in message : s.figure.role = "total"
          /\ promised \cup request.artifacts \subseteq drawn
          /\ unfinished = {} /\ failed = {}
          /\ claims = ClaimsOf(message)

=============================================================================
