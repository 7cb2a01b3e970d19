---------------------------- MODULE TaskOutline ----------------------------
(* From a request to a plan (request_intent.py, contracts.py,                *)
(* task_outline.py, task_plan_contract.py).  A contract says what artifacts  *)
(* the run must show, an outline what steps it takes; each is read off the   *)
(* words of the request, by rules of its own, and a plan that does not serve *)
(* the contract fails the run.  A word stands for a group of tokens that the *)
(* rules tell apart; "graph" is one that only the contract knows, "figure"   *)
(* one that only the outline knows, "nochart" refuses a chart.               *)
EXTENDS Naturals, Sequences, FiniteSets

CONSTANTS
    Requests,     \* requests: sets of words
    Histories,    \* types of the artifacts of a conversation: sets of them
    Catalogues,   \* capabilities that a run may use: sets of them
    Additions,    \* words that an answer may add
    MaxSteps      \* outline_max_steps

VARIABLES
    words,        \* the request, with what was answered
    hasData,      \* the conversation has a data set
    artifacts,    \* types of its artifacts
    usable,       \* capabilities of the frozen catalogue
    resolved,     \* time and metric of the data are unambiguous
    contract,     \* artifacts that the run must show
    picked,       \* the analysis of the hypothesis the user chose
    outline,      \* a set of steps: [id, capability, after]
    planning      \* asked, waiting, planned, revised or failed

outlineVars == <<words, hasData, artifacts, usable, resolved, contract, picked,
                 outline, planning>>

(* A request to explore says nothing else (_OPEN_EXPLORATION_PATTERN).       *)
ASSUME TaskOutlineAssumption ==
    /\ MaxSteps \in Nat /\ {} \notin Requests
    /\ \A request \in Requests : "explore" \in request => request = {"explore"}
    /\ "explore" \notin Additions
-----------------------------------------------------------------------------
(* build_minimal_contract                                                    *)
ChartRequired ==
    /\ hasData /\ words \cap {"chart", "graph"} # {} /\ "nochart" \notin words
    /\ ~({"report", "recent"} \subseteq words)
Contract ==
    (IF ChartRequired THEN {"chart"} ELSE {}) \cup (words \cap {"report"})

(* What words ask for which capability, in the order the code looks for      *)
(* them, and what words call for another one instead.                        *)
Rule(capability, asks, unless) ==
    [capability |-> capability, asks |-> asks, unless |-> unless]
Rules ==
    <<Rule("roles", {"roles"}, {}), Rule("quality", {"quality"}, {"roles", "profile"}),
      Rule("profile", {"profile"}, {"roles"}), Rule("search", {"define"}, {}),
      Rule("anomaly", {"anomaly"}, {}), Rule("transform", {"transform"}, {}),
      Rule("preflight", {"join"}, {}), Rule("join", {"join"}, {"assess"}),
      Rule("contribution", {"contribution"}, {}),
      Rule("compare", {"compare"}, {"contribution"}),
      Rule("regression", {"regression"}, {"contribution", "compare"}),
      Rule("correlation", {"relation"}, {"contribution", "compare", "regression"}),
      Rule("forecast", {"forecast"}, {}), Rule("trend", {"trend"}, {"forecast"}),
      Rule("aggregate", {"sum"}, {"contribution", "compare"}),
      Rule("chart", {"chart", "figure", "nochart"}, {}), Rule("report", {"report"}, {})>>

(* What is asked for is a set of places in this order; a chart that is only  *)
(* revised comes behind all others.                                          *)
Appended == Len(Rules) + 1
CapabilityAt(k) == IF k \in DOMAIN Rules THEN Rules[k].capability ELSE "chart"
PlaceOf(capability) == CHOOSE k \in DOMAIN Rules : Rules[k].capability = capability
Capabilities(places) == {CapabilityAt(k) : k \in places}
Without(places, set) == {k \in places : CapabilityAt(k) \notin set}

Applies(rule) == rule.asks \cap words # {} /\ rule.unless \cap words = {}
Wanted == {k \in DOMAIN Rules : Applies(Rules[k])}

Recomputes == "recompute" \in words
Revises == "chart" \in artifacts /\ "revise" \in words /\ ~Recomputes
(* What artifacts of the conversation stand for, if the request refers to    *)
(* them.                                                                     *)
Reused ==
    IF words \cap {"recent", "done"} = {} \/ Recomputes THEN {}
    ELSE (artifacts \cap {"profile"})
         \cup (IF "stats" \in artifacts THEN {"trend"} ELSE {})
         \cup (IF "table" \in artifacts THEN {"aggregate"} ELSE {})
         \cup (IF "chart" \in artifacts /\ ~Revises THEN {"chart"} ELSE {})

(* _requested_capabilities: a report about nothing is one about the profile; *)
(* what is there is not computed again; and data that are asked about with   *)
(* no goal are profiled.                                                     *)
Needed ==
    Without(Wanted \cup (IF Capabilities(Wanted) = {"report"} /\ hasData /\ artifacts = {}
                         THEN {PlaceOf("profile")} ELSE {}), Reused)
Redrawn ==
    LET others == Without(Needed, {"trend", "aggregate"})
    IN others \cup (IF "chart" \in Capabilities(others) THEN {} ELSE {Appended})
AskedFor == IF Revises THEN Redrawn ELSE Needed
RequestedCapabilities ==
    IF AskedFor = {} /\ hasData /\ words \cap {"general", "recompute", "explore"} # {}
    THEN {PlaceOf("profile")} ELSE AskedFor

(* _step_dependencies: a step waits for the one before it, a report for all; *)
(* a trend need not wait for a profile that it does not need.                *)
WaitsFor(places, k) ==
    LET prior == {j \in places : j < k}
    IN IF CapabilityAt(k) = "trend" /\ resolved /\ Capabilities(prior) = {"profile"} THEN {}
       ELSE IF CapabilityAt(k) = "report" THEN prior
       ELSE {j \in prior : \A i \in prior : i <= j}
StepsOf(asked) ==
    LET places == {k \in asked : CapabilityAt(k) \in usable}
    IN {[id |-> k, capability |-> CapabilityAt(k), after |-> WaitsFor(places, k)] : k \in places}
-----------------------------------------------------------------------------
(* validate_task_plan                                                        *)
Ids(p) == {s.id : s \in p}
Used(p) == {s.capability : s \in p}
(* The steps that a step waits for, at first or at second hand: they are in  *)
(* every set that has what it waits for and what these wait for.             *)
ClosedUnder(p, set) == \A s \in p : s.id \in set => s.after \subseteq set
Ancestors(p, step) ==
    {i \in Ids(p) : \A set \in SUBSET Ids(p) :
                       step.after \subseteq set /\ ClosedUnder(p, set) => i \in set}

Resolved(p) == \A s \in p : s.after \subseteq Ids(p)
Acyclic(p) == \A s \in p : s.id \notin Ancestors(p, s)
\* Mutant: a join need not have been assessed.
GuardedJoinAny(p) == TRUE
GuardedJoin(p) ==
    \A s \in p : s.capability = "join" =>
        \E t \in p : t.capability = "preflight" /\ t.id \in Ancestors(p, s)
Orderly(p) == Resolved(p) /\ Acyclic(p) /\ GuardedJoin(p)

\* Mutant: a plan need not have a step for what the contract wants.
UnservedNothing(p) == {}
(* criterion_capabilities: what an artifact of the conversation already      *)
(* shows needs no step.                                                      *)
Unserved(p) == (contract \ artifacts) \ Used(p)
-----------------------------------------------------------------------------
OutlineInit ==
    /\ words \in Requests /\ hasData \in BOOLEAN /\ artifacts \in Histories
    /\ usable \in Catalogues /\ resolved \in BOOLEAN
    /\ ("trend" \notin words \/ "profile" \notin words => ~resolved)
    /\ contract = Contract /\ picked = "none" /\ outline = {} /\ planning = "asked"

Offered == usable \cap {"trend", "anomaly", "compare", "correlation"}
MustAsk == "explore" \notin words \/ (hasData /\ Offered # {})

(* A clarification blocks: a plan without steps waits for the user.          *)
AskFirst ==
    /\ planning = "asked" /\ MustAsk /\ planning' = "waiting"
    /\ UNCHANGED <<words, hasData, artifacts, usable, resolved, contract, picked, outline>>

(* create_task_outline with nothing left to ask                              *)
Valid(p) == Unserved(p) = {} /\ Orderly(p) /\ Cardinality(p) <= MaxSteps
Outlined(p) ==
    /\ outline' = IF Valid(p) THEN p ELSE {}
    /\ planning' = IF Valid(p) THEN "planned" ELSE "failed"

CreateOutline ==
    /\ planning = "asked"
    /\ Outlined(StepsOf(RequestedCapabilities))
    /\ UNCHANGED <<words, hasData, artifacts, usable, resolved, contract, picked>>

(* The answer is added to the request; the contract stays.                   *)
AddWord(w) ==
    /\ planning = "waiting" /\ w \notin words /\ "explore" \notin words
    /\ words' = words \cup {w} /\ planning' = "asked"
    /\ UNCHANGED <<hasData, artifacts, usable, resolved, contract, picked, outline>>

(* A hypothesis is chosen: its analysis is the plan, if its data are there.  *)
Choose(analysis) ==
    /\ planning = "waiting" /\ "explore" \in words /\ analysis \in Offered
    /\ picked' = analysis
    /\ IF hasData THEN Outlined(StepsOf({PlaceOf(analysis)}))
       ELSE planning' = "failed" /\ UNCHANGED outline
    /\ UNCHANGED <<words, hasData, artifacts, usable, resolved, contract>>

(* Meanwhile the user deletes the data sets.                                 *)
DeleteData ==
    /\ planning = "waiting" /\ hasData /\ hasData' = FALSE
    /\ UNCHANGED <<words, artifacts, usable, resolved, contract, picked, outline, planning>>

(* revise_plan: the user drops steps or changes what they wait for; a plan   *)
(* that is not in order is refused.                                          *)
UserRevises(p) ==
    /\ planning = "planned" /\ Orderly(p) /\ outline' = p /\ planning' = "revised"
    /\ UNCHANGED <<words, hasData, artifacts, usable, resolved, contract, picked>>

Edited(s, after) == (outline \ {s}) \cup {[s EXCEPT !.after = after]}
Edits(s) ==
    {outline \ {s}, Edited(s, {})}
    \cup {Edited(s, {j}) : j \in Ids(outline)}
    \cup {{[t EXCEPT !.after = @ \ {s.id}] : t \in outline \ {s}}}

OutlineNext ==
    \/ AskFirst
    \/ CreateOutline
    \/ \E w \in Additions : AddWord(w)
    \/ \E c \in usable : Choose(c)
    \/ DeleteData
    \/ \E s \in outline : \E p \in Edits(s) : UserRevises(p)

OutlineSpec == OutlineInit /\ [][OutlineNext]_outlineVars
-----------------------------------------------------------------------------
OutlineTypeOK ==
    /\ hasData \in BOOLEAN /\ resolved \in BOOLEAN
    /\ contract \subseteq {"chart", "report"}
    /\ Used(outline) \subseteq usable
    /\ planning \in {"asked", "waiting", "planned", "revised", "failed"}

(* A plan serves its contract and can be carried out: every artifact that    *)
(* the run must show has a step or is there, no join goes ahead of its       *)
(* assessment whatever the user changes, no step waits for itself, and a     *)
(* report waits for all it reports on (but for a chart that is revised).  A  *)
(* request is refused only for a capability the run may not use, a word the  *)
(* outline does not know, too many steps, or data that are gone.             *)
OutlineSound ==
    /\ OutlineTypeOK
    /\ planning = "planned" => \A c \in contract : c \in artifacts \/ c \in Used(outline)
    /\ \A s \in outline :
          /\ s.id \notin Ancestors(outline, s) /\ s.after \subseteq Ids(outline)
          /\ s.capability = "join" =>
                \E t \in outline :
                    t.capability = "preflight" /\ t.id \in Ancestors(outline, s)
          /\ s.capability = "report" /\ planning = "planned" =>
                \A t \in outline :
                    \/ t.id \in Ancestors(outline, s) \cup {s.id}
                    \/ t.capability = "chart" /\ Revises
    /\ planning = "failed" =>
          \/ contract \ usable # {}
          \/ "graph" \in words
          \/ "join" \in words /\ "preflight" \notin usable
          \/ Cardinality(RequestedCapabilities) > MaxSteps
          \/ picked # "none" /\ ~hasData
=============================================================================
