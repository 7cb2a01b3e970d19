----------------------------- MODULE DataRoles -----------------------------
(* The role of every column an analysis uses: what the profile tells of it   *)
(* (mcp_servers/excel_parser/advisor.py), the one question a run asks when   *)
(* that leaves a doubt (agent_loop._role_selection_clarification), the       *)
(* user's confirmation, bound to the data version it was given for           *)
(* (session/task_store.py), and the guard before each call                   *)
(* (control/data_role_guard.py).  Deriving a data set is a new data version  *)
(* with a profile of its own.  It shares no state with Joins, which governs  *)
(* the other calls.                                                          *)
EXTENDS Joins, FiniteSetsExt

CONSTANTS
    Columns,        \* of the data sets
    Features,       \* what profiles may tell of a column
    MaxRoleCalls,   \* attempts the run may make
    MaxDatasets     \* bound of the model on data sets, the uploaded one first

VARIABLES
    profiles,      \* of the data sets of the run, in the order they came
    analysis,      \* what the request asks for
    named,         \* the columns it names
    phase,         \* of the run
    question,      \* the role request the user is to answer
    confirmations, \* clarification.answered events with a role, oldest first
    analysed,      \* the calls that passed the guard
    spent          \* calls tried

roleVars == <<profiles, analysis, named, phase, question, confirmations, analysed, spent>>
-----------------------------------------------------------------------------
(* Inference.  A feature is what one column of a profile tells: its type,    *)
(* its number of values, how unique they are and what its name hints at.     *)

Roles == {"time", "metric", "dimension", "identifier", "unknown"}
Feature == [dtype : {"datetime", "numeric", "bool", "str"},
            values : {"unavailable", "zero", "one", "few", "many"},
            unique : {"low", "high", "near", "all"},
            hints : SUBSET {"time", "identifier", "metric", "dimension", "free_text"}]

ASSUME DataRolesAssumption ==
    /\ Features \subseteq Feature
    /\ MaxRoleCalls \in Nat /\ MaxDatasets \in Nat \ {0}

\* Scores in hundredths; 0 is a role nobody proposed.
TimeScore(f) ==
    IF f.dtype = "datetime" THEN IF "time" \in f.hints THEN 99 ELSE 97
    ELSE IF "time" \in f.hints THEN 90 ELSE 0

HighText(f) ==
    /\ f.dtype = "str" /\ f.values = "many"
    /\ f.hints \cap {"free_text", "identifier", "time", "dimension"} = {}

IdentifierScore(f) ==
    IF "identifier" \in f.hints THEN IF f.unique \in {"near", "all"} THEN 98 ELSE 84
    ELSE IF f.dtype = "str" /\ f.unique = "all" THEN 62
    ELSE IF HighText(f) THEN 60 ELSE 0

MetricScore(f) ==
    IF f.dtype # "numeric" THEN 0
    ELSE IF f.hints \cap {"time", "identifier", "dimension"} # {} THEN 55
    ELSE IF "metric" \in f.hints THEN 95 ELSE 82

DimensionScore(f) ==
    CASE f.dtype = "numeric" ->
            IF "dimension" \in f.hints THEN 95
            ELSE IF f.values = "few" /\ f.unique = "low" THEN 76 ELSE 0
      [] f.dtype = "bool" -> 98
      [] f.dtype = "datetime" \/ (f.dtype = "str" /\ "free_text" \in f.hints) -> 0
      [] OTHER ->
            IF f.hints \cap {"identifier", "time"} # {} THEN 52
            ELSE IF "dimension" \in f.hints THEN 96
            ELSE IF f.values = "few" THEN 90 ELSE 68

Scores(f) ==
    CASE f.values = "unavailable" -> [r \in Roles |-> 0]
      [] f.values = "zero" -> [r \in Roles |-> IF r = "unknown" THEN 99 ELSE 0]
      [] f.values = "one" ->
            [r \in Roles |-> IF r = "unknown" THEN 90 ELSE IF r = "dimension" THEN 45 ELSE 0]
      [] OTHER ->
            [time |-> TimeScore(f), identifier |-> IdentifierScore(f), metric |-> MetricScore(f),
             dimension |-> DimensionScore(f),
             unknown |-> IF f.dtype = "str" /\ "free_text" \in f.hints THEN 86 ELSE 0]

\* Ties go to the first name.
Rank == [dimension |-> 1, identifier |-> 2, metric |-> 3, time |-> 4, unknown |-> 5]
Best(f) == Max({Scores(f)[r] : r \in Roles})
Primary(f) ==
    IF Best(f) = 0 THEN "unknown"
    ELSE CHOOSE r \in Roles :
            /\ Scores(f)[r] = Best(f)
            /\ \A o \in Roles : Scores(f)[o] = Best(f) => Rank[r] <= Rank[o]
Second(f) == Max({0} \cup {Scores(f)[r] : r \in Roles \ {Primary(f)}})
Ambiguous(f) == Primary(f) = "unknown" \/ Best(f) < 75 \/ Best(f) < Second(f) + 10
Supports(f, r) == Primary(f) = r \/ (Ambiguous(f) /\ Scores(f)[r] > 0)
-----------------------------------------------------------------------------
(* What an analysis needs of its columns, in the order of its questions.     *)

Analyses == {"trend", "group_compare", "aggregate", "correlation"}
Requirements ==
    [trend |-> <<{"time"}, {"metric"}>>,
     group_compare |-> <<{"dimension"}, {"metric"}>>,
     aggregate |-> <<{"dimension", "time"}, {"metric"}>>,
     correlation |-> <<{"metric"}, {"metric"}>>]

NoQuestion == [role |-> "none", candidates |-> {}, version |-> 0]
DataVersion == Len(profiles)
RoleRequest(r, candidates) == [role |-> r, candidates |-> candidates, version |-> DataVersion]

(* One role of the request.  The first named column that may play it settles *)
(* it or is asked for; without one, several possible columns or a doubtful   *)
(* one are a question.  Which is first is the order of the profile.          *)
RoleSelection(p, r) ==
    LET possible == {c \in Columns : Supports(p[c], r)}
        told == possible \cap named
    IN IF told # {} THEN {IF Ambiguous(p[c]) THEN RoleRequest(r, {c}) ELSE NoQuestion : c \in told}
       ELSE IF Cardinality(possible) > 1 \/ \E c \in possible : Ambiguous(p[c])
            THEN {RoleRequest(r, possible)} ELSE {NoQuestion}

\* A correlation asks for the first named column that is not plainly a metric.
ExplicitAmbiguity(p) ==
    LET doubtful == {c \in named : Primary(p[c]) # "metric" \/ Ambiguous(p[c])} IN
    IF doubtful = {} THEN {NoQuestion} ELSE {RoleRequest("metric", {c}) : c \in doubtful}

\* The first role in doubt is asked for, the second only when the first is not.
BlockingClarification(p) ==
    CASE analysis = "correlation" -> ExplicitAmbiguity(p)
      [] analysis = "aggregate" -> RoleSelection(p, "dimension")
      [] OTHER ->
            UNION {IF q # NoQuestion THEN {q} ELSE RoleSelection(p, "metric") :
                       q \in RoleSelection(p, IF analysis = "trend" THEN "time" ELSE "dimension")}
-----------------------------------------------------------------------------
(* The guard.                                                                *)

(* The confirmation in force for a column: the last one given for this data  *)
(* set and this data version.                                                *)
Confirmed(d, c) ==
    {i \in DOMAIN confirmations :
        confirmations[i].dataset = d /\ confirmations[i].column = c
        /\ confirmations[i].version = DataVersion}

\* Mutant: a confirmation holds for every data version.
RoleGuardAnyVersion(d, c, allowed) ==
    LET given == {i \in DOMAIN confirmations : confirmations[i].column = c} IN
    IF given # {} THEN confirmations[Max(given)].role \in allowed
    ELSE ~Ambiguous(profiles[d][c]) /\ Primary(profiles[d][c]) \in allowed

RoleGuard(d, c, allowed) ==
    IF Confirmed(d, c) # {} THEN confirmations[Max(Confirmed(d, c))].role \in allowed
    ELSE ~Ambiguous(profiles[d][c]) /\ Primary(profiles[d][c]) \in allowed

GuardAllows(d, cols) ==
    \A k \in DOMAIN Requirements[analysis] : RoleGuard(d, cols[k], Requirements[analysis][k])
-----------------------------------------------------------------------------
RolesInit ==
    /\ \E p \in [Columns -> Features] : profiles = <<p>>
    /\ analysis \in Analyses
    /\ named \in SUBSET Columns
    /\ phase = "planning"
    /\ question = NoQuestion
    /\ confirmations = <<>>
    /\ analysed = {} /\ spent = 0

\* Planning asks about the latest data set; an answered run is not asked again.
PlanRoles ==
    /\ phase = "planning"
    /\ IF question # NoQuestion THEN question' = NoQuestion
       ELSE question' \in BlockingClarification(profiles[DataVersion])
    /\ phase' = IF question' = NoQuestion THEN "running" ELSE "waiting_user"
    /\ UNCHANGED <<profiles, analysis, named, confirmations, analysed, spent>>

(* Only one of the candidates is an answer, and only for the data it was     *)
(* asked about.                                                              *)
ConfirmRole(c) ==
    /\ phase = "waiting_user"
    /\ c \in question.candidates
    /\ question.version = DataVersion
    /\ phase' = "planning"
    /\ confirmations' = Append(confirmations, [dataset |-> DataVersion, column |-> c,
                                               role |-> question.role, version |-> DataVersion])
    /\ UNCHANGED <<profiles, analysis, named, question, analysed, spent>>

\* A call of the model with columns of its choice, of any data set of the run.
Analyse(d, cols) ==
    /\ phase = "running"
    /\ spent < MaxRoleCalls
    /\ spent' = spent + 1
    /\ analysed' = IF GuardAllows(d, cols)
                   THEN analysed \cup {[dataset |-> d, columns |-> cols, version |-> DataVersion]}
                   ELSE analysed
    /\ UNCHANGED <<profiles, analysis, named, phase, question, confirmations>>

\* A transformation derives a data set in which a column may look different.
Transform(d, c, f) ==
    /\ phase = "running"
    /\ spent < MaxRoleCalls /\ DataVersion < MaxDatasets
    /\ spent' = spent + 1
    /\ profiles' = Append(profiles, [profiles[d] EXCEPT ![c] = f])
    /\ UNCHANGED <<analysis, named, phase, question, confirmations, analysed>>

EndRoles ==
    /\ phase = "running"
    /\ phase' = "ended"
    /\ UNCHANGED <<profiles, analysis, named, question, confirmations, analysed, spent>>

RolesNext ==
    \/ PlanRoles
    \/ \E c \in Columns : ConfirmRole(c)
    \/ \E d \in DOMAIN profiles, cols \in Columns \X Columns : Analyse(d, cols)
    \/ \E d \in DOMAIN profiles, c \in Columns, f \in Features : Transform(d, c, f)
    \/ EndRoles

RolesSpec == RolesInit /\ [][RolesNext]_roleVars
-----------------------------------------------------------------------------
RolesTypeOK ==
    /\ Len(profiles) \in 1..MaxDatasets
    /\ \A d \in DOMAIN profiles : profiles[d] \in [Columns -> Features]
    /\ analysis \in Analyses /\ named \subseteq Columns
    /\ phase \in {"planning", "waiting_user", "running", "ended"}
    /\ question.role \in Roles \cup {"none"} /\ question.candidates \subseteq Columns
    /\ Len(confirmations) <= 1
    /\ spent \in 0..MaxRoleCalls

(* No analysis rests on a guess: every column of an executed call has a role *)
(* its profile leaves no doubt about, or one the user confirmed for exactly  *)
(* this data set while the data were what they were when it ran, and where   *)
(* the user spoke the profile has no say.                                    *)
RolesGoverned ==
    \A e \in analysed : \A k \in DOMAIN Requirements[analysis] :
        LET c == e.columns[k]
            allowed == Requirements[analysis][k]
            spoken == {i \in DOMAIN confirmations :
                           confirmations[i].column = c /\ confirmations[i].dataset = e.dataset
                           /\ confirmations[i].version = e.version}
        IN IF spoken = {} THEN ~Ambiguous(profiles[e.dataset][c])
                               /\ Primary(profiles[e.dataset][c]) \in allowed
           ELSE \A i \in spoken : confirmations[i].role \in allowed

(* A governed call, a join or an analysis, rests on what the user said or    *)
(* evidence shows of the data as they are.                                   *)
CallsGoverned == JoinTypeOK /\ RolesTypeOK /\ JoinsSound /\ RolesGoverned
=============================================================================
