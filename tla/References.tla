----------------------------- MODULE References -----------------------------
(* What a run takes the words of its request for: the charts of the        *)
(* conversation and the data sets of the project it refers to              *)
(* (session/coref.py), resolved by the first host, asked when unclear, bound *)
(* in contract and plan, and restored by later hosts                       *)
(* (agent_loop._stream_agent_chat_inner).  Files are uploaded and data sets *)
(* deleted meanwhile; hosts crash.                                         *)
EXTENDS Naturals, Sequences, SequencesExt, FiniteSetsExt

CONSTANTS
    Wordings,     \* what users may ask: sets of mentions
    MaxUploads, MaxCharts, MaxTurns \* bounds of the model

VARIABLES
    uploads,  \* files uploaded so far
    sheets,   \* the data sets of the project, oldest first
    charts,   \* of the conversation, oldest first; each with its data set, or 0
    inquiries, \* runs begun
    inquiry,  \* the latest run
    host      \* its host, or that of a request about to be a run

refVars == <<uploads, sheets, charts, inquiries, inquiry, host>>
catalogue == <<uploads, sheets, charts>>

Mention(form, kind, id) == [form |-> form, kind |-> kind, id |-> id]
IdOf(d) == Mention("id", "dataset", d)
Files == 1..2 \* names of files

ASSUME ReferencesAssumption == {MaxUploads, MaxCharts, MaxTurns} \subseteq Nat
-----------------------------------------------------------------------------
(* References.  A target is a chart with its data set, or a data set.      *)

Things(kind) ==
    IF kind = "dataset" THEN [i \in DOMAIN sheets |-> [kind |-> kind, id |-> sheets[i].id, on |-> 0]]
    ELSE [i \in DOMAIN charts |-> [kind |-> kind, id |-> i, on |-> charts[i]]]
ThingsNamed(m) ==
    IF m.form = "file" THEN {Things("dataset")[i] : i \in {j \in DOMAIN sheets : sheets[j].file = m.id}}
    ELSE {t \in ToSet(Things(m.kind)) : t.id = m.id}

(* What one mention stands for, given the targets of the others: `this' is *)
(* said of what is already named, or else of the only thing of its kind.   *)
Denoted(m, others) ==
    LET all == Things(m.kind) IN
    CASE m.form \in {"id", "file"} -> ThingsNamed(m)
      [] m.form = "first" -> IF all = <<>> THEN {} ELSE {Head(all)}
      [] m.form = "latest" -> IF all = <<>> THEN {} ELSE {Last(all)}
      [] m.form = "this" -> IF \E t \in others : t.kind = m.kind THEN {} ELSE ToSet(all)

(* One mention that stands for nothing or for several things spoils all; a *)
(* file name that no data set has is no mention.                           *)
ResolveWords(words) ==
    LET firm == UNION {Denoted(m, {}) : m \in {w \in words : w.form # "this"}}
        Of(m) == Denoted(m, firm)
        ambiguous == \E m \in words : m.form \in {"this", "file"} /\ Cardinality(Of(m)) > 1
        missing == \E m \in words : m.form # "file" /\ Of(m) = {}
                                    /\ (m.form = "this" => \A t \in firm : t.kind # m.kind)
    IN IF ambiguous THEN [status |-> "ambiguous", targets |-> {}]
       ELSE IF missing THEN [status |-> "unresolved", targets |-> {}]
       ELSE LET targets == UNION {Of(m) : m \in words}
            IN [status |-> IF targets = {} THEN "no_reference" ELSE "resolved", targets |-> targets]

\* ReferenceResolver.restore: every target is there, the same as when it was bound.
Regained(targets) == targets \subseteq ToSet(Things("dataset")) \cup ToSet(Things("chart"))
Bound(refs) == IF refs.status = "resolved" THEN refs.targets ELSE {}
-----------------------------------------------------------------------------
NoRefs == [status |-> "no_reference", targets |-> {}]
NoHost == [stage |-> "none", words |-> {}, refs |-> NoRefs]
EndedTurn == [status |-> "ended", words |-> {}, contract |-> {}, plan |-> {},
              planned |-> "none", answered |-> FALSE]
TurnIn(statuses) == inquiry.status \in statuses
Active == {"planning", "waiting_user", "running", "paused"}

ReferencesInit ==
    /\ uploads = 0 /\ sheets = <<>> /\ charts = <<>>
    /\ inquiries = 0 /\ inquiry = EndedTurn /\ host = NoHost

Upload(file) ==
    /\ uploads < MaxUploads
    /\ uploads' = uploads + 1
    /\ sheets' = Append(sheets, [id |-> uploads + 1, file |-> file])
    /\ UNCHANGED <<charts, inquiries, inquiry, host>>

\* The charts of a deleted data set stay, without it.
RemoveDataset(d) ==
    /\ \E i \in DOMAIN sheets : sheets[i].id = d
    /\ sheets' = SelectSeq(sheets, LAMBDA x : x.id # d)
    /\ charts' = [i \in DOMAIN charts |-> IF charts[i] = d THEN 0 ELSE charts[i]]
    /\ UNCHANGED <<uploads, inquiries, inquiry, host>>
-----------------------------------------------------------------------------
(* A new run: the references are resolved, then the message, the run and its *)
(* contract with what they are bound to are written at once.               *)
ResolveRequest(words) ==
    /\ host.stage = "none" /\ ~TurnIn(Active) /\ inquiries < MaxTurns
    /\ host' = [stage |-> "resolved", words |-> words, refs |-> ResolveWords(words)]
    /\ UNCHANGED <<catalogue, inquiries, inquiry>>

StartTurn ==
    /\ host.stage = "resolved"
    /\ inquiries' = inquiries + 1
    /\ inquiry' = [EndedTurn EXCEPT !.status = "planning", !.words = host.words,
                                    !.contract = Bound(host.refs)]
    /\ host' = [host EXCEPT !.stage = "loaded", !.words = {}]
    /\ UNCHANGED catalogue

(* The plan carries what the references are bound to.  What is not resolved *)
(* is asked, and so may be one other thing.  Having asked twice a host     *)
(* returns.                                                                *)
PlanTurn(other) ==
    /\ host.stage \in {"loaded", "again"} /\ TurnIn({"planning"})
    /\ LET open == host.refs.status \in {"ambiguous", "unresolved"}
           asks == open \/ other
       IN /\ other => ~open /\ ~inquiry.answered
          /\ inquiry' = [inquiry EXCEPT !.plan = Bound(host.refs), !.planned = host.refs.status,
                                        !.status = IF asks THEN "waiting_user" ELSE "running"]
          /\ host' = IF asks /\ host.stage = "again" THEN NoHost
                     ELSE [host EXCEPT !.stage = IF asks THEN "awaiting" ELSE "working"]
    /\ UNCHANGED <<catalogue, inquiries>>

Taking(refs) == [NoHost EXCEPT !.stage = "loaded", !.refs = refs]
Restoring(targets) == IF Regained(targets) THEN Taking([status |-> "resolved", targets |-> targets])
                      ELSE NoHost

(* The host that awaits the answer resolves request and answer again; a new *)
(* one restores what the contract is bound to and returns when it cannot.  *)
AnswerTurn(answer) ==
    /\ TurnIn({"waiting_user"}) /\ host.stage \in {"none", "awaiting"}
    /\ LET refs == ResolveWords(inquiry.words \cup answer)
       IN host' = IF host.stage = "awaiting" THEN [host EXCEPT !.stage = "again", !.refs = refs]
                  ELSE IF inquiry.contract = {} THEN Taking(refs) ELSE Restoring(inquiry.contract)
    /\ inquiry' = [inquiry EXCEPT !.status = "planning", !.answered = TRUE]
    /\ UNCHANGED <<catalogue, inquiries>>

\* Mutant: a resumed run resolves its request again.
ResumedAnew == Taking(ResolveWords(inquiry.words))

(* What a host resumed from a checkpoint goes by: what the contract is bound *)
(* to; else what the request is resolved to now; else what the plan is bound *)
(* to.  It returns when that cannot be restored.                           *)
Resumed ==
    LET now == ResolveWords(inquiry.words) IN
    IF inquiry.contract # {} THEN Restoring(inquiry.contract)
    ELSE IF now.status = "resolved" \/ inquiry.plan = {} THEN Taking(now)
    ELSE Restoring(inquiry.plan)

ResumeTurn ==
    /\ TurnIn({"paused"}) /\ host.stage = "none"
    /\ inquiry' = [inquiry EXCEPT !.status = "running"]
    /\ host' = Resumed
    /\ UNCHANGED <<catalogue, inquiries>>

GoOn ==
    /\ host.stage = "loaded" /\ TurnIn({"running"})
    /\ host' = [host EXCEPT !.stage = "working"]
    /\ UNCHANGED <<catalogue, inquiries, inquiry>>

DrawChart(d) ==
    /\ host.stage = "working" /\ Len(charts) < MaxCharts
    /\ \E i \in DOMAIN sheets : sheets[i].id = d
    /\ charts' = Append(charts, d)
    /\ UNCHANGED <<uploads, sheets, inquiries, inquiry, host>>

EndTurn ==
    /\ host.stage = "working" \/ (host.stage = "none" /\ TurnIn(Active))
    /\ inquiry' = EndedTurn
    /\ host' = NoHost
    /\ UNCHANGED <<catalogue, inquiries>>

\* The process dies and recovers its runs: one in planning cannot go on.
CrashHost ==
    /\ host.stage # "none" \/ TurnIn({"planning", "running"})
    /\ host' = NoHost
    /\ inquiry' = IF TurnIn({"planning"}) THEN EndedTurn
                  ELSE IF TurnIn({"running"}) THEN [inquiry EXCEPT !.status = "paused"] ELSE inquiry
    /\ UNCHANGED <<catalogue, inquiries>>

ReferencesNext ==
    \/ \E file \in Files : Upload(file)
    \/ \E d \in 1..uploads : RemoveDataset(d)
    \/ \E words \in Wordings : ResolveRequest(words)
    \/ StartTurn
    \/ \E other \in BOOLEAN : PlanTurn(other)
    \/ \E answer \in {{}} \cup {{IdOf(d)} : d \in 1..uploads} : AnswerTurn(answer)
    \/ ResumeTurn
    \/ GoOn
    \/ \E d \in 1..uploads : DrawChart(d)
    \/ EndTurn
    \/ CrashHost

ReferencesSpec == ReferencesInit /\ [][ReferencesNext]_refVars
-----------------------------------------------------------------------------
Mentions == [form : {"id", "first", "latest", "this", "file"}, kind : {"dataset", "chart"},
             id : 0..MaxUploads + 2]
RefTargets == [kind : {"dataset", "chart"}, id : 1..MaxUploads + MaxCharts, on : 0..MaxUploads]
RefStatuses == {"no_reference", "resolved", "ambiguous", "unresolved"}

ReferencesTypeOK ==
    /\ uploads \in 0..MaxUploads
    /\ \A i \in DOMAIN sheets : sheets[i].id \in 1..uploads /\ sheets[i].file \in Files
    /\ \A i \in DOMAIN charts : charts[i] \in 0..uploads
    /\ inquiries \in 0..MaxTurns
    /\ inquiry.status \in Active \cup {"ended"}
    /\ inquiry.words \subseteq Mentions
    /\ inquiry.contract \cup inquiry.plan \subseteq RefTargets
    /\ inquiry.planned \in RefStatuses \cup {"none"}
    /\ host.stage \in {"none", "resolved", "loaded", "again", "awaiting", "working"}
    /\ host.refs.status \in RefStatuses /\ host.refs.targets \subseteq RefTargets

(* A request that names a thing is carried out on that thing: while nothing *)
(* is asked, every host works on what the first one resolved, though files *)
(* come and go; and no host works on a reference that is not resolved,     *)
(* except one by a file name that no file had when the run was planned.    *)
ReferencesStand ==
    /\ host.stage \in {"loaded", "working"} /\ inquiry.contract # {} /\ ~inquiry.answered
       => host.refs.targets = inquiry.contract
    /\ host.stage = "working" /\ inquiry.planned # "no_reference"
       => host.refs.status = "resolved"

(* The binding in the plan keeps a resumed host from guessing again what the *)
(* user made clear: it works on what the plan is bound to.                 *)
PlanBindingKept ==
    host.stage = "working" /\ inquiry.contract = {} /\ inquiry.plan # {}
    => host.refs.targets = inquiry.plan
=============================================================================
