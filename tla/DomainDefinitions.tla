-------------------------- MODULE DomainDefinitions --------------------------
(* The definitions of one metric of a project (packages/knowledge/           *)
(* domain_store.py, each method a transaction) and a run that looks it up    *)
(* and computes it: domain_definition_lookup resolves a version and compiles *)
(* its formula over the field the data set maps to its concept, and the      *)
(* evidence of the lookup binds the data calls of the run that come after it *)
(* (TaskStore.resolve_definition_execution).  Calls are made one at a time   *)
(* or in a batch (_try_execute_parallel_frontier).                           *)
EXTENDS Naturals, Sequences, FiniteSets

CONSTANTS
    Formulas,       \* what a definition can compute
    Fields,         \* of the data set
    Instants,       \* 1..n: times definitions start, end and are asked for
    DefVersions,    \* 1..n
    DefKeys,        \* idempotency keys
    Calls,          \* tool calls of a batch
    MaxBatches,     \* bound: batches of calls the run makes
    Undefined

ASSUME DomainAssumption ==
    /\ Instants \subseteq Nat \ {0} /\ DefVersions \subseteq Nat \ {0}
    /\ MaxBatches \in Nat
    /\ Undefined \notin Formulas \cup Fields

VARIABLES
    definitions,  \* domain_definitions, by version
    published,    \* what each idempotency key published
    mapping,      \* domain_field_mappings: the field of the concept
    dataset,      \* the data set is there
    calls,        \* the batch: what each call knows and how far it is
    batch,        \* its number
    ledger        \* evidence of the run, oldest first

domainVars == <<definitions, published, mapping, dataset, calls, batch, ledger>>
-----------------------------------------------------------------------------
Drafts == [formula : Formulas, from : Instants, to : Instants \cup {0}]
Arguments == [formula : Formulas, field : Fields]
NoCall == [stage |-> "none", asOf |-> 0, version |-> 0, args |-> Undefined, binding |-> 0]

DomainTypeOK ==
    /\ definitions \in [DefVersions -> Drafts \cup {Undefined}]
    /\ published \in [DefKeys -> [version : DefVersions, draft : Drafts] \cup {Undefined}]
    /\ mapping \in Fields \cup {Undefined} /\ dataset \in BOOLEAN
    /\ batch \in 0..MaxBatches
    /\ calls \in [Calls -> [stage : {"none", "prepared", "running", "resolved", "done"},
                            asOf : Instants \cup {0}, version : DefVersions \cup {0},
                            args : Arguments \cup {Undefined}, binding : Nat]]
    /\ ledger \in Seq([type : {"definition", "data"}, batch : Nat, version : DefVersions \cup {0},
                       args : Arguments \cup {Undefined}, binding : Nat])
    /\ \A k \in Calls : calls[k].binding <= Len(ledger)
    /\ \A i \in DOMAIN ledger : ledger[i].binding < i

DomainInit ==
    /\ definitions = [v \in DefVersions |-> Undefined]
    /\ published = [k \in DefKeys |-> Undefined]
    /\ mapping = Undefined /\ dataset = TRUE
    /\ calls = [k \in Calls |-> NoCall]
    /\ batch = 0
    /\ ledger = <<>>

Defined(v) == definitions[v] # Undefined
Formula(v) == definitions[v].formula

\* _effective_rows
Effective(t) ==
    {v \in DefVersions : /\ Defined(v)
                         /\ definitions[v].from <= t
                         /\ definitions[v].to = 0 \/ definitions[v].to > t}
-----------------------------------------------------------------------------
(* create_definition: append-only, at any time; intervals may overlap, which *)
(* is reported and left to whoever resolves.                                 *)
CreateDefinition(v, draft, k) ==
    /\ published[k] = Undefined
    /\ draft.to = 0 \/ draft.to > draft.from
    /\ ~Defined(v)
    /\ definitions' = [definitions EXCEPT ![v] = draft]
    /\ published' = [published EXCEPT ![k] = [version |-> v, draft |-> draft]]
    /\ UNCHANGED <<mapping, dataset, calls, batch, ledger>>

\* register_field_mapping: a second one is the same one or is refused.
RegisterMapping(field) ==
    /\ dataset /\ mapping = Undefined
    /\ mapping' = field
    /\ UNCHANGED <<definitions, published, dataset, calls, batch, ledger>>

\* The mappings go with their data set.
DeleteDataset ==
    /\ dataset
    /\ dataset' = FALSE /\ mapping' = Undefined
    /\ UNCHANGED <<definitions, published, calls, batch, ledger>>
-----------------------------------------------------------------------------
Stage(stage) == {k \in Calls : calls[k].stage = stage}
Advance(k, change) == calls' = [calls EXCEPT ![k] = change]
Preparing == Stage("none") \cup Stage("prepared") = Calls

(* resolve_definition_execution: the lookups whose compiled call is for this *)
(* tool; those it equals.                                                    *)
Compiled == {i \in DOMAIN ledger : ledger[i].type = "definition" /\ ledger[i].args # Undefined}
Matching(args) == {i \in Compiled : ledger[i].args = args}

\* Mutant: a call that equals no compiled one goes on unbound.
BindingsOrNone(args) ==
    LET found == Matching(args)
        newest == {i \in found : \A j \in found : j <= i}
    IN IF Cardinality({ledger[i].version : i \in found}) > 1 THEN {}
       ELSE IF found # {} THEN newest ELSE {0}

Bindings(args) ==
    LET found == Matching(args)
        newest == {i \in found : \A j \in found : j <= i}
    IN IF Cardinality({ledger[i].version : i \in found}) > 1 THEN {}
       ELSE IF found # {} THEN newest
       ELSE IF Compiled # {} THEN {} ELSE {0}

\* A call is prepared before any call of its batch is executed.
PrepareLookup(k, t) ==
    /\ Preparing /\ calls[k] = NoCall /\ batch < MaxBatches
    /\ Advance(k, [NoCall EXCEPT !.stage = "prepared", !.asOf = t])
    /\ UNCHANGED <<definitions, published, mapping, dataset, batch, ledger>>

PrepareData(k, args) ==
    /\ Preparing /\ calls[k] = NoCall /\ batch < MaxBatches
    /\ \E b \in Bindings(args) :
          Advance(k, [NoCall EXCEPT !.stage = "prepared", !.args = args, !.binding = b])
    /\ UNCHANGED <<definitions, published, mapping, dataset, batch, ledger>>

\* The batch is reserved: its calls run side by side.
Execute ==
    /\ Preparing /\ Stage("prepared") # {}
    /\ batch' = batch + 1
    /\ calls' = [k \in Calls |-> IF k \in Stage("prepared")
                                 THEN [calls[k] EXCEPT !.stage = "running"] ELSE calls[k]]
    /\ UNCHANGED <<definitions, published, mapping, dataset, ledger>>

(* resolve, one of the reads of a lookup: only a single effective version is *)
(* a definition.                                                             *)
Resolve(k) ==
    LET found == Effective(calls[k].asOf)
    IN /\ calls[k].stage = "running" /\ calls[k].asOf # 0
       /\ Advance(k, [calls[k] EXCEPT
              !.stage = "resolved",
              !.version = IF Cardinality(found) = 1 THEN CHOOSE v \in found : TRUE ELSE 0])
       /\ UNCHANGED <<definitions, published, mapping, dataset, batch, ledger>>

\* compile_for_subject, another one.
Compile(k) ==
    LET v == calls[k].version
    IN /\ calls[k].stage = "resolved"
       /\ Advance(k, [calls[k] EXCEPT
              !.stage = "done",
              !.args = IF v = 0 \/ mapping = Undefined THEN Undefined
                       ELSE [formula |-> Formula(v), field |-> mapping]])
       /\ UNCHANGED <<definitions, published, mapping, dataset, batch, ledger>>

\* commit_tool_success, with what _definition_result_evidence_fields keeps.
Evidence(k, type) ==
    [type |-> type, batch |-> batch, version |-> calls[k].version, args |-> calls[k].args,
     binding |-> calls[k].binding]

CommitLookup(k) ==
    /\ calls[k].stage = "done"
    /\ ledger' = Append(ledger, Evidence(k, "definition"))
    /\ Advance(k, NoCall)
    /\ UNCHANGED <<definitions, published, mapping, dataset, batch>>

CommitData(k) ==
    /\ calls[k].stage = "running" /\ calls[k].asOf = 0
    /\ dataset
    /\ ledger' = Append(ledger, Evidence(k, "data"))
    /\ Advance(k, NoCall)
    /\ UNCHANGED <<definitions, published, mapping, dataset, batch>>

CallFails(k) ==
    /\ calls[k].stage \notin {"none", "prepared"}
    /\ Advance(k, NoCall)
    /\ UNCHANGED <<definitions, published, mapping, dataset, batch, ledger>>

DomainNext ==
    \/ \E v \in DefVersions, draft \in Drafts, k \in DefKeys : CreateDefinition(v, draft, k)
    \/ \E field \in Fields : RegisterMapping(field)
    \/ DeleteDataset \/ Execute
    \/ \E k \in Calls :
          \/ Resolve(k) \/ Compile(k) \/ CommitLookup(k) \/ CommitData(k) \/ CallFails(k)
          \/ \E t \in Instants : PrepareLookup(k, t)
          \/ \E args \in Arguments : PrepareData(k, args)

DomainSpec == DomainInit /\ [][DomainNext]_domainVars
-----------------------------------------------------------------------------
(* A number that names a definition was computed by it: the evidence it is   *)
(* bound to is of the run, of the same call, and of a version that still     *)
(* says so, whatever was published, mapped or deleted meanwhile              *)
(* (review_report_definition_lineage finds no drift).                        *)
ExactDefinition ==
    \A i \in DOMAIN ledger : ledger[i].type = "data" /\ ledger[i].binding # 0 =>
        LET source == ledger[ledger[i].binding]
        IN /\ source.type = "definition" /\ source.args = ledger[i].args
           /\ Formula(source.version) = ledger[i].args.formula
           /\ mapping \in {ledger[i].args.field, Undefined}

(* Once the run has compiled the definition, altered arguments are refused:  *)
(* a number that is bound to no definition was computed before, or in the    *)
(* batch of the lookup.                                                      *)
AlteredRefused ==
    \A i \in DOMAIN ledger : ledger[i].type = "data" /\ ledger[i].binding = 0 =>
        \A j \in Compiled : j < i => ledger[j].batch = ledger[i].batch

(* A number says of its definition what is so, and says nothing only where   *)
(* none was looked up before.                                                *)
Lineage == ExactDefinition /\ AlteredRefused
=============================================================================
