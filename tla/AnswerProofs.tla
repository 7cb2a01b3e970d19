---------------------------- MODULE AnswerProofs ----------------------------
(* Proofs about FinalAnswer, for any findings, texts, requests and limits,   *)
(* about Hypothesis and about DomainDefinitions: from the evidence of a run  *)
(* to what the user is told.                                                 *)
EXTENDS FinalAnswer, Hypothesis, DomainDefinitions, FiniteSetTheorems, SequenceTheorems,
        TLAPS
-----------------------------------------------------------------------------
(* FinalAnswer: figures and facts.                                           *)

\* The values a function takes on a finite set are finitely many.
LEMMA FiniteImage ==
    ASSUME NEW S, IsFiniteSet(S), NEW f, f \in [S -> {f[x] : x \in S}]
    PROVE  IsFiniteSet({f[x] : x \in S})
<1>1. f \in Surjection(S, {f[x] : x \in S})
  BY DEF Surjection
<1>2. QED
  BY <1>1, FS_Surjection

\* Among finitely many values that are at most one, any two are the same.
LEMMA AtMostOne ==
    ASSUME NEW S, IsFiniteSet(S), ~(Cardinality(S) > 1), NEW x \in S, NEW y \in S
    PROVE  x = y
<1>1. Cardinality(S) \in Nat
  BY FS_CardinalityType
<1>2. Cardinality(S) # 0
  BY FS_EmptySet
<1>3. Cardinality(S) = 1
  BY <1>1, <1>2
<1>4. QED
  BY <1>3, FS_Singleton

\* What facts are of, and what they say, is finitely much.
LEMMA FiniteIdentities ==
    ASSUME NEW S, IsFiniteSet(S)
    PROVE  IsFiniteSet({Identity(f) : f \in S}) /\ IsFiniteSet({f.value : f \in S})
<1> DEFINE of == [f \in S |-> Identity(f)]
           says == [f \in S |-> f.value]
<1>1. {of[f] : f \in S} = {Identity(f) : f \in S} /\ {says[f] : f \in S} = {f.value : f \in S}
  OBVIOUS
<1>2. of \in [S -> {of[f] : f \in S}] /\ says \in [S -> {says[f] : f \in S}]
  OBVIOUS
<1> HIDE DEF of, says
<1>3. IsFiniteSet({of[f] : f \in S}) /\ IsFiniteSet({says[f] : f \in S})
  BY <1>2, FiniteImage
<1>4. QED
  BY <1>1, <1>3

\* A fact is what it is of and what it says.
LEMMA SameFact ==
    ASSUME NEW f \in Findings, NEW g \in Findings, Identity(f) = Identity(g), f.value = g.value
    PROVE  f = g
<1>1. /\ f = [tool |-> f.tool, on |-> f.on, group |-> f.group, role |-> f.role, value |-> f.value]
      /\ g = [tool |-> g.tool, on |-> g.on, group |-> g.group, role |-> g.role, value |-> g.value]
  BY AnswerAssumption
<1>2. f.tool = g.tool /\ f.on = g.on /\ f.group = g.group /\ f.role = g.role
  BY <1>1 DEF Identity
<1>3. QED
  BY <1>1, <1>2

(* A figure the verification counts as supported is grounded: one fact shows *)
(* it, and no statistic it may mean as well says otherwise.                  *)
LEMMA SupportedIsGrounded ==
    ASSUME facts \subseteq Findings, IsFiniteSet(facts), NEW figure, Supported(figure)
    PROVE  Grounded(figure)
<1> DEFINE all == {f \in facts : Agrees(figure, f)}
           statistics == {f \in all : Statistical(f)}
           proofs == Proofs(figure)
<1>1. IsFiniteSet(all) /\ IsFiniteSet(statistics)
  <2>1. IsFiniteSet(all)
    BY FS_Subset
  <2>2. QED
    BY <2>1, FS_Subset
<1>2. proofs \subseteq all
  BY DEF Proofs, Candidates
<1>3. IsFiniteSet(proofs) /\ Cardinality({Identity(f) : f \in proofs}) = 1
  BY <1>1, <1>2, FS_Subset DEF Supported
<1>4. \A f, g \in proofs : Identity(f) = Identity(g)
  <2> SUFFICES ASSUME NEW f \in proofs, NEW g \in proofs PROVE Identity(f) = Identity(g)
    OBVIOUS
  <2>1. IsFiniteSet({Identity(h) : h \in proofs})
    BY <1>3, FiniteIdentities
  <2> HIDE DEF proofs
  <2>2. QED
    BY <1>3, <2>1, AtMostOne
<1>5. PICK fact \in proofs : TRUE
  <2>1. proofs # {}
    <3>1. CASE proofs = {}
      <4>1. {Identity(f) : f \in proofs} = {}
        BY <3>1
      <4>2. QED
        BY <4>1, <1>3, FS_EmptySet
    <3>2. QED
      BY <3>1
  <2>2. QED
    BY <2>1
<1>6. /\ ~(Cardinality({Identity(f) : f \in statistics}) > 1)
      /\ ~(statistics # {} /\ Cardinality({f.value : f \in all}) > 1)
      /\ Candidates(figure) = all
  BY <1>5 DEF Proofs, Candidates
<1>7. \A f \in facts : Agrees(figure, f) /\ Shows(figure, f) <=> f \in proofs
  BY <1>6 DEF Proofs
<1>8. ASSUME NEW other \in facts, Agrees(figure, other), Statistical(other)
      PROVE  other = fact
  <2>1. other \in statistics /\ other \in all /\ fact \in all
    BY <1>2, <1>5, <1>8
  <2>2. IsFiniteSet({f.value : f \in all})
    BY <1>1, FiniteIdentities
  <2>3. other.value = fact.value
    <3> HIDE DEF all
    <3>1. other.value \in {f.value : f \in all} /\ fact.value \in {f.value : f \in all}
      BY <2>1
    <3>2. QED
      BY <1>6, <2>1, <2>2, <3>1, AtMostOne
  <2>4. Shows(figure, other)
    BY <2>3, <1>5, <1>7, <2>1 DEF Shows
  <2>5. Identity(other) = Identity(fact)
    BY <2>4, <1>4, <1>5, <1>7, <1>8
  <2>6. QED
    BY <2>3, <2>5, <2>1, SameFact
<1>9. QED
  BY <1>4, <1>5, <1>7, <1>8, <1>2 DEF Grounded
-----------------------------------------------------------------------------
(* FinalAnswer: the inductive invariant.                                     *)
Working == {"turn", "draw"}
Checking == {"claim", "judge", "last", "deliver", "stored"}

\* What the host does goes with the status of the run; evidence is gathered only at work.
HostFits ==
    /\ answerer.mode \in Working => status = "running"
    /\ answerer.mode = "draw" => answerer.round < MaxRounds
    /\ answerer.mode \in Checking => status = "verifying"
    /\ answerer.mode = "none" => status \notin {"running", "verifying"}

Gathered == facts \subseteq Findings /\ IsFiniteSet(facts)

\* What the model sets out to make is in the contract.
Owed == promised \subseteq request.artifacts

\* From the claims to the delivery nothing a candidate rests on changes.
Judged ==
    /\ answerer.mode \in {"judge", "last", "deliver", "stored"} => claims = ClaimsOf(answerer.text)
    /\ answerer.mode \in {"deliver", "stored"} => Issues(answerer.text, claims) = {}

\* An answer stored is the one that was judged, and no host works on the run after it.
Told ==
    /\ answerer.mode = "stored" => message = answerer.text
    /\ message # NoText =>
          /\ answerer.mode \in {"stored", "none"}
          /\ status \in {"verifying", "completed", "failed", "cancelled"}
          /\ claims = ClaimsOf(message) /\ Issues(message, claims) = {}
    /\ status = "completed" => message # NoText

AnswerInv ==
    /\ AnswerTypeOK /\ HostFits /\ Gathered /\ Owed /\ Judged /\ Told
-----------------------------------------------------------------------------
(* FinalAnswer: the steps.                                                   *)

\* Without new evidence and a changed request every text is judged as before.
LEMMA SameClaims ==
    ASSUME UNCHANGED runEvidence
    PROVE  \A text : ClaimsOf(text)' = ClaimsOf(text)
BY DEF runEvidence, ClaimsOf, Numeric, Supported, Proofs, Candidates, Agrees, KnownGroup,
       SameObject, Shows, Knowledge, Identity, Statistical

LEMMA SameIssues ==
    ASSUME UNCHANGED <<request, runEvidence>>
    PROVE  \A text, rows : Issues(text, rows)' = Issues(text, rows)
BY DEF runEvidence, Issues, TotalIssues, Totals, Proofs, Candidates, Agrees, KnownGroup,
       SameObject, Shows, Identity, Statistical

\* A call leaves a host as it should be.
LEMMA CalledHost ==
    ASSUME AnswerInv, answerer.round < MaxRounds, NEW tool, NEW ok, Call(tool, ok)
    PROVE  answerer' \in [mode : Modes, round : 0..MaxRounds, spent : SUBSET Concerns,
                         tools : BOOLEAN, text : SUBSET Sayable]
<1>1. answerer.round + 1 \in 0..MaxRounds
  BY AnswerAssumption DEF AnswerInv, AnswerTypeOK
<1>2. (answerer.tools /\ spentCalls' < MaxToolCalls) \in BOOLEAN
  OBVIOUS
<1> DEFINE open == answerer.tools /\ spentCalls' < MaxToolCalls
<1>3. answerer' = [answerer EXCEPT !.mode = "turn", !.round = @ + 1, !.tools = open]
  BY DEF Call
<1> HIDE DEF open
<1>4. QED
  BY <1>1, <1>2, <1>3 DEF AnswerInv, AnswerTypeOK, Modes, open

LEMMA ComputeStep ==
    ASSUME AnswerInv, NEW fact \in Findings, NEW ok \in BOOLEAN, Compute(fact, ok)
    PROVE  AnswerInv'
<1> USE AnswerAssumption DEF Modes
<1>1. answerer' \in [mode : Modes, round : 0..MaxRounds, spent : SUBSET Concerns,
                    tools : BOOLEAN, text : SUBSET Sayable]
  BY CalledHost DEF Compute, Turn
<1>2. AnswerTypeOK'
  BY <1>1 DEF AnswerInv, runEvidence, AnswerTypeOK, HostFits, Compute, Turn, Call, Rest, InRun
<1>3. HostFits'
  BY <1>1, <1>2 DEF AnswerInv, AnswerTypeOK, HostFits, Working, Checking, Compute, Turn, Call, Rest, InRun
<1>4. Gathered' /\ Owed'
  BY FS_AddElement DEF AnswerInv, runEvidence, AnswerTypeOK, Gathered, Owed, Compute, Turn, Call, Rest, InRun
<1>5. Judged' /\ Told'
  BY <1>1 DEF AnswerInv, runEvidence, AnswerTypeOK, HostFits, Judged, Told, Working, Checking, Compute, Turn, Call, Rest, InRun
<1>6. QED
  BY <1>2, <1>3, <1>4, <1>5 DEF AnswerInv

LEMMA SearchStep ==
    ASSUME AnswerInv, NEW result \in {"hit", "empty"}, Search(result)
    PROVE  AnswerInv'
<1> USE AnswerAssumption DEF Modes
<1>1. answerer' \in [mode : Modes, round : 0..MaxRounds, spent : SUBSET Concerns,
                    tools : BOOLEAN, text : SUBSET Sayable]
  BY CalledHost DEF Search, Turn
<1>2. AnswerTypeOK'
  BY <1>1 DEF AnswerInv, runEvidence, AnswerTypeOK, HostFits, Search, Turn, Call, Rest, InRun
<1>3. HostFits'
  BY <1>1, <1>2 DEF AnswerInv, AnswerTypeOK, HostFits, Working, Checking, Search, Turn, Call, Rest, InRun
<1>4. Gathered' /\ Owed'
  BY FS_AddElement DEF AnswerInv, runEvidence, AnswerTypeOK, Gathered, Owed, Search, Turn, Call, Rest, InRun
<1>5. Judged' /\ Told'
  BY <1>1 DEF AnswerInv, runEvidence, AnswerTypeOK, HostFits, Judged, Told, Working, Checking, Search, Turn, Call, Rest, InRun
<1>6. QED
  BY <1>2, <1>3, <1>4, <1>5 DEF AnswerInv

LEMMA PromiseStep ==
    ASSUME AnswerInv, Promise
    PROVE  AnswerInv'
<1> USE AnswerAssumption DEF Modes
<1>1. answerer' \in [mode : Modes, round : 0..MaxRounds, spent : SUBSET Concerns,
                    tools : BOOLEAN, text : SUBSET Sayable]
  BY DEF AnswerInv, AnswerTypeOK, Promise, Turn, InRun
<1>2. AnswerTypeOK'
  BY <1>1 DEF AnswerInv, runEvidence, AnswerTypeOK, HostFits, Promise, Turn, InRun
<1>3. HostFits'
  BY <1>1, <1>2 DEF AnswerInv, AnswerTypeOK, HostFits, Working, Checking, Promise, Turn, InRun
<1>4. Gathered' /\ Owed'
  BY FS_AddElement DEF AnswerInv, runEvidence, AnswerTypeOK, Gathered, Owed, Promise, Turn, InRun
<1>5. Judged' /\ Told'
  BY <1>1 DEF AnswerInv, runEvidence, AnswerTypeOK, HostFits, Judged, Told, Working, Checking, Promise, Turn, InRun
<1>6. QED
  BY <1>2, <1>3, <1>4, <1>5 DEF AnswerInv

LEMMA DrawStep ==
    ASSUME AnswerInv, NEW ok \in BOOLEAN, Draw(ok)
    PROVE  AnswerInv'
<1> USE AnswerAssumption DEF Modes
<1>1. answerer' \in [mode : Modes, round : 0..MaxRounds, spent : SUBSET Concerns,
                    tools : BOOLEAN, text : SUBSET Sayable]
  BY CalledHost DEF Draw, InRun, HostFits, AnswerInv
<1>2. AnswerTypeOK'
  BY <1>1 DEF AnswerInv, runEvidence, AnswerTypeOK, HostFits, Draw, Call, Rest, InRun
<1>3. HostFits'
  BY <1>1, <1>2 DEF AnswerInv, AnswerTypeOK, HostFits, Working, Checking, Draw, Call, Rest, InRun
<1>4. Gathered' /\ Owed'
  BY FS_AddElement DEF AnswerInv, runEvidence, AnswerTypeOK, Gathered, Owed, Draw, Call, Rest, InRun
<1>5. Judged' /\ Told'
  BY <1>1 DEF AnswerInv, runEvidence, AnswerTypeOK, HostFits, Judged, Told, Working, Checking, Draw, Call, Rest, InRun
<1>6. QED
  BY <1>2, <1>3, <1>4, <1>5 DEF AnswerInv

LEMMA BreakStep ==
    ASSUME AnswerInv, Break
    PROVE  AnswerInv'
<1> USE AnswerAssumption DEF Modes
<1>1. answerer' \in [mode : Modes, round : 0..MaxRounds, spent : SUBSET Concerns,
                    tools : BOOLEAN, text : SUBSET Sayable]
  <2>1. answerer.round + 1 \in 0..MaxRounds
    BY DEF AnswerInv, AnswerTypeOK, Break, Turn
  <2>2. QED
    BY <2>1 DEF AnswerInv, AnswerTypeOK, Break
<1>2. AnswerTypeOK'
  BY <1>1 DEF AnswerInv, runEvidence, AnswerTypeOK, HostFits, Break, Turn, Rest, InRun
<1>3. HostFits'
  BY <1>1, <1>2 DEF AnswerInv, AnswerTypeOK, HostFits, Working, Checking, Break, Turn, Rest, InRun
<1>4. Gathered' /\ Owed'
  BY FS_AddElement DEF AnswerInv, runEvidence, AnswerTypeOK, Gathered, Owed, Break, Turn, Rest, InRun
<1>5. Judged' /\ Told'
  BY SameClaims, SameIssues, <1>1 DEF AnswerInv, runEvidence, AnswerTypeOK, HostFits, Judged, Told, Working, Checking, Break, Turn, Rest, InRun
<1>6. QED
  BY <1>2, <1>3, <1>4, <1>5 DEF AnswerInv

LEMMA OfferStep ==
    ASSUME AnswerInv, NEW text \in DraftTexts, Offer(text)
    PROVE  AnswerInv'
<1> USE AnswerAssumption DEF Modes
<1>1. answerer' \in [mode : Modes, round : 0..MaxRounds, spent : SUBSET Concerns,
                    tools : BOOLEAN, text : SUBSET Sayable]
  <2>1. answerer.round + 1 \in 0..MaxRounds
    BY DEF AnswerInv, AnswerTypeOK, Offer, Turn
  <2>2. text \subseteq Sayable
    BY DEF Sayable
  <2>3. QED
    BY <2>1, <2>2 DEF AnswerInv, AnswerTypeOK, Offer
<1>2. AnswerTypeOK'
  BY <1>1 DEF AnswerInv, runEvidence, AnswerTypeOK, HostFits, Offer, Turn, InRun
<1>3. HostFits'
  BY <1>1, <1>2 DEF AnswerInv, AnswerTypeOK, HostFits, Working, Checking, Offer, Turn, InRun
<1>4. Gathered' /\ Owed'
  BY FS_AddElement DEF AnswerInv, runEvidence, AnswerTypeOK, Gathered, Owed, Offer, Turn, InRun
<1>5. Judged' /\ Told'
  BY SameClaims, SameIssues, <1>1 DEF AnswerInv, runEvidence, AnswerTypeOK, HostFits, Judged, Told, Working, Checking, Offer, Turn, InRun
<1>6. QED
  BY <1>2, <1>3, <1>4, <1>5 DEF AnswerInv

LEMMA WriteClaimsStep ==
    ASSUME AnswerInv, WriteClaims
    PROVE  AnswerInv'
<1> USE AnswerAssumption DEF Modes
<1>1. answerer' \in [mode : Modes, round : 0..MaxRounds, spent : SUBSET Concerns,
                    tools : BOOLEAN, text : SUBSET Sayable]
  BY DEF AnswerInv, AnswerTypeOK, WriteClaims, Verifying
<1>2. AnswerTypeOK'
  BY <1>1 DEF AnswerInv, runEvidence, AnswerTypeOK, HostFits, WriteClaims, Verifying, ClaimsOf, Knowledge
<1>3. HostFits'
  BY <1>1, <1>2 DEF AnswerInv, AnswerTypeOK, HostFits, Working, Checking, WriteClaims, Verifying
<1>4. Gathered' /\ Owed'
  BY FS_AddElement DEF AnswerInv, runEvidence, AnswerTypeOK, Gathered, Owed, WriteClaims, Verifying
<1>5. Judged' /\ Told'
  BY SameClaims, SameIssues, <1>1 DEF AnswerInv, runEvidence, AnswerTypeOK, HostFits, Judged, Told, Working, Checking, WriteClaims, Verifying
<1>6. QED
  BY <1>2, <1>3, <1>4, <1>5 DEF AnswerInv

LEMMA RetryStep ==
    ASSUME AnswerInv, Retry
    PROVE  AnswerInv'
<1> USE AnswerAssumption DEF Modes
<1>1. answerer' \in [mode : Modes, round : 0..MaxRounds, spent : SUBSET Concerns,
                    tools : BOOLEAN, text : SUBSET Sayable]
  BY DEF AnswerInv, AnswerTypeOK, Retry, Verifying, Retries, Concern, NoText
<1>2. AnswerTypeOK'
  BY <1>1 DEF AnswerInv, runEvidence, AnswerTypeOK, HostFits, Retry, Verifying
<1>3. HostFits'
  BY <1>1, <1>2 DEF AnswerInv, AnswerTypeOK, HostFits, Working, Checking, Retry, Verifying
<1>4. Gathered' /\ Owed'
  BY FS_AddElement DEF AnswerInv, runEvidence, AnswerTypeOK, Gathered, Owed, Retry, Verifying
<1>5. Judged' /\ Told'
  BY SameClaims, SameIssues, <1>1 DEF AnswerInv, runEvidence, AnswerTypeOK, HostFits, Judged, Told, Working, Checking, Retry, Verifying
<1>6. QED
  BY <1>2, <1>3, <1>4, <1>5 DEF AnswerInv

LEMMA RepairStep ==
    ASSUME AnswerInv, NEW fallback \in UNION DraftTexts, Repair(fallback)
    PROVE  AnswerInv'
<1> USE AnswerAssumption DEF Modes
<1>1. answerer' \in [mode : Modes, round : 0..MaxRounds, spent : SUBSET Concerns,
                    tools : BOOLEAN, text : SUBSET Sayable]
  <2> DEFINE text == Repaired(answerer.text, claims, fallback)
  <2>1. text \subseteq Sayable
    <3>1. \A t \in text : t \in answerer.text \/ t \in {fallback, Plain, Citation}
      BY DEF Repaired
    <3>2. answerer.text \subseteq Sayable
      BY DEF AnswerInv, AnswerTypeOK
    <3>3. fallback \in UNION DraftTexts
      OBVIOUS
    <3>4. fallback \in Sayable
      BY ONLY <3>3, Zenon DEF Sayable
    <3>5. Plain \in Sayable /\ Citation \in Sayable
      BY ONLY Zenon DEF Sayable
    <3> HIDE DEF text
    <3>6. QED
      BY <3>1, <3>2, <3>4, <3>5
  <2>2. answerer' = [answerer EXCEPT !.mode = "last", !.text = text]
    BY DEF Repair
  <2> HIDE DEF text
  <2>3. QED
    BY <2>1, <2>2 DEF AnswerInv, AnswerTypeOK
<1>2. AnswerTypeOK'
  BY <1>1 DEF AnswerInv, runEvidence, AnswerTypeOK, HostFits, Repair, Verifying, ClaimsOf, Knowledge
<1>3. HostFits'
  BY <1>1, <1>2 DEF AnswerInv, AnswerTypeOK, HostFits, Working, Checking, Repair, Verifying
<1>4. Gathered' /\ Owed'
  BY FS_AddElement DEF AnswerInv, runEvidence, AnswerTypeOK, Gathered, Owed, Repair, Verifying
<1>5. Judged' /\ Told'
  BY SameClaims, SameIssues, <1>1 DEF AnswerInv, runEvidence, AnswerTypeOK, HostFits, Judged, Told, Working, Checking, Repair, Verifying
<1>6. QED
  BY <1>2, <1>3, <1>4, <1>5 DEF AnswerInv

LEMMA RefuseStep ==
    ASSUME AnswerInv, Refuse
    PROVE  AnswerInv'
<1> USE AnswerAssumption DEF Modes
<1>1. answerer' \in [mode : Modes, round : 0..MaxRounds, spent : SUBSET Concerns,
                    tools : BOOLEAN, text : SUBSET Sayable]
  BY DEF AnswerInv, AnswerTypeOK, Refuse, Settled, Verifying, EndStatus, Gone, NoText
<1>2. AnswerTypeOK'
  BY <1>1 DEF AnswerInv, runEvidence, AnswerTypeOK, HostFits, Refuse, Settled, Verifying, EndStatus, Gone
<1>3. HostFits'
  BY <1>1, <1>2 DEF AnswerInv, AnswerTypeOK, HostFits, Working, Checking, Refuse, Settled, Verifying, EndStatus, Gone
<1>4. Gathered' /\ Owed'
  BY FS_AddElement DEF AnswerInv, runEvidence, AnswerTypeOK, Gathered, Owed, Refuse, Settled, Verifying, EndStatus, Gone
<1>5. Judged' /\ Told'
  BY SameClaims, SameIssues, <1>1 DEF AnswerInv, runEvidence, AnswerTypeOK, HostFits, Judged, Told, Working, Checking, Refuse, Settled, Verifying, EndStatus, Gone
<1>6. QED
  BY <1>2, <1>3, <1>4, <1>5 DEF AnswerInv

LEMMA PassStep ==
    ASSUME AnswerInv, Pass
    PROVE  AnswerInv'
<1> USE AnswerAssumption DEF Modes
<1>1. answerer' \in [mode : Modes, round : 0..MaxRounds, spent : SUBSET Concerns,
                    tools : BOOLEAN, text : SUBSET Sayable]
  BY DEF AnswerInv, AnswerTypeOK, Pass, Settled, Verifying, Now
<1>2. AnswerTypeOK'
  BY <1>1 DEF AnswerInv, runEvidence, AnswerTypeOK, HostFits, Pass, Settled, Verifying, Now
<1>3. HostFits'
  BY <1>1, <1>2 DEF AnswerInv, AnswerTypeOK, HostFits, Working, Checking, Pass, Settled, Verifying, Now
<1>4. Gathered' /\ Owed'
  BY FS_AddElement DEF AnswerInv, runEvidence, AnswerTypeOK, Gathered, Owed, Pass, Settled, Verifying, Now
<1>5. Judged' /\ Told'
  BY SameClaims, SameIssues, <1>1 DEF AnswerInv, runEvidence, AnswerTypeOK, HostFits, Judged, Told, Working, Checking, Pass, Settled, Verifying, Now
<1>6. QED
  BY <1>2, <1>3, <1>4, <1>5 DEF AnswerInv

LEMMA StoreMessageStep ==
    ASSUME AnswerInv, StoreMessage
    PROVE  AnswerInv'
<1> USE AnswerAssumption DEF Modes
<1>1. answerer' \in [mode : Modes, round : 0..MaxRounds, spent : SUBSET Concerns,
                    tools : BOOLEAN, text : SUBSET Sayable]
  BY DEF AnswerInv, AnswerTypeOK, StoreMessage, Verifying
<1>2. AnswerTypeOK'
  BY <1>1 DEF AnswerInv, runEvidence, AnswerTypeOK, HostFits, StoreMessage, Verifying
<1>3. HostFits'
  BY <1>1, <1>2 DEF AnswerInv, AnswerTypeOK, HostFits, Working, Checking, StoreMessage, Verifying
<1>4. Gathered' /\ Owed'
  BY FS_AddElement DEF AnswerInv, runEvidence, AnswerTypeOK, Gathered, Owed, StoreMessage, Verifying
<1>5. Judged' /\ Told'
  BY SameClaims, SameIssues, <1>1 DEF AnswerInv, runEvidence, AnswerTypeOK, HostFits, Judged, Told, Working, Checking, StoreMessage, Verifying
<1>6. QED
  BY <1>2, <1>3, <1>4, <1>5 DEF AnswerInv

LEMMA CompleteStep ==
    ASSUME AnswerInv, Complete
    PROVE  AnswerInv'
<1> USE AnswerAssumption DEF Modes
<1>1. answerer' \in [mode : Modes, round : 0..MaxRounds, spent : SUBSET Concerns,
                    tools : BOOLEAN, text : SUBSET Sayable]
  BY DEF AnswerInv, AnswerTypeOK, Complete, Verifying, Gone, NoText
<1>2. AnswerTypeOK'
  BY <1>1 DEF AnswerInv, runEvidence, AnswerTypeOK, HostFits, Complete, Verifying, Gone
<1>3. HostFits'
  BY <1>1, <1>2 DEF AnswerInv, AnswerTypeOK, HostFits, Working, Checking, Complete, Verifying, Gone
<1>4. Gathered' /\ Owed'
  BY FS_AddElement DEF AnswerInv, runEvidence, AnswerTypeOK, Gathered, Owed, Complete, Verifying, Gone
<1>5. Judged' /\ Told'
  <2>1. "empty_response" \notin Issues(answerer.text, claims)
    BY DEF AnswerInv, Judged, Complete, Verifying
  <2>2. message # NoText
    BY <2>1 DEF AnswerInv, Told, Complete, Verifying, Issues, NoText
  <2>3. QED
    BY <2>2, SameClaims, SameIssues, <1>1
    DEF AnswerInv, runEvidence, AnswerTypeOK, HostFits, Judged, Told, Complete, Verifying, Gone
<1>6. QED
  BY <1>2, <1>3, <1>4, <1>5 DEF AnswerInv

LEMMA RoundLimitStep ==
    ASSUME AnswerInv, RoundLimit
    PROVE  AnswerInv'
<1> USE AnswerAssumption DEF Modes
<1>1. answerer' \in [mode : Modes, round : 0..MaxRounds, spent : SUBSET Concerns,
                    tools : BOOLEAN, text : SUBSET Sayable]
  BY DEF AnswerInv, AnswerTypeOK, RoundLimit, InRun, Gone, NoText
<1>2. AnswerTypeOK'
  BY <1>1 DEF AnswerInv, runEvidence, AnswerTypeOK, HostFits, RoundLimit, InRun, Gone
<1>3. HostFits'
  BY <1>1, <1>2 DEF AnswerInv, AnswerTypeOK, HostFits, Working, Checking, RoundLimit, InRun, Gone
<1>4. Gathered' /\ Owed'
  BY FS_AddElement DEF AnswerInv, runEvidence, AnswerTypeOK, Gathered, Owed, RoundLimit, InRun, Gone
<1>5. Judged' /\ Told'
  BY SameClaims, SameIssues, <1>1 DEF AnswerInv, runEvidence, AnswerTypeOK, HostFits, Judged, Told, Working, Checking, RoundLimit, InRun, Gone
<1>6. QED
  BY <1>2, <1>3, <1>4, <1>5 DEF AnswerInv

LEMMA EndEarlyStep ==
    ASSUME AnswerInv, NEW by, NEW end, EndEarly(by, end),
           <<by, end>> \in {<<{"running", "paused", "verifying"}, "cancelled">>,
                          <<{"running"}, "paused">>, <<{"verifying"}, "failed">>}
    PROVE  AnswerInv'
<1> USE AnswerAssumption DEF Modes
<1>1. answerer' \in [mode : Modes, round : 0..MaxRounds, spent : SUBSET Concerns,
                    tools : BOOLEAN, text : SUBSET Sayable]
  BY DEF AnswerInv, AnswerTypeOK, EndEarly, Gone, NoText
<1>2. AnswerTypeOK'
  BY <1>1 DEF AnswerInv, runEvidence, AnswerTypeOK, HostFits, EndEarly, Gone
<1>3. HostFits'
  BY <1>1, <1>2 DEF AnswerInv, AnswerTypeOK, HostFits, Working, Checking, EndEarly, Gone
<1>4. Gathered' /\ Owed'
  BY FS_AddElement DEF AnswerInv, runEvidence, AnswerTypeOK, Gathered, Owed, EndEarly, Gone
<1>5. Judged' /\ Told'
  BY SameClaims, SameIssues, <1>1 DEF AnswerInv, runEvidence, AnswerTypeOK, HostFits, Judged, Told, Working, Checking, EndEarly, Gone
<1>6. QED
  BY <1>2, <1>3, <1>4, <1>5 DEF AnswerInv

LEMMA ResumeStep ==
    ASSUME AnswerInv, Resume
    PROVE  AnswerInv'
<1> USE AnswerAssumption DEF Modes
<1>1. answerer' \in [mode : Modes, round : 0..MaxRounds, spent : SUBSET Concerns,
                    tools : BOOLEAN, text : SUBSET Sayable]
  <2>1. (~Exhausted) \in BOOLEAN /\ 0 \in 0..MaxRounds
    OBVIOUS
  <2> DEFINE open == ~Exhausted
  <2>2. answerer' = [mode |-> "turn", round |-> 0, spent |-> {}, tools |-> open, text |-> {}]
    BY DEF Resume, FreshHost, Gone, NoText
  <2> HIDE DEF open
  <2>3. QED
    BY <2>1, <2>2 DEF open
<1>2. AnswerTypeOK'
  BY <1>1 DEF AnswerInv, runEvidence, AnswerTypeOK, HostFits, Resume, FreshHost, Gone
<1>3. HostFits'
  BY <1>1, <1>2 DEF AnswerInv, AnswerTypeOK, HostFits, Working, Checking, Resume, FreshHost, Gone
<1>4. Gathered' /\ Owed'
  BY FS_AddElement DEF AnswerInv, runEvidence, AnswerTypeOK, Gathered, Owed, Resume, FreshHost, Gone
<1>5. Judged' /\ Told'
  BY SameClaims, SameIssues, <1>1 DEF AnswerInv, runEvidence, AnswerTypeOK, HostFits, Judged, Told, Working, Checking, Resume, FreshHost, Gone
<1>6. QED
  BY <1>2, <1>3, <1>4, <1>5 DEF AnswerInv
-----------------------------------------------------------------------------
(* FinalAnswer: the theorems.                                                *)

\* The inductive invariant holds of every run that is answered.
THEOREM AnswersJudged == AnswerSpec => []AnswerInv
<1>1. AnswerInit => AnswerInv
  <2> SUFFICES ASSUME AnswerInit PROVE AnswerInv
    OBVIOUS
  <2>1. AnswerTypeOK
    <3> DEFINE open == ~Exhausted
    <3>1. answerer = [mode |-> "turn", round |-> 0, spent |-> {}, tools |-> open, text |-> {}]
      BY DEF AnswerInit, FreshHost, Gone, NoText
    <3>2. open \in BOOLEAN
      OBVIOUS
    <3> HIDE DEF open
    <3>3. answerer \in [mode : Modes, round : 0..MaxRounds, spent : SUBSET Concerns,
                       tools : BOOLEAN, text : SUBSET Sayable]
      BY <3>1, <3>2, AnswerAssumption DEF Modes
    <3>4. QED
      BY <3>3, AnswerAssumption DEF AnswerInit, AnswerTypeOK, NoText, NoClaims
  <2>2. HostFits /\ Gathered /\ Owed /\ Judged /\ Told
    BY FS_EmptySet
    DEF AnswerInit, HostFits, Gathered, Owed, Judged, Told, Working, Checking, FreshHost, Gone
  <2>3. QED
    BY <2>1, <2>2 DEF AnswerInv
<1>2. AnswerInv /\ [AnswerNext]_answerVars => AnswerInv'
  <2> SUFFICES ASSUME AnswerInv, [AnswerNext]_answerVars PROVE AnswerInv'
    OBVIOUS
  <2>1. CASE AnswerNext
    BY <2>1, ComputeStep, SearchStep, PromiseStep, DrawStep, BreakStep, OfferStep,
       WriteClaimsStep, RetryStep, RepairStep, RefuseStep, PassStep, StoreMessageStep,
       CompleteStep, RoundLimitStep, EndEarlyStep, ResumeStep DEF AnswerNext
  <2>2. CASE UNCHANGED answerVars
    BY <2>2, SameClaims, SameIssues
    DEF answerVars, runEvidence, AnswerInv, AnswerTypeOK, HostFits, Gathered, Owed, Judged, Told
  <2>3. QED
    BY <2>1, <2>2
<1>3. QED
  BY <1>1, <1>2, PTL DEF AnswerSpec

(* What a user is told rests on the evidence of the run, whatever tools      *)
(* find, the model writes and the user asks, through retries, repairs,       *)
(* crashes and cancellations (AnswerSound).                                  *)
THEOREM AnswersRestOnEvidence == AnswerSpec => []AnswerSound
<1>1. AnswerInv => AnswerSound
  <2> SUFFICES ASSUME AnswerInv, message # NoText
               PROVE  /\ \A figure \in Numeric(message) : Grounded(figure)
                      /\ "hit" \in found => \E s \in message : s.cites
                      /\ found = {"empty"} => \E s \in message : s.denies
                      /\ request.total => \E s \in message : s.figure.role = "total"
                      /\ promised \cup request.artifacts \subseteq drawn
                      /\ unfinished = {} /\ failed = {}
                      /\ claims = ClaimsOf(message)
    BY DEF AnswerSound, AnswerInv, Told
  <2>1. claims = ClaimsOf(message) /\ Issues(message, claims) = {}
    BY DEF AnswerInv, Told
  <2>2. /\ TotalIssues(claims) = {}
        /\ unfinished = {} /\ request.artifacts \subseteq drawn /\ failed = {}
        /\ claims.unsupported = {} /\ claims.knowledge # "unsupported"
    BY <2>1 DEF Issues
  <2>3. \A figure \in Numeric(message) : Grounded(figure)
    <3> SUFFICES ASSUME NEW figure \in Numeric(message) PROVE Grounded(figure)
      OBVIOUS
    <3>1. Supported(figure)
      BY <2>1, <2>2 DEF ClaimsOf
    <3>2. QED
      BY <3>1, SupportedIsGrounded DEF AnswerInv, Gathered
  <2>4. Knowledge(message) # "unsupported" /\ message # {}
    BY <2>1, <2>2 DEF ClaimsOf, NoText
  <2>5. "hit" \in found => \E s \in message : s.cites
    BY <2>4 DEF Knowledge
  <2>6. found = {"empty"} => \E s \in message : s.denies
    BY <2>4 DEF Knowledge
  <2>7. request.total => \E s \in message : s.figure.role = "total"
    <3> SUFFICES ASSUME request.total PROVE \E s \in message : s.figure.role = "total"
      OBVIOUS
    <3>1. PICK g \in claims.supported : g.role = "total"
      BY <2>2 DEF TotalIssues
    <3>2. g \in Numeric(message)
      BY <2>1, <3>1 DEF ClaimsOf
    <3>3. QED
      BY <3>1, <3>2 DEF Numeric
  <2>8. promised \cup request.artifacts \subseteq drawn
    BY <2>2 DEF AnswerInv, Owed
  <2>9. QED
    BY <2>1, <2>2, <2>3, <2>5, <2>6, <2>7, <2>8
<1>2. QED
  BY <1>1, AnswersJudged, PTL

\* An answer that is stored stays as it is, with the claims and the evidence it was judged on.
AnswerStands ==
    [][message # NoText => UNCHANGED <<message, claims, request, promised, runEvidence>>]_answerVars

(* No step takes back or changes what the user has been told, or what it     *)
(* rests on.                                                                 *)
THEOREM AnswersStand == AnswerSpec => AnswerStands
<1>1. AnswerInv /\ [AnswerNext]_answerVars
         => [message # NoText => UNCHANGED <<message, claims, request, promised, runEvidence>>]_answerVars
  <2> SUFFICES ASSUME AnswerInv, AnswerNext, message # NoText
               PROVE  UNCHANGED <<message, claims, request, promised, runEvidence>>
    OBVIOUS
  <2>1. /\ answerer.mode \in {"stored", "none"}
        /\ status \in {"verifying", "completed", "failed", "cancelled"}
    BY DEF AnswerInv, Told
  <2>2. QED
    BY <2>1
    DEF AnswerNext, Compute, Search, Promise, Draw, Break, Offer, WriteClaims, Retry, Repair,
        Refuse, Pass, StoreMessage, Complete, RoundLimit, EndEarly, Resume, Turn, InRun, Verifying,
        Settled
<1>2. QED
  BY <1>1, AnswersJudged, PTL DEF AnswerSpec, AnswerStands
-----------------------------------------------------------------------------
(* Hypothesis: the inductive invariant.                                      *)

\* The step of the hypothesis, its call and its evidence.
StepFits ==
    /\ step = "absent" => planned = 1
    /\ state \in {"running", "paused"} => step # "absent"
    /\ step = "running" <=> calling # 0
    /\ state = "paused" => calling = 0
    /\ evidence # "untested" => step = "completed" /\ observed = "success"

\* The record follows the step, and is that of the candidate chosen.
RecordFits ==
    /\ record.bound = 0 => record = Unbound
    /\ record.bound # 0 => chosen \in EligibleKinds
    /\ Tested(record) => evidence = record.found
    /\ state \notin Ended => record.outcome = "untested"
    /\ record.outcome \in {"supported", "not_supported"} =>
           state = "completed" /\ record.found = record.outcome

FollowupFits == followup # Undecided => state \in Ended

\* A run that waits for the user has no plan yet, one that has is about a candidate.
Unplanned ==
    /\ state = "waiting_user" => step = "absent" /\ record = Unbound
    /\ state \in {"planning", "running", "paused"} => chosen \in EligibleKinds

HypothesisInv ==
    HypTypeOK /\ StepFits /\ RecordFits /\ FollowupFits /\ Unplanned /\ Offerable
-----------------------------------------------------------------------------
(* Hypothesis: the operators.                                                *)
Records == [bound : Nat, status : ExecutionStatus, called : BOOLEAN,
            found : TestResults, outcome : TestResults]

LEMMA UnboundIsRecord == Unbound \in Records /\ ~Tested(Unbound)
BY DEF Unbound, Records, Tested, ExecutionStatus, TestResults

\* Of some kinds there is a first.
LEMMA FirstIsOneOfThem ==
    ASSUME NEW K \in SUBSET Kinds, K # {}
    PROVE  First(K) \in K
<1>1. \E k \in K : \A l \in K : Priority[k] <= Priority[l]
  <2>1. /\ Priority["trend"] = 1 /\ Priority["anomaly"] = 2
        /\ Priority["segment_comparison"] = 3 /\ Priority["correlation"] = 4
    BY DEF Priority
  <2>2. \A k \in K : k \in {"trend", "anomaly", "segment_comparison", "correlation"}
    BY DEF Kinds
  <2>3. CASE "trend" \in K
    BY <2>1, <2>2, <2>3
  <2>4. CASE "trend" \notin K /\ "anomaly" \in K
    BY <2>1, <2>2, <2>4
  <2>5. CASE "trend" \notin K /\ "anomaly" \notin K /\ "segment_comparison" \in K
    BY <2>1, <2>2, <2>5
  <2>6. CASE K = {"correlation"}
    BY <2>1, <2>6
  <2>7. QED
    BY <2>2, <2>3, <2>4, <2>5, <2>6
<1>2. QED
  BY <1>1 DEF First

\* What a call or a new plan leaves of a record: one of the same hypothesis.
Follows(r, e, v) ==
    /\ r \in Records /\ r.bound \in {e.bound, v} /\ (r.bound = 0 => r = Unbound)
    /\ r.found = e.found /\ (e.outcome = "untested" => r.outcome = "untested")

LEMMA CallStarts ==
    ASSUME NEW e \in Records, NEW v \in Nat \ {0}, e.bound = 0 => e = Unbound
    PROVE  Follows(InvocationStarted(e, v), e, v) /\ InvocationStarted(e, v).bound = e.bound
BY DEF Follows, Records, InvocationStarted, Moves, Unbound, ExecutionStatus, FinalExecution, TestResults

LEMMA CallFailsIn ==
    ASSUME NEW e \in Records, NEW v \in Nat \ {0}, e.bound = 0 => e = Unbound
    PROVE  Follows(InvocationFailed(e, v), e, v) /\ InvocationFailed(e, v).bound = e.bound
BY DEF Follows, Records, InvocationFailed, Moves, Unbound, ExecutionStatus, FinalExecution, TestResults

LEMMA PlanBinds ==
    ASSUME NEW e \in Records, NEW v \in Nat \ {0}, e.bound = 0 => e = Unbound
    PROVE  Follows(BindToPlan(e, v), e, v) /\ BindToPlan(e, v).bound # 0
<1> USE DEF Records, ExecutionStatus, TestResults
<1>1. CASE e.status \in FinalExecution
  <2>1. BindToPlan(e, v) = e
    BY <1>1 DEF BindToPlan
  <2>2. e.bound # 0
    BY <1>1 DEF Unbound, FinalExecution
  <2>3. QED
    BY <2>1, <2>2 DEF Follows
<1>2. CASE e.status \notin FinalExecution
  <2>1. BindToPlan(e, v) = [e EXCEPT !.bound = v, !.status = RebindStatus(e), !.outcome = "untested"]
    BY <1>2 DEF BindToPlan
  <2>2. RebindStatus(e) \in ExecutionStatus
    BY DEF RebindStatus
  <2>3. QED
    BY <2>1, <2>2 DEF Follows
<1>3. QED
  BY <1>1, <1>2

LEMMA CallFinds ==
    ASSUME NEW e \in Records, NEW v \in Nat \ {0}, e.bound = 0 => e = Unbound,
           NEW o \in TestResults \ {"untested"}
    PROVE  /\ EvidenceCollected(e, v, o) \in Records
           /\ EvidenceCollected(e, v, o).bound = e.bound
           /\ EvidenceCollected(e, v, o).bound = 0 => EvidenceCollected(e, v, o) = Unbound
           /\ EvidenceCollected(e, v, o).found \in {e.found, o}
           /\ e.outcome = "untested" => EvidenceCollected(e, v, o).outcome = "untested"
BY DEF Records, EvidenceCollected, Moves, Unbound, ExecutionStatus, FinalExecution, TestResults

(* The finalised record of a run: a conclusion only of a completed one, and  *)
(* the one its evidence says.                                                *)
LEMMA Finalized ==
    ASSUME NEW e \in Records, NEW st, e.bound = 0 => e = Unbound,
           st \notin Ended => e.outcome = "untested"
    PROVE  /\ Finalize(e, st) \in Records
           /\ Finalize(e, st).bound = e.bound
           /\ Finalize(e, st).found = e.found
           /\ e.bound = 0 => Finalize(e, st) = Unbound
           /\ st \notin Ended => Finalize(e, st).outcome = "untested"
           /\ Finalize(e, st).outcome \in {"supported", "not_supported"} =>
                  st = "completed" /\ Finalize(e, st).outcome = e.found
<1> USE DEF Records, ExecutionStatus, TestResults
<1>1. CASE e.bound = 0 \/ st \notin Ended
  <2>1. Finalize(e, st) = e
    BY <1>1 DEF Finalize
  <2>2. e.outcome = "untested"
    BY <1>1 DEF Unbound
  <2>3. QED
    BY <2>1, <2>2, <1>1
<1>2. CASE e.bound # 0 /\ st = "cancelled"
  <2>1. Finalize(e, st) = [e EXCEPT !.status = "cancelled",
                                   !.outcome = IF Tested(e) THEN "inconclusive" ELSE "untested"]
    BY <1>2 DEF Finalize, Ended
  <2>2. QED
    BY <2>1, <1>2 DEF Ended
<1>3. CASE e.bound # 0 /\ st = "completed" /\ Tested(e)
  <2>1. Finalize(e, st) = [e EXCEPT !.status = e.found, !.outcome = e.found]
    BY <1>3 DEF Finalize, Ended
  <2>2. QED
    BY <2>1, <1>3 DEF Ended, Tested
<1>4. CASE e.bound # 0 /\ st \in {"blocked", "failed"} /\ Tested(e)
  <2>1. Finalize(e, st) = [e EXCEPT !.status = "partial", !.outcome = "inconclusive"]
    BY <1>4 DEF Finalize, Ended
  <2>2. QED
    BY <2>1, <1>4 DEF Ended
<1>5. CASE e.bound # 0 /\ st \in Ended \ {"cancelled"} /\ ~Tested(e)
  <2>1. Finalize(e, st) = [e EXCEPT !.status = "failed", !.outcome = "untested"]
    BY <1>5 DEF Finalize, Ended
  <2>2. QED
    BY <2>1, <1>5 DEF Ended
<1>6. QED
  BY <1>1, <1>2, <1>3, <1>4, <1>5 DEF Ended

(* What a transaction merges into the run fits it: the record finalised, and *)
(* a follow-up that can be done.                                             *)
LEMMA Merged ==
    ASSUME HypothesisInv, NEW e \in Records, Merge(e), e.bound = 0 => e = Unbound,
           e.bound # 0 => chosen' \in EligibleKinds,
           screened' = screened, chosen' \in Kinds \cup {Unselected},
           Tested(e) => evidence' = e.found,
           evidence' # "untested" => observed' = "success",
           state' \notin Ended => state \notin Ended /\ e.outcome = "untested",
           state' \in Ended => chosen' = chosen,
           state \in Ended => UNCHANGED <<tree, tests, evidence>>,
           planned' \in Nat, tests' \in 0..MaxTests
    PROVE  /\ record' \in Records /\ record'.bound = e.bound
           /\ record'.bound = 0 => record' = Unbound
           /\ Tested(record') => evidence' = record'.found
           /\ state' \notin Ended => record'.outcome = "untested"
           /\ record'.outcome \in {"supported", "not_supported"} =>
                  state' = "completed" /\ record'.found = record'.outcome
           /\ followup' \in [decision : Decisions, candidate : Kinds \cup {Unselected}]
           /\ FollowupFits' /\ Offerable'
<1>1. /\ record' = Finalize(e, state')
      /\ followup' = IF followup # Undecided THEN followup
                     ELSE IF record'.bound = 0 \/ state' \notin Ended THEN Undecided
                     ELSE Decide(record', state', planned', tree')
  BY DEF Merge
<1>2. /\ record' \in Records /\ record'.bound = e.bound
      /\ record'.bound = 0 => record' = Unbound
      /\ Tested(record') => evidence' = record'.found
      /\ state' \notin Ended => record'.outcome = "untested"
      /\ record'.outcome \in {"supported", "not_supported"} =>
             state' = "completed" /\ record'.found = record'.outcome
  BY <1>1, Finalized DEF Tested
<1>3. Undecided \in [decision : Decisions, candidate : Kinds \cup {Unselected}]
  BY DEF Undecided, Decisions
<1>4. CASE followup # Undecided
  <2>1. followup' = followup /\ state \in Ended
    BY <1>1, <1>4 DEF HypothesisInv, FollowupFits
  <2>2. state' \in Ended
    BY <2>1
  <2>3. Offerable'
    BY <2>1, <2>2 DEF HypothesisInv, Offerable
  <2>4. QED
    BY <1>2, <2>1, <2>2, <2>3 DEF HypothesisInv, HypTypeOK, FollowupFits
<1>5. CASE followup' = Undecided
  BY <1>2, <1>3, <1>5 DEF FollowupFits, Offerable, Undecided
<1>6. CASE record'.bound # 0 /\ state' \in Ended
           /\ followup' = Decide(record', state', planned', tree')
  <2>1. chosen \in EligibleKinds /\ chosen \in Kinds /\ chosen' = chosen
    BY <1>2, <1>6 DEF EligibleKinds
  <2>2. Others \subseteq EligibleKinds /\ chosen \notin Others /\ Others \subseteq Kinds
    BY DEF Others, EligibleKinds
  <2>3. Others # {} => First(Others) \in Others
    BY <2>2, FirstIsOneOfThem
  <2>4. \/ followup'.candidate = Unselected /\ followup'.decision \in {"stop", "degrade"}
        \/ /\ followup'.decision = "propose_next" /\ followup'.candidate = First(Others)
           /\ Others # {} /\ tree' = "completed" /\ tests' < MaxTests
        \/ /\ followup'.decision = "supplement_evidence" /\ followup'.candidate = chosen
           /\ tree' = "completed" /\ tests' < MaxTests /\ observed' = "retryable"
    BY <1>6 DEF Decide
  <2>5. followup' \in [decision : Decisions, candidate : Kinds \cup {Unselected}]
    BY <1>6, <2>1, <2>2, <2>3 DEF Decide, Decisions
  <2>6. Offerable'
    <3>1. \A k \in EligibleKinds : screened'[k] = "eligible"
      BY DEF EligibleKinds
    <3>2. followup'.candidate \in {Unselected, chosen} \cup Others
      BY <2>3, <2>4
    <3>3. observed' = "retryable" => evidence' = "untested"
      OBVIOUS
    <3>4. QED
      BY <2>1, <2>2, <2>3, <2>4, <3>1, <3>2, <3>3 DEF Offerable
  <2>7. QED
    BY <1>2, <1>6, <2>5, <2>6 DEF FollowupFits
<1>7. QED
  BY <1>1, <1>4, <1>5, <1>6
-----------------------------------------------------------------------------
(* Hypothesis: the steps.                                                    *)

LEMMA SelectCandidateStep ==
    ASSUME HypothesisInv, NEW k \in Kinds, SelectCandidate(k)
    PROVE  HypothesisInv'
<1> USE HypothesisAssumption
<1> DEFINE e == record
<1>1. e \in Records /\ (e.bound = 0 => e = Unbound) /\ e.bound <= planned'
  BY DEF HypothesisInv, HypTypeOK, RecordFits, StepFits, Records, SelectCandidate
<1>2. /\ screened' = screened /\ chosen' \in Kinds \cup {Unselected}
      /\ e.bound # 0 => chosen' \in EligibleKinds
      /\ Tested(e) => evidence' = e.found
      /\ evidence' # "untested" => observed' = "success"
      /\ state' \notin Ended => state \notin Ended /\ e.outcome = "untested"
      /\ state' \in Ended => chosen' = chosen
      /\ state \in Ended => UNCHANGED <<tree, tests, evidence>>
      /\ planned' \in Nat /\ tests' \in 0..MaxTests
  BY <1>1, UnboundIsRecord
  DEF HypothesisInv, HypTypeOK, RecordFits, StepFits, Unplanned, EligibleKinds, Ended, Tested,
      stepVars, SelectCandidate
<1>3. Merge(e)
  BY DEF SelectCandidate
<1> HIDE DEF e
<1>4. /\ record' \in Records /\ record'.bound = e.bound
      /\ record'.bound = 0 => record' = Unbound
      /\ Tested(record') => evidence' = record'.found
      /\ state' \notin Ended => record'.outcome = "untested"
      /\ record'.outcome \in {"supported", "not_supported"} =>
             state' = "completed" /\ record'.found = record'.outcome
      /\ followup' \in [decision : Decisions, candidate : Kinds \cup {Unselected}]
      /\ FollowupFits' /\ Offerable'
  BY <1>1, <1>2, <1>3, Merged
<1>5. StepFits'
  BY DEF HypothesisInv, HypTypeOK, StepFits, Unplanned, stepVars, Ended, SelectCandidate
<1>u. Unplanned'
  BY <1>4 DEF HypothesisInv, HypTypeOK, StepFits, Unplanned, EligibleKinds, stepVars, Ended, e, SelectCandidate
<1>6. RecordFits'
  BY <1>1, <1>2, <1>4 DEF RecordFits, EligibleKinds
<1>7. HypTypeOK'
  BY <1>1, <1>2, <1>4 DEF HypothesisInv, HypTypeOK, StepFits, Records, stepVars, Ended, SelectCandidate
<1>8. QED
  BY <1>4, <1>5, <1>u, <1>6, <1>7 DEF HypothesisInv

LEMMA SaveOutlineStep ==
    ASSUME HypothesisInv, SaveOutline
    PROVE  HypothesisInv'
<1> USE HypothesisAssumption
<1> DEFINE e == BindToPlan(record, planned')
<1>0. /\ record \in Records /\ (record.bound = 0 => record = Unbound) /\ record.bound <= planned
      /\ planned' \in Nat \ {0} /\ planned' <= planned' /\ planned \in Nat /\ planned' \in Nat /\ planned <= planned'
      /\ state \notin Ended
  BY DEF HypothesisInv, HypTypeOK, RecordFits, StepFits, Records, Ended, stepVars, SaveOutline
<1>a. Follows(e, record, planned')
  BY <1>0, PlanBinds
<1>1. e \in Records /\ (e.bound = 0 => e = Unbound) /\ e.bound <= planned'
  BY <1>0, <1>a DEF Follows, Records
<1>2. /\ screened' = screened /\ chosen' \in Kinds \cup {Unselected}
      /\ e.bound # 0 => chosen' \in EligibleKinds
      /\ Tested(e) => evidence' = e.found
      /\ evidence' # "untested" => observed' = "success"
      /\ state' \notin Ended => state \notin Ended /\ e.outcome = "untested"
      /\ state' \in Ended => chosen' = chosen
      /\ state \in Ended => UNCHANGED <<tree, tests, evidence>>
      /\ planned' \in Nat /\ tests' \in 0..MaxTests
  <2>1. chosen \in EligibleKinds
    BY DEF HypothesisInv, Unplanned, SaveOutline
  <2>2. e.outcome = "untested"
    BY <1>0, <1>a DEF Follows, HypothesisInv, RecordFits
  <2>3. Tested(e) => evidence' = e.found
    BY <1>0, <1>a
    DEF Follows, HypothesisInv, HypTypeOK, RecordFits, StepFits, Tested, stepVars, SaveOutline
  <2>4. evidence' # "untested" => observed' = "success"
    BY <1>0 DEF HypothesisInv, StepFits, stepVars, SaveOutline
  <2>5. tests' \in 0..MaxTests
    BY DEF HypothesisInv, HypTypeOK, stepVars, SaveOutline
  <2> HIDE DEF e
  <2>6. QED
    BY <1>0, <2>1, <2>2, <2>3, <2>4, <2>5
    DEF HypothesisInv, HypTypeOK, EligibleKinds, Ended, stepVars, SaveOutline
<1>3. Merge(e)
  BY DEF SaveOutline
<1> HIDE DEF e
<1>4. /\ record' \in Records /\ record'.bound = e.bound
      /\ record'.bound = 0 => record' = Unbound
      /\ Tested(record') => evidence' = record'.found
      /\ state' \notin Ended => record'.outcome = "untested"
      /\ record'.outcome \in {"supported", "not_supported"} =>
             state' = "completed" /\ record'.found = record'.outcome
      /\ followup' \in [decision : Decisions, candidate : Kinds \cup {Unselected}]
      /\ FollowupFits' /\ Offerable'
  BY <1>1, <1>2, <1>3, Merged
<1>5. StepFits'
  BY DEF HypothesisInv, HypTypeOK, StepFits, Unplanned, stepVars, Ended, SaveOutline
<1>u. Unplanned'
  BY <1>4 DEF HypothesisInv, HypTypeOK, StepFits, Unplanned, EligibleKinds, stepVars, Ended, SaveOutline
<1>6. RecordFits'
  BY <1>1, <1>2, <1>4 DEF RecordFits, EligibleKinds
<1>7. HypTypeOK'
  BY <1>1, <1>2, <1>4 DEF HypothesisInv, HypTypeOK, StepFits, Records, stepVars, Ended, SaveOutline
<1>8. QED
  BY <1>4, <1>5, <1>u, <1>6, <1>7 DEF HypothesisInv

LEMMA RunOutlineStep ==
    ASSUME HypothesisInv, RunOutline
    PROVE  HypothesisInv'
<1> USE HypothesisAssumption
<1> DEFINE e == record
<1>1. e \in Records /\ (e.bound = 0 => e = Unbound) /\ e.bound <= planned'
  BY DEF HypothesisInv, HypTypeOK, RecordFits, StepFits, Records, RunOutline
<1>2. /\ screened' = screened /\ chosen' \in Kinds \cup {Unselected}
      /\ e.bound # 0 => chosen' \in EligibleKinds
      /\ Tested(e) => evidence' = e.found
      /\ evidence' # "untested" => observed' = "success"
      /\ state' \notin Ended => state \notin Ended /\ e.outcome = "untested"
      /\ state' \in Ended => chosen' = chosen
      /\ state \in Ended => UNCHANGED <<tree, tests, evidence>>
      /\ planned' \in Nat /\ tests' \in 0..MaxTests
  BY <1>1, UnboundIsRecord
  DEF HypothesisInv, HypTypeOK, RecordFits, StepFits, Unplanned, EligibleKinds, Ended, Tested,
      stepVars, RunOutline
<1>3. Merge(e)
  BY DEF RunOutline
<1> HIDE DEF e
<1>4. /\ record' \in Records /\ record'.bound = e.bound
      /\ record'.bound = 0 => record' = Unbound
      /\ Tested(record') => evidence' = record'.found
      /\ state' \notin Ended => record'.outcome = "untested"
      /\ record'.outcome \in {"supported", "not_supported"} =>
             state' = "completed" /\ record'.found = record'.outcome
      /\ followup' \in [decision : Decisions, candidate : Kinds \cup {Unselected}]
      /\ FollowupFits' /\ Offerable'
  BY <1>1, <1>2, <1>3, Merged
<1>5. StepFits'
  BY DEF HypothesisInv, HypTypeOK, StepFits, Unplanned, stepVars, Ended, RunOutline
<1>u. Unplanned'
  BY <1>4 DEF HypothesisInv, HypTypeOK, StepFits, Unplanned, EligibleKinds, stepVars, Ended, e, RunOutline
<1>6. RecordFits'
  BY <1>1, <1>2, <1>4 DEF RecordFits, EligibleKinds
<1>7. HypTypeOK'
  BY <1>1, <1>2, <1>4 DEF HypothesisInv, HypTypeOK, StepFits, Records, stepVars, Ended, RunOutline
<1>8. QED
  BY <1>4, <1>5, <1>u, <1>6, <1>7 DEF HypothesisInv

LEMMA StartTestStep ==
    ASSUME HypothesisInv, StartTest
    PROVE  HypothesisInv'
<1> USE HypothesisAssumption
<1> DEFINE e == InvocationStarted(record, planned)
<1>0. /\ record \in Records /\ (record.bound = 0 => record = Unbound) /\ record.bound <= planned
      /\ planned \in Nat \ {0} /\ planned <= planned' /\ planned \in Nat /\ planned' \in Nat /\ planned <= planned'
      /\ state \notin Ended
  BY DEF HypothesisInv, HypTypeOK, RecordFits, StepFits, Records, Ended, stepVars, StartTest
<1>a. Follows(e, record, planned)
  BY <1>0, CallStarts
<1>1. e \in Records /\ (e.bound = 0 => e = Unbound) /\ e.bound <= planned'
  BY <1>0, <1>a DEF Follows, Records
<1>2. /\ screened' = screened /\ chosen' \in Kinds \cup {Unselected}
      /\ e.bound # 0 => chosen' \in EligibleKinds
      /\ Tested(e) => evidence' = e.found
      /\ evidence' # "untested" => observed' = "success"
      /\ state' \notin Ended => state \notin Ended /\ e.outcome = "untested"
      /\ state' \in Ended => chosen' = chosen
      /\ state \in Ended => UNCHANGED <<tree, tests, evidence>>
      /\ planned' \in Nat /\ tests' \in 0..MaxTests
  <2>1. e.bound # 0 => chosen \in EligibleKinds
    BY <1>0, CallStarts DEF HypothesisInv, RecordFits
  <2>2. e.outcome = "untested"
    BY <1>0, <1>a DEF Follows, HypothesisInv, RecordFits
  <2>3. Tested(e) => evidence' = e.found
    BY <1>0, <1>a
    DEF Follows, HypothesisInv, HypTypeOK, RecordFits, StepFits, Tested, stepVars, StartTest
  <2>4. evidence' # "untested" => observed' = "success"
    BY <1>0 DEF HypothesisInv, StepFits, stepVars, StartTest
  <2>5. tests' \in 0..MaxTests
    BY DEF HypothesisInv, HypTypeOK, stepVars, StartTest
  <2> HIDE DEF e
  <2>6. QED
    BY <1>0, <2>1, <2>2, <2>3, <2>4, <2>5
    DEF HypothesisInv, HypTypeOK, EligibleKinds, Ended, stepVars, StartTest
<1>3. Merge(e)
  BY DEF StartTest
<1> HIDE DEF e
<1>4. /\ record' \in Records /\ record'.bound = e.bound
      /\ record'.bound = 0 => record' = Unbound
      /\ Tested(record') => evidence' = record'.found
      /\ state' \notin Ended => record'.outcome = "untested"
      /\ record'.outcome \in {"supported", "not_supported"} =>
             state' = "completed" /\ record'.found = record'.outcome
      /\ followup' \in [decision : Decisions, candidate : Kinds \cup {Unselected}]
      /\ FollowupFits' /\ Offerable'
  BY <1>1, <1>2, <1>3, Merged
<1>5. StepFits'
  BY DEF HypothesisInv, HypTypeOK, StepFits, Unplanned, stepVars, Ended, StartTest
<1>u. Unplanned'
  BY <1>4 DEF HypothesisInv, HypTypeOK, StepFits, Unplanned, EligibleKinds, stepVars, Ended, StartTest
<1>6. RecordFits'
  BY <1>1, <1>2, <1>4 DEF RecordFits, EligibleKinds
<1>7. HypTypeOK'
  BY <1>1, <1>2, <1>4 DEF HypothesisInv, HypTypeOK, StepFits, Records, stepVars, Ended, StartTest
<1>8. QED
  BY <1>4, <1>5, <1>u, <1>6, <1>7 DEF HypothesisInv

LEMMA CallElsewhereStep ==
    ASSUME HypothesisInv, CallElsewhere
    PROVE  HypothesisInv'
<1> USE HypothesisAssumption
<1> DEFINE e == record
<1>1. e \in Records /\ (e.bound = 0 => e = Unbound) /\ e.bound <= planned'
  BY DEF HypothesisInv, HypTypeOK, RecordFits, StepFits, Records, CallElsewhere
<1>2. /\ screened' = screened /\ chosen' \in Kinds \cup {Unselected}
      /\ e.bound # 0 => chosen' \in EligibleKinds
      /\ Tested(e) => evidence' = e.found
      /\ evidence' # "untested" => observed' = "success"
      /\ state' \notin Ended => state \notin Ended /\ e.outcome = "untested"
      /\ state' \in Ended => chosen' = chosen
      /\ state \in Ended => UNCHANGED <<tree, tests, evidence>>
      /\ planned' \in Nat /\ tests' \in 0..MaxTests
  BY <1>1, UnboundIsRecord
  DEF HypothesisInv, HypTypeOK, RecordFits, StepFits, Unplanned, EligibleKinds, Ended, Tested,
      stepVars, CallElsewhere
<1>3. Merge(e)
  BY DEF CallElsewhere
<1> HIDE DEF e
<1>4. /\ record' \in Records /\ record'.bound = e.bound
      /\ record'.bound = 0 => record' = Unbound
      /\ Tested(record') => evidence' = record'.found
      /\ state' \notin Ended => record'.outcome = "untested"
      /\ record'.outcome \in {"supported", "not_supported"} =>
             state' = "completed" /\ record'.found = record'.outcome
      /\ followup' \in [decision : Decisions, candidate : Kinds \cup {Unselected}]
      /\ FollowupFits' /\ Offerable'
  BY <1>1, <1>2, <1>3, Merged
<1>5. StepFits'
  BY DEF HypothesisInv, HypTypeOK, StepFits, Unplanned, stepVars, Ended, CallElsewhere
<1>u. Unplanned'
  BY <1>4 DEF HypothesisInv, HypTypeOK, StepFits, Unplanned, EligibleKinds, stepVars, Ended, e, CallElsewhere
<1>6. RecordFits'
  BY <1>1, <1>2, <1>4 DEF RecordFits, EligibleKinds
<1>7. HypTypeOK'
  BY <1>1, <1>2, <1>4 DEF HypothesisInv, HypTypeOK, StepFits, Records, stepVars, Ended, CallElsewhere
<1>8. QED
  BY <1>4, <1>5, <1>u, <1>6, <1>7 DEF HypothesisInv

LEMMA CommitEvidenceStep ==
    ASSUME HypothesisInv, NEW o \in TestResults \ {"untested"}, CommitEvidence(o)
    PROVE  HypothesisInv'
<1> USE HypothesisAssumption
<1> DEFINE e == EvidenceCollected(record, calling, o)
<1>0. /\ record \in Records /\ (record.bound = 0 => record = Unbound) /\ record.bound <= planned
      /\ calling \in Nat \ {0} /\ calling <= planned' /\ planned \in Nat /\ planned' \in Nat /\ planned <= planned'
      /\ state \notin Ended
  BY DEF HypothesisInv, HypTypeOK, RecordFits, StepFits, Records, Ended, stepVars, CommitEvidence
<1>1. e \in Records /\ (e.bound = 0 => e = Unbound) /\ e.bound <= planned'
  BY <1>0, CallFinds DEF Records
<1>2. /\ screened' = screened /\ chosen' \in Kinds \cup {Unselected}
      /\ e.bound # 0 => chosen' \in EligibleKinds
      /\ Tested(e) => evidence' = e.found
      /\ evidence' # "untested" => observed' = "success"
      /\ state' \notin Ended => state \notin Ended /\ e.outcome = "untested"
      /\ state' \in Ended => chosen' = chosen
      /\ state \in Ended => UNCHANGED <<tree, tests, evidence>>
      /\ planned' \in Nat /\ tests' \in 0..MaxTests
  <2>1. e.bound # 0 => chosen \in EligibleKinds
    BY <1>0, CallFinds DEF HypothesisInv, RecordFits
  <2>2. e.outcome = "untested"
    BY <1>0, CallFinds DEF HypothesisInv, RecordFits
  <2>3. Tested(e) => evidence' = e.found
    BY <1>0, CallFinds
    DEF HypothesisInv, HypTypeOK, RecordFits, StepFits, Tested, stepVars, CommitEvidence
  <2>4. evidence' # "untested" => observed' = "success"
    BY <1>0 DEF HypothesisInv, StepFits, stepVars, CommitEvidence
  <2>5. tests' \in 0..MaxTests
    BY DEF HypothesisInv, HypTypeOK, stepVars, CommitEvidence
  <2> HIDE DEF e
  <2>6. QED
    BY <1>0, <2>1, <2>2, <2>3, <2>4, <2>5
    DEF HypothesisInv, HypTypeOK, EligibleKinds, Ended, stepVars, CommitEvidence
<1>3. Merge(e)
  BY DEF CommitEvidence
<1> HIDE DEF e
<1>4. /\ record' \in Records /\ record'.bound = e.bound
      /\ record'.bound = 0 => record' = Unbound
      /\ Tested(record') => evidence' = record'.found
      /\ state' \notin Ended => record'.outcome = "untested"
      /\ record'.outcome \in {"supported", "not_supported"} =>
             state' = "completed" /\ record'.found = record'.outcome
      /\ followup' \in [decision : Decisions, candidate : Kinds \cup {Unselected}]
      /\ FollowupFits' /\ Offerable'
  BY <1>1, <1>2, <1>3, Merged
<1>5. StepFits'
  BY DEF HypothesisInv, HypTypeOK, StepFits, Unplanned, stepVars, Ended, CommitEvidence
<1>u. Unplanned'
  BY <1>4 DEF HypothesisInv, HypTypeOK, StepFits, Unplanned, EligibleKinds, stepVars, Ended, CommitEvidence
<1>6. RecordFits'
  BY <1>1, <1>2, <1>4 DEF RecordFits, EligibleKinds
<1>7. HypTypeOK'
  BY <1>1, <1>2, <1>4 DEF HypothesisInv, HypTypeOK, StepFits, Records, stepVars, Ended, CommitEvidence
<1>8. QED
  BY <1>4, <1>5, <1>u, <1>6, <1>7 DEF HypothesisInv

LEMMA CommitNoEvidenceStep ==
    ASSUME HypothesisInv, NEW o \in {"retryable", "final"}, CommitNoEvidence(o)
    PROVE  HypothesisInv'
<1> USE HypothesisAssumption
<1> DEFINE e == InvocationFailed(record, calling)
<1>0. /\ record \in Records /\ (record.bound = 0 => record = Unbound) /\ record.bound <= planned
      /\ calling \in Nat \ {0} /\ calling <= planned' /\ planned \in Nat /\ planned' \in Nat /\ planned <= planned'
      /\ state \notin Ended
  BY DEF HypothesisInv, HypTypeOK, RecordFits, StepFits, Records, Ended, stepVars, CommitNoEvidence
<1>a. Follows(e, record, calling)
  BY <1>0, CallFailsIn
<1>1. e \in Records /\ (e.bound = 0 => e = Unbound) /\ e.bound <= planned'
  BY <1>0, <1>a DEF Follows, Records
<1>2. /\ screened' = screened /\ chosen' \in Kinds \cup {Unselected}
      /\ e.bound # 0 => chosen' \in EligibleKinds
      /\ Tested(e) => evidence' = e.found
      /\ evidence' # "untested" => observed' = "success"
      /\ state' \notin Ended => state \notin Ended /\ e.outcome = "untested"
      /\ state' \in Ended => chosen' = chosen
      /\ state \in Ended => UNCHANGED <<tree, tests, evidence>>
      /\ planned' \in Nat /\ tests' \in 0..MaxTests
  <2>1. e.bound # 0 => chosen \in EligibleKinds
    BY <1>0, CallFailsIn DEF HypothesisInv, RecordFits
  <2>2. e.outcome = "untested"
    BY <1>0, <1>a DEF Follows, HypothesisInv, RecordFits
  <2>3. Tested(e) => evidence' = e.found
    BY <1>0, <1>a
    DEF Follows, HypothesisInv, HypTypeOK, RecordFits, StepFits, Tested, stepVars, CommitNoEvidence
  <2>4. evidence' # "untested" => observed' = "success"
    BY <1>0 DEF HypothesisInv, StepFits, stepVars, CommitNoEvidence
  <2>5. tests' \in 0..MaxTests
    BY DEF HypothesisInv, HypTypeOK, stepVars, CommitNoEvidence
  <2> HIDE DEF e
  <2>6. QED
    BY <1>0, <2>1, <2>2, <2>3, <2>4, <2>5
    DEF HypothesisInv, HypTypeOK, EligibleKinds, Ended, stepVars, CommitNoEvidence
<1>3. Merge(e)
  BY DEF CommitNoEvidence
<1> HIDE DEF e
<1>4. /\ record' \in Records /\ record'.bound = e.bound
      /\ record'.bound = 0 => record' = Unbound
      /\ Tested(record') => evidence' = record'.found
      /\ state' \notin Ended => record'.outcome = "untested"
      /\ record'.outcome \in {"supported", "not_supported"} =>
             state' = "completed" /\ record'.found = record'.outcome
      /\ followup' \in [decision : Decisions, candidate : Kinds \cup {Unselected}]
      /\ FollowupFits' /\ Offerable'
  BY <1>1, <1>2, <1>3, Merged
<1>5. StepFits'
  BY DEF HypothesisInv, HypTypeOK, StepFits, Unplanned, stepVars, Ended, CommitNoEvidence
<1>u. Unplanned'
  BY <1>4 DEF HypothesisInv, HypTypeOK, StepFits, Unplanned, EligibleKinds, stepVars, Ended, CommitNoEvidence
<1>6. RecordFits'
  BY <1>1, <1>2, <1>4 DEF RecordFits, EligibleKinds
<1>7. HypTypeOK'
  BY <1>1, <1>2, <1>4 DEF HypothesisInv, HypTypeOK, StepFits, Records, stepVars, Ended, CommitNoEvidence
<1>8. QED
  BY <1>4, <1>5, <1>u, <1>6, <1>7 DEF HypothesisInv

LEMMA RejectTestStep ==
    ASSUME HypothesisInv, NEW o \in {"retryable", "final"}, RejectTest(o)
    PROVE  HypothesisInv'
<1> USE HypothesisAssumption
<1> DEFINE e == InvocationFailed(record, planned)
<1>0. /\ record \in Records /\ (record.bound = 0 => record = Unbound) /\ record.bound <= planned
      /\ planned \in Nat \ {0} /\ planned <= planned' /\ planned \in Nat /\ planned' \in Nat /\ planned <= planned'
      /\ state \notin Ended
  BY DEF HypothesisInv, HypTypeOK, RecordFits, StepFits, Records, Ended, stepVars, RejectTest
<1>a. Follows(e, record, planned)
  BY <1>0, CallFailsIn
<1>1. e \in Records /\ (e.bound = 0 => e = Unbound) /\ e.bound <= planned'
  BY <1>0, <1>a DEF Follows, Records
<1>2. /\ screened' = screened /\ chosen' \in Kinds \cup {Unselected}
      /\ e.bound # 0 => chosen' \in EligibleKinds
      /\ Tested(e) => evidence' = e.found
      /\ evidence' # "untested" => observed' = "success"
      /\ state' \notin Ended => state \notin Ended /\ e.outcome = "untested"
      /\ state' \in Ended => chosen' = chosen
      /\ state \in Ended => UNCHANGED <<tree, tests, evidence>>
      /\ planned' \in Nat /\ tests' \in 0..MaxTests
  <2>1. e.bound # 0 => chosen \in EligibleKinds
    BY <1>0, CallFailsIn DEF HypothesisInv, RecordFits
  <2>2. e.outcome = "untested"
    BY <1>0, <1>a DEF Follows, HypothesisInv, RecordFits
  <2>3. Tested(e) => evidence' = e.found
    BY <1>0, <1>a
    DEF Follows, HypothesisInv, HypTypeOK, RecordFits, StepFits, Tested, stepVars, RejectTest
  <2>4. evidence' # "untested" => observed' = "success"
    BY <1>0 DEF HypothesisInv, StepFits, stepVars, RejectTest
  <2>5. tests' \in 0..MaxTests
    BY DEF HypothesisInv, HypTypeOK, stepVars, RejectTest
  <2> HIDE DEF e
  <2>6. QED
    BY <1>0, <2>1, <2>2, <2>3, <2>4, <2>5
    DEF HypothesisInv, HypTypeOK, EligibleKinds, Ended, stepVars, RejectTest
<1>3. Merge(e)
  BY DEF RejectTest
<1> HIDE DEF e
<1>4. /\ record' \in Records /\ record'.bound = e.bound
      /\ record'.bound = 0 => record' = Unbound
      /\ Tested(record') => evidence' = record'.found
      /\ state' \notin Ended => record'.outcome = "untested"
      /\ record'.outcome \in {"supported", "not_supported"} =>
             state' = "completed" /\ record'.found = record'.outcome
      /\ followup' \in [decision : Decisions, candidate : Kinds \cup {Unselected}]
      /\ FollowupFits' /\ Offerable'
  BY <1>1, <1>2, <1>3, Merged
<1>5. StepFits'
  BY DEF HypothesisInv, HypTypeOK, StepFits, Unplanned, stepVars, Ended, RejectTest
<1>u. Unplanned'
  BY <1>4 DEF HypothesisInv, HypTypeOK, StepFits, Unplanned, EligibleKinds, stepVars, Ended, RejectTest
<1>6. RecordFits'
  BY <1>1, <1>2, <1>4 DEF RecordFits, EligibleKinds
<1>7. HypTypeOK'
  BY <1>1, <1>2, <1>4 DEF HypothesisInv, HypTypeOK, StepFits, Records, stepVars, Ended, RejectTest
<1>8. QED
  BY <1>4, <1>5, <1>u, <1>6, <1>7 DEF HypothesisInv

LEMMA PauseTestStep ==
    ASSUME HypothesisInv, PauseTest
    PROVE  HypothesisInv'
<1> USE HypothesisAssumption
<1> DEFINE e == record
<1>1. e \in Records /\ (e.bound = 0 => e = Unbound) /\ e.bound <= planned'
  BY DEF HypothesisInv, HypTypeOK, RecordFits, StepFits, Records, PauseTest
<1>2. /\ screened' = screened /\ chosen' \in Kinds \cup {Unselected}
      /\ e.bound # 0 => chosen' \in EligibleKinds
      /\ Tested(e) => evidence' = e.found
      /\ evidence' # "untested" => observed' = "success"
      /\ state' \notin Ended => state \notin Ended /\ e.outcome = "untested"
      /\ state' \in Ended => chosen' = chosen
      /\ state \in Ended => UNCHANGED <<tree, tests, evidence>>
      /\ planned' \in Nat /\ tests' \in 0..MaxTests
  BY <1>1, UnboundIsRecord
  DEF HypothesisInv, HypTypeOK, RecordFits, StepFits, Unplanned, EligibleKinds, Ended, Tested,
      stepVars, PauseTest
<1>3. Merge(e)
  BY DEF PauseTest
<1> HIDE DEF e
<1>4. /\ record' \in Records /\ record'.bound = e.bound
      /\ record'.bound = 0 => record' = Unbound
      /\ Tested(record') => evidence' = record'.found
      /\ state' \notin Ended => record'.outcome = "untested"
      /\ record'.outcome \in {"supported", "not_supported"} =>
             state' = "completed" /\ record'.found = record'.outcome
      /\ followup' \in [decision : Decisions, candidate : Kinds \cup {Unselected}]
      /\ FollowupFits' /\ Offerable'
  BY <1>1, <1>2, <1>3, Merged
<1>5. StepFits'
  BY DEF HypothesisInv, HypTypeOK, StepFits, Unplanned, stepVars, Ended, PauseTest
<1>u. Unplanned'
  BY <1>4 DEF HypothesisInv, HypTypeOK, StepFits, Unplanned, EligibleKinds, stepVars, Ended, e, PauseTest
<1>6. RecordFits'
  BY <1>1, <1>2, <1>4 DEF RecordFits, EligibleKinds
<1>7. HypTypeOK'
  BY <1>1, <1>2, <1>4 DEF HypothesisInv, HypTypeOK, StepFits, Records, stepVars, Ended, PauseTest
<1>8. QED
  BY <1>4, <1>5, <1>u, <1>6, <1>7 DEF HypothesisInv

LEMMA ResumeTestStep ==
    ASSUME HypothesisInv, ResumeTest
    PROVE  HypothesisInv'
<1> USE HypothesisAssumption
<1> DEFINE e == record
<1>1. e \in Records /\ (e.bound = 0 => e = Unbound) /\ e.bound <= planned'
  BY DEF HypothesisInv, HypTypeOK, RecordFits, StepFits, Records, ResumeTest
<1>2. /\ screened' = screened /\ chosen' \in Kinds \cup {Unselected}
      /\ e.bound # 0 => chosen' \in EligibleKinds
      /\ Tested(e) => evidence' = e.found
      /\ evidence' # "untested" => observed' = "success"
      /\ state' \notin Ended => state \notin Ended /\ e.outcome = "untested"
      /\ state' \in Ended => chosen' = chosen
      /\ state \in Ended => UNCHANGED <<tree, tests, evidence>>
      /\ planned' \in Nat /\ tests' \in 0..MaxTests
  BY <1>1, UnboundIsRecord
  DEF HypothesisInv, HypTypeOK, RecordFits, StepFits, Unplanned, EligibleKinds, Ended, Tested,
      stepVars, ResumeTest
<1>3. Merge(e)
  BY DEF ResumeTest
<1> HIDE DEF e
<1>4. /\ record' \in Records /\ record'.bound = e.bound
      /\ record'.bound = 0 => record' = Unbound
      /\ Tested(record') => evidence' = record'.found
      /\ state' \notin Ended => record'.outcome = "untested"
      /\ record'.outcome \in {"supported", "not_supported"} =>
             state' = "completed" /\ record'.found = record'.outcome
      /\ followup' \in [decision : Decisions, candidate : Kinds \cup {Unselected}]
      /\ FollowupFits' /\ Offerable'
  BY <1>1, <1>2, <1>3, Merged
<1>5. StepFits'
  BY DEF HypothesisInv, HypTypeOK, StepFits, Unplanned, stepVars, Ended, ResumeTest
<1>u. Unplanned'
  BY <1>4 DEF HypothesisInv, HypTypeOK, StepFits, Unplanned, EligibleKinds, stepVars, Ended, e, ResumeTest
<1>6. RecordFits'
  BY <1>1, <1>2, <1>4 DEF RecordFits, EligibleKinds
<1>7. HypTypeOK'
  BY <1>1, <1>2, <1>4 DEF HypothesisInv, HypTypeOK, StepFits, Records, stepVars, Ended, ResumeTest
<1>8. QED
  BY <1>4, <1>5, <1>u, <1>6, <1>7 DEF HypothesisInv

LEMMA ReviseOutlineStep ==
    ASSUME HypothesisInv, NEW st \in {"pending", "skipped"}, ReviseOutline(st)
    PROVE  HypothesisInv'
<1> USE HypothesisAssumption
<1> DEFINE e == BindToPlan(record, planned')
<1>0. /\ record \in Records /\ (record.bound = 0 => record = Unbound) /\ record.bound <= planned
      /\ planned' \in Nat \ {0} /\ planned' <= planned' /\ planned \in Nat /\ planned' \in Nat /\ planned <= planned'
      /\ state \notin Ended
  BY DEF HypothesisInv, HypTypeOK, RecordFits, StepFits, Records, Ended, stepVars, ReviseOutline
<1>a. Follows(e, record, planned')
  BY <1>0, PlanBinds
<1>1. e \in Records /\ (e.bound = 0 => e = Unbound) /\ e.bound <= planned'
  BY <1>0, <1>a DEF Follows, Records
<1>2. /\ screened' = screened /\ chosen' \in Kinds \cup {Unselected}
      /\ e.bound # 0 => chosen' \in EligibleKinds
      /\ Tested(e) => evidence' = e.found
      /\ evidence' # "untested" => observed' = "success"
      /\ state' \notin Ended => state \notin Ended /\ e.outcome = "untested"
      /\ state' \in Ended => chosen' = chosen
      /\ state \in Ended => UNCHANGED <<tree, tests, evidence>>
      /\ planned' \in Nat /\ tests' \in 0..MaxTests
  <2>1. chosen \in EligibleKinds
    BY DEF HypothesisInv, Unplanned, ReviseOutline
  <2>2. e.outcome = "untested"
    BY <1>0, <1>a DEF Follows, HypothesisInv, RecordFits
  <2>3. Tested(e) => evidence' = e.found
    BY <1>0, <1>a
    DEF Follows, HypothesisInv, HypTypeOK, RecordFits, StepFits, Tested, stepVars, ReviseOutline
  <2>4. evidence' # "untested" => observed' = "success"
    BY <1>0 DEF HypothesisInv, StepFits, stepVars, ReviseOutline
  <2>5. tests' \in 0..MaxTests
    BY DEF HypothesisInv, HypTypeOK, stepVars, ReviseOutline
  <2> HIDE DEF e
  <2>6. QED
    BY <1>0, <2>1, <2>2, <2>3, <2>4, <2>5
    DEF HypothesisInv, HypTypeOK, EligibleKinds, Ended, stepVars, ReviseOutline
<1>3. Merge(e)
  BY DEF ReviseOutline
<1> HIDE DEF e
<1>4. /\ record' \in Records /\ record'.bound = e.bound
      /\ record'.bound = 0 => record' = Unbound
      /\ Tested(record') => evidence' = record'.found
      /\ state' \notin Ended => record'.outcome = "untested"
      /\ record'.outcome \in {"supported", "not_supported"} =>
             state' = "completed" /\ record'.found = record'.outcome
      /\ followup' \in [decision : Decisions, candidate : Kinds \cup {Unselected}]
      /\ FollowupFits' /\ Offerable'
  BY <1>1, <1>2, <1>3, Merged
<1>5. StepFits'
  BY DEF HypothesisInv, HypTypeOK, StepFits, Unplanned, stepVars, Ended, ReviseOutline
<1>u. Unplanned'
  BY <1>4 DEF HypothesisInv, HypTypeOK, StepFits, Unplanned, EligibleKinds, stepVars, Ended, ReviseOutline
<1>6. RecordFits'
  BY <1>1, <1>2, <1>4 DEF RecordFits, EligibleKinds
<1>7. HypTypeOK'
  BY <1>1, <1>2, <1>4 DEF HypothesisInv, HypTypeOK, StepFits, Records, stepVars, Ended, ReviseOutline
<1>8. QED
  BY <1>4, <1>5, <1>u, <1>6, <1>7 DEF HypothesisInv

LEMMA RetryTestStep ==
    ASSUME HypothesisInv, RetryTest
    PROVE  HypothesisInv'
<1> USE HypothesisAssumption
<1> DEFINE e == record
<1>1. e \in Records /\ (e.bound = 0 => e = Unbound) /\ e.bound <= planned'
  BY DEF HypothesisInv, HypTypeOK, RecordFits, StepFits, Records, RetryTest
<1>2. /\ screened' = screened /\ chosen' \in Kinds \cup {Unselected}
      /\ e.bound # 0 => chosen' \in EligibleKinds
      /\ Tested(e) => evidence' = e.found
      /\ evidence' # "untested" => observed' = "success"
      /\ state' \notin Ended => state \notin Ended /\ e.outcome = "untested"
      /\ state' \in Ended => chosen' = chosen
      /\ state \in Ended => UNCHANGED <<tree, tests, evidence>>
      /\ planned' \in Nat /\ tests' \in 0..MaxTests
  BY <1>1, UnboundIsRecord
  DEF HypothesisInv, HypTypeOK, RecordFits, StepFits, Unplanned, EligibleKinds, Ended, Tested,
      stepVars, RetryTest
<1>3. Merge(e)
  BY DEF RetryTest
<1> HIDE DEF e
<1>4. /\ record' \in Records /\ record'.bound = e.bound
      /\ record'.bound = 0 => record' = Unbound
      /\ Tested(record') => evidence' = record'.found
      /\ state' \notin Ended => record'.outcome = "untested"
      /\ record'.outcome \in {"supported", "not_supported"} =>
             state' = "completed" /\ record'.found = record'.outcome
      /\ followup' \in [decision : Decisions, candidate : Kinds \cup {Unselected}]
      /\ FollowupFits' /\ Offerable'
  BY <1>1, <1>2, <1>3, Merged
<1>5. StepFits'
  BY DEF HypothesisInv, HypTypeOK, StepFits, Unplanned, stepVars, Ended, RetryTest
<1>u. Unplanned'
  BY <1>4 DEF HypothesisInv, HypTypeOK, StepFits, Unplanned, EligibleKinds, stepVars, Ended, e, RetryTest
<1>6. RecordFits'
  BY <1>1, <1>2, <1>4 DEF RecordFits, EligibleKinds
<1>7. HypTypeOK'
  BY <1>1, <1>2, <1>4 DEF HypothesisInv, HypTypeOK, StepFits, Records, stepVars, Ended, RetryTest
<1>8. QED
  BY <1>4, <1>5, <1>u, <1>6, <1>7 DEF HypothesisInv

LEMMA PassTestStep ==
    ASSUME HypothesisInv, PassTest
    PROVE  HypothesisInv'
<1> USE HypothesisAssumption
<1> DEFINE e == record
<1>1. e \in Records /\ (e.bound = 0 => e = Unbound) /\ e.bound <= planned'
  BY DEF HypothesisInv, HypTypeOK, RecordFits, StepFits, Records, PassTest
<1>2. /\ screened' = screened /\ chosen' \in Kinds \cup {Unselected}
      /\ e.bound # 0 => chosen' \in EligibleKinds
      /\ Tested(e) => evidence' = e.found
      /\ evidence' # "untested" => observed' = "success"
      /\ state' \notin Ended => state \notin Ended /\ e.outcome = "untested"
      /\ state' \in Ended => chosen' = chosen
      /\ state \in Ended => UNCHANGED <<tree, tests, evidence>>
      /\ planned' \in Nat /\ tests' \in 0..MaxTests
  BY <1>1, UnboundIsRecord
  DEF HypothesisInv, HypTypeOK, RecordFits, StepFits, Unplanned, EligibleKinds, Ended, Tested,
      stepVars, PassTest
<1>3. Merge(e)
  BY DEF PassTest
<1> HIDE DEF e
<1>4. /\ record' \in Records /\ record'.bound = e.bound
      /\ record'.bound = 0 => record' = Unbound
      /\ Tested(record') => evidence' = record'.found
      /\ state' \notin Ended => record'.outcome = "untested"
      /\ record'.outcome \in {"supported", "not_supported"} =>
             state' = "completed" /\ record'.found = record'.outcome
      /\ followup' \in [decision : Decisions, candidate : Kinds \cup {Unselected}]
      /\ FollowupFits' /\ Offerable'
  BY <1>1, <1>2, <1>3, Merged
<1>5. StepFits'
  BY DEF HypothesisInv, HypTypeOK, StepFits, Unplanned, stepVars, Ended, PassTest
<1>u. Unplanned'
  BY <1>4 DEF HypothesisInv, HypTypeOK, StepFits, Unplanned, EligibleKinds, stepVars, Ended, e, PassTest
<1>6. RecordFits'
  BY <1>1, <1>2, <1>4 DEF RecordFits, EligibleKinds
<1>7. HypTypeOK'
  BY <1>1, <1>2, <1>4 DEF HypothesisInv, HypTypeOK, StepFits, Records, stepVars, Ended, PassTest
<1>8. QED
  BY <1>4, <1>5, <1>u, <1>6, <1>7 DEF HypothesisInv

LEMMA EndTestStep ==
    ASSUME HypothesisInv, NEW st \in {"blocked", "failed"}, EndTest(st)
    PROVE  HypothesisInv'
<1> USE HypothesisAssumption
<1> DEFINE e == record
<1>1. e \in Records /\ (e.bound = 0 => e = Unbound) /\ e.bound <= planned'
  BY DEF HypothesisInv, HypTypeOK, RecordFits, StepFits, Records, EndTest
<1>2. /\ screened' = screened /\ chosen' \in Kinds \cup {Unselected}
      /\ e.bound # 0 => chosen' \in EligibleKinds
      /\ Tested(e) => evidence' = e.found
      /\ evidence' # "untested" => observed' = "success"
      /\ state' \notin Ended => state \notin Ended /\ e.outcome = "untested"
      /\ state' \in Ended => chosen' = chosen
      /\ state \in Ended => UNCHANGED <<tree, tests, evidence>>
      /\ planned' \in Nat /\ tests' \in 0..MaxTests
  BY <1>1, UnboundIsRecord
  DEF HypothesisInv, HypTypeOK, RecordFits, StepFits, Unplanned, EligibleKinds, Ended, Tested,
      stepVars, EndTest
<1>3. Merge(e)
  BY DEF EndTest
<1> HIDE DEF e
<1>4. /\ record' \in Records /\ record'.bound = e.bound
      /\ record'.bound = 0 => record' = Unbound
      /\ Tested(record') => evidence' = record'.found
      /\ state' \notin Ended => record'.outcome = "untested"
      /\ record'.outcome \in {"supported", "not_supported"} =>
             state' = "completed" /\ record'.found = record'.outcome
      /\ followup' \in [decision : Decisions, candidate : Kinds \cup {Unselected}]
      /\ FollowupFits' /\ Offerable'
  BY <1>1, <1>2, <1>3, Merged
<1>5. StepFits'
  BY DEF HypothesisInv, HypTypeOK, StepFits, Unplanned, stepVars, Ended, EndTest
<1>u. Unplanned'
  BY <1>4 DEF HypothesisInv, HypTypeOK, StepFits, Unplanned, EligibleKinds, stepVars, Ended, e, EndTest
<1>6. RecordFits'
  BY <1>1, <1>2, <1>4 DEF RecordFits, EligibleKinds
<1>7. HypTypeOK'
  BY <1>1, <1>2, <1>4 DEF HypothesisInv, HypTypeOK, StepFits, Records, stepVars, Ended, EndTest
<1>8. QED
  BY <1>4, <1>5, <1>u, <1>6, <1>7 DEF HypothesisInv

LEMMA AbandonTestStep ==
    ASSUME HypothesisInv, NEW st \in {"failed", "cancelled"}, NEW node \in {"completed", "cancel_requested"},
           AbandonTest(st, node)
    PROVE  HypothesisInv'
<1> USE HypothesisAssumption
<1> DEFINE e == record
<1>1. e \in Records /\ (e.bound = 0 => e = Unbound) /\ e.bound <= planned'
  BY DEF HypothesisInv, HypTypeOK, RecordFits, StepFits, Records, AbandonTest
<1>2. /\ screened' = screened /\ chosen' \in Kinds \cup {Unselected}
      /\ e.bound # 0 => chosen' \in EligibleKinds
      /\ Tested(e) => evidence' = e.found
      /\ evidence' # "untested" => observed' = "success"
      /\ state' \notin Ended => state \notin Ended /\ e.outcome = "untested"
      /\ state' \in Ended => chosen' = chosen
      /\ state \in Ended => UNCHANGED <<tree, tests, evidence>>
      /\ planned' \in Nat /\ tests' \in 0..MaxTests
  BY <1>1, UnboundIsRecord
  DEF HypothesisInv, HypTypeOK, RecordFits, StepFits, Unplanned, EligibleKinds, Ended, Tested,
      stepVars, AbandonTest
<1>3. Merge(e)
  BY DEF AbandonTest
<1> HIDE DEF e
<1>4. /\ record' \in Records /\ record'.bound = e.bound
      /\ record'.bound = 0 => record' = Unbound
      /\ Tested(record') => evidence' = record'.found
      /\ state' \notin Ended => record'.outcome = "untested"
      /\ record'.outcome \in {"supported", "not_supported"} =>
             state' = "completed" /\ record'.found = record'.outcome
      /\ followup' \in [decision : Decisions, candidate : Kinds \cup {Unselected}]
      /\ FollowupFits' /\ Offerable'
  BY <1>1, <1>2, <1>3, Merged
<1>5. StepFits'
  BY DEF HypothesisInv, HypTypeOK, StepFits, Unplanned, stepVars, Ended, AbandonTest
<1>u. Unplanned'
  BY <1>4 DEF HypothesisInv, HypTypeOK, StepFits, Unplanned, EligibleKinds, stepVars, Ended, e, AbandonTest
<1>6. RecordFits'
  BY <1>1, <1>2, <1>4 DEF RecordFits, EligibleKinds
<1>7. HypTypeOK'
  BY <1>1, <1>2, <1>4 DEF HypothesisInv, HypTypeOK, StepFits, Records, stepVars, Ended, AbandonTest
<1>8. QED
  BY <1>4, <1>5, <1>u, <1>6, <1>7 DEF HypothesisInv

LEMMA FeedbackStep ==
    ASSUME HypothesisInv, Feedback
    PROVE  HypothesisInv'
<1> USE HypothesisAssumption
<1> DEFINE e == record
<1>1. e \in Records /\ (e.bound = 0 => e = Unbound) /\ e.bound <= planned'
  BY DEF HypothesisInv, HypTypeOK, RecordFits, StepFits, Records, Feedback
<1>2. /\ screened' = screened /\ chosen' \in Kinds \cup {Unselected}
      /\ e.bound # 0 => chosen' \in EligibleKinds
      /\ Tested(e) => evidence' = e.found
      /\ evidence' # "untested" => observed' = "success"
      /\ state' \notin Ended => state \notin Ended /\ e.outcome = "untested"
      /\ state' \in Ended => chosen' = chosen
      /\ state \in Ended => UNCHANGED <<tree, tests, evidence>>
      /\ planned' \in Nat /\ tests' \in 0..MaxTests
  BY <1>1, UnboundIsRecord
  DEF HypothesisInv, HypTypeOK, RecordFits, StepFits, Unplanned, EligibleKinds, Ended, Tested,
      stepVars, Feedback
<1>3. Merge(e)
  BY DEF Feedback
<1> HIDE DEF e
<1>4. /\ record' \in Records /\ record'.bound = e.bound
      /\ record'.bound = 0 => record' = Unbound
      /\ Tested(record') => evidence' = record'.found
      /\ state' \notin Ended => record'.outcome = "untested"
      /\ record'.outcome \in {"supported", "not_supported"} =>
             state' = "completed" /\ record'.found = record'.outcome
      /\ followup' \in [decision : Decisions, candidate : Kinds \cup {Unselected}]
      /\ FollowupFits' /\ Offerable'
  BY <1>1, <1>2, <1>3, Merged
<1>5. StepFits'
  BY DEF HypothesisInv, HypTypeOK, StepFits, Unplanned, stepVars, Ended, Feedback
<1>u. Unplanned'
  BY <1>4 DEF HypothesisInv, HypTypeOK, StepFits, Unplanned, EligibleKinds, stepVars, Ended, e, Feedback
<1>6. RecordFits'
  BY <1>1, <1>2, <1>4 DEF RecordFits, EligibleKinds
<1>7. HypTypeOK'
  BY <1>1, <1>2, <1>4 DEF HypothesisInv, HypTypeOK, StepFits, Records, stepVars, Ended, Feedback
<1>8. QED
  BY <1>4, <1>5, <1>u, <1>6, <1>7 DEF HypothesisInv
-----------------------------------------------------------------------------
(* Hypothesis: the theorems.                                                 *)

\* The inductive invariant holds of every exploration.
THEOREM HypothesesFit == HypSpec => []HypothesisInv
<1>1. HypInit => HypothesisInv
  <2> SUFFICES ASSUME HypInit PROVE HypothesisInv
    OBVIOUS
  <2> USE HypothesisAssumption
  <2>1. screened \in [Kinds -> {"eligible", "needs_confirmation", "rejected"}]
    BY DEF HypInit, ScreenCandidates, Candidate
  <2>2. Unbound \in Records /\ Undecided \in [decision : Decisions, candidate : Kinds \cup {Unselected}]
    BY UnboundIsRecord DEF Undecided, Decisions
  <2>3. record \in [bound : 0..planned, status : ExecutionStatus, called : BOOLEAN,
                   found : TestResults, outcome : TestResults]
    BY <2>2 DEF HypInit, Records, Unbound
  <2>4. HypTypeOK
    BY <2>1, <2>2, <2>3 DEF HypInit, HypTypeOK, TestResults
  <2>5. StepFits /\ RecordFits /\ FollowupFits /\ Unplanned /\ Offerable
    BY UnboundIsRecord
    DEF HypInit, StepFits, RecordFits, FollowupFits, Unplanned, Offerable, Unbound, Undecided, Ended
  <2>6. QED
    BY <2>4, <2>5 DEF HypothesisInv
<1>2. HypothesisInv /\ [HypNext]_hypVars => HypothesisInv'
  <2> SUFFICES ASSUME HypothesisInv, [HypNext]_hypVars PROVE HypothesisInv'
    OBVIOUS
  <2>1. CASE HypNext
    <3>1. ASSUME TerminateTest("failed") \/ TerminateTest("cancelled") \/ CancelTest
          PROVE  HypothesisInv'
      BY <3>1, AbandonTestStep DEF TerminateTest, CancelTest
    <3>2. QED
      BY <2>1, <3>1, SelectCandidateStep, SaveOutlineStep, RunOutlineStep, StartTestStep,
         CallElsewhereStep, CommitEvidenceStep, CommitNoEvidenceStep, RejectTestStep,
         PauseTestStep, ResumeTestStep, ReviseOutlineStep, RetryTestStep, PassTestStep,
         EndTestStep, FeedbackStep DEF HypNext
  <2>2. CASE UNCHANGED hypVars
    BY <2>2
    DEF hypVars, HypothesisInv, HypTypeOK, StepFits, RecordFits, FollowupFits, Unplanned,
        Offerable, Tested, EligibleKinds
  <2>3. QED
    BY <2>1, <2>2
<1>3. QED
  BY <1>1, <1>2, PTL DEF HypSpec

(* Whatever the data, the calls, failures, revisions and retries: a          *)
(* hypothesis is called supported or not only on verified evidence that says *)
(* so, and what is offered next can be done (HypothesisSound).               *)
THEOREM ConclusionsAreEarned == HypSpec => []HypothesisSound
<1>1. HypothesisInv => HypothesisSound
  <2> SUFFICES ASSUME HypothesisInv PROVE HypothesisSound
    OBVIOUS
  <2>1. Earned
    BY DEF HypothesisInv, RecordFits, Earned, Tested
  <2>2. QED
    BY <2>1 DEF HypothesisInv, HypothesisSound
<1>2. QED
  BY <1>1, HypothesesFit, PTL
-----------------------------------------------------------------------------
(* DomainDefinitions: the inductive invariant.                               *)

\* A version that a lookup has resolved is there.
CallsFit == \A k \in Calls : calls[k].version # 0 => Defined(calls[k].version)

\* While a batch is prepared none of its calls runs.
Batched ==
    \A k \in Calls : calls[k].stage = "prepared" =>
        batch < MaxBatches /\ \A l \in Calls : calls[l].stage \in {"none", "prepared"}

MappingFits == mapping # Undefined => dataset

\* What was compiled is what the version says, for good: of the field that is mapped, or of
\* one that was and with its data set is gone.
Says(v, args) ==
    /\ v # 0 /\ Defined(v) /\ Formula(v) = args.formula
    /\ mapping = args.field \/ (mapping = Undefined /\ ~dataset)

CompiledSo ==
    /\ \A k \in Calls : calls[k].stage = "done" /\ calls[k].args # Undefined =>
           Says(calls[k].version, calls[k].args)
    /\ \A i \in Compiled : Says(ledger[i].version, ledger[i].args)

IsData(k) == calls[k].stage \in {"prepared", "running"} /\ calls[k].asOf = 0

\* A binding is a lookup that compiled the same call.
BoundSo ==
    /\ \A k \in Calls : IsData(k) /\ calls[k].binding # 0 =>
           calls[k].binding \in Matching(calls[k].args)
    /\ \A i \in DOMAIN ledger : ledger[i].type = "data" /\ ledger[i].binding # 0 =>
           ledger[i].binding \in Matching(ledger[i].args)

\* A call without a binding saw no lookup but those of its own batch.
UnboundSo ==
    \A k \in Calls : IsData(k) /\ calls[k].binding = 0 =>
        \A j \in Compiled : calls[k].stage = "running" /\ ledger[j].batch = batch

DomainInv ==
    /\ DomainTypeOK /\ CallsFit /\ Batched /\ MappingFits /\ CompiledSo /\ BoundSo /\ UnboundSo
    /\ AlteredRefused
-----------------------------------------------------------------------------
(* DomainDefinitions: the steps.                                             *)

LEMMA CreateDefinitionStep ==
    ASSUME DomainInv, NEW v \in DefVersions, NEW draft \in Drafts, NEW k \in DefKeys,
           CreateDefinition(v, draft, k)
    PROVE  DomainInv'
<1> USE DomainAssumption
<1>1. DomainTypeOK'
  BY DEF DomainInv, DomainTypeOK, Batched, CreateDefinition
<1>2. CallsFit' /\ Batched' /\ MappingFits'
  BY DEF DomainInv, DomainTypeOK, CallsFit, Batched, MappingFits, Defined, CreateDefinition
<1>3. CompiledSo'
  BY DEF DomainInv, DomainTypeOK, CallsFit, MappingFits, CompiledSo, Says, Compiled, Defined, Formula, CreateDefinition
<1>4. BoundSo'
  BY DEF DomainInv, DomainTypeOK, BoundSo, IsData, Matching, Compiled, CreateDefinition
<1>5. UnboundSo' /\ AlteredRefused'
  BY DEF DomainInv, DomainTypeOK, Batched, UnboundSo, AlteredRefused, IsData, Compiled, CreateDefinition
<1>6. QED
  BY <1>1, <1>2, <1>3, <1>4, <1>5 DEF DomainInv

LEMMA RegisterMappingStep ==
    ASSUME DomainInv, NEW field \in Fields, RegisterMapping(field)
    PROVE  DomainInv'
<1> USE DomainAssumption
<1>1. DomainTypeOK'
  BY DEF DomainInv, DomainTypeOK, Batched, RegisterMapping
<1>2. CallsFit' /\ Batched' /\ MappingFits'
  BY DEF DomainInv, DomainTypeOK, CallsFit, Batched, MappingFits, Defined, RegisterMapping
<1>3. CompiledSo'
  <2>1. ASSUME NEW k \in Calls, calls[k].stage = "done", calls[k].args # Undefined
        PROVE  FALSE
    <3>1. calls[k].args \in Arguments
      BY <2>1 DEF DomainInv, DomainTypeOK
    <3>2. calls[k].args.field # Undefined
      BY <3>1 DEF Arguments
    <3>3. QED
      BY <2>1, <3>2 DEF DomainInv, CompiledSo, Says, RegisterMapping
  <2>2. ASSUME NEW i \in Compiled
        PROVE  FALSE
    <3>1. i \in DOMAIN ledger /\ ledger[i].args # Undefined
      BY <2>2 DEF Compiled
    <3>2. ledger[i].args \in Arguments
      <4> DEFINE R == [type : {"definition", "data"}, batch : Nat,
                       version : DefVersions \cup {0}, args : Arguments \cup {Undefined},
                       binding : Nat]
      <4>1. ledger \in Seq(R)
        BY DEF DomainInv, DomainTypeOK
      <4>2. \A r \in R : r.args \in Arguments \cup {Undefined}
        OBVIOUS
      <4> HIDE DEF R
      <4>3. ledger[i] \in R
        BY <3>1, <4>1
      <4>4. QED
        BY <3>1, <4>2, <4>3
    <3>3. ledger[i].args.field # Undefined
      BY <3>2 DEF Arguments
    <3>4. QED
      BY <2>2, <3>3 DEF DomainInv, CompiledSo, Says, RegisterMapping
  <2>3. Compiled' = Compiled /\ calls' = calls
    BY DEF Compiled, RegisterMapping
  <2>4. QED
    BY <2>1, <2>2, <2>3 DEF CompiledSo
<1>4. BoundSo'
  BY DEF DomainInv, DomainTypeOK, BoundSo, IsData, Matching, Compiled, RegisterMapping
<1>5. UnboundSo' /\ AlteredRefused'
  BY DEF DomainInv, DomainTypeOK, Batched, UnboundSo, AlteredRefused, IsData, Compiled, RegisterMapping
<1>6. QED
  BY <1>1, <1>2, <1>3, <1>4, <1>5 DEF DomainInv

LEMMA DeleteDatasetStep ==
    ASSUME DomainInv, DeleteDataset
    PROVE  DomainInv'
<1> USE DomainAssumption
<1>1. DomainTypeOK'
  BY DEF DomainInv, DomainTypeOK, Batched, DeleteDataset
<1>2. CallsFit' /\ Batched' /\ MappingFits'
  BY DEF DomainInv, DomainTypeOK, CallsFit, Batched, MappingFits, Defined, DeleteDataset
<1>3. CompiledSo'
  BY DEF DomainInv, DomainTypeOK, CallsFit, MappingFits, CompiledSo, Says, Compiled, Defined, Formula, DeleteDataset
<1>4. BoundSo'
  BY DEF DomainInv, DomainTypeOK, BoundSo, IsData, Matching, Compiled, DeleteDataset
<1>5. UnboundSo' /\ AlteredRefused'
  BY DEF DomainInv, DomainTypeOK, Batched, UnboundSo, AlteredRefused, IsData, Compiled, DeleteDataset
<1>6. QED
  BY <1>1, <1>2, <1>3, <1>4, <1>5 DEF DomainInv

LEMMA ExecuteStep ==
    ASSUME DomainInv, Execute
    PROVE  DomainInv'
<1> USE DomainAssumption
<1>1. DomainTypeOK'
  <2>1. batch' \in 0..MaxBatches
    BY DEF DomainInv, DomainTypeOK, Batched, Execute, Stage
  <2>2. calls' \in [Calls -> [stage : {"none", "prepared", "running", "resolved", "done"},
                             asOf : Instants \cup {0}, version : DefVersions \cup {0},
                             args : Arguments \cup {Undefined}, binding : Nat]]
    <3>1. ASSUME NEW k \in Calls
          PROVE  [calls[k] EXCEPT !.stage = "running"]
                     \in [stage : {"none", "prepared", "running", "resolved", "done"},
                         asOf : Instants \cup {0}, version : DefVersions \cup {0},
                         args : Arguments \cup {Undefined}, binding : Nat]
      BY DEF DomainInv, DomainTypeOK
    <3>2. QED
      BY <3>1 DEF DomainInv, DomainTypeOK, Execute
  <2>3. \A k \in Calls : calls[k].binding <= Len(ledger) => calls'[k].binding <= Len(ledger)
    BY DEF DomainInv, DomainTypeOK, Execute, Stage
  <2>4. QED
    BY <2>1, <2>2, <2>3 DEF DomainInv, DomainTypeOK, Execute
<1>2. CallsFit' /\ Batched' /\ MappingFits'
  BY DEF DomainInv, DomainTypeOK, CallsFit, Batched, MappingFits, Defined, Execute, Preparing, Stage
<1>3. CompiledSo'
  BY DEF DomainInv, DomainTypeOK, CallsFit, MappingFits, CompiledSo, Says, Compiled, Defined, Formula, Execute, Preparing, Stage
<1>4. BoundSo'
  BY DEF DomainInv, DomainTypeOK, BoundSo, IsData, Matching, Compiled, Execute, Preparing, Stage
<1>5. UnboundSo' /\ AlteredRefused'
  BY DEF DomainInv, DomainTypeOK, Batched, UnboundSo, AlteredRefused, IsData, Compiled, Execute, Preparing, Stage
<1>6. QED
  BY <1>1, <1>2, <1>3, <1>4, <1>5 DEF DomainInv

LEMMA PrepareLookupStep ==
    ASSUME DomainInv, NEW k \in Calls, NEW t \in Instants, PrepareLookup(k, t)
    PROVE  DomainInv'
<1> USE DomainAssumption
<1>1. DomainTypeOK'
  BY DEF DomainInv, DomainTypeOK, Batched, PrepareLookup, Advance, Preparing, Stage, NoCall
<1>2. CallsFit' /\ Batched' /\ MappingFits'
  BY DEF DomainInv, DomainTypeOK, CallsFit, Batched, MappingFits, Defined, PrepareLookup, Advance, Preparing, Stage, NoCall
<1>3. CompiledSo'
  BY DEF DomainInv, DomainTypeOK, CallsFit, MappingFits, CompiledSo, Says, Compiled, Defined, Formula, PrepareLookup, Advance, Preparing, Stage, NoCall
<1>4. BoundSo'
  BY DEF DomainInv, DomainTypeOK, BoundSo, IsData, Matching, Compiled, PrepareLookup, Advance, Preparing, Stage, NoCall
<1>5. UnboundSo' /\ AlteredRefused'
  BY DEF DomainInv, DomainTypeOK, Batched, UnboundSo, AlteredRefused, IsData, Compiled, PrepareLookup, Advance, Preparing, Stage, NoCall
<1>6. QED
  BY <1>1, <1>2, <1>3, <1>4, <1>5 DEF DomainInv

LEMMA PrepareDataStep ==
    ASSUME DomainInv, NEW k \in Calls, NEW args \in Arguments, PrepareData(k, args)
    PROVE  DomainInv'
<1> USE DomainAssumption
<1>1. DomainTypeOK'
  <2>1. PICK b \in Bindings(args) :
           calls' = [calls EXCEPT ![k] = [NoCall EXCEPT !.stage = "prepared", !.args = args,
                                                        !.binding = b]]
    BY DEF PrepareData, Advance
  <2>2. b \in Nat /\ b <= Len(ledger)
    BY <2>1 DEF DomainInv, DomainTypeOK, Bindings, Matching, Compiled
  <2>3. [NoCall EXCEPT !.stage = "prepared", !.args = args, !.binding = b]
            \in [stage : {"none", "prepared", "running", "resolved", "done"},
                asOf : Instants \cup {0}, version : DefVersions \cup {0},
                args : Arguments \cup {Undefined}, binding : Nat]
    BY <2>2 DEF NoCall
  <2>4. \A l \in Calls : calls'[l].binding <= Len(ledger)
    BY <2>1, <2>2 DEF DomainInv, DomainTypeOK, NoCall
  <2>5. QED
    BY <2>1, <2>3, <2>4 DEF DomainInv, DomainTypeOK, PrepareData
<1>2. CallsFit' /\ Batched' /\ MappingFits'
  BY DEF DomainInv, DomainTypeOK, CallsFit, Batched, MappingFits, Defined, PrepareData, Advance, Preparing, Stage, NoCall, Bindings, Matching, Compiled
<1>3. CompiledSo'
  BY DEF DomainInv, DomainTypeOK, CallsFit, MappingFits, CompiledSo, Says, Compiled, Defined, Formula, PrepareData, Advance, Preparing, Stage, NoCall, Bindings, Matching, Compiled
<1>4. BoundSo'
  BY DEF DomainInv, DomainTypeOK, BoundSo, IsData, Matching, Compiled, PrepareData, Advance, Preparing, Stage, NoCall, Bindings, Matching, Compiled
<1>5. UnboundSo' /\ AlteredRefused'
  BY DEF DomainInv, DomainTypeOK, Batched, UnboundSo, AlteredRefused, IsData, Compiled, PrepareData, Advance, Preparing, Stage, NoCall, Bindings, Matching, Compiled
<1>6. QED
  BY <1>1, <1>2, <1>3, <1>4, <1>5 DEF DomainInv

LEMMA ResolveStep ==
    ASSUME DomainInv, NEW k \in Calls, Resolve(k)
    PROVE  DomainInv'
<1> USE DomainAssumption
<1> DEFINE effective == Effective(calls[k].asOf)
           v == IF Cardinality(effective) = 1 THEN CHOOSE w \in effective : TRUE ELSE 0
<1>0. calls' = [calls EXCEPT ![k] = [calls[k] EXCEPT !.stage = "resolved", !.version = v]]
  BY DEF Resolve, Advance
<1>v. v \in DefVersions \cup {0} /\ (v # 0 => Defined(v))
  <2>1. CASE Cardinality(effective) = 1
    <3>1. effective # {}
      BY <2>1, FS_EmptySet
    <3>2. v \in effective
      BY <2>1, <3>1
    <3>3. QED
      BY <3>2 DEF Effective
  <2>2. QED
    BY <2>1
<1> HIDE DEF v
<1>1. DomainTypeOK'
  <2>1. [calls[k] EXCEPT !.stage = "resolved", !.version = v]
            \in [stage : {"none", "prepared", "running", "resolved", "done"},
                asOf : Instants \cup {0}, version : DefVersions \cup {0},
                args : Arguments \cup {Undefined}, binding : Nat]
    BY <1>v DEF DomainInv, DomainTypeOK
  <2>2. \A l \in Calls : calls'[l].binding <= Len(ledger)
    BY <1>0 DEF DomainInv, DomainTypeOK
  <2>3. QED
    BY <1>0, <2>1, <2>2 DEF DomainInv, DomainTypeOK, Resolve
<1>2. CallsFit' /\ Batched' /\ MappingFits'
  BY <1>0, <1>v DEF DomainInv, DomainTypeOK, CallsFit, Batched, MappingFits, Defined, Resolve
<1>3. CompiledSo'
  BY DEF DomainInv, DomainTypeOK, CallsFit, MappingFits, CompiledSo, Says, Compiled, Defined, Formula, Resolve, Advance
<1>4. BoundSo'
  BY DEF DomainInv, DomainTypeOK, BoundSo, IsData, Matching, Compiled, Resolve, Advance
<1>5. UnboundSo' /\ AlteredRefused'
  BY DEF DomainInv, DomainTypeOK, Batched, UnboundSo, AlteredRefused, IsData, Compiled, Resolve, Advance
<1>6. QED
  BY <1>1, <1>2, <1>3, <1>4, <1>5 DEF DomainInv

LEMMA CompileStep ==
    ASSUME DomainInv, NEW k \in Calls, Compile(k)
    PROVE  DomainInv'
<1> USE DomainAssumption
<1>1. DomainTypeOK'
  <2> DEFINE v == calls[k].version
             a == IF v = 0 \/ mapping = Undefined THEN Undefined
                  ELSE [formula |-> Formula(v), field |-> mapping]
  <2>1. calls' = [calls EXCEPT ![k] = [calls[k] EXCEPT !.stage = "done", !.args = a]]
    BY DEF Compile, Advance
  <2>2. a \in Arguments \cup {Undefined}
    <3>1. v # 0 => definitions[v] \in Drafts
      BY DEF DomainInv, DomainTypeOK, CallsFit, Defined
    <3>2. v # 0 => Formula(v) \in Formulas
      BY <3>1 DEF Drafts, Formula
    <3>3. QED
      BY <3>2 DEF DomainInv, DomainTypeOK, Arguments
  <2> HIDE DEF a
  <2>3. [calls[k] EXCEPT !.stage = "done", !.args = a]
            \in [stage : {"none", "prepared", "running", "resolved", "done"},
                asOf : Instants \cup {0}, version : DefVersions \cup {0},
                args : Arguments \cup {Undefined}, binding : Nat]
    BY <2>2 DEF DomainInv, DomainTypeOK
  <2>4. \A l \in Calls : calls'[l].binding <= Len(ledger)
    BY <2>1 DEF DomainInv, DomainTypeOK
  <2>5. QED
    BY <2>1, <2>3, <2>4 DEF DomainInv, DomainTypeOK, Compile
<1>2. CallsFit' /\ Batched' /\ MappingFits'
  BY DEF DomainInv, DomainTypeOK, CallsFit, Batched, MappingFits, Defined, Compile, Advance
<1>3. CompiledSo'
  BY DEF DomainInv, DomainTypeOK, CallsFit, MappingFits, CompiledSo, Says, Compiled, Defined, Formula, Compile, Advance
<1>4. BoundSo'
  BY DEF DomainInv, DomainTypeOK, BoundSo, IsData, Matching, Compiled, Compile, Advance
<1>5. UnboundSo' /\ AlteredRefused'
  BY DEF DomainInv, DomainTypeOK, Batched, UnboundSo, AlteredRefused, IsData, Compiled, Compile, Advance
<1>6. QED
  BY <1>1, <1>2, <1>3, <1>4, <1>5 DEF DomainInv

LEMMA CommitLookupStep ==
    ASSUME DomainInv, NEW k \in Calls, CommitLookup(k)
    PROVE  DomainInv'
<1> USE DomainAssumption
<1> DEFINE e == Evidence(k, "definition")
<1>l. /\ ledger' = Append(ledger, e) /\ e.type = "definition" /\ e.args = calls[k].args
      /\ e.version = calls[k].version /\ e.binding = calls[k].binding /\ e.batch = batch
  BY DEF CommitLookup, Evidence
<1>g. /\ Len(ledger') = Len(ledger) + 1 /\ DOMAIN ledger' = 1..Len(ledger) + 1
      /\ \A i \in 1..Len(ledger) : ledger'[i] = ledger[i]
      /\ ledger'[Len(ledger) + 1] = e
      /\ DOMAIN ledger = 1..Len(ledger) /\ Len(ledger) \in Nat
  BY <1>l DEF DomainInv, DomainTypeOK
<1>f. \A l \in Calls : calls'[l] = IF l = k THEN NoCall ELSE calls[l]
  BY DEF DomainInv, DomainTypeOK, CommitLookup, Advance
<1> HIDE DEF e
<1>1. DomainTypeOK'
  BY DEF DomainInv, DomainTypeOK, Batched, CommitLookup, Advance, NoCall, Evidence
<1>2. CallsFit' /\ Batched' /\ MappingFits'
  BY DEF DomainInv, DomainTypeOK, CallsFit, Batched, MappingFits, Defined, CommitLookup, Advance, NoCall, Evidence
<1>3. CompiledSo'
  BY DEF DomainInv, DomainTypeOK, CallsFit, MappingFits, CompiledSo, Says, Compiled, Defined, Formula, CommitLookup, Advance, NoCall, Evidence
<1>4. BoundSo'
  <2>1. \A i \in Compiled : i \in Compiled' /\ ledger'[i] = ledger[i]
    BY <1>g DEF Compiled
  <2>2. \A args : \A b \in Matching(args) : b \in Compiled' /\ ledger'[b].args = args
    BY <2>1 DEF Matching
  <2>3. \A l \in Calls : IsData(l)' => IsData(l) /\ calls'[l] = calls[l]
    BY <1>f DEF IsData, NoCall
  <2>4. ASSUME NEW l \in Calls, IsData(l)', calls'[l].binding # 0
        PROVE  /\ calls'[l].binding \in Compiled'
               /\ ledger'[calls'[l].binding].args = calls'[l].args
    BY <2>2, <2>3, <2>4 DEF DomainInv, BoundSo
  <2>5. ASSUME NEW i \in DOMAIN ledger', ledger'[i].type = "data", ledger'[i].binding # 0
        PROVE  /\ ledger'[i].binding \in Compiled'
               /\ ledger'[ledger'[i].binding].args = ledger'[i].args
    <3>1. i \in DOMAIN ledger /\ ledger'[i] = ledger[i]
      BY <1>g, <1>l, <2>5
    <3>2. ledger[i].binding \in Matching(ledger[i].args)
      BY <2>5, <3>1 DEF DomainInv, BoundSo
    <3>3. QED
      BY <2>2, <3>1, <3>2
  <2>6. QED
    BY <2>4, <2>5 DEF BoundSo, Matching
<1>5. UnboundSo' /\ AlteredRefused'
  <2>1. \A j \in Compiled' : \/ j \in Compiled /\ ledger'[j] = ledger[j]
                             \/ j = Len(ledger) + 1 /\ ledger'[j].batch = batch
    <3>1. ASSUME NEW j \in Compiled', j # Len(ledger) + 1
          PROVE  j \in Compiled /\ ledger'[j] = ledger[j]
      BY <1>g, <3>1 DEF Compiled
    <3>2. QED
      BY <1>g, <1>l, <3>1
  <2>2. batch' = batch
    BY DEF CommitLookup
  <2>3. UnboundSo'
    <3>1. ASSUME NEW l \in Calls, IsData(l)', calls'[l].binding = 0, NEW j \in Compiled'
          PROVE  calls'[l].stage = "running" /\ ledger'[j].batch = batch
      <4>1. IsData(l) /\ calls'[l] = calls[l]
        BY <1>f, <3>1 DEF IsData, NoCall
      <4>2. calls[l].stage = "running"
        BY <4>1 DEF DomainInv, Batched, IsData, CommitLookup
      <4>3. QED
        BY <2>1, <3>1, <4>1, <4>2 DEF DomainInv, UnboundSo
    <3>2. QED
      BY <2>2, <3>1 DEF UnboundSo
  <2>4. AlteredRefused'
    <3>1. ASSUME NEW i \in DOMAIN ledger', ledger'[i].type = "data", ledger'[i].binding = 0,
                 NEW j \in Compiled', j < i
          PROVE  ledger'[j].batch = ledger'[i].batch
      <4>1. i \in DOMAIN ledger /\ ledger'[i] = ledger[i]
        BY <1>g, <1>l, <3>1
      <4>2. j \in Compiled /\ ledger'[j] = ledger[j]
        BY <1>g, <2>1, <3>1, <4>1
      <4>3. QED
        BY <3>1, <4>1, <4>2 DEF DomainInv, AlteredRefused
    <3>2. QED
      BY <3>1 DEF AlteredRefused
  <2>5. QED
    BY <2>3, <2>4
<1>6. QED
  BY <1>1, <1>2, <1>3, <1>4, <1>5 DEF DomainInv

LEMMA CommitDataStep ==
    ASSUME DomainInv, NEW k \in Calls, CommitData(k)
    PROVE  DomainInv'
<1> USE DomainAssumption
<1> DEFINE e == Evidence(k, "data")
<1>l. /\ ledger' = Append(ledger, e) /\ e.type = "data" /\ e.args = calls[k].args
      /\ e.version = calls[k].version /\ e.binding = calls[k].binding /\ e.batch = batch
  BY DEF CommitData, Evidence
<1>g. /\ Len(ledger') = Len(ledger) + 1 /\ DOMAIN ledger' = 1..Len(ledger) + 1
      /\ \A i \in 1..Len(ledger) : ledger'[i] = ledger[i]
      /\ ledger'[Len(ledger) + 1] = e
      /\ DOMAIN ledger = 1..Len(ledger) /\ Len(ledger) \in Nat
  BY <1>l DEF DomainInv, DomainTypeOK
<1>f. \A l \in Calls : calls'[l] = IF l = k THEN NoCall ELSE calls[l]
  BY DEF DomainInv, DomainTypeOK, CommitData, Advance
<1> HIDE DEF e
<1>1. DomainTypeOK'
  BY DEF DomainInv, DomainTypeOK, Batched, CommitData, Advance, NoCall, Evidence
<1>2. CallsFit' /\ Batched' /\ MappingFits'
  BY DEF DomainInv, DomainTypeOK, CallsFit, Batched, MappingFits, Defined, CommitData, Advance, NoCall, Evidence
<1>3. CompiledSo'
  BY DEF DomainInv, DomainTypeOK, CallsFit, MappingFits, CompiledSo, Says, Compiled, Defined, Formula, CommitData, Advance, NoCall, Evidence
<1>4. BoundSo'
  <2>1. \A i \in Compiled : i \in Compiled' /\ ledger'[i] = ledger[i]
    BY <1>g DEF Compiled
  <2>2. \A args : \A b \in Matching(args) : b \in Compiled' /\ ledger'[b].args = args
    BY <2>1 DEF Matching
  <2>3. \A l \in Calls : IsData(l)' => IsData(l) /\ calls'[l] = calls[l]
    BY <1>f DEF IsData, NoCall
  <2>4. ASSUME NEW l \in Calls, IsData(l)', calls'[l].binding # 0
        PROVE  /\ calls'[l].binding \in Compiled'
               /\ ledger'[calls'[l].binding].args = calls'[l].args
    BY <2>2, <2>3, <2>4 DEF DomainInv, BoundSo
  <2>5. ASSUME NEW i \in DOMAIN ledger', ledger'[i].type = "data", ledger'[i].binding # 0
        PROVE  /\ ledger'[i].binding \in Compiled'
               /\ ledger'[ledger'[i].binding].args = ledger'[i].args
    <3>1. CASE i \in DOMAIN ledger
      <4>1. ledger'[i] = ledger[i]
        BY <1>g, <3>1
      <4>2. ledger[i].binding \in Matching(ledger[i].args)
        BY <2>5, <3>1, <4>1 DEF DomainInv, BoundSo
      <4>3. QED
        BY <2>2, <4>1, <4>2
    <3>2. CASE i = Len(ledger) + 1
      <4>1. ledger'[i].args = calls[k].args /\ ledger'[i].binding = calls[k].binding
        BY <1>g, <1>l, <3>2
      <4>2. IsData(k)
        BY DEF IsData, CommitData
      <4>3. calls[k].binding \in Matching(calls[k].args)
        BY <2>5, <4>1, <4>2 DEF DomainInv, BoundSo
      <4>4. QED
        BY <2>2, <4>1, <4>3
    <3>3. QED
      BY <1>g, <2>5, <3>1, <3>2
  <2>6. QED
    BY <2>4, <2>5 DEF BoundSo, Matching
<1>5. UnboundSo' /\ AlteredRefused'
  <2>1. \A j \in Compiled' : j \in Compiled /\ ledger'[j] = ledger[j]
    BY <1>g, <1>l DEF Compiled
  <2>2. batch' = batch
    BY DEF CommitData
  <2>3. UnboundSo'
    <3>1. ASSUME NEW l \in Calls, IsData(l)', calls'[l].binding = 0, NEW j \in Compiled'
          PROVE  calls'[l].stage = "running" /\ ledger'[j].batch = batch
      <4>1. IsData(l) /\ calls'[l] = calls[l]
        BY <1>f, <3>1 DEF IsData, NoCall
      <4>2. QED
        BY <2>1, <3>1, <4>1 DEF DomainInv, UnboundSo
    <3>2. QED
      BY <2>2, <3>1 DEF UnboundSo
  <2>4. ASSUME NEW i \in DOMAIN ledger', ledger'[i].type = "data", ledger'[i].binding = 0,
               NEW j \in Compiled', j < i
        PROVE  ledger'[j].batch = ledger'[i].batch
    <3>1. CASE i \in DOMAIN ledger
      <4>1. ledger'[i] = ledger[i]
        BY <1>g, <3>1
      <4>2. QED
        BY <2>1, <2>4, <3>1, <4>1 DEF DomainInv, AlteredRefused
    <3>2. CASE i = Len(ledger) + 1
      <4>1. ledger'[i].batch = batch /\ calls[k].binding = 0
        BY <1>g, <1>l, <2>4, <3>2
      <4>2. IsData(k)
        BY DEF IsData, CommitData
      <4>3. QED
        BY <2>1, <2>4, <4>1, <4>2 DEF DomainInv, UnboundSo
    <3>3. QED
      BY <1>g, <2>4, <3>1, <3>2
  <2>5. QED
    BY <2>3, <2>4 DEF AlteredRefused
<1>6. QED
  BY <1>1, <1>2, <1>3, <1>4, <1>5 DEF DomainInv

LEMMA CallFailsStep ==
    ASSUME DomainInv, NEW k \in Calls, CallFails(k)
    PROVE  DomainInv'
<1> USE DomainAssumption
<1>1. DomainTypeOK'
  BY DEF DomainInv, DomainTypeOK, Batched, CallFails, Advance, NoCall
<1>2. CallsFit' /\ Batched' /\ MappingFits'
  BY DEF DomainInv, DomainTypeOK, CallsFit, Batched, MappingFits, Defined, CallFails, Advance, NoCall
<1>3. CompiledSo'
  BY DEF DomainInv, DomainTypeOK, CallsFit, MappingFits, CompiledSo, Says, Compiled, Defined, Formula, CallFails, Advance, NoCall
<1>4. BoundSo'
  BY DEF DomainInv, DomainTypeOK, BoundSo, IsData, Matching, Compiled, CallFails, Advance, NoCall
<1>5. UnboundSo' /\ AlteredRefused'
  BY DEF DomainInv, DomainTypeOK, Batched, UnboundSo, AlteredRefused, IsData, Compiled, CallFails, Advance, NoCall
<1>6. QED
  BY <1>1, <1>2, <1>3, <1>4, <1>5 DEF DomainInv

LEMMA DomainStarts == DomainInit => DomainInv
<1> USE DomainAssumption
<1> SUFFICES ASSUME DomainInit PROVE DomainInv
  OBVIOUS
<1>1. DomainTypeOK
  BY DEF DomainInit, DomainTypeOK, NoCall
<1>2. Compiled = {}
  BY DEF DomainInit, Compiled
<1>3. QED
  BY <1>1, <1>2 DEF DomainInit, DomainInv, CallsFit, Batched, MappingFits, CompiledSo, BoundSo, UnboundSo, AlteredRefused, IsData, NoCall

\* What the run remembers of a definition is what its version says, at every step of
\* DomainDefinitions, for any versions, calls and batches.
THEOREM DefinitionsFit == DomainSpec => []DomainInv
<1>1. ASSUME DomainInv, [DomainNext]_domainVars
      PROVE  DomainInv'
  <2>1. ASSUME NEW v \in DefVersions, NEW draft \in Drafts, NEW k \in DefKeys,
               CreateDefinition(v, draft, k)
        PROVE  DomainInv'
    BY <1>1, <2>1, CreateDefinitionStep
  <2>2. ASSUME NEW field \in Fields, RegisterMapping(field)
        PROVE  DomainInv'
    BY <1>1, <2>2, RegisterMappingStep
  <2>3. CASE DeleteDataset
    BY <1>1, <2>3, DeleteDatasetStep
  <2>4. CASE Execute
    BY <1>1, <2>4, ExecuteStep
  <2>5. ASSUME NEW k \in Calls, Resolve(k)
        PROVE  DomainInv'
    BY <1>1, <2>5, ResolveStep
  <2>6. ASSUME NEW k \in Calls, Compile(k)
        PROVE  DomainInv'
    BY <1>1, <2>6, CompileStep
  <2>7. ASSUME NEW k \in Calls, CommitLookup(k)
        PROVE  DomainInv'
    BY <1>1, <2>7, CommitLookupStep
  <2>8. ASSUME NEW k \in Calls, CommitData(k)
        PROVE  DomainInv'
    BY <1>1, <2>8, CommitDataStep
  <2>9. ASSUME NEW k \in Calls, CallFails(k)
        PROVE  DomainInv'
    BY <1>1, <2>9, CallFailsStep
  <2>10. ASSUME NEW k \in Calls, NEW t \in Instants, PrepareLookup(k, t)
         PROVE  DomainInv'
    BY <1>1, <2>10, PrepareLookupStep
  <2>11. ASSUME NEW k \in Calls, NEW args \in Arguments, PrepareData(k, args)
         PROVE  DomainInv'
    BY <1>1, <2>11, PrepareDataStep
  <2>12. CASE UNCHANGED domainVars
    BY <1>1, <2>12 DEF domainVars, DomainInv, DomainTypeOK, CallsFit, Batched, MappingFits,
                       CompiledSo, Says, BoundSo, UnboundSo, AlteredRefused, IsData, Matching,
                       Compiled, Defined, Formula
  <2>13. QED
    BY <1>1, <2>1, <2>2, <2>3, <2>4, <2>5, <2>6, <2>7, <2>8, <2>9, <2>10, <2>11, <2>12
       DEF DomainNext
<1>2. QED
  BY <1>1, DomainStarts, PTL DEF DomainSpec

\* Lineage for any versions, calls and batches: a number that names a definition was computed
\* by it, and one that names none was not computed after the run had compiled one.
THEOREM NumbersNameTheirDefinition == DomainSpec => []Lineage
<1>1. DomainInv => Lineage
  <2>1. ASSUME DomainInv, NEW i \in DOMAIN ledger, ledger[i].type = "data",
               ledger[i].binding # 0
        PROVE  LET source == ledger[ledger[i].binding]
               IN /\ source.type = "definition" /\ source.args = ledger[i].args
                  /\ Formula(source.version) = ledger[i].args.formula
                  /\ mapping \in {ledger[i].args.field, Undefined}
    <3>1. ledger[i].binding \in Matching(ledger[i].args)
      BY <2>1 DEF DomainInv, BoundSo
    <3>2. ledger[i].binding \in Compiled /\ ledger[ledger[i].binding].args = ledger[i].args
      BY <3>1 DEF Matching
    <3>3. Says(ledger[ledger[i].binding].version, ledger[i].args)
      BY <2>1, <3>2 DEF DomainInv, CompiledSo
    <3>4. QED
      BY <3>2, <3>3 DEF Says, Compiled
  <2>2. QED
    BY <2>1 DEF DomainInv, Lineage, ExactDefinition
<1>2. QED
  BY <1>1, DefinitionsFit, PTL
=============================================================================
