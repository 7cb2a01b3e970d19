----------------------------- MODULE TurnProofs -----------------------------
(* Proofs about a turn of the agent: the rounds of a host (AgentTurn), for   *)
(* any budget, number of tools, plans and hosts and length of a response;    *)
(* what a call leaves behind (ToolResult), for any number of attempts of a   *)
(* cleanup; how calls share a connection (McpGateway), for any number of     *)
(* calls, watchers, gateways and attempts to reconnect; what a join (Joins)  *)
(* and an analysis (DataRoles) rest on, for any number of calls; what        *)
(* clients list (ResourceListing) and hear (ResourceFeed) of the domain      *)
(* definitions, for any number of them and of clients; and what a plan does  *)
(* for a request (TaskOutline), for any requests and catalogues.             *)
EXTENDS AgentTurn, ToolResult, McpGateway, DataRoles, ResourceFeed, TaskOutline,
        FiniteSetTheorems, SequenceTheorems, WellFoundedInduction, TLAPS
-----------------------------------------------------------------------------
(* AgentTurn: the inductive invariant.                                       *)
Handling == {"frontier", "call", "decide", "refused", "executing", "batch"}
AtACall == {"decide", "refused", "executing"}

CountsTypeOK ==
    /\ usage \in [attempts : Nat, invalid : Nat]
    /\ refused \in Nat /\ attempts \in Nat /\ invalid \in Nat

\* The calls before index have their message, the others none yet.
InOrder ==
    /\ index \in 1..(Len(batch) + 1)
    /\ stage = "frontier" => index = 1
    /\ stage \in AtACall => index <= Len(batch)
    /\ stage \in Handling => \A i \in DOMAIN batch : answers[i] = IF i < index THEN 1 ELSE 0
    /\ stage \in {"top", "model"} => \A i \in DOMAIN batch : answers[i] = 1
    /\ stage \in {"verify", "final"} => batch = <<>>

\* What is executed has been reserved in the store.
Underway ==
    /\ stage = "batch" => Called \subseteq Invoked
    /\ stage \in {"refused", "executing"} => batch[index] \in Invoked

(* A batch is counted when it has ended, an attempt before it is stored.     *)
Accounted ==
    /\ IsFiniteSet(Invoked)
    /\ stage \notin {"down", "over"} =>
          /\ Cardinality(Invoked) <= IF stage = "batch" THEN attempts + Len(batch) ELSE attempts
          /\ \/ invalid >= MaxInvalid
             \/ refused < invalid
             \/ stage # "refused" /\ refused = invalid

TurnInv ==
    /\ TurnTypeOK
    /\ CountsTypeOK
    /\ InOrder
    /\ Underway
    /\ Accounted
-----------------------------------------------------------------------------
\* What of the invariant is plain arithmetic.
LEMMA Sizes ==
    ASSUME TurnInv
    PROVE  /\ batch \in Seq(Signatures) /\ Len(batch) \in Nat /\ DOMAIN batch = 1..Len(batch)
           /\ \A i \in DOMAIN batch : batch[i] \in Signatures
           /\ Cardinality(Invoked) \in Nat
           /\ {plan, round, copy, offered, hosts, index} \subseteq Nat
BY FS_CardinalityType, TurnAssumption DEF TurnInv, TurnTypeOK, InOrder, Accounted

\* Only a call's row makes it one that is invoked.
LEMMA SameRows ==
    ASSUME UNCHANGED invocation PROVE Invoked' = Invoked
BY DEF Invoked, With

LEMMA RowOf ==
    ASSUME TurnInv, NEW s \in Signatures, NEW outcome \in CallOutcomes, outcome # "none",
           SetOutcome(s, outcome)
    PROVE  /\ invocation' \in [Signatures -> CallOutcomes]
           /\ Invoked' = Invoked \cup {s}
           /\ IsFiniteSet(Invoked')
           /\ Cardinality(Invoked') <= Cardinality(Invoked) + 1
           /\ s \in Invoked => Cardinality(Invoked') = Cardinality(Invoked)
<1>1. invocation' \in [Signatures -> CallOutcomes] /\ Invoked' = Invoked \cup {s}
  BY DEF SetOutcome, TurnInv, TurnTypeOK, Invoked, With
<1>2. IsFiniteSet(Invoked) /\ Cardinality(Invoked) \in Nat
  BY Sizes DEF TurnInv, Accounted
<1>3. /\ IsFiniteSet(Invoked \cup {s})
      /\ Cardinality(Invoked \cup {s}) =
           IF s \in Invoked THEN Cardinality(Invoked) ELSE Cardinality(Invoked) + 1
  BY <1>2, FS_AddElement
<1>4. QED
  BY <1>1, <1>2, <1>3

\* A response calls at most as many tools as it is long.
LEMMA Batched ==
    ASSUME TurnInv
    PROVE  IsFiniteSet(Called) /\ Cardinality(Called) \in Nat /\ Cardinality(Called) <= Len(batch)
<1>1. batch \in Surjection(1..Len(batch), Called)
  BY Sizes DEF Called, Surjection
<1>2. Len(batch) \in Nat /\ (1 > Len(batch) => Len(batch) = 0)
  BY Sizes
<1>3. IsFiniteSet(1..Len(batch)) /\ Cardinality(1..Len(batch)) = Len(batch)
  BY <1>2, FS_Interval
<1>4. QED
  BY <1>1, <1>3, FS_Surjection, FS_CardinalityType

\* The message of the call the host is at.
LEMMA AnswerOf ==
    ASSUME TurnInv, index \in DOMAIN batch, AddAnswer(index), UNCHANGED batch
    PROVE  /\ answers' \in [DOMAIN batch' -> Nat]
           /\ \A i \in DOMAIN batch : answers'[i] = IF i = index THEN answers[i] + 1 ELSE answers[i]
BY DEF AddAnswer, TurnInv, TurnTypeOK
-----------------------------------------------------------------------------
\* A host comes, goes or gives up; the plan changes.
LEMMA HostKeeps ==
    ASSUME TurnInv, Open \/ Down \/ Revise \/ Fails
    PROVE  TurnInv'
<1> USE TurnAssumption, Sizes, SameRows
        DEF TurnInv, TurnTypeOK, CountsTypeOK, InOrder, Underway, Accounted, Called, Stages,
            Handling, AtACall
<1>1. CASE Open
  BY <1>1 DEF Open, Larger, storedVars, roundVars, countVars, batchVars
<1>2. CASE Down
  BY <1>2 DEF Down, storedVars, roundVars, countVars, batchVars
<1>3. CASE Revise
  BY <1>3 DEF Revise, storedVars, roundVars, countVars, batchVars
<1>4. CASE Fails
  BY <1>4 DEF Fails, Ends, storedVars, roundVars, countVars, batchVars
<1>5. QED
  BY <1>1, <1>2, <1>3, <1>4

\* The model is asked and answers.
LEMMA ModelKeeps ==
    ASSUME TurnInv, Ask \/ Answers \/ (\E b \in Responses : CallTools(b))
    PROVE  TurnInv'
<1> USE TurnAssumption, Sizes, SameRows
        DEF TurnInv, TurnTypeOK, CountsTypeOK, InOrder, Underway, Accounted, Called, Stages,
            Handling, AtACall
<1>1. CASE Ask
  BY <1>1 DEF Ask, storedVars, roundVars, countVars, batchVars
<1>2. CASE Answers
  BY <1>2 DEF Answers, storedVars, roundVars, countVars, batchVars
<1>3. ASSUME NEW b \in Responses, CallTools(b) PROVE TurnInv'
  BY <1>3 DEF CallTools, Responses, storedVars, roundVars, countVars, batchVars
<1>4. QED
  BY <1>1, <1>2, <1>3

\* The answer is verified.
LEMMA VerifyKeeps ==
    ASSUME TurnInv,
           (\E issue \in Issues : Retry(issue) \/ NotPassed(issue)) \/ Passed \/ CompletesTurn
    PROVE  TurnInv'
<1> USE TurnAssumption, Sizes, SameRows
        DEF TurnInv, TurnTypeOK, CountsTypeOK, InOrder, Underway, Accounted, Called, Stages,
            Handling, AtACall
<1>1. ASSUME NEW issue \in Issues, Retry(issue) PROVE TurnInv'
  BY <1>1 DEF Retry, storedVars, roundVars, countVars, batchVars
<1>2. ASSUME NEW issue \in Issues, NotPassed(issue) PROVE TurnInv'
  BY <1>2 DEF NotPassed, Ends, storedVars, roundVars, countVars, batchVars
<1>3. CASE Passed
  BY <1>3 DEF Passed, storedVars, roundVars, countVars, batchVars
<1>4. CASE CompletesTurn
  BY <1>4 DEF CompletesTurn, Ends, storedVars, roundVars, countVars, batchVars
<1>5. QED
  BY <1>1, <1>2, <1>3, <1>4

\* The calls that are not made.
LEMMA CallKeeps ==
    ASSUME TurnInv, OneByOne \/ NextCall \/ LastCall \/ Reuse
    PROVE  TurnInv'
<1> USE TurnAssumption, Sizes, SameRows
        DEF TurnInv, TurnTypeOK, CountsTypeOK, InOrder, Underway, Accounted, Called, Stages,
            Handling, AtACall
<1>1. CASE OneByOne
  BY <1>1 DEF OneByOne, storedVars, roundVars, countVars, batchVars
<1>2. CASE NextCall
  <2>1. answers' \in [DOMAIN batch -> Nat]
    BY <1>2 DEF NextCall, SupersededFrom
  <2>2. stage' = "top" => \A i \in DOMAIN batch : answers'[i] = 1
    BY <1>2 DEF NextCall, SupersededFrom
  <2>3. stage' \in {"top", "decide"} /\ (stage' = "decide" => answers' = answers)
    BY <1>2 DEF NextCall
  <2>4. QED
    BY <1>2, <2>1, <2>2, <2>3 DEF NextCall, storedVars, countVars
<1>3. CASE LastCall
  BY <1>3 DEF LastCall, storedVars, roundVars, countVars, batchVars
<1>4. CASE Reuse
  BY <1>4 DEF Reuse, AddAnswer, storedVars, roundVars, countVars, batchVars
<1>5. QED
  BY <1>1, <1>2, <1>3, <1>4

\* A rejection is an attempt, and an invalid one when it is counted as such.
LEMMA RejectKeeps ==
    ASSUME TurnInv, stage = "decide", NEW counted \in BOOLEAN, NEW stops \in BOOLEAN,
           Rejects(counted, stops)
    PROVE  TurnInv'
<1> USE TurnAssumption, Sizes DEF TurnInv, Handling, AtACall, roundVars
<1>1. index \in DOMAIN batch /\ index <= Len(batch)
  BY DEF InOrder
<1>2. Invoked' = Invoked /\ answers' \in [DOMAIN batch' -> Nat]
  BY <1>1, SameRows, AnswerOf DEF Rejects
<1>3. TurnTypeOK' /\ CountsTypeOK'
  <2>1. made' \subseteq Signatures /\ attempts' \in Nat /\ invalid' \in Nat /\ refused' \in Nat
    BY <1>1 DEF Rejects, Counts, TurnTypeOK, CountsTypeOK
  <2>2. QED
    BY <1>2, <2>1 DEF Rejects, TurnTypeOK, CountsTypeOK, Stages
<1>4. InOrder'
  <2>1. \A i \in DOMAIN batch : answers'[i] = IF i = index THEN answers[i] + 1 ELSE answers[i]
    BY <1>1, AnswerOf DEF Rejects
  <2>2. QED
    BY <1>1, <2>1 DEF Rejects, InOrder
<1>5. Underway' /\ Accounted'
  BY <1>2 DEF Rejects, Counts, CountsTypeOK, Underway, Accounted
<1>6. QED
  BY <1>3, <1>4, <1>5

\* What is started is reserved in the store and counted at once.
LEMMA StartKeeps ==
    ASSUME TurnInv, NEW valid \in BOOLEAN, NEW place \in {"refused", "executing"},
           Starts(valid, place),
           place = "refused" => ~valid \/ invalid >= MaxInvalid
    PROVE  TurnInv'
<1> USE TurnAssumption, Sizes DEF TurnInv, Handling, AtACall, roundVars, batchVars
<1>1. /\ index \in DOMAIN batch /\ index <= Len(batch) /\ batch[index] \in Signatures
      /\ stage = "decide" /\ stage' = place /\ attempts' = attempts + 1
      /\ UNCHANGED <<batch, answers, index, refused>>
      /\ SetOutcome(batch[index], "running")
  BY DEF InOrder, Starts, Fresh, Counts
<1>2. /\ invocation' \in [Signatures -> CallOutcomes]
      /\ Invoked' = Invoked \cup {batch[index]}
      /\ IsFiniteSet(Invoked')
      /\ Cardinality(Invoked') <= Cardinality(Invoked) + 1
  BY <1>1, RowOf DEF CallOutcomes
<1>3. TurnTypeOK' /\ CountsTypeOK'
  <2>1. made' \subseteq Signatures /\ attempts' \in Nat /\ invalid' \in Nat
    BY <1>1 DEF Starts, Counts, TurnTypeOK, CountsTypeOK
  <2>2. QED
    BY <1>1, <1>2, <2>1 DEF Starts, TurnTypeOK, CountsTypeOK, Stages
<1>4. InOrder' /\ Underway'
  BY <1>1, <1>2 DEF InOrder, Underway
<1>5. Accounted'
  <2>1. Cardinality(Invoked') \in Nat /\ Cardinality(Invoked') <= attempts'
    BY <1>1, <1>2, FS_CardinalityType DEF Accounted, CountsTypeOK
  <2>2. \/ invalid' >= MaxInvalid
        \/ refused' < invalid'
        \/ stage' # "refused" /\ refused' = invalid'
    BY <1>1 DEF Starts, Counts, Accounted, CountsTypeOK
  <2>3. QED
    BY <1>1, <1>2, <2>1, <2>2 DEF Accounted
<1>6. QED
  BY <1>3, <1>4, <1>5

\* The outcome of the call that was started is the last of it.
LEMMA EndKeeps ==
    ASSUME TurnInv, (\E guard \in BOOLEAN : Refuse(guard))
                    \/ (\E outcome \in {"succeeded", "failed", "unknown"} : Commit(outcome))
    PROVE  TurnInv'
<1> USE TurnAssumption, Sizes DEF TurnInv, Handling, AtACall
<1>1. PICK outcome \in {"succeeded", "failed", "unknown"} :
        /\ SetOutcome(batch[index], outcome)
        /\ stage \in {"refused", "executing"} /\ stage' \in {"call", "over"}
        /\ turnStatus' \in {turnStatus, "blocked"}
        /\ refused' = IF stage = "refused" THEN refused + 1 ELSE refused
        /\ AddAnswer(index) /\ index' = index + 1
        /\ UNCHANGED <<plan, usage, hosts, roundVars, countVars, batch, tried>>
  BY DEF Refuse, Commit, Ends
<1>2. index \in DOMAIN batch /\ index <= Len(batch) /\ batch[index] \in Signatures \cap Invoked
  BY <1>1 DEF InOrder, Underway
<1>3. /\ invocation' \in [Signatures -> CallOutcomes]
      /\ IsFiniteSet(Invoked') /\ Cardinality(Invoked') = Cardinality(Invoked)
  <2>1. outcome \in CallOutcomes /\ outcome # "none"
    BY DEF CallOutcomes
  <2>2. QED
    BY <1>1, <1>2, <2>1, RowOf
<1>4. answers' \in [DOMAIN batch' -> Nat]
  BY <1>1, <1>2, AnswerOf
<1>5. TurnTypeOK' /\ CountsTypeOK'
  BY <1>1, <1>3, <1>4 DEF TurnTypeOK, CountsTypeOK, Stages, roundVars, countVars
<1>6. InOrder' /\ Underway'
  <2>1. \A i \in DOMAIN batch : answers'[i] = IF i = index THEN answers[i] + 1 ELSE answers[i]
    BY <1>1, <1>2, AnswerOf
  <2>2. stage \in Handling /\ batch' = batch /\ index' = index + 1 /\ index \in Nat
    BY <1>1 DEF TurnTypeOK, InOrder
  <2>3. \A i \in DOMAIN batch : answers'[i] = IF i < index' THEN 1 ELSE 0
    BY <2>1, <2>2 DEF InOrder
  <2>4. QED
    BY <1>1, <1>2, <2>2, <2>3 DEF InOrder, Underway
<1>7. Accounted'
  <2>1. attempts' = attempts /\ invalid' = invalid /\ stage' \in {"call", "over"}
    BY <1>1 DEF countVars
  <2>2. /\ Cardinality(Invoked') <= attempts
        /\ invalid >= MaxInvalid \/ refused' <= invalid
    BY <1>1, <1>3 DEF Accounted, CountsTypeOK
  <2>3. QED
    BY <1>3, <1>5, <2>1, <2>2 DEF Accounted, CountsTypeOK
<1>8. QED
  BY <1>5, <1>6, <1>7
-----------------------------------------------------------------------------
\* The frontier reserves every call of the response in one transaction.
LEMMA ReserveKeeps ==
    ASSUME TurnInv, Reserve
    PROVE  TurnInv'
<1> USE TurnAssumption, Sizes DEF TurnInv, Handling, AtACall, roundVars, batchVars
<1>1. Called' = Called /\ Called \subseteq Signatures
  BY DEF Reserve, Called
<1>2. invocation' \in [Signatures -> CallOutcomes] /\ Invoked' = Invoked \cup Called
  BY <1>1 DEF Reserve, TurnTypeOK, CallOutcomes, Invoked, With
<1>3. /\ IsFiniteSet(Invoked') /\ Cardinality(Invoked') \in Nat
      /\ Cardinality(Invoked') <= Cardinality(Invoked) + Len(batch)
  <2>1. IsFiniteSet(Invoked) /\ IsFiniteSet(Called)
    BY Batched DEF Accounted
  <2>2. /\ IsFiniteSet(Invoked \cup Called)
        /\ Cardinality(Invoked \cup Called) =
             Cardinality(Invoked) + Cardinality(Called) - Cardinality(Invoked \cap Called)
    BY <2>1, FS_Union
  <2>3. Cardinality(Invoked \cap Called) \in Nat
    BY <2>1, FS_Intersection, FS_CardinalityType
  <2>4. Cardinality(Invoked \cup Called) \in Nat
    BY <2>2, FS_CardinalityType
  <2>5. QED
    BY <1>2, <2>2, <2>3, <2>4, Batched
<1>4. TurnTypeOK' /\ CountsTypeOK'
  BY <1>1, <1>2 DEF Reserve, TurnTypeOK, CountsTypeOK, Stages
<1>5. InOrder' /\ Underway'
  BY <1>1, <1>2 DEF Reserve, InOrder, Underway
<1>6. Accounted'
  BY <1>3 DEF Reserve, Accounted, CountsTypeOK
<1>7. QED
  BY <1>4, <1>5, <1>6

\* The results come back one by one.
LEMMA CommitNextKeeps ==
    ASSUME TurnInv, NEW outcome \in {"succeeded", "failed", "unknown"}, CommitNext(outcome)
    PROVE  TurnInv'
<1> USE TurnAssumption, Sizes DEF TurnInv, Handling, AtACall, roundVars, countVars
<1>1. /\ stage = "batch" /\ stage' = "batch"
      /\ index \in DOMAIN batch /\ index <= Len(batch) /\ index' = index + 1
      /\ batch[index] \in Signatures \cap Invoked
      /\ SetOutcome(batch[index], outcome) /\ AddAnswer(index)
      /\ UNCHANGED <<turnStatus, plan, usage, refused, hosts, roundVars, countVars, batch, tried>>
  BY DEF CommitNext, Underway, Called
<1>2. /\ invocation' \in [Signatures -> CallOutcomes]
      /\ Invoked' = Invoked \cup {batch[index]}
      /\ IsFiniteSet(Invoked') /\ Cardinality(Invoked') = Cardinality(Invoked)
  <2>1. outcome \in CallOutcomes /\ outcome # "none"
    BY DEF CallOutcomes
  <2>2. QED
    BY <1>1, <2>1, RowOf
<1>3. answers' \in [DOMAIN batch' -> Nat] /\ Called' = Called
  BY <1>1, AnswerOf DEF Called
<1>4. TurnTypeOK' /\ CountsTypeOK'
  BY <1>1, <1>2, <1>3 DEF TurnTypeOK, CountsTypeOK
<1>5. InOrder'
  <2>1. \A i \in DOMAIN batch : answers[i] = IF i < index THEN 1 ELSE 0
    BY <1>1 DEF InOrder
  <2>2. \A i \in DOMAIN batch : answers'[i] = IF i < index + 1 THEN 1 ELSE 0
    BY <1>1, <2>1, AnswerOf
  <2>3. QED
    BY <1>1, <2>2 DEF InOrder
<1>6. Underway'
  BY <1>1, <1>2, <1>3 DEF Underway
<1>7. Accounted'
  BY <1>1, <1>2 DEF Accounted
<1>8. QED
  BY <1>4, <1>5, <1>6, <1>7

\* When the last is in, the batch counts.
LEMMA EndBatchKeeps ==
    ASSUME TurnInv, EndBatch
    PROVE  TurnInv'
BY TurnAssumption, Sizes, SameRows
   DEF EndBatch, Ends, TurnInv, TurnTypeOK, CountsTypeOK, InOrder, Underway, Accounted,
       Handling, AtACall, Stages, roundVars, batchVars
-----------------------------------------------------------------------------
(* Whatever the model calls and however its calls end, hosts come and go and *)
(* plans change, a host's counts and messages agree with what is stored.     *)
THEOREM TurnsCount == TurnSpec => []TurnInv
<1>1. TurnInit => TurnInv
  <2> SUFFICES ASSUME TurnInit PROVE TurnInv
    OBVIOUS
  <2>1. Invoked = {}
    BY DEF TurnInit, Invoked, With
  <2>2. TurnTypeOK
    BY TurnAssumption DEF TurnInit, TurnTypeOK, CallOutcomes, Stages
  <2>3. QED
    BY <2>1, <2>2, FS_EmptySet DEF TurnInit, TurnInv, CountsTypeOK, InOrder, Underway, Accounted,
                                   Handling, AtACall
<1>2. TurnInv /\ [TurnNext]_turnVars => TurnInv'
  <2> SUFFICES ASSUME TurnInv, [TurnNext]_turnVars PROVE TurnInv'
    OBVIOUS
  <2>1. CASE RejectOverBudget \/ RejectDuplicate \/ RejectDataRole
    BY <2>1, RejectKeeps DEF RejectOverBudget, RejectDuplicate, RejectDataRole, Fresh
  <2>2. CASE StartOverLimit \/ StartRefused \/ Execute
    BY <2>2, StartKeeps DEF StartOverLimit, StartRefused, Execute
  <2>3. CASE UNCHANGED turnVars
    BY <2>3, SameRows DEF turnVars, TurnInv, TurnTypeOK, CountsTypeOK, InOrder, Underway,
                          Accounted, Called, storedVars, roundVars, countVars, batchVars
  <2>4. CASE TurnNext
    BY <2>1, <2>2, <2>4, HostKeeps, ModelKeeps, VerifyKeeps, CallKeeps, EndKeeps, ReserveKeeps,
       CommitNextKeeps, EndBatchKeeps DEF TurnNext
  <2>5. QED
    BY <2>3, <2>4
<1>3. QED
  BY <1>1, <1>2, PTL DEF TurnSpec

(* Every tool call of a response has one tool message when the model is      *)
(* asked next, and no host, not even one that takes the run over, counts     *)
(* less than what is stored: for any responses, budget and succession of     *)
(* hosts.                                                                    *)
THEOREM TurnsAnswerAndCount == TurnSpec => []TurnSound
<1>1. TurnInv => TurnSound
  BY Sizes DEF TurnInv, TurnSound, EveryCallAnswered, CountsKept, InOrder, Accounted, CountsTypeOK
<1>2. QED
  BY <1>1, TurnsCount, PTL
-----------------------------------------------------------------------------
(* ToolResult: the inductive invariant.                                      *)
Released == {"released", "closingReleased", "endedReleased"}
Claimed == finalizer # "none"

\* There is a file from when the thread has written it until it is cleaned up.
Written ==
    /\ worker \in {"running", "written", "done", "invalid"}
    /\ worker = "running" => ~file
    /\ published => worker = "done"
    /\ worker = "done" /\ ~published => ~file

\* The lease: who comes second, the thread or who abandons it, sweeps.
Leased ==
    /\ sweeping <=> published /\ abandoned
    /\ sweep = "none" <=> ~abandoned
    /\ sweep = "pending" => ~published
    /\ sweep \notin {"none", "pending"} => published
    /\ sweep = "completed" => ~file
    /\ sweep \notin {"completed", "failed"} => tries < MaxAttempts

\* Without a claim there is nothing but the file.
Untouched ==
    ~Claimed =>
        /\ ~row /\ ~bound /\ ~owned /\ ~registered /\ ~dropped /\ commit = "none"
        /\ \A c \in Cleaners : cleaner[c] = "none"
        /\ host \in {"call", "leaving", "closing", "ended"}
        /\ host = "call" => ~abandoned /\ (worker # "running" => file)
        /\ host # "call" => abandoned \/ (worker \in {"done", "invalid"} /\ ~published)

\* A result that is claimed was published and not abandoned.
ClaimedOnce ==
    Claimed =>
        /\ published /\ ~abandoned /\ host # "call"
        /\ finalizer \in {"profile", "register"} => ~row
        /\ finalizer = "mark" => row
        /\ finalizer \notin {"finally", "done"} => ~registered
        /\ finalizer \in {"finally", "done"} /\ row => registered
        /\ registered => finalizer \in {"finally", "done"}

\* While the host owns it, or has released it, the result is whole and nobody cleans up.
Kept ==
    /\ owned => host \in {"finalize", "boundary", "commit", "leaving"}
    /\ host \in {"finalize", "boundary", "commit"} => owned
    /\ owned \/ host \in Released =>
          /\ Claimed /\ ~dropped /\ file
          /\ \A c \in Cleaners : cleaner[c] = "none"
          /\ registered => row
    /\ (owned /\ host # "finalize") \/ host \in Released => finalizer = "done" /\ registered
    /\ host \in Released => bound
    /\ host \in {"finalize", "boundary"} => commit = "none"
    /\ bound <=> commit = "done"

WillUnlist(c) == cleaner[c] = "read" \/ (cleaner[c] = "unlist" /\ seen[c])

\* A result that nobody owns is cleaned up: its file by the host, its row by who comes last.
Swept ==
    Claimed /\ ~owned /\ host \notin Released =>
        /\ ~file \/ cleaner["host"] # "none"
        /\ finalizer = "done" => ~row \/ WillUnlist("host") \/ WillUnlist("finalizer")
        /\ finalizer # "done" => dropped

FinalizerCleans == cleaner["finalizer"] # "none" => finalizer = "done"

ResultInv ==
    /\ ResultTypeOK
    /\ Written
    /\ Leased
    /\ Untouched
    /\ ClaimedOnce
    /\ Kept
    /\ Swept
    /\ FinalizerCleans

USE AttemptsAssumption DEF Cleaners

LEMMA ResultBegins == ResultInit => ResultInv
<1> USE DEF ResultInit
<1>1. ResultInit => ResultTypeOK
  <2>1. ResultInit => cleaner \in [Cleaners -> Cleaning] /\ seen \in [Cleaners -> BOOLEAN]
    BY DEF Cleaning
  <2>2. ResultInit => {file, row, bound, published, abandoned, sweeping, owned, registered, dropped}
                          \subseteq BOOLEAN
    OBVIOUS
  <2> QED
    BY <2>1, <2>2 DEF ResultTypeOK, Hosts
<1>2. ResultInit => Written /\ Leased /\ Untouched /\ ClaimedOnce /\ FinalizerCleans
  BY DEF Written, Leased, Untouched, ClaimedOnce, FinalizerCleans, Claimed
<1>3. ResultInit => Kept /\ Swept
  BY DEF Kept, Swept, Claimed, Released
<1> QED
  BY <1>1, <1>2, <1>3 DEF ResultInv

\* Every step of the host, of its threads and of who cleans up keeps the types ...
LEMMA ResultTypes ==
    ASSUME ResultInv, ResultNext
    PROVE  ResultTypeOK'
<1> USE DEF ResultInv, ResultTypeOK, Hosts, Cleaning, leaseVars, finalVars
<1>1. CASE WriteFile
  BY <1>1 DEF WriteFile
<1>2. CASE PublishResult
  BY <1>2 DEF PublishResult
<1>3. CASE ToolFails
  BY <1>3 DEF ToolFails
<1>4. CASE AbandonCall
  BY <1>4 DEF AbandonCall
<1>5. CASE Sweep
  <2>1. tries' \in 0..MaxAttempts
    BY <1>5 DEF Sweep, Leased
  <2> QED
    BY <1>5, <2>1, ZenonT(30) DEF Sweep
<1>6. CASE \E c \in Cleaners : CleanRead(c)
  BY <1>6 DEF CleanRead
<1>7. CASE \E c \in Cleaners : CleanRow(c)
  BY <1>7 DEF CleanRow
<1>8. CASE \E c \in Cleaners : CleanFile(c)
  <2>1. cleaner' \in [Cleaners -> Cleaning]
    BY <1>8 DEF CleanFile
  <2>2. file' = FALSE /\ UNCHANGED <<row, bound, host, leaseVars, finalizer, owned, registered,
                                    dropped, seen, commit>>
    BY <1>8 DEF CleanFile
  <2> QED
    BY <2>1, <2>2, ZenonT(30)
<1>9. CASE ProfileFile
  BY <1>9 DEF ProfileFile, Finalizes
<1>10. CASE RegisterRow
  <2>1. row' = TRUE \/ row' = row
    BY <1>10 DEF RegisterRow
  <2>2. /\ finalizer' \in {"mark", "finally"}
        /\ UNCHANGED <<file, bound, host, leaseVars, owned, dropped, seen, commit, registered,
                       cleaner>>
    BY <1>10 DEF RegisterRow, Finalizes
  <2> QED
    BY <2>1, <2>2, ZenonT(30)
<1>11. CASE MarkRegistered
  BY <1>11 DEF MarkRegistered, Finalizes
<1>12. CASE Finally
  BY <1>12 DEF Finally, Finalizes
<1>13. CASE ClaimResult
  BY <1>13 DEF ClaimResult
<1>14. CASE GetFinalized
  BY <1>14, ZenonT(30) DEF GetFinalized, Finalized, StartsCleanup
<1>15. CASE AbandonFinalizer
  BY <1>15, ZenonT(30) DEF AbandonFinalizer, StartsCleanup
<1>16. CASE PassBoundary
  BY <1>16, ZenonT(30) DEF PassBoundary, StartsCleanup
<1>17. CASE CommitResult
  <2>1. bound' = TRUE \/ bound' = bound
    BY <1>17 DEF CommitResult
  <2>2. commit' \in {"done", "failed"} /\ UNCHANGED <<file, row, host, leaseVars, finalVars>>
    BY <1>17 DEF CommitResult
  <2> QED
    BY <2>1, <2>2, ZenonT(30)
<1>18. CASE GetCommitted
  BY <1>18, ZenonT(30) DEF GetCommitted, StartsCleanup
<1>19. CASE Undone
  BY <1>19 DEF Undone
<1>20. CASE CancelHost
  BY <1>20 DEF CancelHost
<1>21. CASE CloseRegistry
  BY <1>21, ZenonT(30) DEF CloseRegistry, StartsCleanup
<1>22. CASE RefuseOutput
  BY <1>22 DEF RefuseOutput
<1> QED
  BY <1>1, <1>2, <1>3, <1>4, <1>5, <1>6, <1>7, <1>8, <1>9, <1>10, <1>11, <1>12, <1>13, <1>14,
     <1>15, <1>16, <1>17, <1>18, <1>19, <1>20, <1>21, <1>22 DEF ResultNext

\* ... and the parts of the invariant, each but for the types.
LEMMA ResultKeeps ==
    ASSUME ResultInv, ResultNext
    PROVE  /\ Written' /\ Leased' /\ Untouched' /\ ClaimedOnce' /\ Kept' /\ Swept'
           /\ FinalizerCleans'
<1> USE DEF ResultInv, Written, Leased, Untouched, ClaimedOnce, Kept, Swept, FinalizerCleans,
            WillUnlist, Claimed, Released, leaseVars, finalVars
<1>0. /\ cleaner \in [Cleaners -> Cleaning] /\ seen \in [Cleaners -> BOOLEAN]
      /\ host \in Hosts /\ tries \in 0..MaxAttempts
  BY DEF ResultTypeOK
<1> USE <1>0
<1>1. CASE WriteFile
  BY <1>1 DEF WriteFile
<1>2. CASE PublishResult
  BY <1>2 DEF PublishResult
<1>3. CASE ToolFails
  BY <1>3 DEF ToolFails
<1>4. CASE AbandonCall
  BY <1>4 DEF AbandonCall
<1>5. CASE Sweep
  BY <1>5 DEF Sweep
<1>6. CASE \E c \in Cleaners : CleanRead(c)
  BY <1>6 DEF CleanRead
<1>7. CASE \E c \in Cleaners : CleanRow(c)
  <2>1. CASE CleanRow("host")
    BY <2>1 DEF CleanRow
  <2>2. CASE CleanRow("finalizer")
    BY <2>2 DEF CleanRow
  <2> QED
    BY <1>7, <2>1, <2>2
<1>8. CASE \E c \in Cleaners : CleanFile(c)
  BY <1>8 DEF CleanFile
<1>9. CASE ProfileFile
  BY <1>9 DEF ProfileFile, Finalizes
<1>10. CASE RegisterRow
  BY <1>10 DEF RegisterRow, Finalizes
<1>11. CASE MarkRegistered
  BY <1>11 DEF MarkRegistered, Finalizes
<1>12. CASE Finally
  BY <1>12 DEF Finally, Finalizes
<1>13. CASE ClaimResult
  BY <1>13 DEF ClaimResult
<1>14. CASE GetFinalized
  BY <1>14 DEF GetFinalized, Finalized, StartsCleanup
<1>15. CASE AbandonFinalizer
  BY <1>15 DEF AbandonFinalizer, StartsCleanup
<1>16. CASE PassBoundary
  BY <1>16 DEF PassBoundary, StartsCleanup
<1>17. CASE CommitResult
  BY <1>17 DEF CommitResult
<1>18. CASE GetCommitted
  BY <1>18 DEF GetCommitted, StartsCleanup
<1>19. CASE Undone
  BY <1>19 DEF Undone
<1>20. CASE CancelHost
  BY <1>20 DEF CancelHost
<1>21. CASE CloseRegistry
  BY <1>21 DEF CloseRegistry, StartsCleanup
<1>22. CASE RefuseOutput
  BY <1>22 DEF RefuseOutput
<1> QED
  BY <1>1, <1>2, <1>3, <1>4, <1>5, <1>6, <1>7, <1>8, <1>9, <1>10, <1>11, <1>12, <1>13, <1>14,
     <1>15, <1>16, <1>17, <1>18, <1>19, <1>20, <1>21, <1>22 DEF ResultNext

LEMMA ResultStepKeeps == ResultInv /\ [ResultNext]_resultVars => ResultInv'
<1>1. ASSUME ResultInv, ResultNext PROVE ResultInv'
  BY <1>1, ResultTypes, ResultKeeps DEF ResultInv
<1>2. ASSUME ResultInv, UNCHANGED resultVars PROVE ResultInv'
  BY <1>2 DEF resultVars, leaseVars, finalVars, ResultInv, ResultTypeOK, Written, Leased,
     Untouched,
     ClaimedOnce, Kept, Swept, FinalizerCleans, WillUnlist, Claimed, Released
<1> QED
  BY <1>1, <1>2

(* The lease, the ownership and the flags of execute_mcp, whatever is given  *)
(* up and whichever thread is last.                                          *)
THEOREM ResultsSettle == ResultSpec => []ResultInv
BY ResultBegins, ResultStepKeeps, PTL DEF ResultSpec

(* No row and no file is left of a result that was not committed, unless     *)
(* every attempt to remove the file failed or the adapter refused the output *)
(* of the tool, and none is taken from a result that was committed:          *)
(* _InProcessCallLease, execute_mcp and _cleanup_derived_ownership together. *)
THEOREM NoResultIsLeftOrLost == ResultSpec => []ResultSound
<1>1. ResultInv => ResultSound
  BY DEF ResultInv, ResultSound, NothingLeft, ReleasedStays, Settled, Written, Leased, Untouched,
     ClaimedOnce, Kept, Swept, FinalizerCleans, WillUnlist, Claimed, Released, ResultTypeOK, Hosts
<1> QED
  BY <1>1, ResultsSettle, PTL
-----------------------------------------------------------------------------
(* McpGateway: the inductive invariant.                                      *)
\* The lock is held by who connects, and no gateway is current meanwhile.
Locking ==
    /\ \A u \in Users : u \in connector <=> at[u] = "connect"
    /\ \A u, v \in connector : u = v
    /\ connector # {} => current = NoGateway

Using ==
    \A u \in Users : at[u] \in {"connect", "sent", "watch", "refresh"} => uses[u] \in Gateways

\* Only a read is tried again or run in process, and only while attempts are left.
Repeating ==
    \A u \in Users :
        /\ at[u] = "invalidate" /\ next[u] = "begin" => u \in Readers /\ attempt[u] < MaxReconnects
        /\ next[u] # "ok"
        /\ next[u] = "fallback" \/ at[u] = "fallback" => u \in Readers

(* A write leaves once: until it has, and once it is called failed, nothing  *)
(* of it is under way, and only an error of the server itself may stand      *)
(* beside an effect.                                                         *)
SentOnce ==
    \A c \in Writers :
        /\ executed[c] \in {0, 1}
        /\ c \in flight => executed[c] = 0 /\ reply[c] = "none"
        /\ at[c] \in {"begin", "connect"} => executed[c] = 0 /\ c \notin flight
        /\ reply[c] \in {"ok", "invalid"} \/ at[c] = "ok" => executed[c] = 1
        /\ at[c] = "failed" \/ (at[c] = "invalidate" /\ next[c] = "failed") =>
               c \notin flight /\ (executed[c] = 0 \/ reply[c] = "error")

McpInv ==
    /\ McpTypeOK
    /\ Locking
    /\ Using
    /\ Repeating
    /\ SentOnce
    /\ OnlyRefreshLeaks

USE McpAssumption DEF Users, RemoteCalls, NoGateway

\* Every step of a user, of the server and of the network keeps the invariant.
LEMMA McpKeeps ==
    ASSUME McpInv, McpNext
    PROVE  McpInv'
<1> USE DEF McpInv, McpTypeOK, Locking, Using, Repeating, SentOnce, OnlyRefreshLeaks, Places,
            Outcomes, Sessions, Replies, Connected, Goes, requestVars, gatewayVars
<1>1. ASSUME NEW u \in Users, UseCurrent(u) PROVE McpInv'
  BY <1>1 DEF UseCurrent, Proceeds, Sends
<1>2. ASSUME NEW u \in Users, Connect(u) PROVE McpInv'
  <2> USE <1>2 DEF Connect
  <2>1. created + 1 \in Gateways
    BY DEF McpTypeOK, Gateways
  <2> QED
    BY <2>1
<1>3. ASSUME NEW u \in Users, Publish(u) PROVE McpInv'
  <2> USE <1>3 DEF Publish, Proceeds, Sends
  <2>1. /\ u \in connector /\ uses[u] \in Gateways
        /\ \A v \in connector : v = u
    BY DEF Locking, Using
  <2>2. McpTypeOK'
    BY <2>1 DEF McpTypeOK, Places, Outcomes, Sessions, Replies, Connected, Repeating
  <2>3. Locking'
    BY <2>1 DEF McpTypeOK, Locking, Outcomes
  <2>4. Using'
    BY <2>1 DEF McpTypeOK, Using, Locking, Outcomes
  <2>5. Repeating'
    BY <2>1 DEF McpTypeOK, Repeating, Outcomes
  <2>6. SentOnce'
    BY <2>1 DEF McpTypeOK, SentOnce, Repeating, Outcomes
  <2>7. OnlyRefreshLeaks'
    <3> SUFFICES ASSUME NEW g \in Gateways, session'[g] = "open", g # uses[u]
                 PROVE  g \in reopened
      BY DEF OnlyRefreshLeaks
    <3>1. session[g] = "open" /\ g # current
      BY <2>1 DEF McpTypeOK, Connected, Locking, Gateways
    <3> QED
      BY <2>1, <3>1 DEF OnlyRefreshLeaks
  <2> QED
    BY <2>2, <2>3, <2>4, <2>5, <2>6, <2>7
<1>4. ASSUME NEW u \in Users, ConnectFails(u) PROVE McpInv'
  BY <1>4 DEF ConnectFails, NotStarted
<1>5. ASSUME NEW u \in Users, ConnectTimeout(u) PROVE McpInv'
  BY <1>5 DEF ConnectTimeout, NotStarted
<1>6. ASSUME NEW u \in Users, Invalidate(u) PROVE McpInv'
  <2> USE <1>6 DEF Invalidate
  <2>1. next[u] \in Outcomes \cup {"begin", "fallback"}
    BY DEF McpTypeOK
  <2> QED
    BY <2>1
<1>7. ASSUME NEW c \in RemoteCalls, SendFails(c) PROVE McpInv'
  BY <1>7 DEF SendFails, Broken, Attempts
<1>8. ASSUME NEW c \in RemoteCalls, GetAnswer(c) PROVE McpInv'
  BY <1>8 DEF GetAnswer, Answered
<1>9. ASSUME NEW c \in RemoteCalls, Interrupted(c) PROVE McpInv'
  BY <1>9 DEF Interrupted, Broken, Attempts
<1>10. ASSUME NEW c \in RemoteCalls, CallTimeout(c) PROVE McpInv'
  BY <1>10 DEF CallTimeout
<1>11. ASSUME NEW c \in RemoteCalls, RunInProcess(c) PROVE McpInv'
  BY <1>11 DEF RunInProcess
<1>12. ASSUME NEW c \in RemoteCalls, CancelCall(c) PROVE McpInv'
  BY <1>12 DEF CancelCall
<1>13. ASSUME NEW c \in RemoteCalls, Run(c) PROVE McpInv'
  BY <1>13 DEF Run
<1>14. ASSUME NEW c \in RemoteCalls, ServerRejects(c) PROVE McpInv'
  BY <1>14 DEF ServerRejects
<1>15. ASSUME NEW c \in RemoteCalls, Lose(c) PROVE McpInv'
  BY <1>15 DEF Lose
<1>16. ASSUME NEW c \in RemoteCalls, Unauthorized(c) PROVE McpInv'
  BY <1>16 DEF Unauthorized
<1>17. ASSUME NEW w \in Watchers, WatchDead(w) PROVE McpInv'
  BY <1>17 DEF WatchDead
<1>18. ASSUME NEW w \in Watchers, ListChanged(w) PROVE McpInv'
  BY <1>18 DEF ListChanged
<1>19. ASSUME NEW w \in Watchers, Quiet(w) PROVE McpInv'
  BY <1>19 DEF Quiet
<1>20. ASSUME NEW w \in Watchers, RefreshCatalog(w) PROVE McpInv'
  <2> USE <1>20 DEF RefreshCatalog
  <2>1. uses[w] \in Gateways
    BY DEF Using
  <2> QED
    BY <2>1
<1>21. ASSUME NEW g \in Gateways, Break(g) PROVE McpInv'
  BY <1>21 DEF Break
<1> QED
  BY <1>1, <1>2, <1>3, <1>4, <1>5, <1>6, <1>7, <1>8, <1>9, <1>10, <1>11, <1>12, <1>13, <1>14,
     <1>15, <1>16, <1>17, <1>18, <1>19, <1>20, <1>21
     DEF McpNext, GatewayStep, CallStep, ServerStep, WatchStep

LEMMA McpStepKeeps == McpInv /\ [McpNext]_mcpVars => McpInv'
<1>1. ASSUME McpInv, UNCHANGED mcpVars PROVE McpInv'
  BY <1>1 DEF mcpVars, McpInv, McpTypeOK, Locking, Using, Repeating, SentOnce, OnlyRefreshLeaks
<1> QED
  BY <1>1, McpKeeps

LEMMA McpBegins == McpInit => McpInv
<1> SUFFICES ASSUME McpInit PROVE McpInv
  OBVIOUS
<1> USE DEF McpInit
<1>1. McpTypeOK
  BY DEF McpTypeOK, Places, Outcomes, Sessions, Replies, Gateways
<1>2. Locking /\ Using /\ Repeating
  BY DEF Locking, Using, Repeating
<1>3. SentOnce /\ OnlyRefreshLeaks
  BY DEF SentOnce, OnlyRefreshLeaks
<1> QED
  BY <1>1, <1>2, <1>3 DEF McpInv

(* The lock, the retries and what was sent of the calls of                   *)
(* ManagedMCPClientGateway, in whatever order connections break.             *)
THEOREM McpCallsKeep == McpSpec => []McpInv
BY McpBegins, McpStepKeeps, PTL DEF McpSpec

(* A write is executed once at most; it is called failed, and not unknown,   *)
(* only when it never runs or the server answered it with an error of its    *)
(* own; an open session can be closed, but for one that a watcher of the     *)
(* catalogue reopened: execute, _invalidate and _watch_catalog together.     *)
THEOREM GatewayKeepsItsWord == McpSpec => []GatewaySound
<1>1. McpInv => GatewaySound
  <2> SUFFICES ASSUME McpInv PROVE WritesOnce /\ HonestFailure
    BY DEF McpInv, GatewaySound
  <2>1. WritesOnce
    BY DEF McpInv, SentOnce, WritesOnce
  <2>2. HonestFailure
    BY DEF McpInv, SentOnce, HonestFailure
  <2> QED
    BY <2>1, <2>2
<1> QED
  BY <1>1, McpCallsKeep, PTL
-----------------------------------------------------------------------------
(* Joins, for any texts, arguments and findings of preflights, and any       *)
(* number of calls and data versions: the inductive invariant.               *)
Findings == {"ready", "requires_confirmation", "blocked"}
RowStatuses == {"running", "succeeded", "failed", "unknown"}
JoinRows == [tool : JoinTools, args : Args, retry : BOOLEAN, data : Nat, status : RowStatuses,
             finding : Findings \cup {"none"}]

JoinsTyped == JoinTypeOK /\ verdict \in [Args -> Findings] /\ joins \in Seq(JoinRows)

\* A host makes one call at a time.
LastRuns == \A i \in DOMAIN joins : joins[i].status = "running" => i = Len(joins)

JoinInv == JoinsTyped /\ LastRuns /\ JoinsGoverned

\* JoinsGoverned of one row.
GovernedRow(i) ==
    joins[i].tool = "join_datasets" /\ joins[i].status \in {"running", "succeeded", "unknown"} =>
        /\ \E j \in 1..i - 1 :
               /\ joins[j].tool = "join_preflight" /\ joins[j].status = "succeeded"
               /\ joins[j].args = joins[i].args /\ joins[j].data = joins[i].data
               /\ joins[j].finding # "blocked"
        /\ \A j \in 1..i - 1 :
               joins[j].tool = "join_datasets" /\ joins[j].args = joins[i].args
               /\ joins[j].status # "failed" => joins[i].retry /\ ~joins[j].retry

\* What is written of a row is not rewritten, and what failed has failed.
RowKept(i) ==
    /\ i \in DOMAIN joins'
    /\ joins'[i].tool = joins[i].tool /\ joins'[i].args = joins[i].args
    /\ joins'[i].retry = joins[i].retry /\ joins'[i].data = joins[i].data
    /\ joins[i].status \in {"succeeded", "failed"} => /\ joins'[i].status = joins[i].status
                                                      /\ joins'[i].finding = joins[i].finding

LEMMA RowsKept ==
    ASSUME JoinsGoverned, joins \in Seq(JoinRows), joins' \in Seq(JoinRows),
           \A i \in DOMAIN joins : RowKept(i),
           \A i \in DOMAIN joins' : i \in DOMAIN joins \/ GovernedRow(i)'
    PROVE  JoinsGoverned'
<1>1. ASSUME NEW i \in DOMAIN joins
      PROVE  GovernedRow(i)'
  <2>0. GovernedRow(i)
    BY DEF JoinsGoverned, GovernedRow
  <2>1. \A j \in 1..i : j \in DOMAIN joins
    BY LenProperties
  <2>2. SUFFICES ASSUME joins'[i].tool = "join_datasets",
                        joins'[i].status \in {"running", "succeeded", "unknown"}
                 PROVE  /\ \E j \in 1..i - 1 :
                               /\ joins'[j].tool = "join_preflight"
                               /\ joins'[j].status = "succeeded"
                               /\ joins'[j].args = joins'[i].args
                               /\ joins'[j].data = joins'[i].data
                               /\ joins'[j].finding # "blocked"
                        /\ \A j \in 1..i - 1 :
                               joins'[j].tool = "join_datasets" /\ joins'[j].args = joins'[i].args
                               /\ joins'[j].status # "failed" => joins'[i].retry /\ ~joins'[j].retry
    BY DEF GovernedRow
  <2>3. RowKept(i) /\ joins[i].status \in RowStatuses
    <3>1. joins[i] \in JoinRows
      BY ElementOfSeq, LenProperties
    <3>2. RowKept(i)
      OBVIOUS
    <3>3. QED
      BY <3>1, <3>2 DEF JoinRows
  <2>4. joins[i].tool = "join_datasets" /\ joins[i].status \in {"running", "succeeded", "unknown"}
    BY <2>2, <2>3 DEF RowKept, RowStatuses
  <2>5. \A j \in 1..i - 1 : j \in DOMAIN joins /\ RowKept(j) /\ j \in 1..i
    BY <2>1, LenProperties
  <2>6. PICK j \in 1..i - 1 :
            /\ joins[j].tool = "join_preflight" /\ joins[j].status = "succeeded"
            /\ joins[j].args = joins[i].args /\ joins[j].data = joins[i].data
            /\ joins[j].finding # "blocked"
    BY <2>0, <2>4 DEF GovernedRow
  <2>7. \A k \in 1..i - 1 :
            joins[k].tool = "join_datasets" /\ joins[k].args = joins[i].args
            /\ joins[k].status # "failed" => joins[i].retry /\ ~joins[k].retry
    BY <2>0, <2>4 DEF GovernedRow
  <2>8. \A k \in 1..i - 1 :
            joins'[k].tool = "join_datasets" /\ joins'[k].args = joins'[i].args
            /\ joins'[k].status # "failed" => joins'[i].retry /\ ~joins'[k].retry
    BY <2>3, <2>5, <2>7 DEF RowKept
  <2>9. /\ joins'[j].tool = "join_preflight" /\ joins'[j].status = "succeeded"
        /\ joins'[j].args = joins'[i].args /\ joins'[j].data = joins'[i].data
        /\ joins'[j].finding # "blocked"
    BY <2>3, <2>5, <2>6 DEF RowKept
  <2>10. QED
    BY <2>8, <2>9
<1>2. \A i \in DOMAIN joins' : GovernedRow(i)'
  BY <1>1
<1>3. QED
  BY <1>2 DEF JoinsGoverned, GovernedRow

\* Of some rows one is the last.
LEMMA LastIsOne ==
    ASSUME NEW n \in Nat, NEW S \in SUBSET (1..n), S # {}
    PROVE  LastOf(S) \in S /\ \A j \in S : j <= LastOf(S)
<1> DEFINE left == {n - i : i \in S}
<1>1. left \subseteq Nat /\ left # {}
  <2>1. \A i \in S : n - i \in Nat
    OBVIOUS
  <2>2. QED
    BY <2>1
<1> HIDE DEF left
<1>2. PICK x \in left : \A y \in left : ~(<<y, x>> \in OpToRel(<, Nat))
  BY <1>1, WFMin, NatLessThanWellFounded
<1>3. \A y \in left : ~(y < x)
  BY <1>1, <1>2 DEF OpToRel
<1>4. PICK i \in S : n - i = x
  BY <1>2 DEF left
<1>5. \A j \in S : j <= i
  BY <1>3, <1>4 DEF left
<1>6. QED
  BY <1>4, <1>5 DEF LastOf

LEMMA EnrichedIsArgs ==
    ASSUME NEW t \in JoinTexts, NEW m \in Args
    PROVE  Enriched(t, m) \in Args
BY JoinsAssumption DEF Enriched, Args, JoinTexts, JoinValues, JoinParts

LEMMA CombinedIsText ==
    ASSUME NEW t \in JoinTexts, NEW a \in JoinTexts
    PROVE  Combined(t, a) \in JoinTexts
BY DEF Combined, JoinTexts, JoinValues

LEMMA FoundRows ==
    ASSUME joins \in Seq(JoinRows), NEW tool, NEW a
    PROVE  /\ Rows(tool, a) \in SUBSET (1..Len(joins)) /\ Found(tool, a) \in SUBSET (1..Len(joins))
           /\ Len(joins) \in Nat /\ DOMAIN joins = 1..Len(joins)
BY LenProperties DEF Rows, Found

\* The rows stay as they are.
LEMMA SameJoinRows ==
    ASSUME JoinInv, UNCHANGED <<joins, verdict>>, JoinTypeOK'
    PROVE  JoinInv'
BY DEF JoinInv, JoinsTyped, LastRuns, JoinsGoverned

LEMMA PlanJoinStep == ASSUME JoinInv, PlanJoin PROVE JoinInv'
<1>1. JoinTypeOK'
  BY DEF JoinInv, JoinsTyped, JoinTypeOK, PlanJoin, Clarification, JoinParts
<1>2. QED
  BY <1>1, SameJoinRows DEF PlanJoin

LEMMA AnswerJoinStep == ASSUME JoinInv, NEW a \in JoinTexts, AnswerJoin(a) PROVE JoinInv'
<1>1. JoinTypeOK'
  BY CombinedIsText DEF JoinInv, JoinsTyped, JoinTypeOK, AnswerJoin
<1>2. QED
  BY <1>1, SameJoinRows DEF AnswerJoin

LEMMA OtherJoinSteps ==
    ASSUME JoinInv,
           \/ DeriveOther \/ PauseJoin \/ ResumeJoin \/ CompleteJoin
           \/ \E tool \in JoinTools : RetryJoin(tool)
    PROVE  JoinInv'
<1> USE JoinsAssumption
<1>1. CASE DeriveOther
  BY <1>1, SameJoinRows DEF JoinInv, JoinsTyped, JoinTypeOK, DeriveOther
<1>2. CASE PauseJoin
  BY <1>2, SameJoinRows DEF JoinInv, JoinsTyped, JoinTypeOK, PauseJoin
<1>3. CASE ResumeJoin
  BY <1>3, SameJoinRows DEF JoinInv, JoinsTyped, JoinTypeOK, ResumeJoin, Continue
<1>4. CASE CompleteJoin
  BY <1>4, SameJoinRows DEF JoinInv, JoinsTyped, JoinTypeOK, CompleteJoin
<1>5. ASSUME NEW tool \in JoinTools, RetryJoin(tool) PROVE JoinInv'
  BY <1>5, SameJoinRows DEF JoinInv, JoinsTyped, JoinTypeOK, RetryJoin, Continue
<1>6. QED
  BY <1>1, <1>2, <1>3, <1>4, <1>5

LEMMA ProposeJoinStep ==
    ASSUME JoinInv, NEW tool \in JoinTools, NEW m \in Args, ProposeJoin(tool, m)
    PROVE  JoinInv'
<1> DEFINE a == Enriched(text, m)
<1>0. a \in Args
  BY EnrichedIsArgs DEF JoinInv, JoinsTyped, JoinTypeOK
<1>1. /\ ~Calling /\ attempted < MaxJoinCalls /\ attempted' = attempted + 1
      /\ UNCHANGED <<goal, text, askedFor, data, retried, verdict>>
      /\ run' \in {run, "blocked"} /\ agent' \in {agent, "none"}
  BY DEF ProposeJoin, Working
<1>2. \/ joins' = joins
      \/ /\ EarlierRows(tool, a) = {} /\ Refusal(tool, a) = "allowed"
         /\ joins' = Append(joins, Row(tool, a, "running"))
      \/ joins' = Append(joins, Row(tool, a, "failed"))
  BY DEF ProposeJoin
<1>t. /\ joins \in Seq(JoinRows) /\ Len(joins) \in Nat /\ DOMAIN joins = 1..Len(joins)
      /\ Len(joins) <= attempted /\ attempted \in 0..MaxJoinCalls /\ MaxJoinCalls \in Nat
      /\ data \in Nat
  BY FoundRows, JoinsAssumption DEF JoinInv, JoinsTyped, JoinTypeOK
<1>3. CASE joins' = joins
  <2>1. JoinTypeOK'
    BY <1>1, <1>3, <1>t DEF JoinInv, JoinsTyped, JoinTypeOK
  <2>2. QED
    BY <1>1, <1>3, <2>1, SameJoinRows
<1>4. ASSUME NEW begun \in {"running", "failed"}, joins' = Append(joins, Row(tool, a, begun)),
             begun = "running" => EarlierRows(tool, a) = {} /\ Refusal(tool, a) = "allowed"
      PROVE  JoinInv'
  <2> DEFINE call == Row(tool, a, begun)
  <2>1. /\ call \in JoinRows /\ call.tool = tool /\ call.args = a /\ call.retry = (retried = tool)
        /\ call.data = data /\ call.status = begun
    BY <1>0, <1>t DEF Row, JoinRows, RowStatuses, Findings
  <2> HIDE DEF call, a
  <2>2. /\ joins' \in Seq(JoinRows) /\ Len(joins') = Len(joins) + 1
        /\ \A i \in DOMAIN joins : joins'[i] = joins[i]
        /\ joins'[Len(joins) + 1] = call
        /\ DOMAIN joins' = 1..Len(joins) + 1
    BY <1>4, <1>t, <2>1, AppendProperties, LenProperties DEF call, a
  <2>3. JoinsTyped'
    <3>1. \A i \in DOMAIN joins' : joins'[i] \in JoinRows
      BY <2>2, ElementOfSeq
    <3>2. QED
      BY <1>1, <1>t, <2>2, <3>1 DEF JoinInv, JoinsTyped, JoinTypeOK, JoinRows, RowStatuses
  <2>4. LastRuns'
    BY <1>1, <1>t, <2>2 DEF LastRuns, Calling
  <2>5. PICK n \in Nat : n = Len(joins) + 1
    BY <1>t
  <2>6. GovernedRow(n)'
    <3>1. joins'[n].tool = tool /\ joins'[n].args = a /\ joins'[n].data = data
          /\ joins'[n].status = begun /\ joins'[n].retry = (retried = tool)
      BY <2>1, <2>2, <2>5
    <3>2. \A j \in 1..n - 1 : j \in DOMAIN joins /\ joins'[j] = joins[j] /\ joins[j] \in JoinRows
      BY <1>t, <2>2, <2>5, ElementOfSeq
    <3>3. CASE tool = "join_datasets" /\ begun = "running"
      <4>1. JoinGuard(a) = "allowed" /\ EarlierRows(tool, a) = {}
        BY <1>4, <3>3 DEF Refusal
      <4> DEFINE found == Found("join_preflight", a)
      <4>2. /\ found # {} /\ joins[LastOf(found)].finding # "blocked"
            /\ joins[LastOf(found)].data = data
        BY <4>1 DEF JoinGuard
      <4>3. LastOf(found) \in found
        BY <4>2, FoundRows, LastIsOne, <1>t
      <4>4. PICK j \in 1..n - 1 :
                /\ joins[j].tool = "join_preflight" /\ joins[j].status = "succeeded"
                /\ joins[j].args = a /\ joins[j].data = data /\ joins[j].finding # "blocked"
        BY <1>t, <2>5, <4>2, <4>3 DEF Found, Rows
      <4>5. ASSUME NEW k \in 1..n - 1, joins[k].tool = tool, joins[k].args = a
            PROVE  retried = tool /\ ~joins[k].retry
        BY <1>t, <2>5, <4>1, <4>5 DEF EarlierRows, Rows
      <4>6. QED
        BY <3>1, <3>2, <3>3, <4>4, <4>5 DEF GovernedRow
    <3>4. CASE ~(tool = "join_datasets" /\ begun = "running")
      BY <3>1, <3>4 DEF GovernedRow
    <3>5. QED
      BY <3>3, <3>4
  <2>7. \A i \in DOMAIN joins : RowKept(i)
    BY <1>t, <2>2 DEF RowKept
  <2>8. \A i \in DOMAIN joins' : i \in DOMAIN joins \/ i = n
    BY <1>t, <2>2, <2>5
  <2>9. JoinsGoverned'
    BY <1>t, <2>2, <2>6, <2>7, <2>8, RowsKept DEF JoinInv
  <2>10. QED
    BY <2>3, <2>4, <2>9 DEF JoinInv
<1>5. QED
  BY <1>2, <1>3, <1>4

\* A call has its result, or is broken off.
LEMMA FinishJoinStep == ASSUME JoinInv, NEW good \in BOOLEAN, FinishJoin(good) PROVE JoinInv'
<1> USE JoinsAssumption
<1>t. /\ joins \in Seq(JoinRows) /\ Len(joins) \in Nat /\ DOMAIN joins = 1..Len(joins)
      /\ data \in 1..MaxJoinData
  BY FoundRows DEF JoinInv, JoinsTyped, JoinTypeOK
<1>1. PICK i \in DOMAIN joins : joins[i].status = "running" /\ i = Len(joins)
  BY DEF FinishJoin, Calling, JoinInv, LastRuns
<1> DEFINE done == [joins[i] EXCEPT !.status = IF good THEN "succeeded" ELSE "failed",
                                    !.finding = IF good THEN Finding(joins[i].args) ELSE "none"]
<1>2. /\ joins' = [joins EXCEPT ![i] = done]
      /\ data' \in {data, data + 1} /\ data' \in 1..MaxJoinData
      /\ UNCHANGED <<goal, text, askedFor, run, agent, attempted, retried, verdict>>
  BY <1>1, <1>t DEF FinishJoin
<1>3. /\ done \in JoinRows /\ done.status \in {"succeeded", "failed"}
      /\ done.tool = joins[i].tool /\ done.args = joins[i].args
      /\ done.retry = joins[i].retry /\ done.data = joins[i].data
  <2>1. joins[i] \in JoinRows
    BY <1>t, ElementOfSeq
  <2>2. PICK x \in Findings \cup {"none"} : x = IF good THEN Finding(joins[i].args) ELSE "none"
    BY <2>1 DEF JoinInv, JoinsTyped, Finding, JoinRows
  <2>3. PICK y \in {"succeeded", "failed"} : y = IF good THEN "succeeded" ELSE "failed"
    OBVIOUS
  <2>4. done = [joins[i] EXCEPT !.status = y, !.finding = x]
    BY <2>2, <2>3
  <2>5. y \in RowStatuses
    BY DEF RowStatuses
  <2> HIDE DEF done
  <2>6. QED
    BY <2>1, <2>4, <2>5 DEF JoinRows
<1> HIDE DEF done
<1>4. /\ joins' \in Seq(JoinRows) /\ Len(joins') = Len(joins) /\ DOMAIN joins' = DOMAIN joins
      /\ joins'[i] = done /\ \A j \in DOMAIN joins \ {i} : joins'[j] = joins[j]
  BY <1>t, <1>2, <1>3, ExceptSeq, LenProperties
<1>5. JoinsTyped'
  <2>1. \A j \in DOMAIN joins' : joins'[j] \in JoinRows
    BY <1>4, ElementOfSeq, LenProperties
  <2>2. QED
    BY <1>2, <1>4, <2>1 DEF JoinInv, JoinsTyped, JoinTypeOK, JoinRows, RowStatuses
<1>6. LastRuns'
  BY <1>3, <1>4 DEF JoinInv, LastRuns
<1>7. \A j \in DOMAIN joins : RowKept(j)
  BY <1>1, <1>3, <1>4 DEF RowKept
<1>8. JoinsGoverned'
  BY <1>t, <1>4, <1>7, RowsKept DEF JoinInv
<1>9. QED
  BY <1>5, <1>6, <1>8 DEF JoinInv

LEMMA CrashJoinStep == ASSUME JoinInv, CrashJoin PROVE JoinInv'
<1>t. /\ joins \in Seq(JoinRows) /\ Len(joins) \in Nat /\ DOMAIN joins = 1..Len(joins)
  BY FoundRows DEF JoinInv, JoinsTyped, JoinTypeOK
<1> DEFINE broken(i) == IF joins[i].status = "running" THEN [joins[i] EXCEPT !.status = "unknown"]
                        ELSE joins[i]
<1>1. ASSUME NEW i \in DOMAIN joins
      PROVE  /\ broken(i) \in JoinRows /\ broken(i).status # "running"
             /\ broken(i).tool = joins[i].tool /\ broken(i).args = joins[i].args
             /\ broken(i).retry = joins[i].retry /\ broken(i).data = joins[i].data
             /\ joins[i].status \in {"succeeded", "failed"} => broken(i) = joins[i]
  <2>1. joins[i] \in JoinRows
    BY <1>t, ElementOfSeq
  <2>2. QED
    BY <2>1 DEF JoinRows, RowStatuses
<1>2. joins' = [i \in 1..Len(joins) |-> broken(i)]
  BY <1>t DEF CrashJoin
<1>3. joins' \in Seq(JoinRows) /\ Len(joins') = Len(joins)
  <2>1. \A i \in 1..Len(joins) : broken(i) \in JoinRows
    BY <1>1, <1>t
  <2> HIDE DEF broken
  <2>2. QED
    BY <1>t, <1>2, <2>1, IsASeq
<1>4. DOMAIN joins' = DOMAIN joins /\ \A i \in DOMAIN joins : joins'[i] = broken(i)
  BY <1>2, <1>t
<1> HIDE DEF broken
<1>5. /\ UNCHANGED <<goal, text, askedFor, data, attempted, retried, verdict>>
      /\ agent' = "none" /\ run' \in {run, "failed", "paused"}
  BY DEF CrashJoin
<1>6. JoinsTyped'
  <2>1. \A i \in DOMAIN joins' : joins'[i] \in JoinRows
    BY <1>1, <1>4
  <2>2. QED
    BY <1>3, <1>5, <2>1 DEF JoinInv, JoinsTyped, JoinTypeOK, JoinRows, RowStatuses
<1>7. LastRuns'
  BY <1>1, <1>4 DEF LastRuns
<1>8. \A i \in DOMAIN joins : RowKept(i)
  BY <1>1, <1>4 DEF RowKept
<1>9. JoinsGoverned'
  BY <1>t, <1>3, <1>4, <1>8, RowsKept DEF JoinInv
<1>10. QED
  BY <1>6, <1>7, <1>9 DEF JoinInv

LEMMA JoinStarts == ASSUME JoinInit PROVE JoinInv
<1> USE JoinsAssumption
<1>1. joins = <<>> /\ joins \in Seq(JoinRows) /\ Len(joins) = 0 /\ DOMAIN joins = {}
  BY DEF JoinInit
<1>2. JoinsTyped
  BY <1>1 DEF JoinInit, JoinsTyped, JoinTypeOK, Findings
<1>3. QED
  BY <1>1, <1>2 DEF JoinInv, LastRuns, JoinsGoverned

LEMMA JoinStep == ASSUME JoinInv, [JoinNext]_joinVars PROVE JoinInv'
<1>1. CASE UNCHANGED joinVars
  BY <1>1 DEF joinVars, JoinInv, JoinsTyped, JoinTypeOK, LastRuns, JoinsGoverned
<1>2. CASE JoinNext
  BY <1>2, PlanJoinStep, AnswerJoinStep, ProposeJoinStep, FinishJoinStep, OtherJoinSteps,
     CrashJoinStep DEF JoinNext
<1>3. QED
  BY <1>1, <1>2

\* The last preflight is the last one with its arguments too.
LEMMA ReadyMeansReady == ASSUME JoinInv, JoinStatus = "preflight_ready" PROVE ReadyIsReady
<1> DEFINE preflights == {i \in DOMAIN joins : joins[i].tool = "join_preflight"
                                              /\ joins[i].status = "succeeded"}
           p == joins[LastOf(preflights)]
           mine == Rows("join_datasets", p.args)
<1>t. /\ joins \in Seq(JoinRows) /\ Len(joins) \in Nat /\ DOMAIN joins = 1..Len(joins)
  BY FoundRows DEF JoinInv, JoinsTyped, JoinTypeOK
<1>1. /\ preflights # {} /\ Found("join_datasets", p.args) = {}
      /\ ~(mine # {} /\ joins[LastOf(mine)].status \in {"failed", "unknown"})
      /\ p.data = data /\ p.finding # "blocked"
      /\ ~(mine # {} /\ joins[LastOf(mine)].status = "running")
  BY DEF JoinStatus, NoPart
<1>2. LastOf(preflights) \in preflights /\ \A j \in preflights : j <= LastOf(preflights)
  BY <1>1, <1>t, LastIsOne
<1>3. p \in JoinRows /\ p.args \in Args
  <2>1. LastOf(preflights) \in 1..Len(joins)
    BY <1>2, <1>t
  <2>2. p \in JoinRows
    BY <2>1, <1>t, ElementOfSeq
  <2> HIDE DEF p
  <2>3. QED
    BY <2>2 DEF JoinRows
<1>4. mine = {}
  <2>1. SUFFICES ASSUME mine # {} PROVE FALSE
    OBVIOUS
  <2>2. LastOf(mine) \in mine
    BY <2>1, FoundRows, LastIsOne, <1>t
  <2>3. LastOf(mine) \in DOMAIN joins /\ joins[LastOf(mine)] \in JoinRows
    BY <2>2, <1>t, ElementOfSeq DEF Rows
  <2>4. joins[LastOf(mine)].status = "succeeded"
    BY <1>1, <2>1, <2>3 DEF JoinRows, RowStatuses
  <2>5. QED
    BY <1>1, <2>2, <2>4 DEF Found
<1> DEFINE found == Found("join_preflight", p.args)
<1>5. LastOf(preflights) \in found /\ found \subseteq preflights
  BY <1>2 DEF Found, Rows
<1>6. found # {} /\ LastOf(found) \in found /\ \A j \in found : j <= LastOf(found)
  BY <1>5, FoundRows, LastIsOne, <1>t
<1>7. LastOf(found) = LastOf(preflights)
  <2>1. LastOf(found) \in 1..Len(joins) /\ LastOf(preflights) \in 1..Len(joins)
    BY <1>2, <1>5, <1>6, <1>t
  <2>2. LastOf(found) <= LastOf(preflights) /\ LastOf(preflights) <= LastOf(found)
    BY <1>2, <1>5, <1>6
  <2> HIDE DEF found, preflights
  <2>3. QED
    BY <2>1, <2>2
<1>8. JoinGuard(p.args) = "allowed"
  BY <1>1, <1>6, <1>7 DEF JoinGuard
<1>9. QED
  BY <1>3, <1>4, <1>6, <1>8 DEF ReadyIsReady

(* Every derived data set comes of a call that a preflight of the run found  *)
(* possible, on the data of the moment, and of no repeated call; and what    *)
(* the page says is ready, is (control/join_collaboration.py).               *)
THEOREM JoinsFollowEvidence == JoinSpec => [](JoinTypeOK /\ JoinsSound)
<1>1. JoinInit => JoinInv
  BY JoinStarts
<1>2. JoinInv /\ [JoinNext]_joinVars => JoinInv'
  BY JoinStep
<1>3. JoinInv => JoinTypeOK /\ JoinsSound
  <2>1. ASSUME JoinInv PROVE ReadyIsReady
    <3>1. CASE JoinStatus = "preflight_ready"
      BY <2>1, <3>1, ReadyMeansReady
    <3>2. CASE JoinStatus # "preflight_ready"
      BY <3>2 DEF ReadyIsReady
    <3>3. QED
      BY <3>1, <3>2
  <2>2. QED
    BY <2>1 DEF JoinInv, JoinsTyped, JoinsSound
<1>4. QED
  BY <1>1, <1>2, <1>3, PTL DEF JoinSpec
-----------------------------------------------------------------------------
(* DataRoles, for any columns and features, and any number of calls and data *)
(* sets: the inductive invariant.                                            *)
RoleRequests == [role : Roles \cup {"none"}, candidates : SUBSET Columns, version : Nat]
Confirmation == [dataset : Nat, column : Columns, role : Roles \cup {"none"}, version : Nat]
AnalysisCalls == [dataset : Nat, columns : Columns \X Columns, version : Nat]

RolesTyped ==
    /\ RolesTypeOK
    /\ profiles \in Seq([Columns -> Features]) /\ question \in RoleRequests
    /\ confirmations \in Seq(Confirmation)
    /\ analysed \subseteq AnalysisCalls

\* Nothing is analysed before the question is answered, and there is one question.
AskedOnce ==
    /\ phase \in {"planning", "waiting_user"} => analysed = {}
    /\ phase = "planning" /\ question = NoQuestion => confirmations = <<>>
    /\ phase = "waiting_user" => confirmations = <<>> /\ question # NoQuestion

\* What was analysed is a data set of the run.
AnalysedThere == \A e \in analysed : e.dataset \in DOMAIN profiles

RolesInv == RolesTyped /\ AskedOnce /\ AnalysedThere /\ RolesGoverned

LEMMA RequirementsOf ==
    ASSUME NEW x \in Analyses
    PROVE  DOMAIN Requirements[x] = {1, 2}
BY DEF Analyses, Requirements

LEMMA RoleSelectionTyped ==
    ASSUME RolesTyped, NEW p, NEW r \in Roles, NEW q \in RoleSelection(p, r)
    PROVE  q \in RoleRequests
<1>1. DataVersion \in Nat
  BY LenProperties DEF RolesTyped, DataVersion
<1>2. NoQuestion \in RoleRequests
  BY DEF NoQuestion, RoleRequests
<1>3. ASSUME NEW S \in SUBSET Columns PROVE RoleRequest(r, S) \in RoleRequests
  BY <1>1 DEF RoleRequest, RoleRequests
<1>4. \A c \in Columns : {c} \in SUBSET Columns
  OBVIOUS
<1>5. QED
  BY <1>2, <1>3, <1>4 DEF RoleSelection

LEMMA AmbiguityTyped ==
    ASSUME RolesTyped, NEW p, NEW q \in ExplicitAmbiguity(p)
    PROVE  q \in RoleRequests
<1>1. DataVersion \in Nat /\ named \subseteq Columns
  BY LenProperties DEF RolesTyped, RolesTypeOK, DataVersion
<1>2. NoQuestion \in RoleRequests
  BY DEF NoQuestion, RoleRequests
<1>3. ASSUME NEW c \in named PROVE RoleRequest("metric", {c}) \in RoleRequests
  BY <1>1 DEF RoleRequest, RoleRequests, Roles
<1>4. QED
  BY <1>2, <1>3 DEF ExplicitAmbiguity

LEMMA ClarificationTyped ==
    ASSUME RolesTyped, NEW p, NEW q \in BlockingClarification(p)
    PROVE  q \in RoleRequests
<1>1. {"time", "metric", "dimension"} \subseteq Roles
  BY DEF Roles
<1>2. CASE analysis = "correlation"
  BY <1>2, AmbiguityTyped DEF BlockingClarification
<1>3. CASE analysis = "aggregate"
  BY <1>1, <1>3, RoleSelectionTyped DEF BlockingClarification
<1>4. CASE analysis \notin {"correlation", "aggregate"}
  <2>1. PICK first \in RoleSelection(p, IF analysis = "trend" THEN "time" ELSE "dimension") :
            q \in IF first # NoQuestion THEN {first} ELSE RoleSelection(p, "metric")
    BY <1>4 DEF BlockingClarification
  <2>2. first \in RoleRequests
    BY <1>1, <2>1, RoleSelectionTyped
  <2>3. QED
    BY <1>1, <2>1, <2>2, RoleSelectionTyped
<1>5. QED
  BY <1>2, <1>3, <1>4

\* What governs one call: of profiles and confirmations that stay.
LEMMA GovernedStays ==
    ASSUME RolesGoverned, AnalysedThere, analysed' = analysed, analysis' = analysis,
           \A d \in DOMAIN profiles : profiles'[d] = profiles[d],
           confirmations' = confirmations \/ analysed = {}
    PROVE  RolesGoverned'
BY DEF RolesGoverned, AnalysedThere, Requirements

LEMMA PlanRolesStep == ASSUME RolesInv, PlanRoles PROVE RolesInv'
<1>1. /\ phase = "planning" /\ phase' \in {"running", "waiting_user"}
      /\ phase' = "waiting_user" <=> question' # NoQuestion
      /\ UNCHANGED <<profiles, analysis, named, confirmations, analysed, spent>>
  BY DEF PlanRoles
<1>2. question' \in RoleRequests /\ (question # NoQuestion => question' = NoQuestion)
  BY ClarificationTyped DEF PlanRoles, RolesInv, RolesTyped, NoQuestion, RoleRequests
<1>3. RolesTyped'
  BY <1>1, <1>2 DEF RolesInv, RolesTyped, RolesTypeOK, RoleRequests
<1>4. AskedOnce'
  BY <1>1, <1>2 DEF RolesInv, AskedOnce, NoQuestion
<1>5. RolesGoverned' /\ AnalysedThere'
  BY <1>1, GovernedStays DEF RolesInv, AnalysedThere
<1>6. QED
  BY <1>3, <1>4, <1>5 DEF RolesInv

LEMMA ConfirmRoleStep == ASSUME RolesInv, NEW c \in Columns, ConfirmRole(c) PROVE RolesInv'
<1> DEFINE given == [dataset |-> DataVersion, column |-> c, role |-> question.role,
                     version |-> DataVersion]
<1>1. /\ phase = "waiting_user" /\ phase' = "planning" /\ confirmations = <<>> /\ analysed = {}
      /\ question # NoQuestion
      /\ confirmations' = Append(confirmations, given)
      /\ UNCHANGED <<profiles, analysis, named, question, analysed, spent>>
  BY DEF ConfirmRole, RolesInv, AskedOnce
<1>2. given \in Confirmation
  BY LenProperties DEF Confirmation, DataVersion, RolesInv, RolesTyped, RolesTypeOK, RoleRequests
<1> HIDE DEF given
<1>3. confirmations' \in Seq(Confirmation) /\ Len(confirmations') = 1
  BY <1>1, <1>2
<1>4. RolesTyped'
  BY <1>1, <1>3 DEF RolesInv, RolesTyped, RolesTypeOK
<1>5. AskedOnce'
  BY <1>1 DEF AskedOnce, NoQuestion
<1>6. RolesGoverned' /\ AnalysedThere'
  BY <1>1, GovernedStays DEF RolesInv, AnalysedThere
<1>7. QED
  BY <1>4, <1>5, <1>6 DEF RolesInv

LEMMA AnalyseStep ==
    ASSUME RolesInv, NEW d \in DOMAIN profiles, NEW cols \in Columns \X Columns, Analyse(d, cols)
    PROVE  RolesInv'
<1> USE DataRolesAssumption
<1> DEFINE e == [dataset |-> d, columns |-> cols, version |-> DataVersion]
<1>1. /\ phase = "running" /\ spent < MaxRoleCalls /\ spent' = spent + 1
      /\ analysed' \in {analysed, analysed \cup {e}}
      /\ analysed' # analysed => GuardAllows(d, cols)
      /\ UNCHANGED <<profiles, analysis, named, phase, question, confirmations>>
  BY DEF Analyse
<1>2. e \in AnalysisCalls /\ e.dataset = d /\ e.columns = cols /\ e.version = DataVersion
  BY LenProperties DEF AnalysisCalls, DataVersion, RolesInv, RolesTyped
<1> HIDE DEF e
<1>3. RolesTyped'
  BY <1>1, <1>2 DEF RolesInv, RolesTyped, RolesTypeOK
<1>4. AskedOnce' /\ AnalysedThere'
  BY <1>1, <1>2 DEF RolesInv, AskedOnce, AnalysedThere
<1>5. RolesGoverned'
  <2>1. CASE analysed' = analysed
    BY <1>1, <2>1, GovernedStays DEF RolesInv
  <2>2. CASE analysed' # analysed
    <3>1. GuardAllows(d, cols)
      BY <1>1, <2>2
    <3>2. ASSUME NEW k \in DOMAIN Requirements[analysis],
                 NEW i \in DOMAIN confirmations,
                 confirmations[i].column = cols[k], confirmations[i].dataset = d,
                 confirmations[i].version = DataVersion
          PROVE  confirmations[i].role \in Requirements[analysis][k]
      <4>1. i = 1 /\ DOMAIN confirmations = {1}
        <5>1. confirmations \in Seq(Confirmation) /\ Len(confirmations) <= 1
          BY DEF RolesInv, RolesTyped, RolesTypeOK
        <5>2. /\ DOMAIN confirmations = 1..Len(confirmations) /\ Len(confirmations) \in Nat
              /\ i \in 1..Len(confirmations)
          BY <5>1, LenProperties
        <5>3. Len(confirmations) = 1 /\ i = 1
          BY <5>1, <5>2
        <5>4. QED
          BY <5>2, <5>3
      <4>2. Confirmed(d, cols[k]) = {1}
        BY <3>2, <4>1 DEF Confirmed
      <4>3. Max({1}) = 1
        BY DEF Max
      <4>4. RoleGuard(d, cols[k], Requirements[analysis][k])
        BY <3>1 DEF GuardAllows
      <4>5. QED
        BY <4>1, <4>2, <4>3, <4>4 DEF RoleGuard
    <3>3. ASSUME NEW k \in DOMAIN Requirements[analysis],
                 {i \in DOMAIN confirmations :
                      confirmations[i].column = cols[k] /\ confirmations[i].dataset = d
                      /\ confirmations[i].version = DataVersion} = {}
          PROVE  ~Ambiguous(profiles[d][cols[k]])
                 /\ Primary(profiles[d][cols[k]]) \in Requirements[analysis][k]
      <4>1. Confirmed(d, cols[k]) = {}
        BY <3>3 DEF Confirmed
      <4>2. RoleGuard(d, cols[k], Requirements[analysis][k])
        BY <3>1 DEF GuardAllows
      <4>3. QED
        BY <4>1, <4>2 DEF RoleGuard
    <3>4. QED
      BY <1>1, <1>2, <3>2, <3>3 DEF RolesInv, RolesGoverned
  <2>3. QED
    BY <2>1, <2>2
<1>6. QED
  BY <1>3, <1>4, <1>5 DEF RolesInv

LEMMA TransformStep ==
    ASSUME RolesInv, NEW d \in DOMAIN profiles, NEW c \in Columns, NEW f \in Features,
           Transform(d, c, f)
    PROVE  RolesInv'
<1> USE DataRolesAssumption
<1> DEFINE new == [profiles[d] EXCEPT ![c] = f]
<1>1. /\ phase = "running" /\ spent < MaxRoleCalls /\ spent' = spent + 1
      /\ Len(profiles) < MaxDatasets
      /\ profiles' = Append(profiles, new)
      /\ UNCHANGED <<analysis, named, phase, question, confirmations, analysed>>
  BY DEF Transform, DataVersion
<1>2. /\ profiles \in Seq([Columns -> Features]) /\ Len(profiles) \in Nat
      /\ DOMAIN profiles = 1..Len(profiles)
  BY LenProperties DEF RolesInv, RolesTyped
<1>3. new \in [Columns -> Features]
  BY DEF RolesInv, RolesTyped, RolesTypeOK
<1> HIDE DEF new
<1>4. /\ profiles' \in Seq([Columns -> Features]) /\ Len(profiles') = Len(profiles) + 1
      /\ \A j \in DOMAIN profiles : j \in DOMAIN profiles' /\ profiles'[j] = profiles[j]
  BY <1>1, <1>2, <1>3, AppendProperties, LenProperties
<1>5. RolesTyped'
  <2>1. \A j \in DOMAIN profiles' : profiles'[j] \in [Columns -> Features]
    BY <1>4, ElementOfSeq, LenProperties
  <2>2. QED
    BY <1>1, <1>2, <1>4, <2>1 DEF RolesInv, RolesTyped, RolesTypeOK
<1>6. AskedOnce' /\ AnalysedThere'
  BY <1>1, <1>4 DEF RolesInv, AskedOnce, AnalysedThere
<1>7. RolesGoverned'
  BY <1>1, <1>4, GovernedStays DEF RolesInv
<1>8. QED
  BY <1>5, <1>6, <1>7 DEF RolesInv

LEMMA EndRolesStep == ASSUME RolesInv, EndRoles PROVE RolesInv'
<1>1. /\ phase' = "ended"
      /\ UNCHANGED <<profiles, analysis, named, question, confirmations, analysed, spent>>
  BY DEF EndRoles
<1>2. RolesTyped' /\ AskedOnce' /\ AnalysedThere'
  BY <1>1 DEF RolesInv, RolesTyped, RolesTypeOK, AskedOnce, AnalysedThere
<1>3. RolesGoverned'
  BY <1>1, GovernedStays DEF RolesInv
<1>4. QED
  BY <1>2, <1>3 DEF RolesInv

LEMMA RolesStart == ASSUME RolesInit PROVE RolesInv
<1> USE DataRolesAssumption
<1>1. PICK p \in [Columns -> Features] : profiles = <<p>>
  BY DEF RolesInit
<1>2. /\ profiles \in Seq([Columns -> Features]) /\ Len(profiles) = 1
      /\ \A d \in DOMAIN profiles : profiles[d] \in [Columns -> Features]
  BY <1>1
<1>3. question \in RoleRequests /\ confirmations = <<>> /\ analysed = {}
  BY DEF RolesInit, NoQuestion, RoleRequests
<1>4. RolesTyped
  BY <1>2, <1>3 DEF RolesInit, RolesTyped, RolesTypeOK, RoleRequests
<1>5. QED
  BY <1>3, <1>4 DEF RolesInit, RolesInv, AskedOnce, AnalysedThere, RolesGoverned

LEMMA RolesStep == ASSUME RolesInv, [RolesNext]_roleVars PROVE RolesInv'
<1>1. CASE UNCHANGED roleVars
  <2>1. RolesTyped' /\ AskedOnce' /\ AnalysedThere'
    BY <1>1 DEF roleVars, RolesInv, RolesTyped, RolesTypeOK, AskedOnce, AnalysedThere
  <2>2. RolesGoverned'
    BY <1>1, GovernedStays DEF RolesInv, roleVars
  <2>3. QED
    BY <2>1, <2>2 DEF RolesInv
<1>2. CASE RolesNext
  BY <1>2, PlanRolesStep, ConfirmRoleStep, AnalyseStep, TransformStep, EndRolesStep DEF RolesNext
<1>3. QED
  BY <1>1, <1>2

(* A governed call rests on what the user said or evidence shows of the data *)
(* as they are: no join without a preflight of its arguments on these data,  *)
(* no analysis of a column whose role is a guess, through pauses, crashes,   *)
(* resumed hosts and data sets derived meanwhile (join_collaboration.py and  *)
(* data_role_guard.py).                                                      *)
THEOREM CallsRestOnEvidence == JoinSpec /\ RolesSpec => []CallsGoverned
<1>1. RolesInit => RolesInv
  BY RolesStart
<1>2. RolesInv /\ [RolesNext]_roleVars => RolesInv'
  BY RolesStep
<1>3. RolesInv => RolesTypeOK /\ RolesGoverned
  BY DEF RolesInv, RolesTyped
<1>4. JoinTypeOK /\ JoinsSound /\ RolesTypeOK /\ RolesGoverned => CallsGoverned
  BY DEF CallsGoverned
<1>5. QED
  BY <1>1, <1>2, <1>3, <1>4, JoinsFollowEvidence, PTL DEF RolesSpec
-----------------------------------------------------------------------------
(* ResourceFeed, for any number of callers, versions and breaks: the types   *)
(* of what the gateway and the session's task hold.                          *)
Levels == [FeedKinds -> 0..version]
WatchersOf ==
    [context : Subscribers, snapshot : Levels, began : 0..version,
     task : {"asleep", "reads", "tells", "keeps"}, current : Levels]

Requesting ==
    [op : {"none", "subscribe", "unsubscribe"}, at : {"rest", "asks", "read", "answered"},
     updated : 0..version]

FeedFits ==
    /\ version \in 0..MaxVersion /\ lapsed \subseteq Subscribers /\ breaks \in 0..MaxBreaks
    /\ wanted \in Subscribers \cup {Nobody}
    /\ heard \in Levels
    /\ watcher # Nobody => linked /\ watcher \in WatchersOf
    /\ request \in [Subscribers -> Requesting]

(* What the task compares with has been told or is as old as the last        *)
(* request, whatever it is doing; and before it sleeps again, so has what it *)
(* will compare with next.                                                   *)
Told(level) ==
    \A kind \in FeedKinds : level[kind] <= watcher.began \/ level[kind] = heard[kind]
AlwaysInformed ==
    watcher # Nobody =>
        IF watcher.task = "keeps" THEN Told(watcher.current) ELSE Told(watcher.snapshot)

FeedInv == FeedFits /\ AlwaysInformed /\ Silence

LEMMA FeedStarts == FeedInit => FeedInv
<1> USE FeedAssumption
<1> SUFFICES ASSUME FeedInit PROVE FeedInv
  OBVIOUS
<1>1. /\ version = 0 /\ lapsed = {} /\ breaks = 0 /\ watcher = Nobody /\ wanted = Nobody
      /\ request = [s \in Subscribers |-> AtRest] /\ heard = Snapshot(0, 0)
  BY DEF FeedInit
<1>2. Snapshot(0, 0) \in [FeedKinds -> 0..0]
  BY DEF Snapshot, FeedKinds
<1>3. FeedFits
  BY <1>1, <1>2 DEF FeedFits, Levels, Requesting, AtRest
<1>4. QED
  BY <1>1, <1>3 DEF FeedInv, AlwaysInformed, Silence

\* A snapshot of two versions that have been.
LEMMA Snapped ==
    ASSUME NEW v \in Nat, NEW a \in 0..v, NEW b \in 0..v
    PROVE  /\ Snapshot(a, b) \in [FeedKinds -> 0..v]
           /\ Snapshot(a, b)["updated"] = a /\ Snapshot(a, b)["list_changed"] = b
           /\ \A kind \in FeedKinds : Snapshot(a, b)[kind] <= v
  BY DEF Snapshot, FeedKinds

LEMMA Subscribing ==
    ASSUME NEW v \in Nat, NEW a \in 0..v, NEW s \in Subscribers
    PROVE  LET new == Subscribed(s, Snapshot(a, v))
           IN /\ new \in [context : Subscribers, snapshot : [FeedKinds -> 0..v], began : 0..v,
                          task : {"asleep", "reads", "tells", "keeps"},
                          current : [FeedKinds -> 0..v]]
              /\ new.task = "asleep" /\ new.began = v /\ new.snapshot = Snapshot(a, v)
<1>1. Snapshot(a, v) \in [FeedKinds -> 0..v] /\ Snapshot(0, 0) \in [FeedKinds -> 0..v]
      /\ Snapshot(a, v).list_changed = v /\ v \in 0..v
  BY Snapped
<1>2. QED
  BY <1>1 DEF Subscribed

LEMMA NewVersionStep ==
    ASSUME FeedInv, NewVersion
    PROVE  FeedInv'
<1> USE FeedAssumption
<1>1. /\ version < MaxVersion /\ version' = version + 1
      /\ UNCHANGED <<lapsed, linked, breaks, watcher, wanted, request, heard>>
  BY DEF NewVersion
<1>2. version \in Nat /\ version' \in 0..MaxVersion /\ 0..version \subseteq 0..version'
  BY <1>1 DEF FeedInv, FeedFits
<1>3. Levels \subseteq Levels' /\ WatchersOf \subseteq WatchersOf'
  BY <1>2 DEF Levels, WatchersOf
<1>4. request' \in [Subscribers -> Requesting']
  BY <1>1, <1>2 DEF FeedInv, FeedFits, Requesting
<1>5. FeedFits'
  BY <1>1, <1>2, <1>3, <1>4 DEF FeedInv, FeedFits
<1>6. AlwaysInformed' /\ Silence'
  BY <1>1 DEF FeedInv, AlwaysInformed, Told, Silence
<1>7. QED
  BY <1>5, <1>6 DEF FeedInv

\* A step that leaves the task as it is or takes it away.
LEMMA TaskStays ==
    ASSUME FeedInv, UNCHANGED <<version, heard>>,
           watcher' = Nobody \/ UNCHANGED <<watcher, linked>>,
           lapsed' \subseteq Subscribers, breaks' \in 0..MaxBreaks,
           wanted' \in Subscribers \cup {Nobody},
           request' \in [Subscribers -> Requesting],
           Silence'
    PROVE  FeedInv'
<1>1. Levels' = Levels /\ WatchersOf' = WatchersOf /\ Requesting' = Requesting
  BY DEF Levels, WatchersOf, Requesting
<1>2. FeedFits'
  BY <1>1 DEF FeedInv, FeedFits
<1>3. AlwaysInformed'
  BY DEF FeedInv, AlwaysInformed, Told
<1>4. QED
  BY <1>2, <1>3 DEF FeedInv

LEMMA CallerSteps ==
    ASSUME FeedInv, NEW s \in Subscribers,
           \/ TurnsInvalid(s) \/ \E op \in {"subscribe", "unsubscribe"} : AskFor(s, op)
           \/ GivesUp(s) \/ ReadsContent(s) \/ Remembers(s) \/ Unwatches(s)
    PROVE  FeedInv'
<1> USE FeedAssumption
<1>0. /\ request \in [Subscribers -> Requesting] /\ AtRest \in Requesting
      /\ version \in Nat /\ version \in 0..version /\ 0 \in 0..version
  BY DEF FeedInv, FeedFits, Requesting, AtRest
<1>w. /\ wanted \in Subscribers \cup {Nobody} /\ lapsed \subseteq Subscribers
      /\ breaks \in 0..MaxBreaks /\ request \in [Subscribers -> Requesting]
  BY DEF FeedInv, FeedFits
<1>l. watcher # Nobody => linked
  BY DEF FeedInv, FeedFits
<1>1. CASE TurnsInvalid(s)
  <2>1. Silence'
    BY <1>1 DEF Silence, TurnsInvalid
  <2>2. /\ UNCHANGED <<version, linked, breaks, watcher, wanted, request, heard>>
        /\ lapsed' \subseteq Subscribers
    BY <1>w, <1>1 DEF TurnsInvalid
  <2>3. QED
    BY <1>w, <2>1, <2>2, TaskStays
<1>2. ASSUME NEW op \in {"subscribe", "unsubscribe"}, AskFor(s, op) PROVE FeedInv'
  <2>1. request' = [request EXCEPT ![s] = [@ EXCEPT !.op = op, !.at = "asks"]]
    BY <1>2 DEF AskFor
  <2>2. request' \in [Subscribers -> Requesting] /\ request'[s].op # "none"
    BY <1>0, <2>1 DEF Requesting
  <2>3. Silence'
    BY <2>2 DEF Silence
  <2>4. /\ UNCHANGED <<version, lapsed, linked, breaks, watcher, heard>>
        /\ wanted' \in Subscribers \cup {Nobody}
    BY <1>w, <1>2 DEF AskFor
  <2>5. QED
    BY <1>w, <2>2, <2>3, <2>4, TaskStays
<1>3. CASE GivesUp(s)
  <2>1. /\ UNCHANGED <<version, lapsed, linked, breaks, watcher, wanted, heard>>
        /\ request' = [request EXCEPT ![s] = AtRest] /\ (~linked \/ s \in lapsed)
    BY <1>3 DEF GivesUp
  <2>2. Silence'
    BY <1>l, <2>1 DEF Silence
  <2>3. request' \in [Subscribers -> Requesting]
    BY <1>0, <2>1
  <2>4. QED
    BY <1>w, <2>1, <2>2, <2>3, TaskStays
<1>4. CASE ReadsContent(s)
  <2>1. request' = [request EXCEPT ![s] = [@ EXCEPT !.at = "read", !.updated = version]]
    BY <1>4 DEF ReadsContent
  <2>2. /\ request' \in [Subscribers -> Requesting]
        /\ \A t \in Subscribers : request'[t].op = request[t].op
    BY <1>0, <2>1 DEF Requesting
  <2>3. Silence'
    BY <1>4, <2>2 DEF FeedInv, Silence, ReadsContent
  <2>4. UNCHANGED <<version, lapsed, linked, breaks, watcher, wanted, heard>>
    BY <1>4 DEF ReadsContent
  <2>5. QED
    BY <1>w, <2>2, <2>3, <2>4, TaskStays
<1>5. CASE Remembers(s)
  <2>1. Silence'
    BY <1>5 DEF Silence, Remembers
  <2>2. /\ UNCHANGED <<version, lapsed, linked, breaks, watcher, heard>>
        /\ wanted' \in Subscribers \cup {Nobody} /\ request' \in [Subscribers -> Requesting]
    BY <1>0, <1>w, <1>5 DEF Remembers
  <2>3. QED
    BY <1>w, <2>1, <2>2, TaskStays
<1>6. CASE Unwatches(s)
  <2>1. Silence'
    BY <1>6 DEF Silence, Unwatches
  <2>2. /\ UNCHANGED <<version, lapsed, linked, breaks, wanted, heard>>
        /\ watcher' = Nobody /\ request' \in [Subscribers -> Requesting]
    BY <1>0, <1>6 DEF Unwatches
  <2>3. QED
    BY <1>w, <2>1, <2>2, TaskStays
<1>7. QED
  BY <1>1, <1>2, <1>3, <1>4, <1>5, <1>6

LEMMA LinkBreaksStep ==
    ASSUME FeedInv, LinkBreaks
    PROVE  FeedInv'
<1> USE FeedAssumption
<1>1. /\ watcher' = Nobody /\ breaks < MaxBreaks /\ breaks' = breaks + 1
      /\ UNCHANGED <<version, lapsed, wanted, heard>>
      /\ request' = [s \in Subscribers |->
            IF request[s].at = "read" THEN [request[s] EXCEPT !.at = "asks", !.updated = 0]
            ELSE request[s]]
  BY DEF LinkBreaks
<1>2. ASSUME NEW s \in Subscribers
      PROVE  /\ request[s] \in Requesting
             /\ [request[s] EXCEPT !.at = "asks", !.updated = 0] \in Requesting
  <2>1. request[s] \in Requesting /\ 0 \in 0..version
    BY DEF FeedInv, FeedFits
  <2>2. QED
    BY <2>1 DEF Requesting
<1>3. request' \in [Subscribers -> Requesting]
  BY <1>1, <1>2
<1>4. /\ breaks \in 0..MaxBreaks /\ lapsed \subseteq Subscribers
      /\ wanted \in Subscribers \cup {Nobody}
  BY DEF FeedInv, FeedFits
<1>b. breaks \in 0..MaxBreaks /\ breaks < MaxBreaks /\ breaks' = breaks + 1
  BY <1>1, <1>4
<1>a. breaks' \in 0..MaxBreaks
  BY <1>b
<1>5. Silence'
  BY <1>1 DEF Silence
<1>6. QED
  BY <1>1, <1>3, <1>4, <1>a, <1>5, TaskStays

\* A new subscription compares with what there was when it was asked for.
LEMMA ReconnectStep ==
    ASSUME FeedInv, Reconnect
    PROVE  FeedInv'
<1> USE FeedAssumption
<1>1. /\ linked' = TRUE /\ UNCHANGED <<version, lapsed, breaks, wanted, request, heard>>
      /\ watcher' = IF wanted = Nobody THEN Nobody
                    ELSE Subscribed(wanted, Snapshot(version, version))
  BY DEF Reconnect
<1>2. version \in Nat /\ version \in 0..version
  BY DEF FeedInv, FeedFits
<1>3. Levels' = Levels /\ WatchersOf' = WatchersOf /\ Requesting' = Requesting
  BY <1>1 DEF Levels, WatchersOf, Requesting
<1>4. CASE wanted = Nobody
  BY <1>1, <1>3, <1>4 DEF FeedInv, FeedFits, AlwaysInformed, Silence
<1>5. CASE wanted # Nobody
  <2>1. wanted \in Subscribers
    BY <1>5 DEF FeedInv, FeedFits
  <2>2. /\ watcher' \in WatchersOf /\ watcher'.task = "asleep" /\ watcher'.began = version
        /\ watcher'.snapshot = Snapshot(version, version)
    BY <1>1, <1>2, <1>5, <2>1, Subscribing DEF WatchersOf, Levels
  <2>3. FeedFits'
    BY <1>1, <1>3, <2>2 DEF FeedInv, FeedFits
  <2>4. \A kind \in FeedKinds : Snapshot(version, version)[kind] <= version
    BY <1>2, Snapped
  <2>5. AlwaysInformed'
    BY <2>2, <2>4 DEF AlwaysInformed, Told
  <2>6. Silence'
    BY <1>1, <1>5 DEF Silence
  <2>7. QED
    BY <2>3, <2>5, <2>6 DEF FeedInv
<1>6. QED
  BY <1>4, <1>5

LEMMA WatchesStep ==
    ASSUME FeedInv, NEW s \in Subscribers, Watches(s)
    PROVE  FeedInv'
<1> USE FeedAssumption
<1> DEFINE snapshot == Snapshot(request[s].updated, version)
<1>1. /\ linked /\ request[s].op = "subscribe"
      /\ watcher' = IF watcher = Nobody THEN Subscribed(s, snapshot)
                    ELSE [watcher EXCEPT !.snapshot = snapshot, !.began = version]
      /\ request' = [request EXCEPT ![s] = [@ EXCEPT !.at = "answered", !.updated = 0]]
      /\ UNCHANGED <<version, lapsed, linked, breaks, wanted, heard>>
  BY DEF Watches, Served
<1>2. /\ version \in Nat /\ version \in 0..version /\ 0 \in 0..version
      /\ request \in [Subscribers -> Requesting] /\ request[s].updated \in 0..version
  BY DEF FeedInv, FeedFits, Requesting
<1>3. Levels' = Levels /\ WatchersOf' = WatchersOf /\ Requesting' = Requesting
  BY <1>1 DEF Levels, WatchersOf, Requesting
<1>4. snapshot \in Levels /\ \A kind \in FeedKinds : snapshot[kind] <= version
  BY <1>2, Snapped DEF Levels
<1>5. request' \in [Subscribers -> Requesting] /\ request'[s].op = "subscribe"
  BY <1>1, <1>2 DEF Requesting
<1>6. CASE watcher = Nobody
  <2>1. /\ watcher' \in WatchersOf /\ watcher'.task = "asleep" /\ watcher'.began = version
        /\ watcher'.snapshot = snapshot
    BY <1>1, <1>2, <1>6, Subscribing DEF WatchersOf, Levels
  <2> HIDE DEF snapshot
  <2>2. FeedFits'
    BY <1>1, <1>3, <1>5, <2>1 DEF FeedInv, FeedFits
  <2>3. AlwaysInformed'
    BY <1>4, <2>1 DEF AlwaysInformed, Told
  <2>4. QED
    BY <1>5, <2>2, <2>3 DEF FeedInv, Silence
<1>7. CASE watcher # Nobody
  <2> HIDE DEF snapshot
  <2>1. watcher \in WatchersOf
    BY <1>7 DEF FeedInv, FeedFits
  <2>2. /\ watcher' \in WatchersOf /\ watcher'.task = watcher.task /\ watcher'.began = version
        /\ watcher'.snapshot = snapshot /\ watcher'.current = watcher.current
    BY <1>1, <1>2, <1>4, <1>7, <2>1 DEF WatchersOf
  <2>3. FeedFits'
    BY <1>1, <1>3, <1>5, <2>2 DEF FeedInv, FeedFits
  <2>4. \A kind \in FeedKinds : watcher.current[kind] <= version
    BY <1>2, <2>1 DEF WatchersOf, Levels
  <2>5. AlwaysInformed'
    BY <1>4, <2>2, <2>4 DEF AlwaysInformed, Told
  <2>6. QED
    BY <1>5, <2>3, <2>5 DEF FeedInv, Silence
<1>8. QED
  BY <1>6, <1>7

\* The steps of the task leave the callers and the version alone.
LEMMA TaskGoes ==
    ASSUME FeedInv, UNCHANGED <<version, lapsed, linked, breaks, wanted, request>>,
           watcher # Nobody, watcher' \in WatchersOf, heard' \in Levels,
           AlwaysInformed'
    PROVE  FeedInv'
<1>1. Levels' = Levels /\ WatchersOf' = WatchersOf /\ Requesting' = Requesting
  BY DEF Levels, WatchersOf, Requesting
<1>2. FeedFits' /\ Silence'
  BY <1>1 DEF FeedInv, FeedFits, Silence
<1>3. QED
  BY <1>2 DEF FeedInv

LEMMA PollingSteps ==
    ASSUME FeedInv, Polls \/ ReadsCatalogue
    PROVE  FeedInv'
<1>1. watcher # Nobody /\ watcher \in WatchersOf /\ version \in 0..version
  BY FeedAssumption DEF FeedInv, FeedFits, Polls, ReadsCatalogue, Task
<1> DEFINE old == watcher.current
           read == IF Polls THEN [old EXCEPT !["updated"] = version]
                   ELSE [old EXCEPT !["list_changed"] = version]
           place == IF Polls THEN "reads" ELSE "tells"
<1>2. /\ watcher' = [watcher EXCEPT !.task = place, !.current = read] /\ watcher.task # "keeps"
      /\ UNCHANGED <<version, lapsed, linked, breaks, wanted, request, heard>>
  BY <1>1 DEF Polls, ReadsCatalogue, Task, WatchersOf, Levels, FeedKinds
<1>3. read \in Levels
  BY <1>1 DEF WatchersOf, Levels, FeedKinds
<1>4. place \in {"reads", "tells"}
  OBVIOUS
<1> HIDE DEF read, place
<1>5. /\ watcher' \in WatchersOf /\ watcher'.task # "keeps"
      /\ watcher'.snapshot = watcher.snapshot /\ watcher'.began = watcher.began
  BY <1>1, <1>2, <1>3, <1>4 DEF WatchersOf
<1>6. AlwaysInformed'
  BY <1>1, <1>2, <1>5 DEF FeedInv, AlwaysInformed, Told
<1>7. QED
  BY <1>1, <1>2, <1>5, <1>6, TaskGoes DEF FeedInv, FeedFits

LEMMA TellsStep ==
    ASSUME FeedInv, Tells
    PROVE  FeedInv'
<1>1. /\ watcher # Nobody /\ watcher \in WatchersOf /\ watcher.task = "tells"
      /\ watcher' = [watcher EXCEPT !.task = "keeps"]
      /\ UNCHANGED <<version, lapsed, linked, breaks, wanted, request>>
      /\ heard' = [kind \in FeedKinds |-> IF News(kind) THEN watcher.current[kind] ELSE heard[kind]]
  BY DEF FeedInv, FeedFits, Tells, Task
<1>2. heard \in Levels /\ watcher.current \in Levels
  BY <1>1 DEF FeedInv, FeedFits, WatchersOf
<1>3. heard' \in Levels
  BY <1>1, <1>2 DEF Levels
<1>4. /\ watcher' \in WatchersOf /\ watcher'.task = "keeps" /\ watcher'.began = watcher.began
      /\ watcher'.current = watcher.current
  BY <1>1 DEF WatchersOf
<1>5. ASSUME NEW kind \in FeedKinds
      PROVE  watcher.current[kind] <= watcher.began \/ watcher.current[kind] = heard'[kind]
  <2>1. CASE watcher.current[kind] # watcher.snapshot[kind]
    BY <1>1, <2>1 DEF News, Differs
  <2>2. CASE watcher.current[kind] = watcher.snapshot[kind]
    <3>1. heard'[kind] = heard[kind]
      BY <1>1, <2>2 DEF News, Differs
    <3>2. watcher.snapshot[kind] <= watcher.began \/ watcher.snapshot[kind] = heard[kind]
      BY <1>1 DEF FeedInv, AlwaysInformed, Told
    <3>3. QED
      BY <2>2, <3>1, <3>2
  <2>3. QED
    BY <2>1, <2>2
<1>6. AlwaysInformed'
  BY <1>4, <1>5 DEF AlwaysInformed, Told
<1>7. QED
  BY <1>1, <1>3, <1>4, <1>6, TaskGoes

LEMMA KeepsStep ==
    ASSUME FeedInv, KeepsSnapshot
    PROVE  FeedInv'
<1>1. /\ watcher # Nobody /\ watcher \in WatchersOf /\ watcher.task = "keeps"
      /\ watcher' = [watcher EXCEPT !.task = "asleep", !.snapshot = watcher.current,
                                    !.current = Snapshot(0, 0)]
      /\ UNCHANGED <<version, lapsed, linked, breaks, wanted, request, heard>>
  BY DEF FeedInv, FeedFits, KeepsSnapshot, Task
<1>2. Snapshot(0, 0) \in Levels
  BY Snapped, FeedAssumption DEF FeedInv, FeedFits, Levels
<1>3. /\ watcher' \in WatchersOf /\ watcher'.task = "asleep" /\ watcher'.began = watcher.began
      /\ watcher'.snapshot = watcher.current
  BY <1>1, <1>2 DEF WatchersOf
<1>4. AlwaysInformed'
  BY <1>1, <1>3 DEF FeedInv, AlwaysInformed, Told
<1>5. QED
  BY <1>1, <1>3, <1>4, TaskGoes DEF FeedInv, FeedFits

LEMMA StopsStep ==
    ASSUME FeedInv, StopsWatching
    PROVE  FeedInv'
<1>1. watcher' = Nobody /\ UNCHANGED <<version, lapsed, linked, breaks, wanted, request, heard>>
  BY DEF StopsWatching
<1>2. Silence'
  BY <1>1 DEF Silence
<1>3. QED
  BY <1>1, <1>2, TaskStays DEF FeedInv, FeedFits

(* For any number of callers, versions and breaks: what the task has seen    *)
(* has been told or is as old as the last request for the subscription, and  *)
(* a task that nobody wants is one whose end somebody asks for or was        *)
(* refused (watch_subscription, subscribe_resource, unsubscribe_resource).   *)
THEOREM FeedsStand == FeedSpec => []FeedInv
<1>1. FeedInv /\ [FeedNext]_feedVars => FeedInv'
  <2> SUFFICES ASSUME FeedInv, [FeedNext]_feedVars PROVE FeedInv'
    OBVIOUS
  <2>1. CASE FeedNext
    BY <2>1, NewVersionStep, LinkBreaksStep, ReconnectStep, CallerSteps, WatchesStep,
       PollingSteps, StopsStep, TellsStep, KeepsStep DEF FeedNext
  <2>2. CASE UNCHANGED feedVars
    BY <2>2 DEF feedVars, FeedInv, FeedFits, Levels, WatchersOf, Requesting, AlwaysInformed, Told,
       Silence
  <2>3. QED
    BY <2>1, <2>2
<1>2. QED
  BY <1>1, FeedStarts, PTL DEF FeedSpec
-----------------------------------------------------------------------------
(* ResourceListing, for any definitions and clients and any size of a page:  *)
(* a chain of cursors has listed the first entries of one catalogue.         *)
Listed == {Entries(v)[k] : v \in SUBSET Definitions, k \in Nat}
Cursors == [offset : Nat, version : SUBSET Definitions]
Chains == [entries : Seq(Listed), version : SUBSET catalogue, next : Cursors \cup {NoCursor},
           state : {"new", "listing", "changed", "done"}]

ListingFits ==
    /\ catalogue \subseteq Definitions /\ IsFiniteSet(catalogue)
    /\ listing \in [Clients -> Chains]

Chained ==
    \A c \in Clients : listing[c].state = "listing" =>
        /\ listing[c].next \in Cursors /\ listing[c].next.version = listing[c].version
        /\ listing[c].next.offset < Len(Entries(listing[c].version))
        /\ listing[c].entries = SubSeq(Entries(listing[c].version), 1, listing[c].next.offset)

ListingInv == ListingFits /\ Chained /\ ListingSound

LEMMA EntriesOf ==
    ASSUME NEW v \in SUBSET Definitions, IsFiniteSet(v)
    PROVE  /\ Entries(v) \in Seq(Listed) /\ Len(Entries(v)) \in Nat \ {0}
<1>1. Cardinality(v) \in Nat
  BY FS_CardinalityType
<1> DEFINE n == Cardinality(v) + 1
           f == Entries(v)
<1>2. n \in Nat /\ n # 0 /\ f = [k \in 1..n |->
          IF k = 1 THEN 0 ELSE CHOOSE d \in v : Before(d, v) = k - 2]
  BY <1>1 DEF Entries
<1>3. \A k \in 1..n : f[k] \in Listed
  BY <1>2 DEF Listed
<1>4. f = [k \in 1..n |-> f[k]]
  BY <1>2
<1> HIDE DEF f, n
<1>5. f \in Seq(Listed) /\ Len(f) = n
  BY <1>2, <1>3, <1>4
<1>6. QED
  BY <1>2, <1>5 DEF f

\* The pages that follow one another make up the first entries.
LEMMA PagesAdd ==
    ASSUME NEW S, NEW s \in Seq(S), NEW m \in 0..Len(s), NEW n \in m..Len(s)
    PROVE  /\ SubSeq(s, 1, m) \o SubSeq(s, m + 1, n) = SubSeq(s, 1, n)
           /\ SubSeq(s, 1, n) \in Seq(S)
<1> DEFINE head == SubSeq(s, 1, m)
           tail == SubSeq(s, m + 1, n)
           all == SubSeq(s, 1, n)
           len == Len(s)
<1>1. /\ len \in Nat /\ m \in Nat /\ n \in Nat /\ m <= n /\ n <= len
      /\ \A i \in 1..len : s[i] \in S
  BY LenProperties, ElementOfSeq
<1> HIDE DEF len
<1>2. /\ \A i \in 1..m : s[i] \in S
      /\ \A i \in m + 1..n : s[i] \in S
      /\ \A i \in 1..n : s[i] \in S
  BY <1>1
<1>3. /\ head \in Seq(S) /\ Len(head) = IF 1 <= m THEN m - 1 + 1 ELSE 0
      /\ \A i \in 1..m - 1 + 1 : head[i] = s[1 + i - 1]
  BY <1>1, <1>2, SubSeqProperties
<1>4. /\ tail \in Seq(S) /\ Len(tail) = IF m + 1 <= n THEN n - (m + 1) + 1 ELSE 0
      /\ \A i \in 1..n - (m + 1) + 1 : tail[i] = s[m + 1 + i - 1]
  BY <1>1, <1>2, SubSeqProperties
<1>5. /\ all \in Seq(S) /\ Len(all) = IF 1 <= n THEN n - 1 + 1 ELSE 0
      /\ \A i \in 1..n - 1 + 1 : all[i] = s[1 + i - 1]
  BY <1>1, <1>2, SubSeqProperties
<1> HIDE DEF head, tail, all
<1>6. Len(head) = m /\ Len(tail) = n - m /\ Len(all) = n
  BY <1>1, <1>3, <1>4, <1>5
<1>7. ASSUME NEW i \in 1..m PROVE head[i] = s[i]
  <2>1. i \in 1..m - 1 + 1 /\ 1 + i - 1 = i
    BY <1>1
  <2>2. QED
    BY <1>3, <2>1
<1>8. ASSUME NEW i \in m + 1..n PROVE tail[i - m] = s[i]
  <2>1. i - m \in 1..n - (m + 1) + 1 /\ m + 1 + (i - m) - 1 = i
    BY <1>1
  <2>2. QED
    BY <1>4, <2>1
<1>9. ASSUME NEW i \in 1..n PROVE all[i] = s[i]
  <2>1. i \in 1..n - 1 + 1 /\ 1 + i - 1 = i
    BY <1>1
  <2>2. QED
    BY <1>5, <2>1
<1> DEFINE both == head \o tail
<1>10. /\ both \in Seq(S) /\ Len(both) = Len(head) + Len(tail)
       /\ \A i \in 1..Len(head) + Len(tail) :
             both[i] = IF i <= Len(head) THEN head[i] ELSE tail[i - Len(head)]
  <2>1. head \in Seq(S) /\ tail \in Seq(S)
    BY <1>3, <1>4
  <2>2. QED
    BY <2>1, ConcatProperties
<1> HIDE DEF both
<1>11. Len(both) = n /\ \A i \in 1..n : both[i] = IF i <= m THEN head[i] ELSE tail[i - m]
  <2>1. m + (n - m) = n
    BY <1>1
  <2>2. QED
    BY <1>6, <1>10, <2>1
<1>12. ASSUME NEW i \in 1..n PROVE both[i] = all[i]
  <2>1. CASE i <= m
    <3>1. i \in 1..m
      BY <1>1, <2>1
    <3>2. QED
      BY <1>7, <1>9, <1>11, <2>1, <3>1
  <2>2. CASE ~(i <= m)
    <3>1. i \in m + 1..n
      BY <1>1, <2>2
    <3>2. QED
      BY <1>8, <1>9, <1>11, <2>2, <3>1
  <2>3. QED
    BY <2>1, <2>2
<1>13. both = all
  BY <1>5, <1>6, <1>10, <1>11, <1>12, SeqEqual
<1>14. QED
  BY <1>5, <1>13 DEF both, head, tail, all

LEMMA LesserOf ==
    ASSUME NEW a \in Nat, NEW b \in Nat
    PROVE  Min({a, b}) = IF a <= b THEN a ELSE b
  BY DEF Min

LEMMA ListingStarts == ListingInit => ListingInv
<1> SUFFICES ASSUME ListingInit PROVE ListingInv
  OBVIOUS
<1>1. catalogue = {} /\ listing = [c \in Clients |-> NotBegun]
  BY DEF ListingInit
<1>2. NotBegun \in Chains /\ NotBegun.state = "new"
  BY DEF NotBegun, Chains
<1>3. IsFiniteSet(catalogue)
  BY <1>1, FS_EmptySet
<1>4. QED
  BY <1>1, <1>2, <1>3 DEF ListingInv, ListingFits, Chained, ListingSound

LEMMA PublishDefinitionStep ==
    ASSUME ListingInv, NEW d \in Definitions, PublishDefinition(d)
    PROVE  ListingInv'
<1>1. d \notin catalogue /\ catalogue' = catalogue \cup {d} /\ listing' = listing
  BY DEF PublishDefinition
<1>2. IsFiniteSet(catalogue')
  BY <1>1, FS_AddElement DEF ListingInv, ListingFits
<1>3. Chains \subseteq Chains'
  BY <1>1 DEF Chains
<1>4. ListingFits'
  BY <1>1, <1>2, <1>3 DEF ListingInv, ListingFits
<1>5. \A c \in Clients : listing[c].version \subseteq catalogue
  BY DEF ListingInv, ListingFits, Chains
<1>6. Chained' /\ ListingSound'
  BY <1>1, <1>5 DEF ListingInv, Chained, ListingSound
<1>7. QED
  BY <1>4, <1>6 DEF ListingInv

LEMMA ChangedStep ==
    ASSUME ListingInv, NEW c \in Clients, Changed(c)
    PROVE  ListingInv'
<1> DEFINE old == listing[c]
           entries == IF c \in Collectors THEN <<>> ELSE old.entries
           new == [old EXCEPT !.state = "changed", !.next = NoCursor, !.entries = entries]
<1>1. listing \in [Clients -> Chains] /\ old \in Chains /\ old.entries \in Seq(Listed)
  BY DEF ListingInv, ListingFits, Chains
<1>2. /\ old.state = "listing" /\ ~IsCurrent(old.next) /\ catalogue' = catalogue
  BY DEF Changed
<1>l. listing' = [listing EXCEPT ![c] = new]
  BY DEF Changed
<1>3. old.version # catalogue
  BY <1>2 DEF ListingInv, Chained, IsCurrent
<1>4. entries \in Seq(Listed)
  BY <1>1
<1>5. new \in Chains /\ new.state = "changed" /\ new.version = old.version
  <2> HIDE DEF entries, old
  <2>1. QED
    BY <1>1, <1>4 DEF Chains
<1> HIDE DEF new
<1>6. /\ listing' \in [Clients -> Chains] /\ listing'[c] = new
      /\ \A b \in Clients : b # c => listing'[b] = listing[b]
  BY <1>1, <1>l, <1>5
<1>7. Chains' = Chains
  BY <1>2 DEF Chains
<1>8. ListingFits'
  BY <1>2, <1>6, <1>7 DEF ListingInv, ListingFits
<1>9. Chained'
  BY <1>5, <1>6 DEF ListingInv, Chained
<1>10. ListingSound'
  BY <1>2, <1>3, <1>5, <1>6 DEF ListingInv, ListingSound
<1>11. QED
  BY <1>8, <1>9, <1>10 DEF ListingInv

LEMMA AskPageStep ==
    ASSUME ListingInv, NEW c \in Clients, AskPage(c)
    PROVE  ListingInv'
<1> DEFINE E == Entries(catalogue)
           old == listing[c]
           cursor == IF Begin(c) THEN NoCursor ELSE old.next
           before == IF Begin(c) THEN <<>> ELSE old.entries
           from == Offset(cursor)
           end == Min({from + PageSize, Len(E)})
           onwards == IF end < Len(E) THEN Cursor(end, catalogue) ELSE NoCursor
           new == [entries |-> before \o SubSeq(E, from + 1, end), version |-> catalogue,
                   next |-> onwards, state |-> IF onwards = NoCursor THEN "done" ELSE "listing"]
<1>1. listing \in [Clients -> Chains] /\ old \in Chains /\ catalogue \in SUBSET Definitions
      /\ IsFiniteSet(catalogue)
  BY DEF ListingInv, ListingFits
<1>2. E \in Seq(Listed) /\ Len(E) \in Nat \ {0}
  BY <1>1, EntriesOf
<1>3. /\ IsCurrent(cursor) /\ catalogue' = catalogue /\ listing' = [listing EXCEPT ![c] = new]
  BY DEF AskPage, Page
<1>4. from \in 0..Len(E) - 1 /\ before = SubSeq(E, 1, from)
  <2>1. CASE Begin(c)
    <3>1. from = 0 /\ before = <<>>
      BY <2>1 DEF Offset
    <3>2. SubSeq(E, 1, 0) = <<>>
      BY SubSeqEmpty
    <3> HIDE DEF E, from, before
    <3>3. 0 \in 0..Len(E) - 1
      BY <1>2
    <3>4. QED
      BY <3>1, <3>2, <3>3
  <2>2. CASE ~Begin(c)
    <3>1. old.state = "listing"
      BY <1>1, <2>2 DEF Begin, Chains
    <3>2. /\ old.next \in Cursors /\ old.next.version = old.version
          /\ old.next.offset < Len(Entries(old.version))
          /\ old.entries = SubSeq(Entries(old.version), 1, old.next.offset)
      BY <3>1 DEF ListingInv, Chained
    <3>3. cursor = old.next /\ cursor # NoCursor /\ before = old.entries
      BY <2>2, <3>2, ListingAssumption DEF Cursors
    <3>4. old.next.version = catalogue /\ from = old.next.offset
      BY <1>3, <3>3 DEF IsCurrent, Offset
    <3>5. old.next.offset \in Nat
      BY <3>2 DEF Cursors
    <3>6. E = Entries(old.version)
      BY <3>2, <3>4
    <3> HIDE DEF E, from, before, cursor, old
    <3>7. from \in Nat /\ from < Len(E) /\ Len(E) \in Nat
      BY <1>2, <3>2, <3>4, <3>5, <3>6
    <3>8. before = SubSeq(E, 1, from)
      BY <3>2, <3>3, <3>4, <3>6
    <3>9. QED
      BY <3>7, <3>8
  <2>3. QED
    BY <2>1, <2>2
<1> HIDE DEF E, from, before, cursor
<1>5. end \in from + 1..Len(E)
  <2>1. from + PageSize \in Nat /\ PageSize \in Nat \ {0}
    BY <1>2, <1>4, ListingAssumption
  <2>2. end = IF from + PageSize <= Len(E) THEN from + PageSize ELSE Len(E)
    BY <1>2, <2>1, LesserOf
  <2> HIDE DEF end
  <2>3. QED
    BY <1>2, <1>4, <2>1, <2>2
<1> HIDE DEF end
<1>6. /\ before \o SubSeq(E, from + 1, end) = SubSeq(E, 1, end)
      /\ SubSeq(E, 1, end) \in Seq(Listed)
  <2>1. from \in 0..Len(E) /\ end \in from..Len(E)
    BY <1>2, <1>4, <1>5
  <2>2. QED
    BY <1>2, <1>4, <2>1, PagesAdd
<1>7. end \in Nat /\ end <= Len(E)
  BY <1>2, <1>4, <1>5
<1>8. /\ onwards \in Cursors \cup {NoCursor}
      /\ IF end < Len(E) THEN onwards # NoCursor /\ onwards = Cursor(end, catalogue)
         ELSE onwards = NoCursor
  <2>1. Cursor(end, catalogue) \in Cursors
    BY <1>1, <1>7 DEF Cursor, Cursors
  <2>2. Cursor(end, catalogue) # NoCursor
    BY <2>1, ListingAssumption DEF Cursors
  <2>3. QED
    BY <2>1, <2>2
<1> HIDE DEF onwards
<1>9. /\ new \in Chains /\ new.entries = SubSeq(E, 1, end) /\ new.version = catalogue
      /\ new.next = onwards /\ new.state = IF onwards = NoCursor THEN "done" ELSE "listing"
  <2>1. before \o SubSeq(E, from + 1, end) \in Seq(Listed)
    BY <1>6
  <2>2. QED
    BY <1>6, <1>8, <2>1 DEF Chains
<1> HIDE DEF new
<1>10. /\ listing' \in [Clients -> Chains] /\ listing'[c] = new
       /\ \A b \in Clients : b # c => listing'[b] = listing[b]
  BY <1>1, <1>3, <1>9
<1>11. Chains' = Chains
  BY <1>3 DEF Chains
<1>12. ListingFits'
  BY <1>3, <1>10, <1>11 DEF ListingInv, ListingFits
<1>13. CASE end < Len(E)
  <2>1. /\ new.state = "listing" /\ onwards = Cursor(end, catalogue) /\ onwards \in Cursors
        /\ onwards.offset = end /\ onwards.version = catalogue
    BY <1>1, <1>7, <1>8, <1>9, <1>13 DEF Cursor, Cursors
  <2>2. Chained'
    BY <1>9, <1>10, <1>13, <2>1 DEF ListingInv, Chained, E
  <2>3. ListingSound'
    BY <1>3, <1>10, <2>1 DEF ListingInv, ListingSound
  <2>4. QED
    BY <1>12, <2>2, <2>3 DEF ListingInv
<1>14. CASE ~(end < Len(E))
  <2>1. new.state = "done"
    BY <1>8, <1>9, <1>14
  <2>2. end = Len(E)
    BY <1>2, <1>7, <1>14
  <2>3. new.entries = Entries(new.version)
    BY <1>2, <1>9, <2>2, SubSeqFull DEF E
  <2>4. Chained'
    BY <1>10, <2>1 DEF ListingInv, Chained
  <2>5. ListingSound'
    BY <1>3, <1>10, <2>1, <2>3 DEF ListingInv, ListingSound
  <2>6. QED
    BY <1>12, <2>4, <2>5 DEF ListingInv
<1>15. QED
  BY <1>13, <1>14

(* For any definitions, clients and size of a page: the pages of a chain of  *)
(* cursors are the first entries of one catalogue, all of them when it ends, *)
(* and it breaks off only if the catalogue has changed (_resource_page).     *)
THEOREM ListingsStand == ListingSpec => []ListingInv
<1>1. ListingInv /\ [ListingNext]_listingVars => ListingInv'
  <2> SUFFICES ASSUME ListingInv, [ListingNext]_listingVars PROVE ListingInv'
    OBVIOUS
  <2>1. CASE ListingNext
    BY <2>1, PublishDefinitionStep, AskPageStep, ChangedStep DEF ListingNext
  <2>2. CASE UNCHANGED listingVars
    BY <2>2 DEF listingVars, ListingInv, ListingFits, Chains, Chained, ListingSound
  <2>3. QED
    BY <2>1, <2>2
<1>2. QED
  BY <1>1, ListingStarts, PTL DEF ListingSpec

(* What a client lists and hears of the definitions is true of them.         *)
THEOREM ResourcesTold == ListingSpec /\ FeedSpec => []ResourcesSound
<1>1. ListingInv => ListingTypeOK /\ ListingSound
  <2> SUFFICES ASSUME ListingInv PROVE ListingTypeOK
    BY DEF ListingInv
  <2>1. \A c \in Clients : listing[c] \in Chains
    BY DEF ListingInv, ListingFits
  <2>2. QED
    BY <2>1 DEF ListingInv, ListingFits, ListingTypeOK, Chains
<1>2. FeedInv => FeedTypeOK /\ Informed /\ Silence
  <2> SUFFICES ASSUME FeedInv PROVE FeedTypeOK /\ Informed
    BY DEF FeedInv
  <2>1. FeedTypeOK
    BY DEF FeedInv, FeedFits, FeedTypeOK, Levels, WatchersOf, Requesting
  <2>2. Informed
    BY DEF FeedInv, AlwaysInformed, Told, Informed, Task
  <2>3. QED
    BY <2>1, <2>2
<1>3. QED
  BY <1>1, <1>2, ListingsStand, FeedsStand, PTL DEF ResourcesSound
-----------------------------------------------------------------------------
(* TaskOutline, for any requests, histories, catalogues and limit: the rules *)
(* that the invariant below speaks of, and their places.                     *)
RulePlaces == 1..18
AtPlaces ==
    /\ Len(Rules) = 17 /\ DOMAIN Rules = 1..17
    /\ \A k \in RulePlaces : CapabilityAt(k) = "report" => k = 17
    /\ \A k \in RulePlaces : CapabilityAt(k) = "join" => k = 8
    /\ CapabilityAt(7) = "preflight" /\ CapabilityAt(8) = "join"
    /\ CapabilityAt(16) = "chart" /\ CapabilityAt(17) = "report" /\ CapabilityAt(18) = "chart"

LEMMA RulesInOrder == AtPlaces
<1>1. Len(Rules) = 17 /\ DOMAIN Rules = 1..17
  BY DEF Rules
<1>2. CapabilityAt(7) = "preflight" /\ CapabilityAt(8) = "join"
  BY <1>1 DEF Rules, Rule, CapabilityAt
<1>3. CapabilityAt(16) = "chart" /\ CapabilityAt(17) = "report" /\ CapabilityAt(18) = "chart"
  BY <1>1 DEF Rules, Rule, CapabilityAt
<1>4. \A k \in RulePlaces : CapabilityAt(k) = "report" => k = 17
  BY <1>1 DEF Rules, Rule, CapabilityAt, RulePlaces
<1>5. \A k \in RulePlaces : CapabilityAt(k) = "join" => k = 8
  BY <1>1 DEF Rules, Rule, CapabilityAt, RulePlaces
<1>6. QED
  BY <1>1, <1>2, <1>3, <1>4, <1>5 DEF AtPlaces

LEMMA RulesAsk ==
    /\ Rules[7] = Rule("preflight", {"join"}, {}) /\ Rules[8] = Rule("join", {"join"}, {"assess"})
    /\ Rules[16] = Rule("chart", {"chart", "figure", "nochart"}, {})
    /\ Rules[17] = Rule("report", {"report"}, {})
  BY DEF Rules

LEMMA PlaceIs ==
    ASSUME NEW k \in 1..17
    PROVE  /\ PlaceOf(CapabilityAt(k)) \in 1..17
           /\ CapabilityAt(PlaceOf(CapabilityAt(k))) = CapabilityAt(k)
  BY RulesInOrder DEF AtPlaces, PlaceOf, CapabilityAt

LEMMA ProfileHasItsPlace ==
    PlaceOf("profile") \in 1..17 /\ CapabilityAt(PlaceOf("profile")) = "profile"
<1>1. CapabilityAt(3) = "profile"
  BY RulesInOrder DEF AtPlaces, Rules, Rule, CapabilityAt
<1>2. QED
  BY <1>1, PlaceIs

LEMMA AnalysesHaveTheirPlace ==
    ASSUME NEW c \in {"trend", "anomaly", "compare", "correlation"}
    PROVE  PlaceOf(c) \in 1..17 /\ CapabilityAt(PlaceOf(c)) = c
<1>1. /\ CapabilityAt(14) = "trend" /\ CapabilityAt(5) = "anomaly"
      /\ CapabilityAt(10) = "compare" /\ CapabilityAt(12) = "correlation"
  BY RulesInOrder DEF AtPlaces, Rules, Rule, CapabilityAt
<1>2. QED
  BY <1>1, PlaceIs

-----------------------------------------------------------------------------
(* What is asked for.                                                        *)
LEMMA AskedInPlaces ==
    /\ RequestedCapabilities \subseteq RulePlaces
    /\ 18 \in RequestedCapabilities => Revises
<1>1. Wanted \subseteq 1..17
  BY RulesInOrder DEF AtPlaces, Wanted
<1>2. Needed \subseteq 1..17
  BY <1>1, ProfileHasItsPlace DEF Needed, Without
<1>3. Appended = 18
  BY RulesInOrder DEF AtPlaces, Appended
<1>4. CASE Revises
  <2>1. Without(Needed, {"trend", "aggregate"}) \subseteq 1..17
    BY <1>2 DEF Without
  <2>2. Redrawn \subseteq 1..18
    BY <2>1, <1>3 DEF Redrawn
  <2>3. AskedFor \subseteq RulePlaces
    BY <2>2, <1>4 DEF AskedFor, RulePlaces
  <2>4. PlaceOf("profile") \in RulePlaces
    BY ProfileHasItsPlace DEF RulePlaces
  <2>5. QED
    BY <2>3, <2>4, <1>4 DEF RequestedCapabilities
<1>5. CASE ~Revises
  <2>1. RequestedCapabilities \subseteq 1..17
    BY <1>2, <1>5, ProfileHasItsPlace DEF AskedFor, RequestedCapabilities
  <2>2. QED
    BY <2>1 DEF RulePlaces
<1>6. QED
  BY <1>4, <1>5

(* What a rule wants and no artifact stands for is asked for.                *)
LEMMA WantedIsAsked ==
    ASSUME NEW k \in Wanted, CapabilityAt(k) \notin Reused,
           CapabilityAt(k) \notin {"trend", "aggregate"}
    PROVE  k \in RequestedCapabilities
<1>1. k \in Needed
  BY DEF Needed, Without
<1>2. k \in AskedFor
  BY <1>1 DEF AskedFor, Redrawn, Without
<1>3. QED
  BY <1>2 DEF RequestedCapabilities

LEMMA JoinsAreAssessed ==
    ASSUME 8 \in RequestedCapabilities
    PROVE  "join" \in words /\ 7 \in RequestedCapabilities
<1>1. 8 # PlaceOf("profile") /\ 8 # Appended
  BY RulesInOrder, ProfileHasItsPlace DEF AtPlaces, Appended
<1>2. 8 \in Wanted
  BY <1>1 DEF RequestedCapabilities, AskedFor, Redrawn, Needed, Without
<1>3. "join" \in words
  BY <1>2, RulesAsk DEF Wanted, Applies, Rule
<1>4. 7 \in Wanted
  BY <1>3, RulesAsk, RulesInOrder DEF AtPlaces, Wanted, Applies, Rule
<1>5. "preflight" \notin Reused
  BY DEF Reused
<1>6. QED
  BY <1>3, <1>4, <1>5, WantedIsAsked, RulesInOrder DEF AtPlaces

LEMMA ReportsAreAsked ==
    ASSUME "report" \in words
    PROVE  17 \in RequestedCapabilities
<1>1. 17 \in Wanted
  BY RulesAsk, RulesInOrder DEF AtPlaces, Wanted, Applies, Rule
<1>2. "report" \notin Reused
  BY DEF Reused
<1>3. QED
  BY <1>1, <1>2, WantedIsAsked, RulesInOrder DEF AtPlaces

LEMMA ChartsAreAsked ==
    ASSUME "chart" \in words, "chart" \notin artifacts
    PROVE  16 \in RequestedCapabilities
<1>1. 16 \in Wanted
  BY RulesAsk, RulesInOrder DEF AtPlaces, Wanted, Applies, Rule
<1>2. "chart" \notin Reused
  BY DEF Reused
<1>3. QED
  BY <1>1, <1>2, WantedIsAsked, RulesInOrder DEF AtPlaces

-----------------------------------------------------------------------------
(* The steps for what is asked for.                                          *)
StepsFit(sought) ==
    \A s \in StepsOf(sought) :
        /\ s.id \in sought /\ CapabilityAt(s.id) = s.capability /\ s.capability \in usable
        /\ s.after = WaitsFor({k \in sought : CapabilityAt(k) \in usable}, s.id)
        /\ s.after \subseteq {k \in Ids(StepsOf(sought)) : k < s.id}

LEMMA StepsAreFit ==
    ASSUME NEW sought \in SUBSET RulePlaces
    PROVE  /\ StepsFit(sought)
           /\ Ids(StepsOf(sought)) = {k \in sought : CapabilityAt(k) \in usable}
           /\ StepsOf(sought) \subseteq
                [id : RulePlaces, capability : usable, after : SUBSET RulePlaces]
<1> DEFINE places == {k \in sought : CapabilityAt(k) \in usable}
           StepAt(k) == [id |-> k, capability |-> CapabilityAt(k), after |-> WaitsFor(places, k)]
<1>1. StepsOf(sought) = {StepAt(k) : k \in places}
  BY DEF StepsOf
<1>2. \A k \in places : WaitsFor(places, k) \subseteq {j \in places : j < k}
  BY DEF WaitsFor
<1>3. Ids(StepsOf(sought)) = places
  <2>1. \A k \in places : StepAt(k).id = k
    OBVIOUS
  <2> HIDE DEF StepAt
  <2>2. QED
    BY <1>1, <2>1 DEF Ids
<1>4. \A s \in StepsOf(sought) :
        /\ s.id \in places /\ CapabilityAt(s.id) = s.capability /\ s.after = WaitsFor(places, s.id)
        /\ s \in [id : RulePlaces, capability : usable, after : SUBSET RulePlaces]
  <2> SUFFICES ASSUME NEW k \in places
               PROVE  /\ StepAt(k).id \in places
                      /\ CapabilityAt(StepAt(k).id) = StepAt(k).capability
                      /\ StepAt(k).after = WaitsFor(places, StepAt(k).id)
                      /\ StepAt(k) \in
                           [id : RulePlaces, capability : usable, after : SUBSET RulePlaces]
    <3> HIDE DEF StepAt
    <3>1. QED
      BY <1>1
  <2>1. WaitsFor(places, k) \in SUBSET RulePlaces /\ k \in RulePlaces /\ CapabilityAt(k) \in usable
    BY <1>2
  <2>2. QED
    BY <2>1
<1>5. QED
  BY <1>2, <1>3, <1>4 DEF StepsFit

LEMMA StepsAreFew ==
    ASSUME NEW sought \in SUBSET RulePlaces
    PROVE  /\ IsFiniteSet(sought) /\ IsFiniteSet(StepsOf(sought))
           /\ Cardinality(StepsOf(sought)) <= Cardinality(sought)
<1> DEFINE places == {k \in sought : CapabilityAt(k) \in usable}
           StepAt(k) == [id |-> k, capability |-> CapabilityAt(k), after |-> WaitsFor(places, k)]
           f == [k \in places |-> StepAt(k)]
<1>1. IsFiniteSet(sought)
  <2> DEFINE n == 18
  <2>0. n \in Nat
    OBVIOUS
  <2> HIDE DEF n
  <2>1. IsFiniteSet(1..n)
    BY <2>0, FS_Interval
  <2>2. QED
    BY <2>1, FS_Subset DEF RulePlaces, n
<1>2. /\ IsFiniteSet(places) /\ Cardinality(places) <= Cardinality(sought)
  BY <1>1, FS_Subset
<1>3. f \in Surjection(places, StepsOf(sought))
  <2>1. StepsOf(sought) = {StepAt(k) : k \in places}
    BY DEF StepsOf
  <2> HIDE DEF StepAt, places
  <2>2. QED
    BY <2>1 DEF Surjection
<1>4. IsFiniteSet(StepsOf(sought)) /\ Cardinality(StepsOf(sought)) <= Cardinality(places)
  BY <1>2, <1>3, FS_Surjection
<1>5. /\ Cardinality(sought) \in Nat /\ Cardinality(places) \in Nat
      /\ Cardinality(StepsOf(sought)) \in Nat
  BY <1>1, <1>2, <1>4, FS_CardinalityType
<1>6. QED
  BY <1>1, <1>2, <1>4, <1>5

LEMMA WhatIsAwaited ==
    ASSUME NEW p, NEW s \in p, NEW i \in s.after, i \in Ids(p)
    PROVE  i \in Ancestors(p, s)
  BY DEF Ancestors

(* No step waits for itself: what it waits for came before it.               *)
LEMMA StepsAreAcyclic ==
    ASSUME NEW sought \in SUBSET RulePlaces
    PROVE  Resolved(StepsOf(sought)) /\ Acyclic(StepsOf(sought))
<1> DEFINE p == StepsOf(sought)
<1>1. \A s \in p : s.id \in RulePlaces /\ s.after \subseteq {k \in Ids(p) : k < s.id}
  BY StepsAreFit DEF StepsFit
<1>2. Ids(p) \subseteq RulePlaces
  BY StepsAreFit
<1> HIDE DEF p
<1>3. ASSUME NEW s \in p
      PROVE  s.id \notin Ancestors(p, s)
  <2> DEFINE earlier == {k \in Ids(p) : k < s.id}
  <2>1. earlier \in SUBSET Ids(p) /\ s.after \subseteq earlier
    BY <1>1, <1>3
  <2>2. ClosedUnder(p, earlier)
    <3> SUFFICES ASSUME NEW t \in p, t.id \in earlier, NEW k \in t.after
                 PROVE  k \in earlier
      BY DEF ClosedUnder
    <3>1. k \in Ids(p) /\ k < t.id /\ t.id < s.id
      BY <1>1
    <3>2. k \in Nat /\ t.id \in Nat /\ s.id \in Nat
      BY <3>1, <1>1, <1>2, <1>3 DEF RulePlaces
    <3>3. k < s.id
      BY <3>1, <3>2
    <3>4. QED
      BY <3>1, <3>3
  <2>3. s.id \notin earlier
    BY <1>1, <1>3 DEF RulePlaces
  <2>4. QED
    BY <2>1, <2>2, <2>3 DEF Ancestors
<1>4. QED
  BY <1>1, <1>3 DEF Resolved, Acyclic, p

LEMMA StepsAreOrderly ==
    ASSUME NEW sought \in SUBSET RulePlaces,
           8 \in sought => 7 \in sought /\ "preflight" \in usable
    PROVE  Orderly(StepsOf(sought))
<1> DEFINE p == StepsOf(sought)
           places == {k \in sought : CapabilityAt(k) \in usable}
<1>1. ASSUME NEW s \in p, s.capability = "join"
      PROVE  \E t \in p : t.capability = "preflight" /\ t.id \in Ancestors(p, s)
  <2>0. StepsFit(sought) /\ Ids(p) = places
    BY StepsAreFit
  <2>1. s.id = 8 /\ 8 \in sought /\ s.after = WaitsFor(places, 8)
    BY <1>1, <2>0, RulesInOrder DEF StepsFit, AtPlaces
  <2>2. 7 \in places /\ 7 \in Ids(p)
    BY <2>0, <2>1, RulesInOrder DEF AtPlaces
  <2>3. CapabilityAt(8) # "trend" /\ CapabilityAt(8) # "report"
    BY RulesInOrder DEF AtPlaces
  <2>4. 7 \in WaitsFor(places, 8)
    BY <2>2, <2>3 DEF WaitsFor, RulePlaces
  <2>5. PICK t \in p : t.id = 7
    BY <2>2 DEF Ids
  <2>6. t.capability = "preflight"
    BY <2>0, <2>5, RulesInOrder DEF StepsFit, AtPlaces
  <2>7. t.id \in Ancestors(p, s)
    BY <2>1, <2>2, <2>4, <2>5, WhatIsAwaited
  <2>8. QED
    BY <2>6, <2>7
<1>2. QED
  BY <1>1, StepsAreAcyclic DEF Orderly, GuardedJoin

(* A report waits for all that comes before it, and only a chart that is     *)
(* revised comes after.                                                      *)
LEMMA ReportsComeLast ==
    ASSUME NEW sought \in SUBSET RulePlaces, 18 \in sought => Revises,
           NEW s \in StepsOf(sought), s.capability = "report", NEW t \in StepsOf(sought)
    PROVE  \/ t.id \in Ancestors(StepsOf(sought), s) \cup {s.id}
           \/ t.capability = "chart" /\ Revises
<1> DEFINE places == {k \in sought : CapabilityAt(k) \in usable}
<1>0. StepsFit(sought) /\ Ids(StepsOf(sought)) = places
  BY StepsAreFit
<1>1. s.id = 17 /\ s.after = WaitsFor(places, 17)
  BY <1>0, RulesInOrder DEF StepsFit, AtPlaces
<1>2. s.after = {k \in places : k < 17}
  BY <1>1, RulesInOrder DEF WaitsFor, AtPlaces
<1>3. /\ t.id \in places /\ t.id \in Ids(StepsOf(sought)) /\ t.id \in RulePlaces
      /\ t.capability = CapabilityAt(t.id)
  BY <1>0 DEF StepsFit
<1>4. CASE t.id < 17
  BY <1>2, <1>3, <1>4, WhatIsAwaited
<1>5. CASE t.id = 17
  BY <1>1, <1>5
<1>6. CASE t.id = 18
  BY <1>3, <1>6, RulesInOrder DEF AtPlaces
<1>7. QED
  BY <1>3, <1>4, <1>5, <1>6 DEF RulePlaces

-----------------------------------------------------------------------------
(* What the contract wants was in the request, which only grows; and one to  *)
(* explore wants nothing.                                                    *)
Promised ==
    /\ "chart" \in contract => words \cap {"chart", "graph"} # {}
    /\ "report" \in contract => "report" \in words
    /\ "explore" \in words => contract = {}

OutlineFits ==
    /\ hasData \in BOOLEAN /\ resolved \in BOOLEAN
    /\ contract \subseteq {"chart", "report"}
    /\ outline \subseteq [id : RulePlaces, capability : usable, after : SUBSET RulePlaces]
    /\ planning \in {"asked", "waiting", "planned", "revised", "failed"}

PlanServes == planning = "planned" => \A c \in contract : c \in artifacts \/ c \in Used(outline)

Reported ==
    planning = "planned" =>
        \A s, t \in outline : s.capability = "report" =>
            \/ t.id \in Ancestors(outline, s) \cup {s.id}
            \/ t.capability = "chart" /\ Revises

RefusedForAReason ==
    planning = "failed" =>
        \/ contract \ usable # {}
        \/ "graph" \in words
        \/ "join" \in words /\ "preflight" \notin usable
        \/ Cardinality(RequestedCapabilities) > MaxSteps
        \/ picked # "none" /\ ~hasData

OutlineInv ==
    OutlineFits /\ Promised /\ Orderly(outline) /\ PlanServes /\ Reported /\ RefusedForAReason

LEMMA OutlineStarts == OutlineInit => OutlineInv
<1> SUFFICES ASSUME OutlineInit PROVE OutlineInv
  OBVIOUS
<1>1. outline = {} /\ planning = "asked" /\ contract = Contract /\ words \in Requests
  BY DEF OutlineInit
<1>2. Orderly(outline)
  BY <1>1 DEF Orderly, Resolved, Acyclic, GuardedJoin
<1>3. "explore" \in words => contract = {}
  BY <1>1, TaskOutlineAssumption DEF Contract, ChartRequired
<1>4. Promised
  BY <1>1, <1>3 DEF Promised, Contract, ChartRequired
<1>5. OutlineFits
  BY <1>1 DEF OutlineInit, OutlineFits, Contract
<1>6. QED
  BY <1>1, <1>2, <1>4, <1>5 DEF OutlineInv, PlanServes, Reported, RefusedForAReason

(* What Outlined leaves is orderly, or was refused.                          *)
LEMMA OutlinedFits ==
    ASSUME OutlineInv, NEW sought \in SUBSET RulePlaces, Outlined(StepsOf(sought)),
           UNCHANGED <<words, hasData, artifacts, usable, resolved, contract>>
    PROVE  /\ OutlineFits' /\ Orderly(outline') /\ PlanServes'
           /\ planning' = "planned" => outline' = StepsOf(sought)
           /\ planning' = "failed" => ~Valid(StepsOf(sought))
<1> DEFINE p == StepsOf(sought)
<1>1. CASE Valid(p)
  <2>1. outline' = p /\ planning' = "planned"
    BY <1>1 DEF Outlined
  <2>2. OutlineFits'
    BY <2>1, StepsAreFit DEF OutlineInv, OutlineFits
  <2>3. PlanServes'
    BY <1>1, <2>1 DEF Valid, Unserved, PlanServes, Used
  <2>4. QED
    BY <1>1, <2>1, <2>2, <2>3 DEF Valid
<1>2. CASE ~Valid(p)
  <2>1. outline' = {} /\ planning' = "failed"
    BY <1>2 DEF Outlined
  <2>2. Orderly(outline')
    BY <2>1 DEF Orderly, Resolved, Acyclic, GuardedJoin
  <2>3. QED
    BY <1>2, <2>1, <2>2 DEF OutlineInv, OutlineFits, PlanServes
<1>3. QED
  BY <1>1, <1>2

(* A plan for the request fails its validation only for these reasons.       *)
LEMMA PlansAreValid ==
    ASSUME OutlineInv, contract \subseteq usable, "graph" \notin words,
           "join" \in words => "preflight" \in usable,
           Cardinality(RequestedCapabilities) <= MaxSteps
    PROVE  Valid(StepsOf(RequestedCapabilities))
<1> DEFINE p == StepsOf(RequestedCapabilities)
<1>1. Orderly(p)
  BY AskedInPlaces, JoinsAreAssessed, StepsAreOrderly
<1>2. Cardinality(p) <= MaxSteps
  <2>1. /\ IsFiniteSet(p) /\ IsFiniteSet(RequestedCapabilities)
        /\ Cardinality(p) <= Cardinality(RequestedCapabilities)
    BY AskedInPlaces, StepsAreFew
  <2>2. Cardinality(p) \in Nat /\ Cardinality(RequestedCapabilities) \in Nat
    BY <2>1, FS_CardinalityType
  <2>3. QED
    BY <2>1, <2>2, TaskOutlineAssumption
<1>3. ASSUME NEW k \in RequestedCapabilities, CapabilityAt(k) \in usable
      PROVE  CapabilityAt(k) \in Used(p)
  <2>1. k \in Ids(p)
    BY <1>3, AskedInPlaces, StepsAreFit
  <2>2. PICK s \in p : s.id = k
    BY <2>1 DEF Ids
  <2>3. s.capability = CapabilityAt(k)
    BY <2>2, AskedInPlaces, StepsAreFit DEF StepsFit
  <2>4. QED
    BY <2>3 DEF Used
<1>4. ASSUME "chart" \in contract \ artifacts
      PROVE  "chart" \in Used(p)
  <2>1. "chart" \in words /\ "chart" \in usable
    BY <1>4 DEF OutlineInv, Promised
  <2>2. 16 \in RequestedCapabilities
    BY <1>4, <2>1, ChartsAreAsked
  <2>3. QED
    BY <1>3, <2>1, <2>2, RulesInOrder DEF AtPlaces
<1>5. ASSUME "report" \in contract
      PROVE  "report" \in Used(p)
  <2>1. "report" \in words /\ "report" \in usable
    BY <1>5 DEF OutlineInv, Promised
  <2>2. 17 \in RequestedCapabilities
    BY <2>1, ReportsAreAsked
  <2>3. QED
    BY <1>3, <2>1, <2>2, RulesInOrder DEF AtPlaces
<1>6. Unserved(p) = {}
  BY <1>4, <1>5 DEF OutlineInv, OutlineFits, Unserved
<1>7. QED
  BY <1>1, <1>2, <1>6 DEF Valid

(* What is asked for depends on the request, the data and the artifacts.     *)
LEMMA SameRequest ==
    ASSUME UNCHANGED <<words, hasData, artifacts>>
    PROVE  RequestedCapabilities' = RequestedCapabilities /\ Revises' = Revises
<1>1. Revises' = Revises /\ Recomputes' = Recomputes
  BY DEF Revises, Recomputes
<1>2. Wanted' = Wanted /\ Reused' = Reused
  BY <1>1 DEF Wanted, Applies, Reused
<1>3. Needed' = Needed
  BY <1>2 DEF Needed
<1>4. AskedFor' = AskedFor
  BY <1>1, <1>3 DEF AskedFor, Redrawn
<1>5. QED
  BY <1>1, <1>4 DEF RequestedCapabilities

LEMMA CreateOutlineStep == OutlineInv /\ CreateOutline => OutlineInv'
<1> SUFFICES ASSUME OutlineInv, CreateOutline PROVE OutlineInv'
  OBVIOUS
<1> DEFINE p == StepsOf(RequestedCapabilities)
<1>1. /\ UNCHANGED <<words, hasData, artifacts, usable, resolved, contract, picked>>
      /\ Outlined(p) /\ RequestedCapabilities \in SUBSET RulePlaces
  BY AskedInPlaces DEF CreateOutline
<1>2. /\ OutlineFits' /\ Orderly(outline') /\ PlanServes'
      /\ planning' = "planned" => outline' = p
      /\ planning' = "failed" => ~Valid(p)
  BY <1>1, OutlinedFits
<1>3. Promised'
  BY <1>1 DEF OutlineInv, Promised
<1>4. Revises' = Revises /\ RequestedCapabilities' = RequestedCapabilities
  BY <1>1, SameRequest
<1>5. Reported'
  <2> SUFFICES ASSUME planning' = "planned", NEW s \in p, NEW t \in p, s.capability = "report"
               PROVE  \/ t.id \in Ancestors(p, s) \cup {s.id}
                      \/ t.capability = "chart" /\ Revises
    BY <1>2, <1>4 DEF Reported
  <2>1. QED
    BY <1>1, AskedInPlaces, ReportsComeLast
<1>6. RefusedForAReason'
  <2> SUFFICES ASSUME planning' = "failed", contract \ usable = {}, "graph" \notin words,
                      ~("join" \in words /\ "preflight" \notin usable)
               PROVE  Cardinality(RequestedCapabilities) > MaxSteps
    BY <1>1, <1>4 DEF RefusedForAReason
  <2>1. Cardinality(RequestedCapabilities) \in Nat
    BY <1>1, StepsAreFew, FS_CardinalityType
  <2>2. ~(Cardinality(RequestedCapabilities) <= MaxSteps)
    BY <1>2, PlansAreValid
  <2>3. QED
    BY <2>1, <2>2, TaskOutlineAssumption
<1>7. QED
  BY <1>2, <1>3, <1>5, <1>6 DEF OutlineInv

LEMMA ChooseStep ==
    ASSUME OutlineInv, NEW test \in usable, Choose(test)
    PROVE  OutlineInv'
<1> DEFINE sought == {PlaceOf(test)}
           p == StepsOf(sought)
<1>1. /\ UNCHANGED <<words, hasData, artifacts, usable, resolved, contract>>
      /\ picked' = test /\ test # "none" /\ contract = {} /\ "explore" \in words
      /\ test \in {"trend", "anomaly", "compare", "correlation"}
  BY DEF Choose, Offered, OutlineInv, Promised
<1>2. PlaceOf(test) \in 1..17 /\ CapabilityAt(PlaceOf(test)) = test
  BY <1>1, AnalysesHaveTheirPlace
<1>3. sought \in SUBSET RulePlaces
  BY <1>2 DEF RulePlaces
<1>4. Promised'
  BY <1>1 DEF OutlineInv, Promised
<1>5. CASE hasData
  <2>1. Outlined(p)
    BY <1>5 DEF Choose
  <2>2. /\ OutlineFits' /\ Orderly(outline') /\ PlanServes'
        /\ planning' = "planned" => outline' = p
        /\ planning' = "failed" => ~Valid(p)
    BY <1>1, <1>3, <2>1, OutlinedFits
  <2>3. Reported'
    <3>1. \A s \in p : s.capability # "report"
      BY <1>1, <1>2, <1>3, StepsAreFit DEF StepsFit
    <3>2. QED
      BY <2>2, <3>1 DEF Reported
  <2>4. RefusedForAReason'
    <3> SUFFICES ASSUME ~Valid(p)
                 PROVE  Cardinality(RequestedCapabilities) > MaxSteps
      BY <1>1, <2>2, SameRequest DEF RefusedForAReason
    <3>1. 8 \notin sought
      BY <1>1, <1>2, RulesInOrder DEF AtPlaces
    <3>2. Orderly(p) /\ Unserved(p) = {}
      BY <1>1, <1>3, <3>1, StepsAreOrderly DEF Unserved
    <3>3. Cardinality(sought) = 1 /\ Cardinality(p) <= 1 /\ Cardinality(p) \in Nat
      BY <1>3, StepsAreFew, FS_Singleton, FS_CardinalityType
    <3>4. ~(Cardinality(p) <= MaxSteps)
      BY <3>2 DEF Valid
    <3>5. MaxSteps = 0
      <4> HIDE DEF p
      <4>1. QED
        BY <3>3, <3>4, TaskOutlineAssumption
    <3>6. RequestedCapabilities # {} /\ IsFiniteSet(RequestedCapabilities)
      BY <1>1, <1>5, AskedInPlaces, StepsAreFew DEF RequestedCapabilities
    <3>7. Cardinality(RequestedCapabilities) \in Nat /\ Cardinality(RequestedCapabilities) # 0
      BY <3>6, FS_CardinalityType, FS_EmptySet
    <3>8. QED
      BY <3>5, <3>7
  <2>5. QED
    BY <1>4, <2>2, <2>3, <2>4 DEF OutlineInv
<1>6. CASE ~hasData
  <2>1. planning' = "failed" /\ outline' = outline
    BY <1>6 DEF Choose
  <2>2. QED
    BY <1>1, <1>4, <1>6, <2>1
       DEF OutlineInv, OutlineFits, PlanServes, Reported, RefusedForAReason, Orderly, Resolved,
           Acyclic, GuardedJoin
<1>7. QED
  BY <1>5, <1>6 DEF OutlineInv, OutlineFits

(* A user changes steps of the outline, and never what they are for.         *)
LEMMA EditsFit ==
    ASSUME OutlineFits, NEW s \in outline, NEW p \in Edits(s)
    PROVE  p \subseteq [id : RulePlaces, capability : usable, after : SUBSET RulePlaces]
<1> DEFINE Step == [id : RulePlaces, capability : usable, after : SUBSET RulePlaces]
<1>1. outline \subseteq Step
  BY DEF OutlineFits
<1>2. \A t \in Step, after \in SUBSET RulePlaces : [t EXCEPT !.after = after] \in Step
  OBVIOUS
<1>3. Ids(outline) \subseteq RulePlaces
  BY <1>1 DEF Ids
<1>4. ASSUME NEW after \in SUBSET RulePlaces
      PROVE  Edited(s, after) \subseteq Step
  BY <1>1, <1>2 DEF Edited
<1>5. CASE p = outline \ {s}
  BY <1>1, <1>5
<1>6. CASE p = Edited(s, {})
  BY <1>4, <1>6
<1>7. CASE \E j \in Ids(outline) : p = Edited(s, {j})
  BY <1>3, <1>4, <1>7
<1>8. CASE p = {[t EXCEPT !.after = @ \ {s.id}] : t \in outline \ {s}}
  <2>1. \A t \in outline : [t EXCEPT !.after = @ \ {s.id}] \in Step
    BY <1>1
  <2>2. QED
    BY <1>8, <2>1
<1>9. QED
  BY <1>5, <1>6, <1>7, <1>8 DEF Edits

LEMMA UserRevisesStep ==
    ASSUME OutlineInv, NEW s \in outline, NEW p \in Edits(s), UserRevises(p)
    PROVE  OutlineInv'
<1>1. /\ UNCHANGED <<words, hasData, artifacts, usable, resolved, contract, picked>>
      /\ outline' = p /\ planning' = "revised" /\ Orderly(p)
  BY DEF UserRevises
<1>2. p \subseteq [id : RulePlaces, capability : usable, after : SUBSET RulePlaces]
  BY EditsFit DEF OutlineInv
<1>3. QED
  BY <1>1, <1>2
     DEF OutlineInv, OutlineFits, Promised, PlanServes, Reported, RefusedForAReason

(* All else leaves the outline alone.                                        *)
Aside == AskFirst \/ DeleteData \/ \E w \in Additions : AddWord(w)

LEMMA OtherStep ==
    ASSUME OutlineInv, Aside \/ UNCHANGED outlineVars
    PROVE  OutlineInv'
<1>1. CASE Aside
  <2>1. /\ UNCHANGED <<artifacts, usable, resolved, contract, outline>>
        /\ words \subseteq words' /\ ("explore" \in words' => "explore" \in words)
        /\ hasData' \in BOOLEAN /\ planning' \in {"asked", "waiting"}
    BY <1>1, TaskOutlineAssumption
       DEF Aside, AskFirst, DeleteData, AddWord, OutlineInv, OutlineFits
  <2>2. Promised'
    BY <2>1 DEF OutlineInv, Promised
  <2>3. Orderly(outline')
    BY <2>1 DEF OutlineInv
  <2>4. QED
    BY <2>1, <2>2, <2>3
       DEF OutlineInv, OutlineFits, PlanServes, Reported, RefusedForAReason
<1>2. CASE UNCHANGED outlineVars
  <2>1. Revises' = Revises /\ RequestedCapabilities' = RequestedCapabilities
    BY <1>2, SameRequest DEF outlineVars
  <2>2. QED
    BY <1>2, <2>1
       DEF outlineVars, OutlineInv, OutlineFits, Promised, PlanServes, Reported, RefusedForAReason
<1>3. QED
  BY <1>1, <1>2

(* A plan serves its contract and can be carried out: whatever the user      *)
(* asks, answers, deletes and edits and whatever capabilities there are, the *)
(* outline of a planned run makes what the contract wants or has it already, *)
(* no step waits for itself or for one that is not there, a join comes after *)
(* its preflight and a report after all it reports on but a chart revised; a *)
(* request is refused only for the reasons listed (task_outline.py,          *)
(* task_plan_contract.py).                                                   *)
THEOREM OutlinesServe == OutlineSpec => []OutlineSound
<1>1. OutlineInv /\ [OutlineNext]_outlineVars => OutlineInv'
  <2> SUFFICES ASSUME OutlineInv, [OutlineNext]_outlineVars PROVE OutlineInv'
    OBVIOUS
  <2>1. CASE CreateOutline
    BY <2>1, CreateOutlineStep
  <2>2. CASE \E c \in usable : Choose(c)
    BY <2>2, ChooseStep
  <2>3. CASE \E s \in outline : \E p \in Edits(s) : UserRevises(p)
    BY <2>3, UserRevisesStep
  <2>4. CASE Aside \/ UNCHANGED outlineVars
    BY <2>4, OtherStep
  <2>5. QED
    BY <2>1, <2>2, <2>3, <2>4 DEF OutlineNext, Aside
<1>2. OutlineInv => OutlineSound
  <2> SUFFICES ASSUME OutlineInv PROVE OutlineSound
    OBVIOUS
  <2>1. OutlineTypeOK
    BY DEF OutlineInv, OutlineFits, OutlineTypeOK, Used
  <2>2. QED
    BY <2>1
       DEF OutlineInv, OutlineSound, PlanServes, Reported, RefusedForAReason, Orderly, Resolved,
           Acyclic, GuardedJoin
<1>3. QED
  BY <1>1, <1>2, OutlineStarts, PTL DEF OutlineSpec
=============================================================================
