----------------------------- MODULE ModelTurn -----------------------------
(* One turn of a model (ModelGateway.stream_turn, dsml.py): the candidates   *)
(* of a route are tried in order, the text of one is handed on as it comes,  *)
(* and calls that a model writes into its text are turned into calls.  Text  *)
(* is a sequence of signs: "<", "!" open a block of calls and ">" closes it, *)
(* "c" is a call of an offered tool, "_" is blank.                           *)
EXTENDS Naturals, SequencesExt

CONSTANTS
    Route,       \* the candidates in order: whether each supports tools
    Spoken,      \* what a model may say: sequences of signs
    MaxPiece     \* bound of the model: signs a piece of the stream has

VARIABLES
    withTools,   \* tools are offered with the request
    candidate,   \* the candidate that is asked
    utterance,   \* what it says
    position,    \* how much of it came
    held,        \* text that is held back (pending_text)
    emitted,     \* text of this candidate that was handed on
    handed,      \* all that was handed on: signs with the candidate they are of
    opened,      \* an opening mark was seen (dsml_detected)
    answered,    \* the response handed on, as a set of at most one
    ending       \* streaming, done, raised or exhausted

modelVars == <<withTools, candidate, utterance, position, held, emitted, handed,
               opened, answered, ending>>

ASSUME ModelTurnAssumption ==
    Route \in Seq(BOOLEAN) /\ Spoken \subseteq Seq(STRING) /\ MaxPiece \in Nat
-----------------------------------------------------------------------------
Mark(text, i) == i + 1 \in DOMAIN text /\ text[i] = "<" /\ text[i + 1] = "!"
Marks(text) == {i \in DOMAIN text : Mark(text, i)}

\* Mutant: a mark that is cut in two by the stream is not held back.
HeldOfNothing(text) == 0
(* dsml_marker_suffix_length *)
HeldBack(text) == IF text # <<>> /\ Last(text) = "<" THEN 1 ELSE 0

(* The blocks of calls, by their first and last sign.                        *)
CallBlocks(text) ==
    {b \in Marks(text) \X DOMAIN text :
        /\ text[b[2]] = ">" /\ b[2] > b[1]
        /\ \A k \in (b[1] + 1)..(b[2] - 1) : text[k] # ">"
        /\ \A i \in Marks(text) : i < b[1] => \E k \in i..b[1] : text[k] = ">"}
Body(text, b) == {text[k] : k \in (b[1] + 2)..(b[2] - 1)}
(* The signs at some places of a text, in their order.                       *)
Nth(places, k) == CHOOSE i \in places : Cardinality({j \in places : j < i}) = k - 1
Pick(text, kept) == [k \in 1..Cardinality(kept) |-> text[Nth(kept, k)]]
Cleaned(text) ==
    LET solid == {k \in DOMAIN text : text[k] # "_"}
    IN Pick(text, solid \cup {k \in DOMAIN text \ solid :
                                 /\ \E i \in solid : i < k
                                 /\ \E i \in solid : i > k
                                 /\ text[k - 1] # "_"})
Unblocked(text) ==
    Pick(text, {k \in DOMAIN text : \A b \in CallBlocks(text) : k \notin b[1]..b[2]})

(* normalize_dsml_tool_response: blocks of calls leave the text.  Refused is *)
(* a text whose blocks ask for what was not offered or for nothing at all.   *)
Refused(text) ==
    /\ Marks(text) # {}
    /\ \/ \E b \in CallBlocks(text) : Body(text, b) \ {"c", "_"} # {}
       \/ \A b \in CallBlocks(text) : "c" \notin Body(text, b)
Normalized(text) ==
    IF Marks(text) = {} THEN [content |-> text, calls |-> FALSE]
    ELSE [content |-> Cleaned(Unblocked(text)), calls |-> TRUE]
-----------------------------------------------------------------------------
Afresh == position = 0 /\ held = <<>> /\ emitted = <<>> /\ opened = FALSE

ModelInit ==
    /\ withTools \in BOOLEAN /\ candidate = 1 /\ utterance \in Spoken
    /\ Afresh /\ handed = <<>> /\ answered = {} /\ ending = "streaming"

Started == emitted # <<>> \/ answered # {}

Asked(c) == c \in DOMAIN Route
Streaming == ending = "streaming" /\ Asked(candidate)
Usable == Streaming /\ (withTools => Route[candidate])

(* The next candidate is asked, with whatever it says.                       *)
NextCandidate ==
    /\ candidate' = candidate + 1 /\ utterance' \in Spoken
    /\ position' = 0 /\ held' = <<>> /\ emitted' = <<>> /\ opened' = FALSE
    /\ UNCHANGED <<withTools, handed, answered, ending>>

(* A candidate without tools is not asked when tools are offered.            *)
SkipCandidate == Streaming /\ withTools /\ ~Route[candidate] /\ NextCandidate

HandOn(text) ==
    /\ emitted' = emitted \o text
    /\ handed' = handed \o [k \in DOMAIN text |-> [of |-> candidate, sign |-> text[k]]]

(* A piece of text: it is handed on up to an opening mark, and but for a     *)
(* sign that may begin one.                                                  *)
Piece(n) ==
    LET text == held \o SubSeq(utterance, position + 1, position + n)
        safe == IF ~withTools THEN text
                ELSE IF opened THEN <<>>
                ELSE IF Marks(text) # {} THEN SubSeq(text, 1, Min(Marks(text)) - 1)
                ELSE SubSeq(text, 1, Len(text) - HeldBack(text))
    IN /\ Usable /\ position + n <= Len(utterance)
       /\ position' = position + n
       /\ held' = SubSeq(text, Len(safe) + 1, Len(text))
       /\ opened' = (opened \/ (withTools /\ Marks(text) # {}))
       /\ HandOn(safe)
       /\ UNCHANGED <<withTools, candidate, utterance, answered, ending>>

(* Nothing was handed on: the next candidate is asked.  Otherwise the error  *)
(* goes to the caller: nobody is shown the texts of two models as one.       *)
\* Mutant: the next candidate is asked whatever was handed on.
GiveUpOnCandidateAlways == NextCandidate
GiveUpOnCandidate ==
    IF Started
    THEN ending' = "raised" /\ UNCHANGED <<withTools, candidate, utterance, position, held,
                                            emitted, handed, opened, answered>>
    ELSE NextCandidate

ProviderFails == Usable /\ GiveUpOnCandidate

Response == IF withTools THEN Normalized(utterance) ELSE [content |-> utterance, calls |-> FALSE]
CameWhole(text) == position = Len(text)

(* The response that ends the stream: what it adds to the text is handed on, *)
(* what is blank may be less.                                                *)
FinishResponse ==
    /\ Usable /\ CameWhole(utterance)
    /\ ~(withTools /\ Refused(utterance))
    /\ \/ /\ withTools /\ IsPrefix(emitted, Response.content)
          /\ HandOn(SubSeq(Response.content, Len(emitted) + 1, Len(Response.content)))
       \/ /\ \/ ~withTools
             \/ IsStrictPrefix(Response.content, emitted)
          /\ UNCHANGED <<emitted, handed>>
    /\ held' = <<>> /\ answered' = {Response} /\ ending' = "done"
    /\ UNCHANGED <<withTools, candidate, utterance, position, opened>>

(* A response whose calls are refused, or whose text is not what was handed  *)
(* on, is an error of the candidate.                                         *)
RefuseResponse ==
    /\ Usable /\ CameWhole(utterance) /\ withTools
    /\ \/ Refused(utterance)
       \/ ~IsPrefix(emitted, Response.content) /\ ~IsPrefix(Response.content, emitted)
    /\ GiveUpOnCandidate

NobodyLeft ==
    /\ ending = "streaming" /\ ~Asked(candidate)
    /\ ending' = "exhausted"
    /\ UNCHANGED <<withTools, candidate, utterance, position, held, emitted, handed,
                   opened, answered>>

ModelNext ==
    \/ SkipCandidate
    \/ \E n \in 1..MaxPiece : Piece(n)
    \/ ProviderFails
    \/ FinishResponse
    \/ RefuseResponse
    \/ NobodyLeft

ModelSpec == ModelInit /\ [][ModelNext]_modelVars
-----------------------------------------------------------------------------
ModelTypeOK ==
    /\ withTools \in BOOLEAN /\ candidate \in 1..(Len(Route) + 1) /\ utterance \in Spoken
    /\ position \in 0..Len(utterance) /\ opened \in BOOLEAN
    /\ ending \in {"streaming", "done", "raised", "exhausted"}

Text(signs) == [k \in DOMAIN signs |-> signs[k].sign]
Blank(text) == \A k \in DOMAIN text : text[k] = "_"
(* A block of calls after which another one is cut short.                    *)
CutShort == CallBlocks(utterance) # {} /\ Marks(Unblocked(utterance)) # {}

(* What a turn hands on is the text of one model, which could take the       *)
(* tools that were offered; the marks of calls are not in it (but for a      *)
(* block cut short after a whole one), nor is any sign lost: it is the text  *)
(* of the response, but for blanks at its end.                               *)
StreamSound ==
    /\ ModelTypeOK
    /\ \A i, j \in DOMAIN handed : handed[i].of = handed[j].of
    /\ handed # <<>> => handed[1].of = candidate /\ (withTools => Route[candidate])
    /\ withTools /\ Marks(Text(handed)) # {} => ending = "done" /\ CutShort
    /\ ending = "exhausted" => handed = <<>>
    /\ \A r \in answered :
          /\ IsPrefix(r.content, Text(handed))
          /\ Blank(SubSeq(Text(handed), Len(r.content) + 1, Len(Text(handed))))
          /\ r.calls => withTools
=============================================================================
