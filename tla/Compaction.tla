----------------------------- MODULE Compaction -----------------------------
(* What a run is shown of its conversation: the older messages as a        *)
(* compaction (session/compaction.py), the newest ones as they are         *)
(* (agent_loop._history_messages).  Uploads write messages at any time,    *)
(* hosts crash, are resumed from the checkpoint, perhaps by a process with *)
(* other settings.  What its words refer to is resolved beside it          *)
(* (References).                                                           *)
EXTENDS References, Integers

CONSTANTS
    Settings,     \* deployments: records with trigger, keep and history
    MaxTalk, MaxRuns \* bounds of the model

VARIABLES
    settings, \* of the running process
    talk,     \* the messages by created_at, each a number that grows as they are written
    late,     \* where the messages of an upload will stand that have their time but are not written
    versions, \* the rows of conversation_compactions
    readings,    \* runs readings
    reader,   \* the latest run
    reading,    \* what its host does
    shown     \* what the host shows the model: a view and messages

compactionVars == <<settings, talk, late, versions, readings, reader, reading, shown>>

ASSUME CompactionAssumption ==
    /\ \A s \in Settings : s.trigger \in Nat /\ {s.keep, s.history} \subseteq Nat \ {0}
    /\ {MaxTalk, MaxRuns} \subseteq Nat
-----------------------------------------------------------------------------
(* View 0 is no compaction.                                                *)

Covered(v) == IF v = 0 THEN <<>> ELSE versions[v].covered
Older == SubSeq(talk, 1, Len(talk) - settings.keep)
Due == Len(talk) > settings.trigger /\ Len(talk) > settings.keep
Same == {v \in DOMAIN versions : versions[v] = [covered |-> Older, by |-> settings]}

\* Mutant: the window is the newest messages, covered or not.
WindowOfAll(v) == {talk[i] : i \in {j \in DOMAIN talk : Len(talk) - j < settings.history}}

\* The newest of the messages that the view does not cover.
Window(v) ==
    LET raw == {i \in DOMAIN talk : talk[i] \notin ToSet(Covered(v))}
    IN {talk[i] : i \in {j \in raw : Cardinality({k \in raw : k > j}) < settings.history}}

NewMessage == Len(talk) + 1
NoReader == [status |-> "ended", snapshot |-> {}, opened |-> {}]
NothingShown == [view |-> 0, window |-> {}]
Reads(statuses) == reader.status \in statuses
-----------------------------------------------------------------------------
CompactionInit ==
    /\ settings \in Settings
    /\ talk = <<>> /\ late = {} /\ versions = <<>>
    /\ readings = 0 /\ reader = NoReader /\ reading = "none" /\ shown = NothingShown

(* SessionStore.record_profile_upload: two messages, with the time at which *)
(* the request began.                                                      *)
StampUpload ==
    /\ late = {} /\ Len(talk) + 2 <= MaxTalk
    /\ late' = {Len(talk)}
    /\ UNCHANGED <<settings, talk, versions, readings, reader, reading, shown>>

CommitUpload ==
    /\ \E at \in late :
           talk' = SubSeq(talk, 1, at) \o <<NewMessage, NewMessage + 1>> \o SubSeq(talk, at + 1, Len(talk))
    /\ late' = {}
    /\ UNCHANGED <<settings, versions, readings, reader, reading, shown>>

StartReader ==
    /\ reading = "none" /\ Reads({"ended"}) /\ readings < MaxRuns /\ Len(talk) < MaxTalk
    /\ talk' = Append(talk, NewMessage)
    /\ readings' = readings + 1
    /\ reader' = [NoReader EXCEPT !.status = "planning"]
    /\ reading' = "started"
    /\ UNCHANGED <<settings, late, versions, shown>>

\* CompactionStore.compact_if_needed, in one transaction.
Compact ==
    /\ reading = "started"
    /\ versions' = IF Due /\ Same = {}
                   THEN Append(versions, [covered |-> Older, by |-> settings]) ELSE versions
    /\ shown' = [shown EXCEPT !.view = IF Due /\ Same # {} THEN Max(Same) ELSE Len(versions')]
    /\ reading' = "compacted"
    /\ UNCHANGED <<settings, talk, late, readings, reader>>

\* Mutant: a resumed run makes a snapshot of its own.
FrozenAnew(view) == {view}

\* MemoryStore.create_snapshot: the first one of a run stays.
Frozen(view) == IF reader.snapshot = {} THEN {view} ELSE reader.snapshot

LoadContext ==
    /\ reading = "compacted"
    /\ reader' = [reader EXCEPT !.snapshot = Frozen(shown.view),
                                !.opened = IF @ = {} THEN Frozen(shown.view) ELSE @]
    /\ \E view \in Frozen(shown.view) : shown' = [view |-> view, window |-> Window(view)]
    /\ reading' = "loaded"
    /\ UNCHANGED <<settings, talk, late, versions, readings>>

(* The first host plans: it works, or asks and returns; another host works *)
(* from the plan.                                                          *)
PlanReader(asks) ==
    /\ reading = "loaded"
    /\ Reads({"running"}) => ~asks
    /\ reader' = [reader EXCEPT !.status = IF asks THEN "waiting_user" ELSE "running"]
    /\ IF asks THEN /\ Len(talk) < MaxTalk /\ talk' = Append(talk, NewMessage)
                    /\ reading' = "none" /\ shown' = NothingShown
       ELSE reading' = "working" /\ UNCHANGED <<talk, shown>>
    /\ UNCHANGED <<settings, late, versions, readings>>

\* A new host, for the answer or from the checkpoint: it makes no compaction.
ResumeReader ==
    /\ reading = "none" /\ Reads({"waiting_user", "paused"})
    /\ reader' = [reader EXCEPT !.status = IF @ = "paused" THEN "running" ELSE "planning"]
    /\ reading' = "compacted"
    /\ UNCHANGED <<settings, talk, late, versions, readings, shown>>

EndReader(answers) ==
    /\ reading = "working" \/ (reading = "none" /\ ~answers /\ Reads({"waiting_user", "paused"}))
    /\ answers => Len(talk) < MaxTalk
    /\ talk' = IF answers THEN Append(talk, NewMessage) ELSE talk
    /\ reader' = NoReader /\ reading' = "none" /\ shown' = NothingShown
    /\ UNCHANGED <<settings, late, versions, readings>>

(* The process dies and another starts.  A run in planning cannot go on.   *)
RestartReader(s) ==
    /\ settings' = s
    /\ late' = {}
    /\ reading' = "none" /\ shown' = NothingShown
    /\ reader' = IF Reads({"planning"}) THEN NoReader
                 ELSE IF Reads({"running"}) THEN [reader EXCEPT !.status = "paused"] ELSE reader
    /\ UNCHANGED <<talk, versions, readings>>

CompactionNext ==
    \/ StampUpload
    \/ CommitUpload
    \/ StartReader
    \/ Compact
    \/ LoadContext
    \/ \E asks \in BOOLEAN : PlanReader(asks)
    \/ ResumeReader
    \/ \E answers \in BOOLEAN : EndReader(answers)
    \/ \E s \in Settings : RestartReader(s)

CompactionSpec == CompactionInit /\ [][CompactionNext]_compactionVars
-----------------------------------------------------------------------------
CompactionTypeOK ==
    /\ settings \in Settings
    /\ ToSet(talk) = 1..Len(talk) /\ Len(talk) <= MaxTalk + 2
    /\ late \subseteq 0..Len(talk) /\ Cardinality(late) <= 1
    /\ \A v \in DOMAIN versions : versions[v].by \in Settings /\ ToSet(Covered(v)) \subseteq ToSet(talk)
    /\ readings \in 0..MaxRuns
    /\ reader.status \in {"planning", "waiting_user", "running", "paused", "ended"}
    /\ reader.snapshot \cup reader.opened \subseteq 0..Len(versions)
    /\ reading \in {"none", "started", "compacted", "loaded", "working"}
    /\ shown.view \in 0..Len(versions) /\ shown.window \subseteq ToSet(talk)

(* All hosts of a run see the conversation through the compaction its first *)
(* host saw, through crashes, late uploads and changed settings, and none is *)
(* shown a message twice, once summed up and once as it is.                *)
ViewStands ==
    reading \in {"loaded", "working"} =>
        /\ reader.opened = {shown.view}
        /\ ToSet(Covered(shown.view)) \cap shown.window = {}

(* Under the same settings later versions cover what the earlier ones cover *)
(* and more, although an upload may write its messages between older ones; *)
(* so a summary never loses what a former one told.                        *)
CoverageGrows ==
    \A v, w \in DOMAIN versions :
        v < w /\ versions[v].by = versions[w].by
        => ToSet(Covered(v)) \subseteq ToSet(Covered(w)) /\ Covered(v) # Covered(w)

ContextSound == ViewStands /\ CoverageGrows

(* What a run works on is what it was asked of, in the words of its whole    *)
(* conversation.                                                             *)
ContextKept == ReferencesStand /\ ContextSound
=============================================================================
