----------------------------- MODULE AgentHost -----------------------------
(* Who acts on a run, and when.  The hosts of a run (stream_agent_chat in    *)
(* apps/orchestrator/agent_loop.py) and the request handlers of              *)
(* apps/api/routers/agent_runs.py read the run, await, and write with the    *)
(* version they read; they meet again in the signals of the host's           *)
(* ManagedRunControl.  TaskRun takes a read and its transaction as one step; *)
(* here they are apart, and the rows are reduced to what the guards read.    *)
EXTENDS Naturals

CONSTANTS
    Handlers,      \* requests that can be handled at the same time
    Messages,      \* what clients send, any number of times: a command, the key that
                   \* tells a repetition, and the question an answer is for
    MaxHosts,      \* bound: hosts the run may have in its life
    MaxQuestions,  \* bound: clarifications the run may ask
    None           \* Python's None

Hosts == 1..MaxHosts
Questions == 1..MaxQuestions

\* resume stands for the retry of a step too: both continue a paused run.
Commands == {"pause", "resume", "answer", "cancel"}

ASSUME HostAssumption ==
    /\ \A m \in Messages : m.command \in Commands /\ m.question \in Questions
    /\ \A m, n \in Messages : m.key = n.key => m = n
    /\ MaxHosts \in Nat \ {0}
    /\ MaxQuestions \in Nat
    /\ Handlers \cap Hosts = {} /\ None \notin Hosts

VARIABLES
    status,      \* task_runs.status
    calls,       \* whether a tool_invocations row is running or unknown
    asked,       \* clarification questions asked; a host awaits the last
    applied,     \* the keys of control commands that were applied
    fresh,       \* who holds the current state_version: hosts, and requests by If-Match
    registered,  \* the host in AgentRunManager._runs
    phase,       \* where each host is
    runnable,    \* hosts whose control._runnable is set
    cancelled,   \* hosts whose control._cancelled is set
    heard,       \* the questions each host's control was given an answer to
    stage,       \* where each handler is
    message,     \* what it handles
    saw,         \* the status it last read, if it uses it
    found,       \* the host it found
    lost         \* a request failed after its command had been applied

rowVars == <<status, calls, asked, applied, fresh>>
controlVars == <<runnable, cancelled, heard>>
requestVars == <<stage, message, saw, found, lost>>
hostVars == <<rowVars, registered, phase, controlVars, requestVars>>
-----------------------------------------------------------------------------
RunStatus == {"planning", "waiting_user", "running", "verifying", "paused",
              "completed", "blocked", "failed", "cancelled"}
Terminal == {"completed", "blocked", "failed", "cancelled"}
Rest == {"paused", "waiting_user"}
Active == {"planning", "running", "verifying"}

(* idle: not started.  plan, planned / replan, replanned: before and after   *)
(* the outline is saved, first or after an answer.  await: for an answer;    *)
(* answered: before the run is read again.  recover, reload: a recovered     *)
(* host before its first read, to go on or to plan.  boundary: on its way to *)
(* wait_until_runnable; waiting: in it; woken: released.  look: before the   *)
(* read that follows.  work: free to act.  calling, frontier: a call or a    *)
(* frontier is executing.  commit, gather: before the write of its result.   *)
(* halt: before the run is blocked.  failing: an exception reached           *)
(* stream_agent_chat.  leaving, terminating: in its finally, before and      *)
(* after the status is read.                                                 *)
Phases == {"idle", "plan", "planned", "replan", "replanned", "await", "answered",
           "recover", "reload", "boundary", "waiting", "woken", "look", "work", "calling",
           "frontier", "commit", "gather", "halt", "verify", "failing", "leaving",
           "terminating", "finished"}
Executing == {"calling", "frontier", "commit", "gather"}

(* idle; read: a pause has read the run; sent: before the transaction;       *)
(* applied, replayed, refused: how that went.                                *)
Stages == {"idle", "read", "sent", "applied", "replayed", "refused"}

LiveHosts == {h \in Hosts : phase[h] \notin {"idle", "finished"}}

\* control_for: the host requests can reach.
Reached == IF registered \in LiveHosts THEN registered ELSE None

\* No handler is between its look at the manager and its answer.
Quiet == \A r \in Handlers : stage[r] \in {"idle", "read"}

Abandoned == IF calls = "running" THEN "unknown" ELSE calls

Init ==
    /\ status = "planning"
    /\ calls = "none"
    /\ asked = 0
    /\ applied = {}
    /\ fresh = {1}
    /\ registered = 1
    /\ phase = [h \in Hosts |-> IF h = 1 THEN "plan" ELSE "idle"]
    /\ runnable = Hosts
    /\ cancelled = {}
    /\ heard = [h \in Hosts |-> {}]
    /\ stage = [r \in Handlers |-> "idle"]
    /\ message = [r \in Handlers |-> None]
    /\ saw = [r \in Handlers |-> None]
    /\ found = [r \in Handlers |-> None]
    /\ lost = FALSE
-----------------------------------------------------------------------------
(* The host.                                                                 *)
Goes(h, from, to) == phase[h] = from /\ phase' = [phase EXCEPT ![h] = to]

\* A transaction with the version the host holds; it returns the new one.
Writes(h, st) ==
    /\ h \in fresh
    /\ fresh' = {h}
    /\ status' = st

\* get_run: the host goes on with what it read, or gives up.
Reads(h, from, expected, to) ==
    /\ phase[h] = from
    /\ phase' = [phase EXCEPT ![h] = IF status = expected THEN to ELSE "leaving"]
    /\ fresh' = IF status = expected THEN fresh \cup {h} ELSE fresh \ {h}
    /\ UNCHANGED <<status, calls, asked, applied, registered, controlVars, requestVars>>

onlyTheRun == <<asked, applied, registered, controlVars, requestVars>>
onlyTheHost == <<rowVars, registered, controlVars, requestVars>>

SavePlan(h) ==
    /\ status = "planning"
    /\ Writes(h, "planning")
    /\ Goes(h, "plan", "planned") \/ Goes(h, "replan", "replanned")
    /\ UNCHANGED <<calls, onlyTheRun>>

\* The host stays for the answer to its first question only.
Ask(h) ==
    /\ asked < MaxQuestions
    /\ status = "planning"
    /\ Writes(h, "waiting_user")
    /\ asked' = asked + 1
    /\ Goes(h, "planned", "await") \/ Goes(h, "replanned", "leaving")
    /\ UNCHANGED <<calls, applied, registered, controlVars, requestVars>>

StartRunning(h) ==
    /\ status = "planning"
    /\ Writes(h, "running")
    /\ Goes(h, "planned", "boundary") \/ Goes(h, "replanned", "boundary")
    /\ UNCHANGED <<calls, onlyTheRun>>

\* wait_for_answer
GetAnswer(h) ==
    /\ \/ h \in cancelled /\ Goes(h, "await", "leaving")
       \/ h \notin cancelled /\ asked \in heard[h] /\ Goes(h, "await", "answered")
    /\ UNCHANGED onlyTheHost

ReadAnswered(h) == Reads(h, "answered", "planning", "replan")

\* A recovered host checks the run it was started for.
ReadRecovered(h) ==
    Reads(h, "recover", "running", "boundary") \/ Reads(h, "reload", "planning", "plan")

\* _controlled_run_boundary: wait_until_runnable, then get_run.
WaitForSignal(h) ==
    /\ h \notin runnable
    /\ Goes(h, "boundary", "waiting")
    /\ UNCHANGED onlyTheHost

PassBoundary(h) ==
    /\ \/ phase[h] = "boundary" /\ h \in runnable
       \/ phase[h] = "woken"
    /\ phase' = [phase EXCEPT ![h] = IF h \in cancelled THEN "leaving" ELSE "look"]
    /\ UNCHANGED onlyTheHost

\* Event.set of control._runnable: it wakes who waits, also if it is cleared at once.
Releases(hosts) ==
    /\ runnable' = runnable \cup hosts
    /\ phase' = [h \in Hosts |->
         IF h \in hosts /\ phase[h] = "waiting" THEN "woken" ELSE phase[h]]

Look(h) ==
    Reads(h, "look", "running",
          CASE calls = "none" -> "work" [] calls = "running" -> "commit" [] OTHER -> "halt")

\* A model turn, or reads that lead to the next boundary.
Think(h) ==
    /\ Goes(h, "work", "boundary")
    /\ UNCHANGED onlyTheHost

\* update_contract, record_tool_rejection
Record(h) ==
    /\ Writes(h, "running")
    /\ Goes(h, "work", "work") \/ Goes(h, "work", "boundary")
    /\ UNCHANGED <<calls, onlyTheRun>>

StartExecution(h) ==
    /\ Writes(h, "running")
    /\ calls' = "running"
    /\ Goes(h, "work", "calling") \/ Goes(h, "work", "frontier")
    /\ UNCHANGED onlyTheRun

\* A single call has returned; of a frontier, all have.
Return(h) ==
    \/ Goes(h, "calling", "boundary") /\ UNCHANGED onlyTheHost
    \/ Reads(h, "frontier", "running", "gather")

Settle(h) ==
    /\ Writes(h, "running")
    /\ \/ calls' \in {"none", "unknown"} /\ Goes(h, "commit", "boundary")
       \/ calls' = "none" /\ Goes(h, "gather", "boundary")
       \/ calls' = "unknown" /\ Goes(h, "gather", "halt")
       \/ calls' = "running" /\ Goes(h, "gather", "frontier")
    /\ UNCHANGED onlyTheRun

\* A transition to a terminal status, by verdict, doubt or a failure handled in the loop.
End(h) ==
    /\ \/ Writes(h, "blocked") /\ Goes(h, "halt", "leaving")
       \/ \E st \in {"blocked", "failed"} : Writes(h, st) /\ Goes(h, "work", "leaving")
       \/ \E st \in {"completed", "blocked", "failed"} :
            Writes(h, st) /\ Goes(h, "verify", "leaving")
    /\ UNCHANGED <<calls, onlyTheRun>>

Verify(h) ==
    /\ \/ Writes(h, "verifying") /\ Goes(h, "work", "verify")
       \/ Writes(h, "running") /\ Goes(h, "verify", "boundary")
    /\ UNCHANGED <<calls, onlyTheRun>>

(* Any exception: a version that is no longer the run's, the time limit, a   *)
(* failing database or tool.                                                 *)
Raise(h) ==
    /\ phase[h] \notin {"idle", "await", "waiting", "failing", "leaving", "terminating",
                       "finished"}
    /\ phase' = [phase EXCEPT ![h] = "failing"]
    /\ UNCHANGED onlyTheHost

\* Mutant: a terminated run can be terminated again.
TerminatesAnything ==
    /\ status' = "failed"
    /\ calls' = Abandoned
    /\ fresh' = {}

(* terminate_active_run without a version: whatever the status, unless       *)
(* terminal.  To an ended run no version gives access.                       *)
Terminates ==
    /\ IF status \in Terminal THEN UNCHANGED <<status, calls>>
       ELSE status' = "failed" /\ calls' = Abandoned
    /\ fresh' = {}

(* The producer has ended and its control and what it knew are gone; the     *)
(* entry stays while a reader is subscribed.                                 *)
Finished(h) ==
    /\ registered' \in {registered, None}
    /\ runnable' = runnable \cup {h}
    /\ cancelled' = cancelled \ {h}
    /\ heard' = [heard EXCEPT ![h] = {}]

HandleException(h) ==
    /\ Goes(h, "failing", "leaving")
    /\ Terminates
    /\ UNCHANGED onlyTheRun

\* Mutant: a host is unregistered before its last transition.
LeaveUnregistered(h) ==
    /\ Goes(h, "leaving", IF status \in Active THEN "terminating" ELSE "finished")
    /\ fresh' = fresh \ {h}
    /\ Finished(h)
    /\ UNCHANGED <<status, calls, asked, applied, requestVars>>

(* The finally of stream_agent_chat: a run that is neither at rest nor ended *)
(* is terminated, by a transaction that does not look at what was read.      *)
Leave(h) ==
    /\ \/ /\ status \in Rest \cup Terminal
          /\ Goes(h, "leaving", "finished")
          /\ fresh' = fresh \ {h}
          /\ Finished(h)
       \/ /\ status \in Active
          /\ Goes(h, "leaving", "terminating")
          /\ UNCHANGED <<registered, fresh, controlVars>>
    /\ UNCHANGED <<status, calls, asked, applied, requestVars>>

TerminateLeft(h) ==
    /\ Goes(h, "terminating", "finished")
    /\ Terminates
    /\ Finished(h)
    /\ UNCHANGED <<asked, applied, requestVars>>

HostNext(h) ==
    \/ SavePlan(h) \/ Ask(h) \/ StartRunning(h)
    \/ GetAnswer(h) \/ ReadAnswered(h) \/ ReadRecovered(h)
    \/ WaitForSignal(h) \/ PassBoundary(h) \/ Look(h) \/ Think(h) \/ Record(h)
    \/ StartExecution(h) \/ Return(h) \/ Settle(h)
    \/ Verify(h) \/ End(h)
    \/ Raise(h) \/ HandleException(h) \/ Leave(h) \/ TerminateLeft(h)
-----------------------------------------------------------------------------
(* The request handlers.  Between their awaits they run on the event loop,   *)
(* their transactions in a thread.                                           *)
At(r, from, to) == stage[r] = from /\ stage' = [stage EXCEPT ![r] = to]

\* The request is answered, and the handler leaves nothing behind.
Over(r, from) ==
    /\ At(r, from, "idle")
    /\ message' = [message EXCEPT ![r] = None]
    /\ saw' = [saw EXCEPT ![r] = None]
    /\ found' = [found EXCEPT ![r] = None]

(* _writable_run, of which only pause uses the status it reads, and the look *)
(* at the manager that resume, retry and answer take before their            *)
(* transaction.  If-Match is the version of now: one the client saw earlier  *)
(* is refused like one that is overtaken.                                    *)
Begin(r, m) ==
    /\ message' = [message EXCEPT ![r] = m]
    /\ fresh' = fresh \cup {r}
    /\ \/ /\ m.command = "pause"
          /\ At(r, "idle", "read")
          /\ saw' = [saw EXCEPT ![r] = status]
          /\ UNCHANGED found
       \/ /\ m.command # "pause"
          /\ At(r, "idle", "sent")
          /\ found' = IF m.command = "cancel" THEN found ELSE [found EXCEPT ![r] = Reached]
          /\ UNCHANGED saw
    /\ UNCHANGED <<status, calls, asked, applied, registered, phase, controlVars, lost>>

\* control_for and pause, before the transaction.
Signal(r) ==
    /\ \/ /\ Reached = None
          /\ Over(r, "read")
          /\ fresh' = fresh \ {r}
          /\ UNCHANGED runnable
       \/ /\ Reached # None
          /\ At(r, "read", "sent")
          /\ found' = [found EXCEPT ![r] = Reached]
          /\ runnable' = runnable \ {Reached}
          /\ UNCHANGED <<fresh, message, saw>>
    /\ UNCHANGED <<status, calls, asked, applied, registered, phase, cancelled, heard, lost>>

\* Mutant: a pause is accepted while a call runs.
AllowedMidCall(m) ==
    CASE m.command = "pause"  -> status = "running"
      [] m.command = "resume" -> status = "paused"
      [] m.command = "answer" -> status = "waiting_user" /\ m.question <= asked
      [] m.command = "cancel" -> status \notin Terminal

\* allowed_statuses and require_idle
Allowed(m) ==
    CASE m.command = "pause"  -> status = "running" /\ calls = "none"
      [] m.command = "resume" -> status = "paused"
      [] m.command = "answer" -> status = "waiting_user" /\ m.question <= asked
      [] m.command = "cancel" -> status \notin Terminal

Effect == [pause |-> "paused", resume |-> "running", answer |-> "planning",
           cancel |-> "cancelled"]

\* control_transition, retry_step or answer_clarification, as a new command ...
Apply(r) ==
    /\ At(r, "sent", "applied")
    /\ message[r].key \notin applied
    /\ r \in fresh
    /\ Allowed(message[r])
    /\ status' = Effect[message[r].command]
    /\ calls' = IF message[r].command = "cancel" THEN Abandoned ELSE calls
    /\ applied' = applied \cup {message[r].key}
    /\ fresh' = {}
    /\ UNCHANGED <<asked, registered, phase, controlVars, message, saw, found, lost>>

\* ... as a repetition, which returns the status of now ...
Replay(r) ==
    /\ At(r, "sent", "replayed")
    /\ message[r].key \in applied
    /\ saw' = [saw EXCEPT ![r] = status]
    /\ fresh' = fresh \ {r}
    /\ UNCHANGED <<status, calls, asked, applied, registered, phase, controlVars, message, found, lost>>

\* ... or with an exception.
Refuse(r) ==
    /\ At(r, "sent", "refused")
    /\ message[r].key \notin applied
    /\ ~(r \in fresh /\ Allowed(message[r]))
    /\ fresh' = fresh \ {r}
    /\ UNCHANGED <<status, calls, asked, applied, registered, phase, controlVars, message,
                   saw, found, lost>>

\* What pause leaves of its signal: it stays, is given again, or is taken back.
PauseAnswers(r, stays, again) ==
    /\ \E from \in {"applied", "replayed", "refused"} : Over(r, from)
    /\ message[r].command = "pause"
    /\ CASE stays -> UNCHANGED <<runnable, phase>>
         [] again -> runnable' = runnable \ {found[r]} /\ UNCHANGED phase
         [] OTHER -> Releases({found[r]})
    /\ UNCHANGED <<rowVars, registered, cancelled, heard, lost>>

(* pause takes its signal back when it was not applied and the run is not    *)
(* paused, judged by the status it read.                                     *)
Paused(r) ==
    PauseAnswers(r, stage[r] = "applied" \/ (stage[r] = "replayed" /\ saw[r] = "paused"),
                 stage[r] = "refused" /\ saw[r] = "paused")

\* cancel reaches the host that is there now, and releases it.
Cancelled(r) ==
    LET host == IF stage[r] = "applied" THEN {Reached} \ {None} ELSE {}
    IN  /\ \E from \in {"applied", "replayed", "refused"} : Over(r, from)
        /\ message[r].command = "cancel"
        /\ cancelled' = cancelled \cup host
        /\ Releases(host)
        /\ UNCHANGED <<rowVars, registered, heard, lost>>

\* resume, retry and answer go on when they were applied, or repeated while it shows.
Proceeds(r) ==
    LET shows == [resume |-> {"running"}, answer |-> {"planning", "running"}]
    IN  /\ message[r] # None /\ message[r].command \in DOMAIN shows
        /\ \/ stage[r] = "applied"
           \/ stage[r] = "replayed" /\ saw[r] \in shows[message[r].command]

\* Otherwise they end here.
Answered(r) ==
    /\ Over(r, "refused") \/ Over(r, "replayed")
    /\ message[r].command \in {"resume", "answer"}
    /\ ~Proceeds(r)
    /\ UNCHANGED <<rowVars, registered, phase, controlVars, lost>>

Hears(host, question) ==
    heard' = [h \in Hosts |-> IF h = host THEN heard[h] \cup {question} ELSE heard[h]]

\* Mutant: an answer is delivered as a resume is.
WakeByResume(r) ==
    /\ Proceeds(r)
    /\ found[r] # None
    /\ Over(r, stage[r])
    /\ lost' = (lost \/ Reached = None)
    /\ Releases({Reached} \ {None})
    /\ UNCHANGED <<rowVars, registered, cancelled, heard>>

\* Mutant: a request does not look whether it found a host.
WakeUnchecked(r) ==
    /\ Proceeds(r)
    /\ found[r] # None
    /\ Over(r, stage[r])
    /\ IF message[r].command = "resume"
       THEN Releases({Reached} \ {None}) /\ UNCHANGED heard
       ELSE Hears(Reached, message[r].question) /\ UNCHANGED <<runnable, phase>>
    /\ UNCHANGED <<rowVars, registered, cancelled, lost>>

\* resume, answer of the manager; a host that was there and has gone fails the request.
Wake(r) ==
    /\ Proceeds(r)
    /\ found[r] # None
    /\ Over(r, stage[r])
    /\ lost' = (lost \/ Reached = None)
    /\ IF message[r].command = "resume"
       THEN Releases({Reached} \ {None}) /\ UNCHANGED heard
       ELSE Hears(Reached, message[r].question) /\ UNCHANGED <<runnable, phase>>
    /\ UNCHANGED <<rowVars, registered, cancelled>>

\* _start_recovered_run: fails while an entry is registered, also a finished one.
StartRecovered(r) ==
    /\ Proceeds(r)
    /\ found[r] = None
    /\ Over(r, stage[r])
    /\ \/ /\ registered # None
          /\ lost' = TRUE
          /\ UNCHANGED <<registered, phase>>
       \/ /\ registered = None
          /\ \E h \in Hosts :
               /\ \A g \in Hosts : phase[g] = "idle" <=> g >= h
               /\ registered' = h
               /\ phase' = [phase EXCEPT ![h] =
                    IF message[r].command = "resume" THEN "recover" ELSE "reload"]
          /\ UNCHANGED lost
    /\ UNCHANGED <<rowVars, controlVars>>

HandlerNext(r) ==
    \/ Signal(r)
    \/ Apply(r) \/ Replay(r) \/ Refuse(r)
    \/ Paused(r) \/ Cancelled(r) \/ Answered(r) \/ Wake(r) \/ StartRecovered(r)

\* revise_agent_plan changes a paused run and touches no host.
Revise ==
    /\ status = "paused"
    /\ fresh' = {}
    /\ UNCHANGED <<status, calls, asked, applied, registered, phase, controlVars, requestVars>>

\* The last reader of a finished producer closes.
Forget ==
    /\ registered # None /\ registered \notin LiveHosts
    /\ registered' = None
    /\ UNCHANGED <<rowVars, phase, controlVars, requestVars>>

Next ==
    \/ \E h \in Hosts : HostNext(h)
    \/ \E r \in Handlers : HandlerNext(r) \/ \E m \in Messages : Begin(r, m)
    \/ Revise
    \/ Forget

Spec == Init /\ [][Next]_hostVars

(* A host and a handler go on when they can: each of their awaits is a       *)
(* thread that returns, a signal, or a call with a time limit.  One host     *)
(* lives at a time, so fairness for some host is fairness for each.          *)
FairSpec ==
    /\ Spec
    /\ WF_hostVars(\E h \in Hosts : HostNext(h))
    /\ \A r \in Handlers : WF_hostVars(HandlerNext(r))
-----------------------------------------------------------------------------
(* The type invariant; a host that is alive is the registered one.           *)
HostTypeOK ==
    /\ status \in RunStatus
    /\ calls \in {"none", "running", "unknown"}
    /\ asked \in 0..MaxQuestions
    /\ applied \subseteq {m.key : m \in Messages}
    /\ fresh \subseteq Hosts \cup Handlers
    /\ registered \in Hosts \cup {None}
    /\ phase \in [Hosts -> Phases]
    /\ runnable \subseteq Hosts /\ cancelled \subseteq Hosts
    /\ heard \in [Hosts -> SUBSET Questions]
    /\ stage \in [Handlers -> Stages]
    /\ message \in [Handlers -> Messages \cup {None}]
    /\ saw \in [Handlers -> RunStatus \cup {None}]
    /\ found \in [Handlers -> Hosts \cup {None}]
    /\ lost \in BOOLEAN
    /\ \A h \in LiveHosts : registered = h

(* Nothing executes for a run at rest: pause is refused while a call runs,   *)
(* and a host that had already passed its boundary when the pause committed  *)
(* cannot start one with the version it holds.                               *)
QuietAtRest ==
    status \in Rest => calls = "none" /\ \A h \in Hosts : phase[h] \notin Executing

(* An accepted answer reaches the host that awaits it: the handler's view of *)
(* the host cannot be so old that the answer is given to nobody.  (One       *)
(* answer to each question and its repetitions: the run answered has an old  *)
(* question, whose token stays valid, answered anew while a host waits for   *)
(* another.)                                                                 *)
AnswerHeard ==
    status = "planning" /\ Quiet =>
        \A h \in Hosts : phase[h] = "await" => asked \in heard[h] \/ h \in cancelled

(* A pause leaves no trace on a run that goes on: refused, repeated or       *)
(* overtaken by a resume, it has taken its signal back when it answers, or   *)
(* the resume was told that it found no host.  (One pause and its            *)
(* repetitions; two with keys of their own break it as they do EndedFrees.)  *)
Awake ==
    status = "running" /\ Quiet /\ ~lost => LiveHosts \subseteq runnable

(* A live host is never deaf to what a client was told it would do.          *)
HostListens == AnswerHeard /\ Awake

(* A run in progress that no host acts on is known to a client: a request    *)
(* whose command had been applied got an error, never a stream that says     *)
(* nothing.                                                                  *)
AttendedOrTold ==
    status \in Active /\ Quiet /\ LiveHosts = {} => lost

(* What has ended stays ended, though hosts and handlers terminate runs      *)
(* without looking at the version.                                           *)
EndedIsFinal == [][(status \in Terminal) => status' = status]_hostVars

(* The end of a run frees its hosts: none is left blocked on a signal that   *)
(* nobody will give, holding the conversation.  The second of two pauses can *)
(* break it: with a status from before the cancel it holds the host again.   *)
EndedFrees == (status \in Terminal) ~> (LiveHosts = {})
=============================================================================
