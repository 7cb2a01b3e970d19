---------------------------- MODULE WebWorkspace ----------------------------
(* The store of the web client (apps/web/src/stores/workspace.ts): what the  *)
(* page shows of conversations and runs, and the asynchronous functions that *)
(* change it.  A flow is one call of such a function; it runs on from one    *)
(* await to the next, and between two of them the user starts other flows    *)
(* and answers come in any order.  The server is a number of runs for each   *)
(* conversation; what it says of a run's status is free.  Its requests may   *)
(* fail.  Projects are left out: the first conversation of a project may be  *)
(* any.                                                                      *)
EXTENDS Naturals

CONSTANTS
    Threads,    \* conversations
    Flows,      \* asynchronous calls at a time
    Nowhere,    \* none
    MaxAsked    \* bound: runs of a conversation

ASSUME WebAssumption == Nowhere \notin Threads /\ MaxAsked \in Nat \ {0}

VARIABLES
    active,      \* activeConversationId
    shown,       \* the conversation whose messages and artifacts are shown
    activeRunId,
    activeRun,   \* the details shown of a run
    question,    \* pendingClarification: the run that asks
    streaming, uploading,
    busy,        \* collaborationBusy
    remembered,  \* sessionStorage
    asked,       \* the server: how many runs each conversation has had
    flow         \* how far each call is

pageVars == <<active, shown, activeRunId, activeRun, question>>
flagVars == <<streaming, uploading, busy>>
webVars == <<pageVars, flagVars, remembered, asked, flow>>
-----------------------------------------------------------------------------
RunIds == Threads \X (1..MaxAsked)
NoRun == [id |-> Nowhere, status |-> "over"]
Statuses == {"open", "over"}       \* an open run may be waiting for an answer
Orders == {"pause", "revise"}      \* cancel is like pause
Continuations == {"resume"}        \* retry and the answer to a question are like resume

(* A flow: its function, the await it is at, whether navigationSequence and  *)
(* workspaceGeneration are still what they were when it read them, the       *)
(* conversation and the run it was called for, whether it knows its run from *)
(* the server, and of the refreshActiveRun it awaits the conversation that   *)
(* was active, whether it has set busy, and where the flow goes on.          *)
Ready == [fn |-> "none", at |-> "none", current |-> FALSE, present |-> FALSE, for |-> Nowhere,
          run |-> Nowhere, header |-> FALSE, seen |-> Nowhere, owns |-> FALSE, next |-> "final"]

Launched(f, fn, at, c, r) ==
    [flow EXCEPT ![f] = [Ready EXCEPT !.fn = fn, !.at = at, !.present = TRUE, !.for = c,
                                      !.run = r]]
Launch(f, fn, at, c, r) == flow[f].fn = "none" /\ flow' = Launched(f, fn, at, c, r)

\* A flow that takes a number makes all the others outdated.
Numbered(f, fs) == [g \in Flows |-> [fs[g] EXCEPT !.current = g = f]]
LaunchNumbered(f, fn, at, c) ==
    flow[f].fn = "none" /\ flow' = Numbered(f, Launched(f, fn, at, c, Nowhere))

At(f, fn, at) == flow[f].fn = fn /\ flow[f].at = at
Returns(f) == flow' = [flow EXCEPT ![f] = Ready]
StillHere(f) == flow[f].present /\ active = flow[f].for

\* What it does not need any more the flow forgets.
Goes(f, at) ==
    flow' = [flow EXCEPT ![f] =
                IF at = "final" THEN [Ready EXCEPT !.fn = flow[f].fn, !.at = at,
                                                        !.present = flow[f].present]
                ELSE [@ EXCEPT !.at = at, !.seen = Nowhere, !.owns = FALSE]]

Page(c, s) == active' = c /\ shown' = s
Cleared == activeRunId' = Nowhere /\ activeRun' = NoRun /\ question' = Nowhere
Remembers(c, r) == remembered' = [remembered EXCEPT ![c] = r]

WebInit ==
    /\ active = Nowhere /\ shown = Nowhere /\ activeRunId = Nowhere /\ activeRun = NoRun
    /\ question = Nowhere
    /\ streaming = FALSE /\ uploading = FALSE /\ busy = "none"
    /\ remembered = [c \in Threads |-> Nowhere]
    /\ asked = [c \in Threads |-> 0]
    /\ flow = [f \in Flows |-> Ready]
-----------------------------------------------------------------------------
(* Navigation.  Each call takes a number; what an older call still fetches   *)
(* is thrown away.                                                           *)
Idle == ~streaming /\ ~uploading

SelectProject(f) ==
    /\ Idle
    /\ \E c \in Threads : LaunchNumbered(f, "navigate", "lists", c)
    /\ Page(Nowhere, Nowhere) /\ Cleared
    /\ UNCHANGED <<flagVars, remembered, asked>>

SelectConversation(f, c) ==
    /\ Idle /\ c # active
    /\ LaunchNumbered(f, "navigate", "detail", c)
    /\ Page(c, Nowhere) /\ Cleared
    /\ UNCHANGED <<flagVars, remembered, asked>>

AddConversation(f, c) ==
    /\ Idle
    /\ LaunchNumbered(f, "add", "create", c)
    /\ UNCHANGED <<pageVars, flagVars, remembered, asked>>

RemoveConversation(f, c) ==
    /\ Idle
    /\ Launch(f, "remove", "delete", c, Nowhere)
    /\ UNCHANGED <<pageVars, flagVars, remembered, asked>>

\* The conversations of the project are there, or one was created.
Listed(f) ==
    /\ At(f, "navigate", "lists")
    /\ IF flow[f].current THEN Goes(f, "detail") ELSE Returns(f)
    /\ UNCHANGED <<pageVars, flagVars, remembered, asked>>

\* A conversation is shown and its latest run looked up.
Detailed(f) ==
    /\ At(f, "navigate", "detail")
    /\ IF flow[f].current
       THEN Page(flow[f].for, flow[f].for) /\ Goes(f, "latest")
       ELSE UNCHANGED <<active, shown>> /\ Returns(f)
    /\ UNCHANGED <<activeRunId, activeRun, question, flagVars, remembered, asked>>

Added(f) ==
    /\ At(f, "add", "create")
    /\ IF flow[f].current
       THEN Page(flow[f].for, flow[f].for) /\ Cleared
       ELSE UNCHANGED pageVars
    /\ Returns(f)
    /\ UNCHANGED <<flagVars, remembered, asked>>

\* The removed conversation was active: another one takes its place.
Removed(f) ==
    /\ At(f, "remove", "delete")
    /\ Remembers(flow[f].for, Nowhere)
    /\ IF active # flow[f].for
       THEN UNCHANGED pageVars /\ Returns(f)
       ELSE /\ Page(Nowhere, Nowhere) /\ Cleared
            /\ \E c \in Threads \ {flow[f].for} :
                   flow' = Numbered(f, [flow EXCEPT ![f].fn = "navigate", ![f].at = "detail",
                                                    ![f].for = c])
    /\ UNCHANGED <<flagVars, asked>>

UploadFile(f) ==
    /\ Idle /\ active # Nowhere
    /\ Launch(f, "upload", "upload", active, Nowhere)
    /\ uploading' = TRUE
    /\ UNCHANGED <<pageVars, streaming, busy, remembered, asked>>

Uploaded(f) ==
    /\ At(f, "upload", "upload")
    /\ shown' = IF active = flow[f].for THEN active ELSE shown
    /\ uploading' = FALSE
    /\ Returns(f)
    /\ UNCHANGED <<active, activeRunId, activeRun, question, streaming, busy, remembered,
                   asked>>
-----------------------------------------------------------------------------
(* restoreLatestRun and refreshActiveRun, awaited by other functions, which  *)
(* then go on at flow[f].next.                                               *)

\* A call of refreshActiveRun until its await; nothing to do without run or conversation.
Refreshing(f, r, next) ==
    IF r = Nowhere \/ active' = Nowhere
    THEN Goes(f, next) /\ UNCHANGED busy
    ELSE /\ flow' = [flow EXCEPT ![f].at = "refresh", ![f].next = next, ![f].run = r,
                                 ![f].seen = active', ![f].owns = busy = "none",
                                 ![f].present = TRUE]
         /\ busy' = IF busy = "none" THEN "refresh" ELSE busy

\* The server reads the latest run, and later its answer is there, or a failure.
ReadLatest(f) ==
    /\ flow[f].at = "latest"
    /\ flow' = [flow EXCEPT ![f].at = "restore",
                            ![f].run = IF asked[flow[f].for] = 0 THEN Nowhere
                                       ELSE <<flow[f].for, asked[flow[f].for]>>]
    /\ UNCHANGED <<pageVars, flagVars, remembered, asked>>

RestoreLatestRun(f) ==
    /\ flow[f].at = "restore"
    /\ IF ~StillHere(f)
       THEN Goes(f, flow[f].next) /\ UNCHANGED <<pageVars, busy, remembered>>
       ELSE IF flow[f].run = Nowhere
       THEN /\ Remembers(flow[f].for, Nowhere)
            /\ Cleared
            /\ Goes(f, flow[f].next)
            /\ UNCHANGED <<active, shown, busy>>
       ELSE /\ Remembers(flow[f].for, flow[f].run)
            /\ activeRunId' = flow[f].run
            /\ UNCHANGED <<active, shown, activeRun, question>>
            /\ Refreshing(f, flow[f].run, flow[f].next)
    /\ UNCHANGED <<streaming, uploading, asked>>

Released(f) == IF flow[f].present /\ flow[f].owns /\ busy = "refresh" THEN "none" ELSE busy
\* Mutant: the answer is not compared with the conversation that is active by now.
MayShowLate(f) == flow[f].present /\ flow[f].run[1] = flow[f].seen

MayShow(f) == flow[f].present /\ active = flow[f].seen /\ flow[f].run[1] = flow[f].seen

RefreshActiveRun(f, status) ==
    /\ flow[f].at = "refresh"
    /\ IF MayShow(f)
       THEN /\ Remembers(flow[f].seen, flow[f].run)
            /\ activeRunId' = flow[f].run
            /\ activeRun' = [id |-> flow[f].run, status |-> status]
            /\ \/ question' = Nowhere
               \/ status = "open" /\ question' = flow[f].run
       ELSE UNCHANGED <<remembered, activeRunId, activeRun, question>>
    /\ busy' = Released(f)
    /\ Goes(f, flow[f].next)
    /\ UNCHANGED <<active, shown, streaming, uploading, asked>>

RefreshFails(f) ==
    /\ flow[f].at = "refresh"
    /\ IF flow[f].present /\ remembered[flow[f].seen] = flow[f].run
       THEN Remembers(flow[f].seen, Nowhere)
       ELSE UNCHANGED remembered
    /\ busy' = Released(f)
    /\ Goes(f, flow[f].next)
    /\ UNCHANGED <<pageVars, streaming, uploading, asked>>
-----------------------------------------------------------------------------
(* sendMessage.                                                              *)
Send(f) ==
    /\ Idle /\ active # Nowhere /\ activeRun.status = "over"
    /\ Launch(f, "send", "stream", active, Nowhere)
    /\ streaming' = TRUE
    /\ Cleared
    /\ Remembers(active, Nowhere)
    /\ UNCHANGED <<active, shown, uploading, busy, asked>>

\* The server has accepted the request and created a run; its answer is under way.
Accepted(f) ==
    /\ At(f, "send", "stream") /\ flow[f].run = Nowhere
    /\ asked[flow[f].for] < MaxAsked
    /\ asked' = [asked EXCEPT ![flow[f].for] = @ + 1]
    /\ flow' = [flow EXCEPT ![f].run = <<flow[f].for, asked'[flow[f].for]>>]
    /\ UNCHANGED <<pageVars, flagVars, remembered>>

Header(f) ==
    /\ At(f, "send", "stream") /\ flow[f].run # Nowhere /\ ~flow[f].header
    /\ flow' = [flow EXCEPT ![f].header = TRUE]
    /\ IF StillHere(f)
       THEN /\ Remembers(flow[f].for, flow[f].run)
            /\ activeRunId' = flow[f].run
            /\ activeRun' = NoRun
       ELSE UNCHANGED <<remembered, activeRunId, activeRun>>
    /\ UNCHANGED <<active, shown, question, flagVars, asked>>

\* applyCollaborationEvent: an event names its run and what becomes of its status.
RunEvent(f, status) ==
    /\ flow[f].at = "stream" /\ flow[f].header
    /\ StillHere(f)
    /\ Remembers(flow[f].for, flow[f].run)
    /\ activeRunId' = flow[f].run
    /\ activeRun' = IF activeRun.id = flow[f].run THEN [activeRun EXCEPT !.status = status]
                    ELSE activeRun
    /\ \/ question' = question
       \/ status = "open" /\ question' \in {flow[f].run, Nowhere}
    /\ UNCHANGED <<active, shown, flagVars, asked, flow>>

\* The stream is over, or the connection lost: before the run is known, it is looked up.
StreamEnds(f) ==
    /\ flow[f].at = "stream"
    /\ IF ~flow[f].present THEN Returns(f)
       ELSE \/ Goes(f, "lists")
            \/ /\ ~flow[f].header /\ active = flow[f].for
               /\ flow' = [flow EXCEPT ![f].at = "latest", ![f].next = "lists"]
    /\ UNCHANGED <<pageVars, flagVars, remembered, asked>>

\* The conversation is loaded again, and the status of its run.
Reloaded(f) ==
    /\ flow[f].at = "lists" /\ flow[f].fn # "navigate"
    /\ UNCHANGED active
    /\ IF StillHere(f)
       THEN /\ shown' = active
            /\ Refreshing(f, IF flow[f].fn = "send" THEN activeRunId ELSE flow[f].run, "final")
       ELSE UNCHANGED <<shown, busy>> /\ Goes(f, "final")
    /\ UNCHANGED <<activeRunId, activeRun, question, streaming, uploading, remembered, asked>>
-----------------------------------------------------------------------------
(* continueActiveRun: a run is continued, and its events arrive as those of  *)
(* sendMessage do.                                                           *)
Continue(f, op) ==
    /\ activeRunId # Nowhere /\ busy = "none" /\ ~uploading
    /\ Launch(f, op, "fresh", active, activeRunId)
    /\ busy' = op /\ streaming' = TRUE
    /\ UNCHANGED <<pageVars, uploading, remembered, asked>>

Continued(f, status) ==
    /\ flow[f].at = "fresh" /\ flow[f].fn \in Continuations
    /\ IF ~flow[f].present THEN UNCHANGED activeRun /\ Returns(f)
       ELSE IF flow[f].run[1] # flow[f].for THEN UNCHANGED activeRun /\ Goes(f, "lists")
       ELSE /\ activeRun' = [id |-> flow[f].run, status |-> status]
            /\ flow' = [flow EXCEPT ![f].at = "stream", ![f].header = TRUE]
    /\ UNCHANGED <<active, shown, activeRunId, question, flagVars, remembered, asked>>
-----------------------------------------------------------------------------
(* pauseActiveRun, cancelActiveRun and reviseActivePlan: two requests, the   *)
(* second with the version the first has read.                               *)
Command(f, op) ==
    /\ activeRunId # Nowhere /\ busy = "none"
    /\ Launch(f, op, "fresh", active, activeRunId)
    /\ busy' = op
    /\ UNCHANGED <<pageVars, streaming, uploading, remembered, asked>>

\* What the answer says of the run is shown as it is, and for most commands refreshed.
Commanded(f, status) ==
    /\ flow[f].at = "fresh" /\ flow[f].fn \in Orders
    /\ activeRun' = [id |-> flow[f].run, status |-> status]
    /\ question' = IF flow[f].fn = "pause" THEN Nowhere ELSE question
    /\ UNCHANGED <<active, shown>>
    /\ Refreshing(f, IF flow[f].fn = "revise" THEN Nowhere ELSE flow[f].run, "final")
    /\ UNCHANGED <<activeRunId, streaming, uploading, remembered, asked>>

\* A request of a flow fails; what each function does then is what it does at its end.
Fails(f) ==
    /\ \/ flow[f].at \in {"latest", "restore"} /\ Goes(f, flow[f].next)
       \/ flow[f].at = "fresh" /\ flow[f].fn \in Orders /\ Goes(f, "final")
       \/ flow[f].at = "fresh" /\ flow[f].fn \in Continuations
              /\ IF flow[f].present THEN Goes(f, "lists") ELSE Returns(f)
       \/ flow[f].at \in {"lists", "detail", "create", "delete", "upload"} /\ Goes(f, "final")
    /\ UNCHANGED <<pageVars, flagVars, remembered, asked>>

\* The finally of each function.
Final(f) ==
    /\ flow[f].at = "final"
    /\ streaming' = IF flow[f].fn \in Continuations \cup {"send"} /\ flow[f].present THEN FALSE
                    ELSE streaming
    /\ uploading' = IF flow[f].fn = "upload" THEN FALSE ELSE uploading
    /\ busy' = CASE flow[f].fn \in Continuations -> IF flow[f].present THEN "none" ELSE busy
                 [] flow[f].fn \in Orders -> "none"
                 [] OTHER -> busy
    /\ Returns(f)
    /\ UNCHANGED <<pageVars, remembered, asked>>

\* resetWorkspaceForReauthentication, after an answer 401.
Reset ==
    /\ Page(Nowhere, Nowhere) /\ Cleared
    /\ streaming' = FALSE /\ uploading' = FALSE /\ busy' = "none"
    /\ remembered' = [c \in Threads |-> Nowhere]
    /\ flow' = [f \in Flows |-> [flow[f] EXCEPT !.current = FALSE, !.present = FALSE]]
    /\ UNCHANGED asked

WebNext ==
    \/ \E f \in Flows :
          \/ SelectProject(f) \/ Listed(f) \/ Detailed(f) \/ Added(f) \/ Removed(f)
          \/ \E c \in Threads :
                SelectConversation(f, c) \/ AddConversation(f, c) \/ RemoveConversation(f, c)
          \/ UploadFile(f) \/ Uploaded(f)
          \/ ReadLatest(f) \/ RestoreLatestRun(f) \/ RefreshFails(f)
          \/ Send(f) \/ Accepted(f) \/ Header(f) \/ StreamEnds(f) \/ Reloaded(f)
          \/ \E op \in Continuations : Continue(f, op)
          \/ \E op \in Orders : Command(f, op)
          \/ \E s \in Statuses :
                RefreshActiveRun(f, s) \/ RunEvent(f, s) \/ Continued(f, s) \/ Commanded(f, s)
          \/ Fails(f) \/ Final(f)
    \/ Reset

WebSpec == WebInit /\ [][WebNext]_webVars
-----------------------------------------------------------------------------
WebTypeOK ==
    /\ active \in Threads \cup {Nowhere} /\ shown \in Threads \cup {Nowhere}
    /\ activeRunId \in RunIds \cup {Nowhere} /\ question \in RunIds \cup {Nowhere}
    /\ activeRun \in [id : RunIds \cup {Nowhere}, status : Statuses]
    /\ streaming \in BOOLEAN /\ uploading \in BOOLEAN
    /\ busy \in {"none", "refresh"} \cup Orders \cup Continuations
    /\ remembered \in [Threads -> RunIds \cup {Nowhere}]
    /\ asked \in [Threads -> 0..MaxAsked]

(* The page never mixes conversations: the messages, the run and the         *)
(* question it shows are those of the conversation that is active, however   *)
(* late the answers to requests for other conversations arrive, and the run  *)
(* kept for a conversation across a reload of the page is one of its own.    *)
(* (Not the details in activeRun: a command whose answer arrives after the   *)
(* user went elsewhere puts them there.)                                     *)
ShownBelongs ==
    /\ shown \in {Nowhere, active}
    /\ \A r \in {activeRunId, question} : r # Nowhere => r[1] = active
    /\ \A c \in Threads : remembered[c] # Nowhere => remembered[c][1] = c

(* The page is never locked: when no call is under way, none of the marks    *)
(* that keep the user from navigating, sending or commanding is left.        *)
NeverLocked ==
    (\A f \in Flows : flow[f].fn = "none") => ~streaming /\ ~uploading /\ busy = "none"

PageSound == WebTypeOK /\ ShownBelongs /\ NeverLocked
=============================================================================
