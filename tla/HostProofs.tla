----------------------------- MODULE HostProofs -----------------------------
(* What AgentHost promises whatever the hosts and the requests of a run do   *)
(* to each other, for any number of requests, messages, hosts and questions: *)
(* nothing executes for a run at rest (QuietAtRest), what has ended stays    *)
(* ended (EndedIsFinal), a run in progress that no host acts on is known to  *)
(* a client (AttendedOrTold), and, until an earlier question is answered or  *)
(* a refused pause is late, a live host hears what clients were told         *)
(* (HostListens).                                                            *)
(* Last, the turn of a model that a host waits for (ModelTurn): whose words  *)
(* are handed on.                                                            *)
EXTENDS AgentHost, ModelTurn, FiniteSetTheorems, SequenceTheorems, WellFoundedInduction, TLAPS

\* A handler at work has a message; a pause that has been signalled found a host.
Handled ==
    \A r \in Handlers :
        /\ stage[r] # "idle" => message[r] \in Messages
        /\ stage[r] \notin {"idle", "read"} /\ message[r].command = "pause" => found[r] \in Hosts

(* Only a live host holds the version of now, and of an ended run none that  *)
(* still has something to write: that is why a transaction without a version *)
(* is harmless.                                                              *)
Versioned ==
    \A h \in Hosts \cap fresh :
        /\ h \in LiveHosts
        /\ status \in Terminal => phase[h] \in {"leaving", "terminating"}

\* Before it runs and at rest, a run has no call open.
Calm == status \in Rest \cup {"planning"} => calls = "none"

\* A host executes what task_runs knows to be running, unless the run has ended.
Known == \A h \in Hosts : phase[h] \in Executing => calls = "running" \/ status \in Terminal

\* Who goes on with a run that has no host: the request that set it in motion.
Attended ==
    status \in Active /\ LiveHosts = {} /\ ~lost =>
        \E r \in Handlers : stage[r] = "applied" /\ message[r].command \in {"resume", "answer"}

HostInv ==
    /\ HostTypeOK
    /\ Handled
    /\ Versioned
    /\ Calm
    /\ Known
    /\ Attended
-----------------------------------------------------------------------------
USE HostAssumption DEF HostAssumption, Hosts, Questions

\* A live host is the registered one, so that there is one at most.
LEMMA OneLives ==
    ASSUME HostTypeOK
    PROVE  /\ \A g, h \in LiveHosts : g = h
           /\ LiveHosts \subseteq Hosts
           /\ Reached \in Hosts => Reached \in LiveHosts
           /\ Reached \in Hosts \cup {None}
BY DEF HostTypeOK, LiveHosts, Reached

LEMMA Begins == Init => HostInv
<1> SUFFICES ASSUME Init PROVE HostInv
  OBVIOUS
<1>1. 1 \in Hosts
  OBVIOUS
<1>2. \A h \in Hosts : h \in LiveHosts <=> h = 1
  BY <1>1 DEF Init, LiveHosts
<1>3. HostTypeOK
  <2> USE <1>1 DEF Init, RunStatus, Phases, Stages
  <2>1. phase \in [Hosts -> Phases] /\ heard \in [Hosts -> SUBSET Questions]
    OBVIOUS
  <2>2. \A h \in LiveHosts : registered = h
    BY <1>2 DEF LiveHosts
  <2>3. /\ status \in RunStatus /\ calls \in {"none", "running", "unknown"}
        /\ asked \in 0..MaxQuestions /\ registered \in Hosts
        /\ fresh \subseteq Hosts
    OBVIOUS
  <2>4. /\ stage \in [Handlers -> Stages]
        /\ message \in [Handlers -> Messages \cup {None}]
        /\ saw \in [Handlers -> RunStatus \cup {None}]
        /\ found \in [Handlers -> Hosts \cup {None}]
    OBVIOUS
  <2>5. /\ applied \subseteq {m.key : m \in Messages}
        /\ runnable \subseteq Hosts /\ cancelled \subseteq Hosts
    OBVIOUS
  <2>6. lost \in BOOLEAN
    OBVIOUS
  <2> QED
    BY <2>1, <2>2, <2>3, <2>4, <2>5, <2>6 DEF HostTypeOK
<1>4. Handled /\ Versioned /\ Calm /\ Known /\ Attended
  BY <1>1, <1>2 DEF Init, Handled, Versioned, Calm, Known, Attended, Terminal, Rest, Executing,
     Active
<1> QED
  BY <1>3, <1>4 DEF HostInv

(* What a step of a host owes to the others: it leaves itself alive and with *)
(* nothing but its own version, and opens and closes calls as its run goes.  *)
LEMMA HostActs ==
    ASSUME HostInv,
           NEW h \in LiveHosts,
           NEW p \in Phases \ {"idle", "finished"},
           phase' = [phase EXCEPT ![h] = p],
           UNCHANGED <<applied, registered, controlVars, requestVars>>,
           status' \in RunStatus,
           calls' \in {"none", "running", "unknown"},
           asked' \in 0..MaxQuestions,
           fresh' \subseteq fresh \cup {h},
           h \in fresh' /\ status' \in Terminal => p \in {"leaving", "terminating"},
           status' \in Rest \cup {"planning"} => calls' = "none",
           p \in Executing => calls' = "running" \/ status' \in Terminal
    PROVE  HostInv'
<1> USE DEF HostInv
<1>1. \A g \in LiveHosts : g = h
  BY OneLives
<1>2. LiveHosts' = LiveHosts /\ h \in Hosts /\ phase' \in [Hosts -> Phases]
  BY DEF LiveHosts, HostTypeOK
<1>3. HostTypeOK'
  BY <1>2 DEF HostTypeOK, controlVars, requestVars
<1>4. Handled'
  BY DEF Handled, requestVars
<1>5. Versioned'
  BY <1>1, <1>2 DEF Versioned, HostTypeOK
<1>6. Calm'
  BY DEF Calm
<1>7. \A g \in Hosts : g # h => phase[g] \notin Executing
  BY <1>1 DEF LiveHosts, Executing
<1>8. Known'
  BY <1>2, <1>7 DEF Known, HostTypeOK
<1>9. Attended'
  BY <1>2 DEF Attended
<1> QED
  BY <1>3, <1>4, <1>5, <1>6, <1>8, <1>9

(* The last step of a host: its version and its control go with it, and the  *)
(* run is at rest or has ended.                                              *)
LEMMA HostFinishes ==
    ASSUME HostInv,
           NEW h \in LiveHosts,
           phase' = [phase EXCEPT ![h] = "finished"],
           Finished(h),
           UNCHANGED <<asked, applied, requestVars>>,
           status' \in RunStatus \ Active,
           calls' \in {"none", "running", "unknown"},
           fresh' \subseteq fresh \ {h},
           status' \in Rest => calls' = "none"
    PROVE  HostInv'
<1> USE DEF HostInv
<1>1. \A g \in LiveHosts : g = h
  BY OneLives
<1>2. LiveHosts' = {} /\ h \in Hosts /\ phase' \in [Hosts -> Phases]
  BY <1>1 DEF LiveHosts, HostTypeOK, Phases
<1>3. HostTypeOK'
  BY <1>2 DEF HostTypeOK, Finished, requestVars
<1>4. Handled'
  BY DEF Handled, requestVars
<1>5. \A g \in Hosts : g # h => g \notin fresh
  BY <1>1 DEF Versioned
<1>6. Versioned'
  BY <1>5 DEF Versioned
<1>7. Calm'
  BY DEF Calm, Active
<1>8. \A g \in Hosts : phase'[g] \notin Executing
  BY <1>1, <1>2 DEF LiveHosts, Executing, HostTypeOK
<1>9. Known'
  BY <1>8 DEF Known
<1>10. Attended'
  BY DEF Attended
<1> QED
  BY <1>3, <1>4, <1>6, <1>7, <1>9, <1>10

\* Every step of a host is one of these.
LEMMA HostSteps ==
    ASSUME HostInv, NEW h \in Hosts, HostNext(h)
    PROVE  HostInv'
<1> USE DEF HostInv, Goes, Writes, onlyTheRun, onlyTheHost, rowVars
<1> DEFINE To(p) == phase' = [phase EXCEPT ![h] = p]
<1>1. /\ h \in fresh => h \in LiveHosts
      /\ h \in fresh /\ status \in Terminal => phase[h] \in {"leaving", "terminating"}
      /\ status \in Rest \cup {"planning"} => calls = "none"
      /\ phase[h] \in Executing => calls = "running" \/ status \in Terminal
      /\ fresh \subseteq Hosts \cup Handlers
  BY DEF Versioned, Calm, Known, HostTypeOK
<1>2. /\ status \in RunStatus
      /\ calls \in {"none", "running", "unknown"}
      /\ asked \in 0..MaxQuestions
      /\ phase \in [Hosts -> Phases]
  BY DEF HostTypeOK
<1>3. phase[h] \notin {"idle", "finished"} <=> h \in LiveHosts
  BY DEF LiveHosts
<1> USE <1>1, <1>2, <1>3 DEF Phases, RunStatus, Terminal, Rest, Active, Executing
<1>4. CASE SavePlan(h)
  BY <1>4, HostActs DEF SavePlan
<1>5. CASE Ask(h)
  BY <1>5, HostActs DEF Ask
<1>6. CASE StartRunning(h)
  BY <1>6, HostActs DEF StartRunning
<1>7. CASE GetAnswer(h)
  BY <1>7, HostActs DEF GetAnswer
<1>8. CASE ReadAnswered(h)
  BY <1>8, HostActs DEF ReadAnswered, Reads
<1>9. CASE ReadRecovered(h)
  BY <1>9, HostActs DEF ReadRecovered, Reads
<1>10. CASE WaitForSignal(h)
  BY <1>10, HostActs DEF WaitForSignal
<1>11. CASE PassBoundary(h)
  <2>1. PICK p \in {"leaving", "look"} : phase' = [phase EXCEPT ![h] = p]
    BY <1>11 DEF PassBoundary
  <2>2. h \in LiveHosts /\ UNCHANGED onlyTheHost
    BY <1>11 DEF PassBoundary
  <2>3. p = "leaving" \/ status \notin Terminal \/ h \notin fresh
    BY <1>1, <1>11, <2>1 DEF PassBoundary
  <2>4. QED
    BY <2>1, <2>2, <2>3, HostActs
<1>12. CASE Look(h)
  BY <1>12, HostActs DEF Look, Reads
<1>13. CASE Think(h)
  BY <1>13, HostActs DEF Think
<1>14. CASE Record(h)
  BY <1>14, HostActs DEF Record
<1>15. CASE StartExecution(h)
  BY <1>15, HostActs DEF StartExecution
<1>16. CASE Return(h)
  BY <1>16, HostActs DEF Return, Reads
<1>17. CASE Settle(h)
  BY <1>17, HostActs DEF Settle
<1>18. CASE Verify(h)
  BY <1>18, HostActs DEF Verify
<1>19. CASE End(h)
  BY <1>19, HostActs DEF End
<1>20. CASE Raise(h)
  BY <1>20, HostActs DEF Raise
<1>21. CASE HandleException(h)
  BY <1>21, HostActs DEF HandleException, Terminates, Abandoned
<1>22. CASE Leave(h)
  BY <1>22, HostActs, HostFinishes DEF Leave
<1>23. CASE TerminateLeft(h)
  BY <1>23, HostFinishes DEF TerminateLeft, Terminates, Abandoned
<1> QED
  BY <1>4, <1>5, <1>6, <1>7, <1>8, <1>9, <1>10, <1>11, <1>12, <1>13, <1>14, <1>15, <1>16, <1>17,
     <1>18, <1>19, <1>20, <1>21, <1>22, <1>23 DEF HostNext
-----------------------------------------------------------------------------
\* A request that fails is not forgotten.
Remembers == lost' \in BOOLEAN /\ (lost => lost')

\* A request that set the run in motion leaves it to a host, or fails.
HandsOver(r) ==
    stage[r] = "applied" /\ message[r].command \in {"resume", "answer"} => lost' \/ LiveHosts # {}

\* Hosts are left where they are, but for a waiting one that is woken.
Eased ==
    /\ phase' \in [Hosts -> Phases]
    /\ \A h \in Hosts : phase'[h] # phase[h] => phase[h] = "waiting" /\ phase'[h] = "woken"
    /\ runnable' \subseteq Hosts

(* What a step of a request owes: it moves no host but a waiting one, gives  *)
(* no host the version of now, takes calls away only with the run, and sets  *)
(* a run in motion only while it is there to go on with it.                  *)
LEMMA RequestActs ==
    ASSUME HostInv,
           NEW r \in Handlers,
           NEW st \in Stages,
           stage' = [stage EXCEPT ![r] = st],
           message' \in [Handlers -> Messages \cup {None}],
           saw' \in [Handlers -> RunStatus \cup {None}],
           found' \in [Handlers -> Hosts \cup {None}],
           \A q \in Handlers \ {r} : message'[q] = message[q] /\ found'[q] = found[q],
           st # "idle" => message'[r] \in Messages,
           st \notin {"idle", "read"} /\ message'[r].command = "pause" => found'[r] \in Hosts,
           Eased,
           cancelled' \subseteq Hosts,
           heard' \in [Hosts -> SUBSET Questions],
           UNCHANGED <<asked, registered>>,
           applied' \subseteq {m.key : m \in Messages},
           status' \in RunStatus,
           calls' \in {"none", "running", "unknown"},
           fresh' \subseteq fresh \cup {r},
           status' = status \/ (fresh' = {} /\ status \notin Terminal),
           status' \in Rest \cup {"planning"} => calls' = "none",
           calls' = calls \/ status' \in Terminal,
           Remembers,
           status' \in Active =>
               status' = status \/ (st = "applied" /\ message'[r].command \in {"resume", "answer"}),
           HandsOver(r)
    PROVE  HostInv'
<1> USE DEF HostInv, Eased
<1>1. LiveHosts' = LiveHosts
  BY DEF LiveHosts, HostTypeOK
<1>2. stage' \in [Handlers -> Stages]
  BY DEF HostTypeOK
<1>3. HostTypeOK'
  BY <1>1, <1>2 DEF HostTypeOK, Remembers
<1>4. Handled'
  BY <1>2 DEF Handled, HostTypeOK
<1>5. \A h \in Hosts : h # r
  OBVIOUS
<1>6. Versioned'
  <2> SUFFICES ASSUME NEW h \in Hosts, h \in fresh'
               PROVE  /\ h \in LiveHosts
                      /\ status' \in Terminal => phase'[h] \in {"leaving", "terminating"}
    BY <1>1 DEF Versioned
  <2>1. h \in fresh
    BY <1>5
  <2>2. /\ h \in LiveHosts
        /\ status \in Terminal => phase[h] \in {"leaving", "terminating"}
    BY <2>1 DEF Versioned
  <2> QED
    BY <2>2
<1>7. Calm'
  BY DEF Calm
<1>8. \A h \in Hosts : phase'[h] \in Executing => phase[h] \in Executing
  BY DEF Executing
<1>9. Known'
  BY <1>8 DEF Known
<1>10. Attended'
  <2> SUFFICES ASSUME status' \in Active, LiveHosts = {}, ~lost'
               PROVE  \E q \in Handlers :
                         stage'[q] = "applied" /\ message'[q].command \in {"resume", "answer"}
    BY <1>1 DEF Attended, Remembers
  <2>1. CASE st = "applied" /\ message'[r].command \in {"resume", "answer"}
    BY <2>1 DEF HostTypeOK
  <2>2. CASE status' = status
    <3>1. PICK q \in Handlers :
             stage[q] = "applied" /\ message[q].command \in {"resume", "answer"}
      BY <2>2 DEF Attended, Remembers
    <3> QED
      BY <3>1 DEF HostTypeOK, HandsOver
  <2> QED
    BY <2>1, <2>2
<1> QED
  BY <1>3, <1>4, <1>6, <1>7, <1>9, <1>10

\* The last step of a request: it leaves the rows alone.
LEMMA RequestAnswers ==
    ASSUME HostInv,
           NEW r \in Handlers,
           NEW from \in Stages,
           Over(r, from),
           Eased,
           cancelled' \subseteq Hosts,
           heard' \in [Hosts -> SUBSET Questions],
           UNCHANGED <<status, calls, asked, applied, registered>>,
           fresh' \subseteq fresh,
           Remembers,
           HandsOver(r)
    PROVE  HostInv'
<1>1. /\ stage' = [stage EXCEPT ![r] = "idle"]
      /\ message' \in [Handlers -> Messages \cup {None}]
      /\ saw' \in [Handlers -> RunStatus \cup {None}]
      /\ found' \in [Handlers -> Hosts \cup {None}]
      /\ \A q \in Handlers \ {r} : message'[q] = message[q] /\ found'[q] = found[q]
  BY DEF Over, At, HostInv, HostTypeOK
<1>2. /\ status \in RunStatus /\ calls \in {"none", "running", "unknown"}
      /\ applied \subseteq {m.key : m \in Messages}
      /\ status \in Rest \cup {"planning"} => calls = "none"
  BY DEF HostInv, HostTypeOK, Calm
<1> QED
  BY <1>1, <1>2, RequestActs DEF Stages

\* A recovered host: idle until now, it holds no version and executes nothing.
LEMMA HostStarts ==
    ASSUME HostInv, NEW r \in Handlers, StartRecovered(r)
    PROVE  HostInv'
<1>1. /\ Proceeds(r) /\ stage[r] \in Stages /\ Over(r, stage[r])
      /\ UNCHANGED <<rowVars, controlVars>>
  BY DEF StartRecovered, HostInv, HostTypeOK
<1>2. CASE lost' = TRUE /\ UNCHANGED <<registered, phase>>
  <2>1. Eased /\ Remembers /\ HandsOver(r) /\ heard' \in [Hosts -> SUBSET Questions]
        /\ cancelled' \subseteq Hosts
    BY <1>1, <1>2 DEF Eased, Remembers, HandsOver, controlVars, HostInv, HostTypeOK
  <2> QED
    BY <1>1, <1>2, <2>1, RequestAnswers DEF rowVars, controlVars
<1>3. ASSUME registered = None, NEW h \in Hosts,
             \A g \in Hosts : phase[g] = "idle" <=> g >= h,
             registered' = h,
             phase' = [phase EXCEPT ![h] =
                 IF message[r].command = "resume" THEN "recover" ELSE "reload"],
             UNCHANGED lost
      PROVE  HostInv'
  <2> USE <1>3 DEF HostInv
  <2>1. LiveHosts = {}
    BY DEF HostTypeOK, LiveHosts
  <2>2. phase' \in [Hosts -> Phases] /\ \A g \in Hosts : g # h => phase'[g] = phase[g]
    BY DEF HostTypeOK, Phases
  <2>3. phase'[h] \in {"recover", "reload"} /\ h \in LiveHosts'
    BY <2>2 DEF HostTypeOK, LiveHosts
  <2>4. \A g \in LiveHosts' : g = h
    BY <2>1, <2>2 DEF LiveHosts
  <2>5. UNCHANGED rowVars /\ UNCHANGED controlVars
    BY <1>1
  <2>6. /\ stage' \in [Handlers -> Stages] /\ stage'[r] = "idle"
        /\ message' \in [Handlers -> Messages \cup {None}]
        /\ saw' \in [Handlers -> RunStatus \cup {None}]
        /\ found' \in [Handlers -> Hosts \cup {None}]
        /\ \A q \in Handlers \ {r} :
              stage'[q] = stage[q] /\ message'[q] = message[q] /\ found'[q] = found[q]
    BY <1>1 DEF Over, At, HostTypeOK, Stages
  <2>7. HostTypeOK'
    BY <2>2, <2>4, <2>5, <2>6 DEF HostTypeOK, rowVars, controlVars
  <2>8. Handled'
    BY <2>6 DEF Handled
  <2>9. Versioned'
    BY <2>1, <2>5 DEF Versioned, rowVars
  <2>10. Calm' /\ Known'
    BY <2>2, <2>3, <2>5 DEF Calm, Known, rowVars, Executing
  <2>11. Attended'
    BY <2>3 DEF Attended
  <2> QED
    BY <2>7, <2>8, <2>9, <2>10, <2>11
<1> QED
  BY <1>2, <1>3 DEF StartRecovered

\* Every step of a request that is being handled is one of these.
LEMMA RequestSteps ==
    ASSUME HostInv, NEW r \in Handlers, HandlerNext(r)
    PROVE  HostInv'
<1> USE DEF At, rowVars, controlVars, requestVars
<1>1. /\ status \in RunStatus /\ calls \in {"none", "running", "unknown"}
      /\ applied \subseteq {m.key : m \in Messages}
      /\ phase \in [Hosts -> Phases] /\ heard \in [Hosts -> SUBSET Questions]
      /\ runnable \subseteq Hosts /\ cancelled \subseteq Hosts
  BY DEF HostInv, HostTypeOK
<1>2. /\ stage \in [Handlers -> Stages]
      /\ message \in [Handlers -> Messages \cup {None}]
      /\ saw \in [Handlers -> RunStatus \cup {None}]
      /\ found \in [Handlers -> Hosts \cup {None}]
  BY DEF HostInv, HostTypeOK
<1>3. lost \in BOOLEAN
  BY DEF HostInv, HostTypeOK
<1>4. /\ stage[r] # "idle" => message[r] \in Messages
      /\ stage[r] \notin {"idle", "read"} /\ message[r].command = "pause" => found[r] \in Hosts
      /\ status \in Rest \cup {"planning"} => calls = "none"
  BY DEF HostInv, Handled, Calm
<1>5. Reached \in Hosts \cup {None} /\ (Reached # None => LiveHosts # {})
  BY OneLives DEF HostInv
<1>6. \A m \in Messages : m.command \in Commands
  OBVIOUS
<1> USE <1>1, <1>2, <1>3, <1>4, <1>5, <1>6 DEF Stages, Rest
<1>7. \A hosts \in SUBSET Hosts : Releases(hosts) => Eased
  BY DEF Releases, Phases, Eased
<1>8. UNCHANGED phase /\ runnable' \subseteq Hosts => Eased
  BY DEF Eased
<1>9. UNCHANGED lost => Remembers
  BY DEF Remembers
<1>10. lost' \/ LiveHosts # {} => HandsOver(r)
  BY DEF HandsOver
<1>11. message[r].command \notin {"resume", "answer"} \/ stage[r] # "applied" => HandsOver(r)
  BY DEF HandsOver
<1>12. CASE Signal(r)
  <2>1. CASE Reached = None
    <3>1. /\ Over(r, "read") /\ fresh' = fresh \ {r} /\ stage[r] = "read"
          /\ UNCHANGED <<runnable, status, calls, asked, applied, registered, phase,
                         cancelled, heard, lost>>
      BY <1>12, <2>1 DEF Signal, Over
    <3> QED
      BY <3>1, <1>8, <1>9, <1>11, RequestAnswers
  <2>2. CASE Reached # None
    <3>1. /\ stage' = [stage EXCEPT ![r] = "sent"]
          /\ found' = [found EXCEPT ![r] = Reached]
          /\ runnable' = runnable \ {Reached}
          /\ UNCHANGED <<rowVars, registered, phase, cancelled, heard, message, saw, lost>>
          /\ stage[r] = "read"
      BY <1>12, <2>2 DEF Signal
    <3> QED
      BY <2>2, <3>1, <1>8, <1>9, <1>11, RequestActs
  <2> QED
    BY <2>1, <2>2
<1>13. CASE Apply(r)
  <2>1. /\ stage[r] = "sent" /\ stage' = [stage EXCEPT ![r] = "applied"]
        /\ message[r] \in Messages /\ message[r].command \in Commands
        /\ Allowed(message[r])
        /\ status' = Effect[message[r].command]
        /\ calls' = IF message[r].command = "cancel" THEN Abandoned ELSE calls
        /\ applied' = applied \cup {message[r].key}
        /\ fresh' = {}
        /\ UNCHANGED <<asked, registered, phase, controlVars, message, saw, found, lost>>
    BY <1>13 DEF Apply
  <2>2. /\ status' \in RunStatus /\ status \notin Terminal
        /\ status' \in Rest \cup {"planning"} => calls' = "none"
        /\ calls' = calls \/ status' \in Terminal
        /\ status' \in Active => message[r].command \in {"resume", "answer"}
        /\ calls' \in {"none", "running", "unknown"}
    <3> USE <2>1 DEF Allowed, Effect, Abandoned, RunStatus, Terminal, Active
    <3>1. CASE message[r].command = "pause"
      BY <3>1
    <3>2. CASE message[r].command = "resume"
      BY <3>2
    <3>3. CASE message[r].command = "answer"
      BY <3>3
    <3>4. CASE message[r].command = "cancel"
      BY <3>4
    <3> QED
      BY <3>1, <3>2, <3>3, <3>4 DEF Commands
  <2>3. /\ applied' \subseteq {m.key : m \in Messages} /\ fresh' \subseteq fresh \cup {r}
        /\ message[r].command = "pause" => found'[r] \in Hosts
        /\ UNCHANGED <<asked, registered, phase, runnable, cancelled, heard, message, saw, found,
                       lost>>
    BY <2>1
  <2>4. "applied" \in Stages /\ stage' = [stage EXCEPT ![r] = "applied"]
    BY <2>1
  <2> QED
    BY <2>1, <2>2, <2>3, <2>4, <1>8, <1>9, <1>11, RequestActs
<1>14. CASE Replay(r)
  BY <1>14, <1>8, <1>9, <1>11, RequestActs DEF Replay
<1>15. CASE Refuse(r)
  BY <1>15, <1>8, <1>9, <1>11, RequestActs DEF Refuse
<1>16. CASE Paused(r)
  <2>1. PICK from \in Stages : Over(r, from)
    BY <1>16 DEF Paused, PauseAnswers
  <2>2. /\ message[r].command = "pause" /\ found[r] \in Hosts
        /\ UNCHANGED <<rowVars, registered, cancelled, heard, lost>>
    BY <1>16, <2>1 DEF Paused, PauseAnswers, Over
  <2>3. \/ UNCHANGED <<runnable, phase>>
        \/ runnable' = runnable \ {found[r]} /\ UNCHANGED phase
        \/ Releases({found[r]})
    BY <1>16 DEF Paused, PauseAnswers
  <2>4. Eased
    BY <2>2, <2>3, <1>7, <1>8
  <2> QED
    BY <2>1, <2>2, <2>4, <1>9, <1>11, RequestAnswers
<1>17. CASE Cancelled(r)
  <2>1. PICK from \in Stages : Over(r, from)
    BY <1>17 DEF Cancelled
  <2>2. PICK host \in SUBSET Hosts : cancelled' = cancelled \cup host /\ Releases(host)
    BY <1>17 DEF Cancelled
  <2>3. message[r].command = "cancel" /\ UNCHANGED <<rowVars, registered, heard, lost>>
    BY <1>17 DEF Cancelled
  <2>4. Eased
    BY <2>2, <1>7
  <2> QED
    BY <2>1, <2>2, <2>3, <2>4, <1>9, <1>11, RequestAnswers
<1>18. CASE Answered(r)
  <2>1. PICK from \in Stages : from # "applied" /\ Over(r, from)
    BY <1>18 DEF Answered
  <2>2. UNCHANGED <<rowVars, registered, phase, controlVars, lost>> /\ stage[r] # "applied"
    BY <1>18, <2>1 DEF Answered, Over
  <2> QED
    BY <2>1, <2>2, <1>8, <1>9, <1>11, RequestAnswers
<1>19. CASE Wake(r)
  <2>1. /\ Over(r, stage[r]) /\ stage[r] \in Stages
        /\ lost' = (lost \/ Reached = None)
        /\ UNCHANGED <<rowVars, registered, cancelled>>
    BY <1>19 DEF Wake
  <2>2. \/ Releases({Reached} \ {None}) /\ UNCHANGED heard
        \/ Hears(Reached, message[r].question) /\ UNCHANGED <<runnable, phase>>
    BY <1>19 DEF Wake
  <2>3. message[r] \in Messages
    BY <1>19, <1>4 DEF Wake, Proceeds
  <2>4. Eased /\ heard' \in [Hosts -> SUBSET Questions]
    <3>1. message[r].question \in Questions
      BY <2>3
    <3>2. CASE Releases({Reached} \ {None}) /\ UNCHANGED heard
      BY <3>2, <1>7
    <3>3. CASE Hears(Reached, message[r].question) /\ UNCHANGED <<runnable, phase>>
      BY <3>1, <3>3, <1>8 DEF Hears
    <3> QED
      BY <2>2, <3>2, <3>3
  <2>5. Remembers
    BY <2>1 DEF Remembers
  <2>6. HandsOver(r)
    BY <2>1, <1>10
  <2> QED
    BY <2>1, <2>4, <2>5, <2>6, RequestAnswers
<1>20. CASE StartRecovered(r)
  BY <1>20, HostStarts
<1> QED
  BY <1>12, <1>13, <1>14, <1>15, <1>16, <1>17, <1>18, <1>19, <1>20 DEF HandlerNext

LEMMA RequestBegins ==
    ASSUME HostInv, NEW r \in Handlers, NEW m \in Messages, Begin(r, m)
    PROVE  HostInv'
<1>1. /\ status \in RunStatus /\ calls \in {"none", "running", "unknown"}
      /\ applied \subseteq {n.key : n \in Messages}
      /\ message' \in [Handlers -> Messages \cup {None}]
      /\ Reached \in Hosts \cup {None}
      /\ status \in Rest \cup {"planning"} => calls = "none"
  BY OneLives DEF HostInv, HostTypeOK, Calm, Begin
<1>2. /\ message'[r] = m /\ \A q \in Handlers \ {r} : message'[q] = message[q]
      /\ fresh' = fresh \cup {r} /\ stage[r] = "idle"
      /\ UNCHANGED <<status, calls, asked, applied, registered, runnable, cancelled, heard>>
  BY DEF Begin, At, controlVars, HostInv, HostTypeOK
<1>3. Eased /\ Remembers /\ HandsOver(r) /\ heard' \in [Hosts -> SUBSET Questions]
      /\ cancelled' \subseteq Hosts
  BY <1>2 DEF Begin, controlVars, Eased, Remembers, HandsOver, HostInv, HostTypeOK
<1>4. CASE m.command = "pause"
  <2>1. /\ stage' = [stage EXCEPT ![r] = "read"] /\ "read" \in Stages
        /\ saw' \in [Handlers -> RunStatus \cup {None}]
        /\ found' = found /\ found \in [Handlers -> Hosts \cup {None}]
    BY <1>1, <1>4 DEF Begin, At, Stages, HostInv, HostTypeOK
  <2> QED
    BY <1>1, <1>2, <1>3, <2>1, RequestActs, ZenonT(60) DEF Active
<1>5. CASE m.command # "pause"
  <2>1. /\ stage' = [stage EXCEPT ![r] = "sent"] /\ "sent" \in Stages
        /\ saw' = saw /\ saw \in [Handlers -> RunStatus \cup {None}]
        /\ found \in [Handlers -> Hosts \cup {None}]
        /\ found' = found \/ found' = [found EXCEPT ![r] = Reached]
    BY <1>5 DEF Begin, At, Stages, HostInv, HostTypeOK
  <2>2. /\ found' \in [Handlers -> Hosts \cup {None}]
        /\ \A q \in Handlers \ {r} : found'[q] = found[q]
    BY <1>1, <2>1
  <2> QED
    BY <1>1, <1>2, <1>3, <1>5, <2>1, <2>2, RequestActs DEF Active
<1> QED
  BY <1>4, <1>5

\* A revision leaves no host a version; a forgotten producer was no live host.
LEMMA OthersKeep ==
    ASSUME HostInv, Revise \/ Forget
    PROVE  HostInv'
<1> USE DEF HostInv, rowVars, controlVars, requestVars
<1>1. LiveHosts' = LiveHosts
  BY DEF Revise, Forget, LiveHosts
<1>2. CASE Revise
  <2>1. HostTypeOK'
    BY <1>1, <1>2 DEF Revise, HostTypeOK
  <2>2. Handled' /\ Versioned' /\ Calm' /\ Known' /\ Attended'
    BY <1>1, <1>2 DEF Revise, Handled, Versioned, Calm, Known, Attended
  <2> QED
    BY <2>1, <2>2
<1>3. CASE Forget
  <2>1. LiveHosts = {}
    BY <1>3 DEF Forget, HostTypeOK
  <2>2. HostTypeOK'
    BY <1>1, <1>3, <2>1 DEF Forget, HostTypeOK
  <2>3. Handled' /\ Versioned' /\ Calm' /\ Known' /\ Attended'
    BY <1>1, <1>3 DEF Forget, Handled, Versioned, Calm, Known, Attended
  <2> QED
    BY <2>2, <2>3
<1> QED
  BY <1>2, <1>3

LEMMA NothingKeeps ==
    ASSUME HostInv, UNCHANGED hostVars
    PROVE  HostInv'
<1> USE DEF HostInv, hostVars, rowVars, controlVars, requestVars
<1>1. LiveHosts' = LiveHosts
  BY DEF LiveHosts
<1>2. HostTypeOK'
  BY <1>1 DEF HostTypeOK
<1>3. Handled' /\ Versioned' /\ Calm' /\ Known' /\ Attended'
  BY <1>1 DEF Handled, Versioned, Calm, Known, Attended
<1> QED
  BY <1>2, <1>3

LEMMA EveryStepKeeps == HostInv /\ [Next]_hostVars => HostInv'
<1> SUFFICES ASSUME HostInv, [Next]_hostVars PROVE HostInv'
  OBVIOUS
<1>1. CASE \E h \in Hosts : HostNext(h)
  BY <1>1, HostSteps
<1>2. CASE \E r \in Handlers : HandlerNext(r) \/ \E m \in Messages : Begin(r, m)
  BY <1>2, RequestSteps, RequestBegins
<1>3. CASE Revise \/ Forget
  BY <1>3, OthersKeep
<1>4. CASE UNCHANGED hostVars
  BY <1>4, NothingKeeps
<1> QED
  BY <1>1, <1>2, <1>3, <1>4 DEF Next
-----------------------------------------------------------------------------
(* The rows, the manager's entry, the hosts' signals and the requests of     *)
(* agent_runs.py keep to HostInv, whatever their order.                      *)
THEOREM HostsSound == Spec => []HostInv
BY Begins, EveryStepKeeps, PTL DEF Spec

(* Every variable keeps its type, and AgentRunManager's entry is the host    *)
(* that is alive.                                                            *)
THEOREM HostTypes == Spec => []HostTypeOK
<1>1. HostInv => HostTypeOK
  BY DEF HostInv
<1> QED
  BY <1>1, HostsSound, PTL

(* require_idle and the versions together: no pause that commits finds a     *)
(* call open, and no host that passed its boundary opens one after it.       *)
THEOREM NothingRunsAtRest == Spec => []QuietAtRest
<1>1. HostInv => QuietAtRest
  BY DEF HostInv, QuietAtRest, Calm, Known, Rest, Terminal
<1> QED
  BY <1>1, HostsSound, PTL

(* A request that found no host starts one, wakes the one that has come, or  *)
(* fails: a run in progress is never left without a host unnoticed.          *)
THEOREM RunsAreAttended == Spec => []AttendedOrTold
<1>1. HostInv => AttendedOrTold
  BY DEF HostInv, AttendedOrTold, Attended, Quiet
<1> QED
  BY <1>1, HostsSound, PTL

(* terminate_active_run takes no version and allowed_statuses never names an *)
(* ended status: neither changes how a run has ended.                        *)
THEOREM TheEndIsFinal == Spec => EndedIsFinal
<1>1. HostInv /\ [Next]_hostVars => [(status \in Terminal) => status' = status]_hostVars
  <2> SUFFICES ASSUME HostInv, Next, status \in Terminal PROVE status' = status
    OBVIOUS
  <2> USE DEF rowVars
  <2>1. ASSUME NEW h \in Hosts, HostNext(h) PROVE status' = status
    <3>1. h \in fresh => phase[h] \in {"leaving", "terminating"}
      BY DEF HostInv, Versioned
    <3> QED
      BY <2>1, <3>1 DEF HostNext, Goes, Writes, Reads, SavePlan, Ask, StartRunning, GetAnswer,
         ReadAnswered, ReadRecovered, WaitForSignal, PassBoundary, Look, Think, Record,
         StartExecution, Return, Settle, Verify, End, Raise, HandleException, Leave, TerminateLeft,
         Terminates, onlyTheHost
  <2>2. ASSUME NEW r \in Handlers, HandlerNext(r) PROVE status' = status
    <3>1. CASE Apply(r)
      <4>1. message[r] \in Messages /\ Allowed(message[r])
        BY <3>1 DEF Apply, At, HostInv, Handled
      <4> QED
        BY <4>1 DEF Allowed, Commands, Terminal
    <3> QED
      BY <2>2, <3>1 DEF HandlerNext, Signal, Replay, Refuse, Paused, PauseAnswers, Cancelled,
         Answered, Wake, StartRecovered
  <2>3. ASSUME NEW r \in Handlers, NEW m \in Messages, Begin(r, m) PROVE status' = status
    BY <2>3 DEF Begin
  <2>4. CASE Revise \/ Forget
    BY <2>4 DEF Revise, Forget
  <2> QED
    BY <2>1, <2>2, <2>3, <2>4 DEF Next
<1> QED
  BY <1>1, HostsSound, PTL DEF Spec, EndedIsFinal
-----------------------------------------------------------------------------
(* HostListens, whatever clients send and repeat, but for two turns of       *)
(* events: an answer is accepted to a question before the one that is asked, *)
(* and a refused pause that saw the run paused takes its signal for the      *)
(* run's when the run has meanwhile gone on (as in the run parked).          *)
AnswersEarlier(r) ==
    Apply(r) /\ message[r].command = "answer" /\ message[r].question # asked
PausesLate(r) ==
    Paused(r) /\ stage[r] = "refused" /\ saw[r] = "paused" /\ status \notin Terminal \cup {"paused"}
Untimely == \E r \in Handlers : AnswersEarlier(r) \/ PausesLate(r)

\* What a host that holds the version of now takes the run to be, it is.
Current ==
    \A h \in Hosts \cap fresh :
        /\ phase[h] \in {"work", "commit", "gather", "halt"} => status = "running"
        /\ phase[h] = "verify" => status = "verifying"

\* An answer to a live host is with its handler until the host has heard it.
Delivers(r) ==
    /\ stage[r] = "applied" /\ message[r].command = "answer"
    /\ message[r].question = asked /\ found[r] # None

Awaited ==
    \A h \in Hosts :
        phase[h] = "await" =>
            \/ status \in Terminal \cup {"waiting_user"}
            \/ /\ status = "planning"
               /\ asked \in heard[h] \/ \E r \in Handlers : Delivers(r)

\* A request that can answer a host that waits has found it.
FoundIt ==
    \A r \in Handlers \cap fresh :
        /\ stage[r] = "sent" /\ message[r].command = "answer" /\ status = "waiting_user"
        /\ \E h \in Hosts : phase[h] = "await"
        => found[r] # None

\* The requests that will set the signal of h again.
Undoes(r, h) ==
    \/ /\ message[r].command = "pause" /\ found[r] = h
       /\ \/ stage[r] \in {"sent", "refused"}
          \/ stage[r] = "replayed" /\ saw[r] # "paused"
    \/ message[r].command = "resume" /\ stage[r] = "applied"

Released ==
    \A h \in LiveHosts :
        h \notin runnable /\ status \notin Terminal \cup {"paused"} /\ ~lost =>
            \E r \in Handlers : Undoes(r, h)

\* Only a pause reads first, and the host it found has started.
JudgedBy(r) ==
    /\ stage[r] = "read" => message[r].command = "pause"
    /\ stage[r] \notin {"idle", "read"} /\ message[r].command = "pause" => phase[found[r]] # "idle"

Judged == \A r \in Handlers : JudgedBy(r)

\* A host starts with its signal set.
Ready == \A h \in Hosts : phase[h] = "idle" => h \in runnable

ListenInv ==
    /\ HostInv
    /\ Current
    /\ Awaited
    /\ FoundIt
    /\ Released
    /\ Judged
    /\ Ready
-----------------------------------------------------------------------------
LEMMA ListenBegins == Init => ListenInv
<1> SUFFICES ASSUME Init PROVE ListenInv
  OBVIOUS
<1>1. HostInv
  BY Begins
<1>2. Current /\ Awaited /\ FoundIt /\ Released
  BY DEF Init, Current, Awaited, FoundIt, Released, LiveHosts
<1>3. Judged /\ Ready
  BY DEF Init, Judged, JudgedBy, Ready
<1> QED
  BY <1>1, <1>2, <1>3 DEF ListenInv

(* What a step of a host owes to the clients: it rests on the run as it is,  *)
(* asks one question more when it waits for an answer, and pauses no run.    *)
LEMMA HostActsListening ==
    ASSUME ListenInv, HostInv',
           NEW h \in LiveHosts,
           NEW p \in Phases \ {"idle", "finished"},
           phase' = [phase EXCEPT ![h] = p],
           UNCHANGED <<applied, registered, controlVars, requestVars>>,
           fresh' \subseteq fresh \cup {h},
           h \in fresh' => /\ p \in {"work", "commit", "gather", "halt"} => status' = "running"
                           /\ p = "verify" => status' = "verifying",
           \/ asked' = asked /\ (status' = "waiting_user" => status = "waiting_user")
           \/ asked' = asked + 1 /\ status' = "waiting_user" /\ status = "planning",
           status' \notin Terminal /\ status' # status =>
               status \notin Terminal \cup {"waiting_user", "paused"},
           p = "await" => status' = "waiting_user" /\ fresh' \subseteq Hosts
    PROVE  ListenInv'
<1> USE DEF ListenInv, controlVars, requestVars
<1>1. /\ \A g \in LiveHosts : g = h
      /\ h \in Hosts /\ phase \in [Hosts -> Phases]
      /\ asked \in Nat /\ status \in RunStatus
  BY OneLives DEF HostInv, HostTypeOK
<1>2. LiveHosts' = LiveHosts /\ \A g \in Hosts : g # h => phase'[g] = phase[g]
  BY <1>1 DEF LiveHosts
<1>3. \A g \in Hosts : g # h => phase[g] \in {"idle", "finished"}
  BY <1>1 DEF LiveHosts
<1>4. phase'[h] = p
  BY <1>1
<1>6. Current'
  BY <1>1, <1>3, <1>4 DEF Current, HostInv, Versioned
<1>7. Awaited' /\ FoundIt'
  BY <1>1, <1>2, <1>3, <1>4 DEF Awaited, FoundIt
<1>8. Released'
  BY <1>2 DEF Released, Undoes
<1>9. Judged' /\ Ready'
  BY <1>1, <1>2, <1>4 DEF Judged, JudgedBy, Ready, HostInv, Handled
<1> QED
  BY <1>6, <1>7, <1>8, <1>9

LEMMA HostFinishesListening ==
    ASSUME ListenInv, HostInv',
           NEW h \in LiveHosts,
           phase' = [phase EXCEPT ![h] = "finished"],
           Finished(h),
           UNCHANGED <<asked, applied, requestVars>>,
           fresh' \subseteq fresh \ {h},
           status' = status \/ status' \in Terminal
    PROVE  ListenInv'
<1> USE DEF ListenInv, requestVars
<1>1. /\ \A g \in LiveHosts : g = h
      /\ h \in Hosts /\ phase \in [Hosts -> Phases]
  BY OneLives DEF HostInv, HostTypeOK
<1>2. LiveHosts' = {}
  BY <1>1 DEF LiveHosts
<1>3. \A g \in Hosts : phase'[g] \in {"idle", "finished"}
  BY <1>1 DEF LiveHosts
<1>5. Current' /\ Awaited' /\ FoundIt' /\ Released'
  BY <1>2, <1>3 DEF Current, Awaited, FoundIt, Released
<1>7. Judged'
  BY <1>1 DEF Judged, JudgedBy, HostInv, Handled
<1>8. Ready'
  BY <1>1 DEF Ready, Finished, HostInv, HostTypeOK
<1> QED
  BY <1>5, <1>7, <1>8

LEMMA HostStepsListen ==
    ASSUME ListenInv, NEW h \in Hosts, HostNext(h)
    PROVE  ListenInv'
<1> USE DEF Goes, Writes, onlyTheRun, onlyTheHost, rowVars
<1>1. HostInv /\ HostInv'
  BY HostSteps DEF ListenInv
<1>2. /\ h \in fresh => h \in LiveHosts
      /\ h \in fresh /\ status \in Terminal => phase[h] \in {"leaving", "terminating"}
      /\ h \in fresh /\ phase[h] \in {"work", "commit", "gather", "halt"} => status = "running"
      /\ h \in fresh /\ phase[h] = "verify" => status = "verifying"
  BY <1>1 DEF HostInv, Versioned, ListenInv, Current
<1>3. /\ phase \in [Hosts -> Phases] /\ asked \in Nat /\ status \in RunStatus
      /\ phase[h] \notin {"idle", "finished"} <=> h \in LiveHosts
  BY <1>1 DEF HostInv, HostTypeOK, LiveHosts
<1> USE <1>1, <1>2, <1>3 DEF Phases, RunStatus, Terminal, Rest, Active
<1>4. CASE SavePlan(h)
  BY <1>4, HostActsListening DEF SavePlan
<1>5. CASE Ask(h)
  BY <1>5, HostActsListening DEF Ask
<1>6. CASE StartRunning(h)
  BY <1>6, HostActsListening DEF StartRunning
<1>7. CASE GetAnswer(h)
  BY <1>7, HostActsListening DEF GetAnswer
<1>8. CASE ReadAnswered(h)
  BY <1>8, HostActsListening DEF ReadAnswered, Reads
<1>9. CASE ReadRecovered(h)
  BY <1>9, HostActsListening DEF ReadRecovered, Reads
<1>10. CASE WaitForSignal(h)
  BY <1>10, HostActsListening DEF WaitForSignal
<1>11. CASE PassBoundary(h)
  <2>1. PICK p \in {"leaving", "look"} : phase' = [phase EXCEPT ![h] = p]
    BY <1>11 DEF PassBoundary
  <2>2. h \in LiveHosts /\ UNCHANGED onlyTheHost
    BY <1>11 DEF PassBoundary
  <2>3. QED
    BY <2>1, <2>2, HostActsListening
<1>12. CASE Look(h)
  <2>1. PICK p \in {"work", "commit", "halt", "leaving"} :
           /\ phase' = [phase EXCEPT ![h] = p]
           /\ p # "leaving" => status = "running"
    BY <1>12 DEF Look, Reads
  <2>2. /\ h \in LiveHosts /\ fresh' \subseteq fresh \cup {h}
        /\ UNCHANGED <<status, calls, asked, applied, registered, controlVars, requestVars>>
    BY <1>12 DEF Look, Reads
  <2> QED
    BY <2>1, <2>2, HostActsListening
<1>13. CASE Think(h)
  BY <1>13, HostActsListening DEF Think
<1>14. CASE Record(h)
  BY <1>14, HostActsListening DEF Record
<1>15. CASE StartExecution(h)
  BY <1>15, HostActsListening DEF StartExecution
<1>16. CASE Return(h)
  BY <1>16, HostActsListening DEF Return, Reads
<1>17. CASE Settle(h)
  BY <1>17, HostActsListening DEF Settle
<1>18. CASE Verify(h)
  BY <1>18, HostActsListening DEF Verify
<1>19. CASE End(h)
  BY <1>19, HostActsListening DEF End
<1>20. CASE Raise(h)
  BY <1>20, HostActsListening DEF Raise
<1>21. CASE HandleException(h)
  BY <1>21, HostActsListening DEF HandleException, Terminates
<1>22. CASE Leave(h)
  BY <1>22, HostActsListening, HostFinishesListening DEF Leave
<1>23. CASE TerminateLeft(h)
  BY <1>23, HostFinishesListening DEF TerminateLeft, Terminates
<1> QED
  BY <1>4, <1>5, <1>6, <1>7, <1>8, <1>9, <1>10, <1>11, <1>12, <1>13, <1>14, <1>15, <1>16, <1>17,
     <1>18, <1>19, <1>20, <1>21, <1>22, <1>23 DEF HostNext
-----------------------------------------------------------------------------
(* What a step of a request does to the run: nothing, or with the version    *)
(* of now, one of these.                                                     *)
TurnsRun(r) ==
    \/ status' = status
    \/ /\ fresh' = {} /\ status \notin Terminal
       /\ \/ status' \in Terminal
          \/ status' = "paused" /\ status = "running"
          \/ /\ status = "paused" /\ status' = "running"
             /\ stage'[r] = "applied" /\ message'[r].command = "resume"
          \/ /\ status = "waiting_user" /\ status' = "planning"
             /\ stage'[r] = "applied" /\ message'[r].command = "answer"
             /\ message'[r].question = asked
             /\ \A h \in Hosts : phase[h] = "await" => found'[r] # None

\* It tells the host that waits before it is done.
Tells(r) ==
    /\ \A h \in Hosts : heard[h] \subseteq heard'[h]
    /\ Delivers(r) => \A h \in LiveHosts : asked \in heard'[h]

\* It knows of the host that waits as long as it can answer it.
FindsIt(r) ==
    /\ r \in fresh' /\ stage'[r] = "sent" /\ message'[r].command = "answer"
    /\ status' = "waiting_user" /\ \E h \in Hosts : phase[h] = "await"
    => found'[r] # None

\* It leaves no host without its signal on a run that goes on.
SetsAgain(r) ==
    \A h \in LiveHosts :
        h \notin runnable' /\ status' \notin Terminal \cup {"paused"} /\ ~lost' =>
            \/ Undoes(r, h)'
            \/ h \notin runnable /\ ~Undoes(r, h) /\ status \notin Terminal \cup {"paused"}

\* It takes the signal from no host that has not started.
StaysReady == \A h \in Hosts : phase[h] = "idle" => h \in runnable'

LEMMA RequestActsListening ==
    ASSUME ListenInv, HostInv',
           NEW r \in Handlers,
           Eased,
           UNCHANGED <<asked, registered>>,
           \A q \in Handlers \ {r} : /\ stage'[q] = stage[q] /\ message'[q] = message[q]
                                     /\ saw'[q] = saw[q] /\ found'[q] = found[q],
           fresh' \subseteq fresh \cup {r},
           applied \subseteq applied',
           lost => lost',
           TurnsRun(r), Tells(r), FindsIt(r), SetsAgain(r), JudgedBy(r)',
           StaysReady
    PROVE  ListenInv'
<1> USE DEF ListenInv
<1>1. /\ asked \in Nat /\ status \in RunStatus /\ phase \in [Hosts -> Phases]
      /\ fresh \subseteq Hosts \cup Handlers
  BY DEF HostInv, HostTypeOK
<1>2. /\ LiveHosts' = LiveHosts
      /\ \A h \in Hosts : phase'[h] = phase[h] \/ phase'[h] = "woken"
      /\ \A h \in Hosts : phase'[h] = "await" <=> phase[h] = "await"
  BY DEF Eased, LiveHosts
<1>3. status' \in Terminal \/ status' = status \/ (status' # "waiting_user" /\ status \notin Terminal)
  BY DEF TurnsRun, Terminal
<1>5. Current'
  BY <1>1, <1>2 DEF Current, TurnsRun
<1>6. Awaited'
  <2> SUFFICES ASSUME NEW h \in Hosts, phase[h] = "await",
                      status' \notin Terminal \cup {"waiting_user"}
               PROVE  /\ status' = "planning"
                      /\ asked \in heard'[h] \/ \E q \in Handlers : Delivers(q)'
    BY <1>2 DEF Awaited
  <2>1. h \in LiveHosts
    BY DEF LiveHosts
  <2>2. CASE status' = status
    <3>1. status = "planning" /\ (asked \in heard[h] \/ \E q \in Handlers : Delivers(q))
      BY <2>2 DEF Awaited
    <3>2. CASE asked \in heard[h]
      BY <2>2, <3>1, <3>2 DEF Tells
    <3>3. ASSUME NEW q \in Handlers, Delivers(q)
          PROVE  asked \in heard'[h] \/ Delivers(q)'
      BY <2>1, <3>3 DEF Tells, Delivers
    <3> QED
      BY <2>2, <3>1, <3>2, <3>3
  <2>3. CASE status' # status
    <3>1. status \in Terminal \cup {"waiting_user", "planning"}
      BY DEF Awaited
    <3>2. /\ status' = "planning" /\ Delivers(r)'
      BY <2>3, <3>1 DEF TurnsRun, Delivers
    <3> QED
      BY <3>2
  <2> QED
    BY <2>2, <2>3
<1>7. FoundIt'
  <2> SUFFICES ASSUME NEW q \in Handlers, q \in fresh',
                      stage'[q] = "sent" /\ message'[q].command = "answer",
                      status' = "waiting_user", \E h \in Hosts : phase[h] = "await"
               PROVE  found'[q] # None
    BY <1>2 DEF FoundIt
  <2>1. CASE q = r
    BY <2>1 DEF FindsIt
  <2>2. CASE q # r
    <3>1. q \in fresh /\ status = "waiting_user"
      BY <2>2 DEF TurnsRun, Terminal
    <3> QED
      BY <2>2, <3>1 DEF FoundIt
  <2> QED
    BY <2>1, <2>2
<1>8. Released'
  <2> SUFFICES ASSUME NEW h \in LiveHosts, h \notin runnable',
                      status' \notin Terminal \cup {"paused"}, ~lost'
               PROVE  \E q \in Handlers : Undoes(q, h)'
    BY <1>2 DEF Released
  <2>1. CASE h \notin runnable /\ ~Undoes(r, h) /\ status \notin Terminal \cup {"paused"}
    <3>1. PICK q \in Handlers : Undoes(q, h)
      BY <2>1 DEF Released
    <3>2. q # r
      BY <2>1, <3>1
    <3> QED
      BY <3>1, <3>2 DEF Undoes
  <2> QED
    BY <2>1 DEF SetsAgain
<1>10. Judged'
  <2> SUFFICES ASSUME NEW q \in Handlers PROVE JudgedBy(q)'
    BY DEF Judged
  <2>1. CASE q # r
    <3>1. JudgedBy(q) /\ (stage[q] \notin {"idle", "read"} /\ message[q].command = "pause"
                             => found[q] \in Hosts)
      BY DEF Judged, HostInv, Handled
    <3> QED
      BY <1>2, <2>1, <3>1 DEF JudgedBy
  <2> QED
    BY <2>1
<1>11. Ready'
  BY <1>2 DEF Ready, StaysReady
<1> QED
  BY <1>5, <1>6, <1>7, <1>8, <1>10, <1>11

\* The last step of a request: it leaves the rows alone.
LEMMA RequestAnswersListening ==
    ASSUME ListenInv, HostInv',
           NEW r \in Handlers, NEW from \in Stages,
           Over(r, from), Eased,
           UNCHANGED <<status, asked, applied, registered, fresh>>,
           lost => lost',
           Tells(r), SetsAgain(r),
           StaysReady
    PROVE  ListenInv'
<1>1. /\ stage' = [stage EXCEPT ![r] = "idle"]
      /\ \A q \in Handlers \ {r} : /\ stage'[q] = stage[q] /\ message'[q] = message[q]
                                   /\ saw'[q] = saw[q] /\ found'[q] = found[q]
  BY DEF Over, At, ListenInv, HostInv, HostTypeOK
<1>2. stage'[r] = "idle"
  BY <1>1 DEF ListenInv, HostInv, HostTypeOK
<1>3. JudgedBy(r)' /\ FindsIt(r) /\ TurnsRun(r)
  BY <1>2 DEF JudgedBy, FindsIt, TurnsRun
<1> QED
  BY <1>1, <1>3, RequestActsListening

\* Nothing is heard before it is said: a step that tells no host is with no answer.
LEMMA TellsNone ==
    ASSUME UNCHANGED heard, NEW r \in Handlers, ~Delivers(r)
    PROVE  Tells(r)
BY DEF Tells

LEMMA SignalListens ==
    ASSUME ListenInv, HostInv', NEW r \in Handlers, Signal(r)
    PROVE  ListenInv'
<1> USE DEF ListenInv
<1>1. /\ stage[r] = "read" /\ message[r] \in Messages
      /\ UNCHANGED <<status, calls, asked, applied, registered, phase, cancelled, heard, lost>>
  BY DEF Signal, Over, At, HostInv, Handled
<1>2. Eased /\ Tells(r)
  BY <1>1 DEF Eased, Signal, HostInv, HostTypeOK, Tells, Delivers
<1>3. /\ stage \in [Handlers -> Stages] /\ message \in [Handlers -> Messages \cup {None}]
      /\ saw \in [Handlers -> RunStatus \cup {None}] /\ found \in [Handlers -> Hosts \cup {None}]
      /\ Reached \in Hosts \cup {None}
  BY OneLives DEF HostInv, HostTypeOK
<1>4. CASE Reached = None
  <2>1. /\ Over(r, "read") /\ fresh' = fresh \ {r} /\ UNCHANGED runnable
    BY <1>1, <1>4 DEF Signal, Over, At
  <2>2. /\ stage' = [stage EXCEPT ![r] = "idle"]
        /\ \A q \in Handlers \ {r} : /\ stage'[q] = stage[q] /\ message'[q] = message[q]
                                     /\ saw'[q] = saw[q] /\ found'[q] = found[q]
    BY <1>3, <2>1 DEF Over, At
  <2>3. stage'[r] = "idle"
    BY <1>3, <2>2
  <2>4. JudgedBy(r)' /\ FindsIt(r) /\ TurnsRun(r)
    BY <1>1, <2>3 DEF JudgedBy, FindsIt, TurnsRun
  <2>5. SetsAgain(r) /\ StaysReady
    BY <1>1, <2>1 DEF SetsAgain, Undoes, Ready, StaysReady
  <2> QED
    BY <1>1, <1>2, <2>1, <2>2, <2>4, <2>5, RequestActsListening
<1>5. CASE Reached # None
  <2>1. /\ stage' = [stage EXCEPT ![r] = "sent"]
        /\ found' = [found EXCEPT ![r] = Reached]
        /\ runnable' = runnable \ {Reached}
        /\ UNCHANGED <<fresh, message, saw>>
    BY <1>1, <1>5 DEF Signal, Over, At
  <2>2. stage'[r] = "sent" /\ found'[r] = Reached
    BY <1>3, <2>1
  <2>3. \A q \in Handlers \ {r} : /\ stage'[q] = stage[q] /\ message'[q] = message[q]
                                  /\ saw'[q] = saw[q] /\ found'[q] = found[q]
    BY <1>3, <2>1
  <2>4. message[r].command = "pause"
    BY <1>1 DEF Judged, JudgedBy
  <2>5. JudgedBy(r)' /\ FindsIt(r) /\ TurnsRun(r)
    BY <1>1, <1>3, <1>5, <2>1, <2>2, <2>4, OneLives
       DEF JudgedBy, FindsIt, TurnsRun, Judged, HostInv, LiveHosts
  <2>6. SetsAgain(r)
    <3>1. \A h \in LiveHosts : Undoes(r, h)'
      BY <1>1, <1>3, <1>5, <2>2, <2>1, <2>4, OneLives DEF Undoes, HostInv
    <3> QED
      BY <3>1 DEF SetsAgain
  <2>7. StaysReady
    BY <1>5, <2>1, OneLives DEF Ready, StaysReady, HostInv, LiveHosts
  <2> QED
    BY <1>1, <1>2, <2>1, <2>3, <2>5, <2>6, <2>7, RequestActsListening
<1> QED
  BY <1>4, <1>5

LEMMA ApplyListens ==
    ASSUME ListenInv, HostInv', NEW r \in Handlers, Apply(r), ~AnswersEarlier(r)
    PROVE  ListenInv'
<1> USE DEF ListenInv
<1>1. /\ stage[r] = "sent" /\ stage' = [stage EXCEPT ![r] = "applied"]
      /\ message[r] \in Messages /\ message[r].key \notin applied
      /\ r \in fresh /\ Allowed(message[r])
      /\ status' = Effect[message[r].command]
      /\ applied' = applied \cup {message[r].key} /\ fresh' = {}
      /\ UNCHANGED <<asked, registered, phase, runnable, cancelled, heard, message, saw, found,
                     lost>>
  BY DEF Apply, At, controlVars, HostInv, Handled
<1>2. stage \in [Handlers -> Stages] /\ message[r].command \in Commands /\ asked \in Nat
  BY <1>1 DEF HostInv, HostTypeOK
<1>3. stage'[r] = "applied" /\ \A q \in Handlers \ {r} : stage'[q] = stage[q]
  BY <1>1, <1>2
<1>4. Eased /\ StaysReady
  BY <1>1 DEF Eased, Ready, StaysReady, HostInv, HostTypeOK
<1>5. Tells(r)
  BY <1>1 DEF Tells, Delivers
<1>6. FindsIt(r)
  BY <1>3 DEF FindsIt
<1>7. JudgedBy(r)'
  BY <1>1, <1>3 DEF Judged, JudgedBy
<1>8. TurnsRun(r)
  <2>1. CASE message[r].command = "pause"
    BY <1>1, <2>1 DEF Allowed, Effect, TurnsRun, Terminal
  <2>2. CASE message[r].command = "resume"
    BY <1>1, <1>3, <2>2 DEF Allowed, Effect, TurnsRun, Terminal
  <2>3. CASE message[r].command = "answer"
    <3>1. /\ status = "waiting_user" /\ status' = "planning"
          /\ message[r].question \in 1..asked
      BY <1>1, <2>3 DEF Allowed, Effect
    <3>2. message[r].question = asked
      BY <2>3 DEF AnswersEarlier
    <3>4. \A h \in Hosts : phase[h] = "await" => found[r] # None
      BY <1>1, <2>3, <3>1 DEF FoundIt
    <3> QED
      BY <1>1, <1>3, <2>3, <3>1, <3>2, <3>4 DEF TurnsRun, Terminal
  <2>4. CASE message[r].command = "cancel"
    BY <1>1, <2>4 DEF Allowed, Effect, TurnsRun, Terminal
  <2> QED
    BY <1>2, <2>1, <2>2, <2>3, <2>4 DEF Commands
<1>9. SetsAgain(r)
  <2> SUFFICES ASSUME NEW h \in LiveHosts, status' \notin Terminal \cup {"paused"}, ~lost',
                      h \notin runnable
               PROVE  \/ Undoes(r, h)'
                      \/ h \notin runnable /\ ~Undoes(r, h) /\ status \notin Terminal \cup {"paused"}
    BY <1>1 DEF SetsAgain
  <2>1. CASE message[r].command = "resume"
    BY <1>1, <1>3, <2>1 DEF Undoes
  <2>2. CASE message[r].command = "answer"
    BY <1>1, <1>2, <2>2 DEF Undoes, Allowed, Terminal
  <2> QED
    BY <1>1, <1>2, <2>1, <2>2 DEF Commands, Effect, Terminal
<1> QED
  BY <1>1, <1>3, <1>4, <1>5, <1>6, <1>7, <1>8, <1>9, RequestActsListening

LEMMA RepliesListen ==
    ASSUME ListenInv, HostInv', NEW r \in Handlers, Replay(r) \/ Refuse(r)
    PROVE  ListenInv'
<1> USE DEF ListenInv
<1>1. PICK st \in {"replayed", "refused"} :
         /\ stage[r] = "sent" /\ stage' = [stage EXCEPT ![r] = st]
         /\ st = "replayed" => message[r].key \in applied /\ saw' = [saw EXCEPT ![r] = status]
         /\ st = "refused" => message[r].key \notin applied /\ UNCHANGED saw
  BY DEF Replay, Refuse, At
<1>2. /\ fresh' = fresh \ {r}
      /\ UNCHANGED <<status, calls, asked, applied, registered, phase, runnable, cancelled,
                     heard, message, found, lost>>
  BY DEF Replay, Refuse, controlVars
<1>3. /\ stage \in [Handlers -> Stages] /\ saw \in [Handlers -> RunStatus \cup {None}]
      /\ message[r] \in Messages
  BY <1>1 DEF HostInv, HostTypeOK, Handled
<1>4. /\ stage'[r] = st /\ \A q \in Handlers \ {r} : stage'[q] = stage[q] /\ saw'[q] = saw[q]
      /\ st = "replayed" => saw'[r] = status
  BY <1>1, <1>3
<1>5. Eased /\ Tells(r) /\ TurnsRun(r) /\ StaysReady
  BY <1>1, <1>2 DEF Eased, Tells, Delivers, TurnsRun, Ready, StaysReady, HostInv, HostTypeOK
<1>6. FindsIt(r)
  BY <1>4 DEF FindsIt
<1>7. JudgedBy(r)'
  BY <1>1, <1>2, <1>4 DEF Judged, JudgedBy
<1>8. SetsAgain(r)
  BY <1>1, <1>2, <1>4 DEF SetsAgain, Undoes
<1> QED
  BY <1>2, <1>4, <1>5, <1>6, <1>7, <1>8, RequestActsListening

\* How a request ends, seen by who waits for the signal or the answer.
LEMMA AnswersListen ==
    ASSUME ListenInv, HostInv', NEW r \in Handlers,
           Paused(r) \/ Cancelled(r) \/ Answered(r) \/ Wake(r), ~PausesLate(r)
    PROVE  ListenInv'
<1> USE DEF ListenInv, rowVars, controlVars
<1>1. /\ stage \in [Handlers -> Stages] /\ phase \in [Hosts -> Phases]
      /\ heard \in [Hosts -> SUBSET Questions] /\ runnable \subseteq Hosts
      /\ stage[r] # "idle" => message[r] \in Messages
      /\ stage[r] \notin {"idle", "read"} /\ message[r].command = "pause" => found[r] \in Hosts
  BY DEF HostInv, HostTypeOK, Handled
<1>2. /\ \A h \in LiveHosts : h = Reached
      /\ \A h \in Hosts : phase[h] = "idle" => h \in runnable
      /\ \A h \in LiveHosts : registered = h /\ h # None
  BY OneLives DEF HostInv, HostTypeOK, Reached, Ready, LiveHosts
<1>3. \A hosts \in SUBSET Hosts :
         Releases(hosts) => Eased /\ runnable' = runnable \cup hosts
  BY <1>1 DEF Releases, Phases, Eased
<1>4. UNCHANGED phase /\ runnable' \subseteq Hosts => Eased
  BY <1>1 DEF Eased
<1>5. CASE Paused(r)
  <2>1. PICK from \in {"applied", "replayed", "refused"} : Over(r, from)
    BY <1>5 DEF Paused, PauseAnswers
  <2>2. /\ stage[r] = from /\ message[r].command = "pause" /\ found[r] \in Hosts
        /\ UNCHANGED <<status, calls, asked, applied, fresh, registered, cancelled, heard, lost>>
    BY <1>1, <1>5, <2>1 DEF Paused, PauseAnswers, Over, At
  <2>3. \/ stage[r] = "applied" /\ UNCHANGED <<runnable, phase>>
        \/ stage[r] = "replayed" /\ saw[r] = "paused" /\ UNCHANGED <<runnable, phase>>
        \/ /\ runnable' = runnable \ {found[r]} /\ UNCHANGED phase
           /\ status \in Terminal \cup {"paused"}
        \/ Releases({found[r]})
    BY <1>5 DEF Paused, PauseAnswers, PausesLate
  <2>4. StaysReady
    <3>1. phase[found[r]] # "idle"
      BY <2>1, <2>2 DEF Judged, JudgedBy
    <3> QED
      BY <1>2, <1>3, <2>2, <2>3, <3>1 DEF StaysReady
  <2>5. Eased
    BY <1>1, <1>3, <1>4, <2>2, <2>3
  <2>6. SetsAgain(r)
    <3>1. CASE Releases({found[r]})
      <4>1. runnable' = runnable \cup {found[r]}
        BY <1>3, <2>2, <3>1
      <4>2. \A h \in LiveHosts : h # found[r] => ~Undoes(r, h)
        BY <2>2 DEF Undoes
      <4> QED
        BY <2>2, <4>1, <4>2 DEF SetsAgain
    <3>2. CASE /\ UNCHANGED <<runnable, phase>>
               /\ stage[r] = "applied" \/ (stage[r] = "replayed" /\ saw[r] = "paused")
      <4>1. \A h \in LiveHosts : ~Undoes(r, h)
        BY <2>2, <3>2 DEF Undoes
      <4> QED
        BY <2>2, <3>2, <4>1 DEF SetsAgain
    <3>3. CASE status \in Terminal \cup {"paused"}
      BY <2>2, <3>3 DEF SetsAgain
    <3> QED
      BY <2>3, <3>1, <3>2, <3>3
  <2>7. Tells(r)
    BY <2>2 DEF Tells, Delivers
  <2> QED
    BY <2>1, <2>2, <2>4, <2>5, <2>6, <2>7, RequestAnswersListening DEF Stages
<1>6. CASE Cancelled(r)
  <2>1. PICK from \in {"applied", "replayed", "refused"} : Over(r, from)
    BY <1>6 DEF Cancelled
  <2>2. PICK hosts \in SUBSET Hosts : Releases(hosts)
    BY <1>6, OneLives DEF Cancelled, HostInv
  <2>3. /\ message[r].command = "cancel"
        /\ UNCHANGED <<status, calls, asked, applied, fresh, registered, heard, lost>>
    BY <1>6 DEF Cancelled
  <2>4. Eased /\ runnable \subseteq runnable'
    BY <1>3, <2>2
  <2>5. SetsAgain(r) /\ Tells(r) /\ StaysReady
    BY <1>2, <2>3, <2>4 DEF SetsAgain, Undoes, Tells, Delivers, StaysReady
  <2> QED
    BY <2>1, <2>3, <2>4, <2>5, RequestAnswersListening DEF Stages
<1>7. CASE Answered(r)
  <2>1. PICK from \in {"replayed", "refused"} : Over(r, from)
    BY <1>7 DEF Answered
  <2>2. /\ stage[r] = from /\ message[r].command \in {"resume", "answer"}
        /\ UNCHANGED <<status, calls, asked, applied, fresh, registered, phase, runnable, heard,
                       lost>>
    BY <1>7, <2>1 DEF Answered, Over, At
  <2>3. SetsAgain(r) /\ Tells(r) /\ StaysReady /\ Eased
    BY <1>1, <1>2, <2>2 DEF SetsAgain, Undoes, Tells, Delivers, Eased, StaysReady
  <2> QED
    BY <2>1, <2>2, <2>3, RequestAnswersListening DEF Stages
<1>8. CASE Wake(r)
  <2>1. /\ Over(r, stage[r]) /\ stage[r] \in {"applied", "replayed"} /\ stage[r] \in Stages
        /\ message[r] \in Messages /\ message[r].command \in {"resume", "answer"}
        /\ lost' = (lost \/ Reached = None)
        /\ UNCHANGED <<status, calls, asked, applied, fresh, registered, cancelled>>
    BY <1>1, <1>8 DEF Wake, Proceeds, Stages
  <2>2. CASE message[r].command = "resume"
    <3>1. Releases({Reached} \ {None}) /\ UNCHANGED heard
      BY <1>8, <2>2 DEF Wake
    <3>2. Eased /\ runnable' = runnable \cup ({Reached} \ {None})
      BY <1>3, <3>1, OneLives DEF HostInv
    <3>3. LiveHosts \subseteq runnable'
      BY <1>2, <3>2
    <3>4. SetsAgain(r) /\ StaysReady
      BY <1>2, <3>2, <3>3 DEF SetsAgain, StaysReady
    <3>5. Tells(r)
      BY <2>2, <3>1 DEF Tells, Delivers
    <3> QED
      BY <2>1, <3>2, <3>4, <3>5, RequestAnswersListening
  <2>3. CASE message[r].command = "answer"
    <3>1. Hears(Reached, message[r].question) /\ UNCHANGED <<runnable, phase>>
      BY <1>8, <2>3 DEF Wake
    <3>2. Eased /\ StaysReady
      BY <1>1, <1>2, <1>4, <3>1 DEF StaysReady
    <3>3. SetsAgain(r)
      BY <2>1, <2>3, <3>1 DEF SetsAgain, Undoes
    <3>4. Tells(r)
      <4>1. /\ \A h \in Hosts : heard[h] \subseteq heard'[h]
            /\ Reached \in Hosts => message[r].question \in heard'[Reached]
        BY <3>1 DEF Hears
      <4>2. Delivers(r) => message[r].question = asked
        BY DEF Delivers
      <4> QED
        BY <1>2, <4>1, <4>2, OneLives DEF Tells, HostInv
    <3> QED
      BY <2>1, <3>2, <3>3, <3>4, RequestAnswersListening
  <2> QED
    BY <2>1, <2>2, <2>3
<1> QED
  BY <1>5, <1>6, <1>7, <1>8

\* A recovered host has its signal set and has asked nothing yet.
LEMMA HostStartsListening ==
    ASSUME ListenInv, HostInv', NEW r \in Handlers, StartRecovered(r)
    PROVE  ListenInv'
<1> USE DEF ListenInv
<1>1. /\ Over(r, stage[r]) /\ stage[r] \in {"applied", "replayed"} /\ stage[r] \in Stages
      /\ message[r] \in Messages /\ message[r].command \in {"resume", "answer"}
      /\ found[r] = None
      /\ UNCHANGED <<status, calls, asked, applied, fresh, runnable, cancelled, heard>>
  BY DEF StartRecovered, Proceeds, Stages, rowVars, controlVars, HostInv, HostTypeOK, Handled
<1>2. CASE lost' = TRUE /\ UNCHANGED <<registered, phase>>
  <2>1. Eased /\ StaysReady
    BY <1>1, <1>2 DEF Eased, Ready, StaysReady, HostInv, HostTypeOK
  <2>2. SetsAgain(r) /\ Tells(r)
    BY <1>1, <1>2 DEF SetsAgain, Tells, Delivers
  <2> QED
    BY <1>1, <1>2, <2>1, <2>2, RequestAnswersListening
<1>3. ASSUME registered = None, NEW h \in Hosts,
             \A g \in Hosts : phase[g] = "idle" <=> g >= h,
             registered' = h,
             phase' = [phase EXCEPT ![h] =
                 IF message[r].command = "resume" THEN "recover" ELSE "reload"],
             UNCHANGED lost
      PROVE  ListenInv'
  <2> USE <1>3
  <2>1. LiveHosts = {} /\ phase \in [Hosts -> Phases]
    BY DEF HostInv, HostTypeOK, LiveHosts
  <2>2. /\ \A g \in Hosts : phase'[g] \in {"idle", "finished", "recover", "reload"}
        /\ LiveHosts' \subseteq {h}
    BY <2>1 DEF LiveHosts
  <2>3. h \in runnable
    BY DEF Ready
  <2>4. /\ stage'[r] = "idle" /\ stage \in [Handlers -> Stages]
        /\ \A q \in Handlers \ {r} : /\ stage'[q] = stage[q] /\ message'[q] = message[q]
                                     /\ saw'[q] = saw[q] /\ found'[q] = found[q]
    BY <1>1 DEF Over, At, HostInv, HostTypeOK
  <2>5. Current' /\ Awaited' /\ FoundIt'
    BY <1>1, <2>2 DEF Current, Awaited, FoundIt
  <2>6. Released' /\ Ready'
    BY <1>1, <2>1, <2>2, <2>3 DEF Released, Ready, LiveHosts
  <2>7. Judged'
    BY <1>1, <2>1, <2>4 DEF Judged, JudgedBy, HostInv, Handled
  <2> QED
    BY <2>5, <2>6, <2>7
<1> QED
  BY <1>2, <1>3 DEF StartRecovered

LEMMA BeginListens ==
    ASSUME ListenInv, HostInv', NEW r \in Handlers, NEW m \in Messages, Begin(r, m)
    PROVE  ListenInv'
<1> USE DEF ListenInv
<1>1. /\ message' = [message EXCEPT ![r] = m] /\ fresh' = fresh \cup {r} /\ stage[r] = "idle"
      /\ UNCHANGED <<status, calls, asked, applied, registered, phase, runnable, cancelled, heard,
                     lost>>
  BY DEF Begin, At, controlVars
<1>2. /\ stage \in [Handlers -> Stages] /\ message \in [Handlers -> Messages \cup {None}]
      /\ saw \in [Handlers -> RunStatus \cup {None}] /\ found \in [Handlers -> Hosts \cup {None}]
  BY DEF HostInv, HostTypeOK
<1>3. /\ message'[r] = m
      /\ \A q \in Handlers \ {r} : /\ stage'[q] = stage[q] /\ message'[q] = message[q]
                                   /\ saw'[q] = saw[q] /\ found'[q] = found[q]
  BY <1>1, <1>2 DEF Begin, At
<1>4. Eased /\ Tells(r) /\ TurnsRun(r) /\ StaysReady
  BY <1>1 DEF Eased, Tells, Delivers, TurnsRun, Ready, StaysReady, HostInv, HostTypeOK
<1>5. stage'[r] = IF m.command = "pause" THEN "read" ELSE "sent"
  BY <1>2 DEF Begin, At
<1>6. SetsAgain(r)
  BY <1>1, <1>3, <1>5 DEF SetsAgain, Undoes
<1>7. FindsIt(r)
  <2> SUFFICES ASSUME m.command = "answer", NEW h \in Hosts, phase[h] = "await"
               PROVE  found'[r] # None
    BY <1>3 DEF FindsIt
  <2>1. h \in LiveHosts /\ registered = h
    BY DEF LiveHosts, HostInv, HostTypeOK
  <2>2. Reached = h /\ h # None
    BY <2>1 DEF Reached
  <2> QED
    BY <1>2, <2>2 DEF Begin
<1>8. JudgedBy(r)'
  BY <1>3, <1>5 DEF JudgedBy
<1> QED
  BY <1>1, <1>3, <1>4, <1>6, <1>7, <1>8, RequestActsListening

LEMMA OthersListen ==
    ASSUME ListenInv, HostInv', Revise \/ Forget \/ UNCHANGED hostVars
    PROVE  ListenInv'
<1> USE DEF ListenInv, hostVars, rowVars, controlVars, requestVars
<1>1. /\ LiveHosts' = LiveHosts /\ fresh' \subseteq fresh
      /\ UNCHANGED <<status, asked, applied, phase, controlVars, requestVars>>
  BY DEF Revise, Forget, LiveHosts
<1>2. Current' /\ Awaited' /\ FoundIt'
  BY <1>1 DEF Current, Awaited, Delivers, FoundIt
<1>3. Released' /\ Judged' /\ Ready'
  BY <1>1 DEF Released, Undoes, Judged, JudgedBy, Ready
<1> QED
  BY <1>2, <1>3

LEMMA EveryStepListens ==
    ListenInv /\ [Next]_hostVars /\ [~Untimely]_hostVars => ListenInv'
<1> SUFFICES ASSUME ListenInv, [Next]_hostVars, [~Untimely]_hostVars PROVE ListenInv'
  OBVIOUS
<1>1. HostInv'
  BY EveryStepKeeps DEF ListenInv
<1>2. ASSUME NEW h \in Hosts, HostNext(h) PROVE ListenInv'
  BY <1>2, HostStepsListen
<1>3. ASSUME NEW r \in Handlers, HandlerNext(r), ~AnswersEarlier(r), ~PausesLate(r)
      PROVE  ListenInv'
  BY <1>1, <1>3, SignalListens, ApplyListens, RepliesListen, AnswersListen, HostStartsListening
     DEF HandlerNext
<1>4. ASSUME NEW r \in Handlers, NEW m \in Messages, Begin(r, m) PROVE ListenInv'
  BY <1>1, <1>4, BeginListens
<1>5. CASE Revise \/ Forget \/ UNCHANGED hostVars
  BY <1>1, <1>5, OthersListen
<1> QED
  BY <1>2, <1>3, <1>4, <1>5 DEF Next, Untimely

(* An accepted answer reaches the host that awaits it, and a pause that was  *)
(* refused, repeated or overtaken holds no host back: for any requests,      *)
(* under any keys, any repetitions and hosts, until an answer to an earlier  *)
(* question is accepted, or a pause that was refused on what it had read     *)
(* answers after the run has gone on.  These two are disagreements of the    *)
(* code with its documents (the runs answered and parked).                   *)
THEOREM HostsListen == Spec /\ [][~Untimely]_hostVars => []HostListens
<1>1. Init => ListenInv
  BY ListenBegins
<1>2. ListenInv /\ [Next]_hostVars /\ [~Untimely]_hostVars => ListenInv'
  BY EveryStepListens
<1>3. ListenInv => HostListens
  <2> SUFFICES ASSUME ListenInv PROVE AnswerHeard /\ Awake
    BY DEF HostListens
  <2>1. AnswerHeard
    BY DEF AnswerHeard, ListenInv, Awaited, Delivers, Quiet, Terminal
  <2>2. Awake
    BY DEF Awake, ListenInv, Released, Undoes, Quiet, Terminal, HostInv, HostTypeOK
  <2> QED
    BY <2>1, <2>2
<1> QED
  BY <1>1, <1>2, <1>3, PTL DEF Spec
-----------------------------------------------------------------------------
(* ModelTurn, for any route and whatever models say: the places of a text in *)
(* their order.                                                              *)
RankIn(places, i) == Cardinality({j \in places : j < i}) + 1

LEMMA RanksOf ==
    ASSUME NEW places \in SUBSET Nat, IsFiniteSet(places)
    PROVE  /\ \A i \in places : RankIn(places, i) \in 1..Cardinality(places)
           /\ \A i, l \in places : i < l => RankIn(places, i) < RankIn(places, l)
<1>1. ASSUME NEW i \in places
      PROVE  /\ IsFiniteSet({j \in places : j < i})
             /\ Cardinality({j \in places : j < i}) < Cardinality(places)
             /\ Cardinality({j \in places : j < i}) \in Nat
  <2>1. {j \in places : j < i} \subseteq places /\ {j \in places : j < i} # places
    BY <1>1
  <2>2. QED
    BY <2>1, FS_Subset, FS_CardinalityType
<1>2. Cardinality(places) \in Nat
  BY FS_CardinalityType
<1>3. ASSUME NEW i \in places, NEW l \in places, i < l
      PROVE  RankIn(places, i) < RankIn(places, l)
  <2> DEFINE below(k) == {j \in places : j < k}
  <2>0. i \in Nat /\ l \in Nat /\ \A j \in places : j \in Nat
    OBVIOUS
  <2>1. /\ \A j \in places : j < i => j < l
        /\ i < l /\ ~(i < i)
    BY <1>3, <2>0
  <2>5. below(i) \subseteq below(l) /\ i \in below(l) /\ i \notin below(i)
    BY <2>1
  <2>2. IsFiniteSet(below(l)) /\ Cardinality(below(l)) \in Nat /\ Cardinality(below(i)) \in Nat
    BY <1>1
  <2> HIDE DEF below
  <2>3. Cardinality(below(i)) < Cardinality(below(l))
    BY <2>5, <2>2, FS_Subset
  <2>4. QED
    BY <2>2, <2>3 DEF RankIn, below
<1>4. QED
  BY <1>1, <1>2, <1>3 DEF RankIn

(* Nth goes through the places upwards, and leaves none out.                 *)
LEMMA NthInOrder ==
    ASSUME NEW places \in SUBSET Nat, IsFiniteSet(places)
    PROVE  /\ Cardinality(places) \in Nat
           /\ \A k \in 1..Cardinality(places) :
                Nth(places, k) \in places /\ RankIn(places, Nth(places, k)) = k
           /\ \A i \in places : Nth(places, RankIn(places, i)) = i
<1> DEFINE n == Cardinality(places)
           rank == [i \in places |-> RankIn(places, i)]
<1>1. n \in Nat
  BY FS_CardinalityType
<1>2. \A i, l \in places : RankIn(places, i) = RankIn(places, l) => i = l
  <2> SUFFICES ASSUME NEW i \in places, NEW l \in places,
                      RankIn(places, i) = RankIn(places, l), i # l
               PROVE  FALSE
    OBVIOUS
  <2>1. i < l \/ l < i
    OBVIOUS
  <2>2. RankIn(places, i) \in Nat /\ RankIn(places, l) \in Nat
    BY RanksOf
  <2>3. QED
    BY <2>1, <2>2, RanksOf
<1>3. rank \in Injection(places, 1..n)
  BY <1>2, RanksOf DEF Injection, IsInjective
<1>4. IsFiniteSet(1..n) /\ Cardinality(1..n) = n
  BY <1>1, FS_Interval
<1>5. rank \in Surjection(places, 1..n)
  BY <1>3, <1>4, FS_Injection
<1>6. ASSUME NEW k \in 1..n
      PROVE  Nth(places, k) \in places /\ RankIn(places, Nth(places, k)) = k
  <2>1. \E i \in places : RankIn(places, i) = k
    BY <1>5 DEF Surjection
  <2>2. \A i \in places : Cardinality({j \in places : j < i}) \in Nat
    BY FS_Subset, FS_CardinalityType
  <2>3. \E i \in places : Cardinality({j \in places : j < i}) = k - 1
    BY <2>1, <2>2, <1>1 DEF RankIn
  <2>4. /\ Nth(places, k) \in places
        /\ Cardinality({j \in places : j < Nth(places, k)}) = k - 1
    BY <2>3 DEF Nth
  <2>5. QED
    BY <2>4, <1>1 DEF RankIn
<1>7. \A i \in places : Nth(places, RankIn(places, i)) = i
  BY <1>2, <1>6, RanksOf
<1>8. QED
  BY <1>1, <1>6, <1>7

LEMMA NthGrows ==
    ASSUME NEW places \in SUBSET Nat, IsFiniteSet(places),
           NEW k \in 1..Cardinality(places), NEW l \in 1..Cardinality(places)
    PROVE  k < l <=> Nth(places, k) < Nth(places, l)
<1>1. /\ Nth(places, k) \in places /\ RankIn(places, Nth(places, k)) = k
      /\ Nth(places, l) \in places /\ RankIn(places, Nth(places, l)) = l
      /\ Cardinality(places) \in Nat
  BY NthInOrder
<1>2. k < l \/ k = l \/ l < k
  BY <1>1
<1>3. Nth(places, k) < Nth(places, l) => k < l
  BY <1>1, RanksOf
<1>4. Nth(places, l) < Nth(places, k) => l < k
  BY <1>1, RanksOf
<1>5. Nth(places, k) = Nth(places, l) => k = l
  BY <1>1
<1>6. Nth(places, k) \in Nat /\ Nth(places, l) \in Nat /\ k \in Nat /\ l \in Nat
  <2>1. \A i \in places : i \in Nat
    OBVIOUS
  <2>2. \A m \in Nat : \A i \in 1..m : i \in Nat
    OBVIOUS
  <2>3. k \in Nat /\ l \in Nat
    BY <1>1, <2>2
  <2>4. QED
    BY <1>1, <2>1, <2>3
<1>7. QED
  BY <1>3, <1>4, <1>5, <1>6

(* As long as no place is left out, Nth is the identity.                     *)
LEMMA NthOfAll ==
    ASSUME NEW places \in SUBSET (Nat \ {0}), IsFiniteSet(places),
           NEW m \in Nat, 1..m \subseteq places
    PROVE  m <= Cardinality(places) /\ \A k \in 1..m : Nth(places, k) = k
<1>1. IsFiniteSet(1..m) /\ Cardinality(1..m) = m /\ Cardinality(places) \in Nat
  <2>1. IsFiniteSet(1..m) /\ Cardinality(1..m) = IF 1 > m THEN 0 ELSE m - 1 + 1
    BY FS_Interval
  <2>2. (IF 1 > m THEN 0 ELSE m - 1 + 1) = m
    OBVIOUS
  <2>3. Cardinality(places) \in Nat
    BY FS_CardinalityType
  <2>4. QED
    BY <2>1, <2>2, <2>3
<1>2. m <= Cardinality(places)
  BY <1>1, FS_Subset
<1>3. ASSUME NEW k \in 1..m
      PROVE  Nth(places, k) = k
  <2>0. k \in Nat /\ k <= m /\ \A j \in places : j \in Nat /\ j # 0
    BY <1>3
  <2>1. {j \in places : j < k} = 1..(k - 1)
    <3>1. \A j \in places : j < k => j \in 1..(k - 1)
      BY <2>0
    <3>2. \A j \in 1..(k - 1) : j \in 1..m /\ j < k
      BY <2>0
    <3>3. QED
      BY <3>1, <3>2
  <2>2. Cardinality(1..(k - 1)) = k - 1
    <3>1. Cardinality(1..(k - 1)) = IF 1 > k - 1 THEN 0 ELSE (k - 1) - 1 + 1
      BY <2>0, FS_Interval
    <3>2. k # 0
      BY <1>3
    <3>3. (IF 1 > k - 1 THEN 0 ELSE (k - 1) - 1 + 1) = k - 1
      BY <2>0, <3>2
    <3>4. QED
      BY <3>1, <3>3
  <2>3. RankIn(places, k) = k
    <3>1. RankIn(places, k) = Cardinality(1..(k - 1)) + 1
      BY <2>1 DEF RankIn
    <3>2. (k - 1) + 1 = k
      BY <2>0
    <3>3. QED
      BY <3>1, <3>2, <2>2
  <2>4. places \in SUBSET Nat /\ k \in places
    BY <1>3
  <2>5. QED
    BY <2>3, <2>4, NthInOrder
<1>4. QED
  BY <1>2, <1>3

LEMMA PicksFit ==
    ASSUME NEW text \in Seq(STRING), NEW kept \in SUBSET (DOMAIN text)
    PROVE  /\ IsFiniteSet(kept) /\ kept \in SUBSET (Nat \ {0}) /\ kept \in SUBSET Nat
           /\ Pick(text, kept) \in Seq(STRING)
           /\ Len(Pick(text, kept)) = Cardinality(kept) /\ Cardinality(kept) \in Nat
           /\ DOMAIN Pick(text, kept) = 1..Cardinality(kept)
           /\ \A k \in 1..Cardinality(kept) : Pick(text, kept)[k] = text[Nth(kept, k)]
<1>1. Len(text) \in Nat /\ DOMAIN text = 1..Len(text)
  OBVIOUS
<1>2. IsFiniteSet(1..Len(text))
  BY <1>1, FS_Interval
<1>3. IsFiniteSet(kept)
  BY <1>1, <1>2, FS_Subset
<1>4. kept \in SUBSET (Nat \ {0}) /\ kept \in SUBSET Nat
  BY <1>1
<1>5. Cardinality(kept) \in Nat /\ \A k \in 1..Cardinality(kept) : Nth(kept, k) \in kept
  BY <1>3, <1>4, NthInOrder
<1>6. \A k \in 1..Cardinality(kept) : text[Nth(kept, k)] \in STRING
  BY <1>1, <1>5
<1>7. Pick(text, kept) \in [1..Cardinality(kept) -> STRING]
  BY <1>6 DEF Pick
<1>8. Pick(text, kept) \in Seq(STRING) /\ Len(Pick(text, kept)) = Cardinality(kept)
  BY <1>5, <1>7
<1>9. QED
  BY <1>3, <1>4, <1>5, <1>8 DEF Pick

(* Cleaning keeps what is solid.                                             *)
Solid(text) == {k \in DOMAIN text : text[k] # "_"}
KeptOf(text) == Solid(text) \cup {k \in DOMAIN text \ Solid(text) :
                                    /\ \E i \in Solid(text) : i < k
                                    /\ \E i \in Solid(text) : i > k
                                    /\ text[k - 1] # "_"}
LEMMA CleanedPicks ==
    ASSUME NEW text
    PROVE  /\ Cleaned(text) = Pick(text, KeptOf(text))
           /\ KeptOf(text) \in SUBSET (DOMAIN text) /\ Solid(text) \subseteq KeptOf(text)
           /\ Solid(text) \in SUBSET (DOMAIN text)
BY DEF Cleaned, KeptOf, Solid

(* No mark appears where blanks are taken out.                               *)
LEMMA CleanedMarks ==
    ASSUME NEW text \in Seq(STRING)
    PROVE  Cleaned(text) \in Seq(STRING) /\ (Marks(Cleaned(text)) # {} => Marks(text) # {})
<1> DEFINE kept == KeptOf(text)
<1>0. /\ Cleaned(text) = Pick(text, kept) /\ kept \in SUBSET (DOMAIN text)
      /\ Solid(text) \subseteq kept
  BY CleanedPicks
<1>1. /\ IsFiniteSet(kept) /\ kept \in SUBSET Nat /\ Cardinality(kept) \in Nat
      /\ Cleaned(text) \in Seq(STRING) /\ DOMAIN Cleaned(text) = 1..Cardinality(kept)
      /\ \A k \in 1..Cardinality(kept) : Cleaned(text)[k] = text[Nth(kept, k)]
  BY <1>0, PicksFit
<1>2. Len(text) \in Nat /\ DOMAIN text = 1..Len(text)
  OBVIOUS
<1>3. ASSUME NEW k \in Marks(Cleaned(text))
      PROVE  Marks(text) # {}
  <2> DEFINE i == Nth(kept, k)
             l == Nth(kept, k + 1)
  <2>1. k \in 1..Cardinality(kept) /\ k + 1 \in 1..Cardinality(kept)
    BY <1>1, <1>3 DEF Marks, Mark
  <2>2. text[i] = "<" /\ text[l] = "!"
    BY <1>1, <1>3, <2>1 DEF Marks, Mark
  <2>3. /\ i \in kept /\ l \in kept /\ RankIn(kept, i) = k /\ RankIn(kept, l) = k + 1
    BY <1>1, <2>1, NthInOrder
  <2>4. i < l
    <3>1. k < k + 1
      BY <2>1, <1>1
    <3>2. QED
      BY <3>1, <1>1, <2>1, NthGrows
  <2> HIDE DEF i, l, kept
  <2>5. i \in 1..Len(text) /\ l \in 1..Len(text)
    BY <1>0, <1>2, <2>3
  <2>6. ~(i + 1 < l)
    <3> SUFFICES ASSUME i + 1 < l PROVE FALSE
      OBVIOUS
    <3>1. i + 1 \in 1..Len(text) /\ i < i + 1 /\ (i + 1) - 1 = i
      BY <2>5
    <3>2. i + 1 \notin kept
      <4> SUFFICES ASSUME i + 1 \in kept PROVE FALSE
        OBVIOUS
      <4>1. RankIn(kept, i) < RankIn(kept, i + 1) /\ RankIn(kept, i + 1) < RankIn(kept, l)
        BY <1>1, <2>3, <3>1, RanksOf
      <4>2. RankIn(kept, i + 1) \in 1..Cardinality(kept)
        BY <1>1, RanksOf
      <4>3. QED
        BY <4>1, <4>2, <2>3, <2>1, <1>1
    <3>3. i + 1 \in DOMAIN text \ Solid(text)
      BY <3>1, <3>2, <1>0, <1>2
    <3>4. i \in Solid(text) /\ l \in Solid(text) /\ text[i] # "_"
      BY <2>2, <2>5, <1>2 DEF Solid
    <3>5. l > i + 1
      BY <2>5
    <3>6. text[(i + 1) - 1] # "_"
      BY <3>1, <3>4
    <3>7. i + 1 \in KeptOf(text)
      BY <3>1, <3>3, <3>4, <3>5, <3>6 DEF KeptOf
    <3>8. QED
      BY <3>2, <3>7 DEF kept
  <2>7. l = i + 1
    BY <2>4, <2>5, <2>6
  <2>8. i \in Marks(text)
    BY <2>2, <2>5, <2>7, <1>2 DEF Marks, Mark
  <2>9. QED
    BY <2>8
<1>4. QED
  BY <1>1, <1>3

(* Where the cleaned text is the beginning of the text, only blanks follow.  *)
LEMMA CleanedEnds ==
    ASSUME NEW text \in Seq(STRING), NEW c \in Nat, c = Len(Cleaned(text)),
           c <= Len(text), \A k \in 1..c : Cleaned(text)[k] = text[k]
    PROVE  \A k \in (c + 1)..Len(text) : text[k] = "_"
<1> DEFINE kept == KeptOf(text)
           before == {k \in 1..c : text[k] # "_"}
           f == [k \in before |-> Nth(kept, k)]
<1>0. /\ Cleaned(text) = Pick(text, kept) /\ kept \in SUBSET (DOMAIN text)
      /\ Solid(text) \subseteq kept /\ Solid(text) \in SUBSET (DOMAIN text)
  BY CleanedPicks
<1>1. /\ IsFiniteSet(kept) /\ kept \in SUBSET Nat /\ Cardinality(kept) = c
      /\ \A k \in 1..c : Cleaned(text)[k] = text[Nth(kept, k)]
  BY <1>0, PicksFit
<1>2. IsFiniteSet(Solid(text))
  BY <1>0, PicksFit
<1>3. Len(text) \in Nat /\ DOMAIN text = 1..Len(text)
  OBVIOUS
<1>4. before \subseteq Solid(text)
  <2>1. \A k \in 1..c : k \in 1..Len(text)
    BY <1>3
  <2>2. QED
    BY <1>3, <2>1 DEF Solid
<1>5. IsFiniteSet(before)
  BY <1>2, <1>4, FS_Subset
<1>6. \A k \in 1..c : Nth(kept, k) \in kept
  BY <1>1, NthInOrder
<1>7. \A k \in before : Nth(kept, k) \in Solid(text)
  BY <1>0, <1>1, <1>6, <1>3 DEF Solid
<1>8. ASSUME NEW s \in Solid(text)
      PROVE  \E k \in before : Nth(kept, k) = s
  <2>1. s \in kept
    BY <1>0
  <2>2. RankIn(kept, s) \in 1..c
    BY <2>1, <1>1, RanksOf
  <2>3. Nth(kept, RankIn(kept, s)) = s
    BY <2>1, <1>1, NthInOrder
  <2>4. text[RankIn(kept, s)] = text[s]
    BY <2>2, <2>3, <1>1
  <2>5. text[s] # "_"
    BY <1>8 DEF Solid
  <2>6. QED
    BY <2>2, <2>3, <2>4, <2>5
<1>9. f \in Surjection(before, Solid(text))
  <2>1. f \in [before -> Solid(text)]
    BY <1>7
  <2>2. \A s \in Solid(text) : \E k \in before : f[k] = s
    BY <1>8
  <2>3. QED
    BY <2>1, <2>2 DEF Surjection
<1>10. Cardinality(Solid(text)) <= Cardinality(before)
  <2> HIDE DEF before, f
  <2>1. QED
    BY ONLY <1>5, <1>9, FS_Surjection
<1>11. before = Solid(text)
  <2> HIDE DEF before, f
  <2>1. Cardinality(before) \in Nat /\ Cardinality(Solid(text)) \in Nat
    BY <1>2, <1>5, FS_CardinalityType
  <2>2. before # Solid(text) => Cardinality(before) < Cardinality(Solid(text))
    <3>1. before \in SUBSET Solid(text)
      BY <1>4
    <3>2. QED
      BY <3>1, <2>1, <1>2, FS_Subset
  <2>3. QED
    BY <2>1, <2>2, <1>10
<1>12. QED
  <2>1. ASSUME NEW k \in (c + 1)..Len(text)
        PROVE  text[k] = "_"
    <3>1. k \in 1..Len(text) /\ k \notin 1..c
      BY <1>3
    <3>2. k \notin Solid(text)
      BY <3>1, <1>11
    <3>3. QED
      BY <3>1, <3>2, <1>3 DEF Solid
  <2>2. QED
    BY <2>1

(* Taking blocks out leaves what comes before the first mark.                *)
LEMMA UnblockedBegins ==
    ASSUME NEW text \in Seq(STRING), NEW e \in 0..Len(text),
           \A i \in Marks(text) : i > e
    PROVE  /\ Unblocked(text) \in Seq(STRING) /\ e <= Len(Unblocked(text))
           /\ \A k \in 1..e : Unblocked(text)[k] = text[k]
<1> DEFINE kept == {k \in DOMAIN text : \A b \in CallBlocks(text) : k \notin b[1]..b[2]}
<1>0. Len(text) \in Nat /\ DOMAIN text = 1..Len(text)
  OBVIOUS
<1>1. Unblocked(text) = Pick(text, kept) /\ kept \in SUBSET (DOMAIN text)
  BY DEF Unblocked
<1>2. \A b \in CallBlocks(text) : b[1] \in Marks(text) /\ b[2] \in DOMAIN text
  BY DEF CallBlocks
<1>3. 1..e \subseteq kept
  <2>1. ASSUME NEW k \in 1..e, NEW b \in CallBlocks(text)
        PROVE  k \notin b[1]..b[2]
    <3>1. b[1] > e /\ b[1] \in DOMAIN text
      BY <1>2 DEF Marks
    <3>2. QED
      BY <3>1, <1>0
  <2>2. \A k \in 1..e : k \in DOMAIN text
    BY <1>0
  <2>3. QED
    BY <2>1, <2>2
<1>4. /\ IsFiniteSet(kept) /\ kept \in SUBSET (Nat \ {0}) /\ Cardinality(kept) \in Nat
      /\ Unblocked(text) \in Seq(STRING) /\ Len(Unblocked(text)) = Cardinality(kept)
      /\ \A k \in 1..Cardinality(kept) : Unblocked(text)[k] = text[Nth(kept, k)]
  BY <1>1, PicksFit
<1> HIDE DEF kept
<1>5. e <= Cardinality(kept) /\ \A k \in 1..e : Nth(kept, k) = k
  <2>1. e \in Nat
    BY <1>0
  <2>2. QED
    BY <2>1, <1>3, <1>4, NthOfAll
<1>6. \A k \in 1..e : k \in 1..Cardinality(kept)
  BY <1>0, <1>4, <1>5
<1>7. QED
  BY <1>4, <1>5, <1>6
-----------------------------------------------------------------------------
(* ModelTurn: the inductive invariant.  What was handed on is of the         *)
(* candidate that is asked and is what it said so far, but for what is held  *)
(* back; no mark begins in it.                                               *)
Signed(text, c) == [k \in DOMAIN text |-> [of |-> c, sign |-> text[k]]]
PartsOf(text, begun, rest) ==
    /\ begun \in Seq(STRING) /\ rest \in Seq(STRING)
    /\ \A k \in 1..Len(begun) : begun[k] = text[k]
    /\ \A k \in 1..Len(rest) : rest[k] = text[Len(begun) + k]
WasSaid ==
    /\ PartsOf(utterance, emitted, held) /\ position = Len(emitted) + Len(held)
    /\ ~withTools => Len(held) = 0
    /\ withTools => \A i \in Marks(utterance) : i > Len(emitted)
WellEnded ==
    /\ withTools /\ Marks(emitted) # {} => CutShort
    /\ \A r \in answered :
          /\ r.content \in Seq(STRING) /\ IsPrefix(r.content, emitted)
          /\ Blank(SubSeq(emitted, Len(r.content) + 1, Len(emitted)))
          /\ r.calls => withTools
StreamInv ==
    /\ ModelTypeOK /\ emitted \in Seq(STRING) /\ handed = Signed(emitted, candidate)
    /\ emitted # <<>> => Asked(candidate) /\ (withTools => Route[candidate])
    /\ ending = "exhausted" => emitted = <<>>
    /\ ending = "done" => WellEnded
    /\ ending # "done" => answered = {} /\ WasSaid

LEMMA StreamImplies == StreamInv => StreamSound
<1> SUFFICES ASSUME StreamInv PROVE StreamSound
  OBVIOUS
<1>1. /\ handed = Signed(emitted, candidate) /\ emitted \in Seq(STRING)
      /\ DOMAIN handed = 1..Len(emitted)
      /\ \A k \in 1..Len(emitted) : handed[k] = [of |-> candidate, sign |-> emitted[k]]
  BY DEF StreamInv, Signed
<1>2. Text(handed) = emitted
  <2>1. Text(handed) = [k \in 1..Len(emitted) |-> emitted[k]]
    BY <1>1 DEF Text
  <2>2. emitted = [k \in 1..Len(emitted) |-> emitted[k]]
    BY <1>1
  <2>3. QED
    BY <2>1, <2>2
<1>3. (handed = <<>> => emitted = <<>>) /\ (emitted = <<>> => handed = <<>>)
  <2>1. handed = <<>> => Len(emitted) = 0
    BY <1>1
  <2>2. emitted = <<>> => Signed(emitted, candidate) = <<>>
    BY DEF Signed
  <2>3. QED
    BY <1>1, <2>1, <2>2
<1>4. \A i, j \in DOMAIN handed : handed[i].of = handed[j].of
  BY <1>1
<1>5. handed # <<>> => handed[1].of = candidate /\ (withTools => Route[candidate])
  <2>1. handed # <<>> => 1 \in 1..Len(emitted)
    BY <1>1, <1>3
  <2>2. QED
    BY <1>1, <1>3, <2>1 DEF StreamInv
<1>6. withTools /\ Marks(emitted) # {} => ending = "done" /\ CutShort
  <2> SUFFICES ASSUME withTools, NEW i \in Marks(emitted) PROVE ending = "done" /\ CutShort
    OBVIOUS
  <2>1. ASSUME ending # "done" PROVE FALSE
    <3>1. WasSaid
      BY <2>1 DEF StreamInv
    <3>2. i \in 1..Len(emitted) /\ i + 1 \in 1..Len(emitted)
      BY <1>1 DEF Marks, Mark
    <3>3. utterance \in Seq(STRING) /\ Len(emitted) <= Len(utterance)
      BY <3>1, <1>1, ModelTurnAssumption DEF StreamInv, ModelTypeOK, WasSaid, PartsOf
    <3>4. utterance[i] = "<" /\ utterance[i + 1] = "!"
      BY <3>1, <3>2 DEF WasSaid, PartsOf, Marks, Mark
    <3>5. i \in 1..Len(utterance) /\ i + 1 \in 1..Len(utterance)
      BY <1>1, <3>2, <3>3
    <3>6. DOMAIN utterance = 1..Len(utterance)
      BY <3>3
    <3>7. i \in Marks(utterance)
      BY <3>4, <3>5, <3>6 DEF Marks, Mark
    <3>8. i > Len(emitted)
      BY <3>1, <3>7 DEF WasSaid
    <3>9. QED
      BY <3>2, <3>8, <1>1
  <2>2. QED
    BY <2>1 DEF StreamInv, WellEnded
<1>7. ASSUME NEW r \in answered
      PROVE  /\ IsPrefix(r.content, emitted)
             /\ Blank(SubSeq(emitted, Len(r.content) + 1, Len(emitted)))
             /\ r.calls => withTools
  BY <1>7 DEF StreamInv, WellEnded
<1>8. ModelTypeOK /\ (ending = "exhausted" => handed = <<>>)
  BY <1>3 DEF StreamInv
<1>9. QED
  BY <1>2, <1>4, <1>5, <1>6, <1>7, <1>8 DEF StreamSound

LEMMA StreamStarts == ModelInit => StreamInv
<1> SUFFICES ASSUME ModelInit PROVE StreamInv
  OBVIOUS
<1>1. emitted = <<>> /\ held = <<>> /\ position = 0 /\ handed = <<>> /\ answered = {}
  BY DEF ModelInit, Afresh
<1>2. utterance \in Seq(STRING) /\ Len(Route) \in Nat
  BY ModelTurnAssumption DEF ModelInit
<1>3. Signed(emitted, candidate) = <<>>
  BY <1>1 DEF Signed
<1>4. ModelTypeOK
  <2>1. 1 \in 1..(Len(Route) + 1)
    BY <1>2
  <2>2. Len(utterance) \in Nat
    BY <1>2
  <2>3. 0 \in 0..Len(utterance)
    BY <2>2
  <2>4. QED
    BY <1>1, <2>1, <2>3 DEF ModelInit, Afresh, ModelTypeOK
<1>5. WasSaid
  <2>1. DOMAIN utterance = 1..Len(utterance)
    BY <1>2
  <2>2. \A i \in Marks(utterance) : i > 0
    BY <1>2, <2>1 DEF Marks
  <2>3. QED
    BY <1>1, <2>2 DEF WasSaid, PartsOf
<1>6. QED
  BY <1>1, <1>3, <1>4, <1>5 DEF StreamInv, ModelInit

(* The next candidate begins where nothing was handed on.                    *)
LEMMA NextCandidateStep ==
    ASSUME StreamInv, NextCandidate, Asked(candidate), emitted = <<>>, ending = "streaming"
    PROVE  StreamInv'
<1>1. /\ candidate' = candidate + 1 /\ utterance' \in Spoken /\ position' = 0 /\ held' = <<>>
      /\ emitted' = <<>> /\ opened' = FALSE /\ withTools' = withTools /\ handed' = handed
      /\ answered' = answered /\ ending' = ending
  BY DEF NextCandidate
<1>2. utterance' \in Seq(STRING) /\ Len(Route) \in Nat
  BY <1>1, ModelTurnAssumption
<1>3. candidate + 1 \in 1..(Len(Route) + 1)
  <2>1. candidate \in 1..Len(Route)
    BY ModelTurnAssumption DEF Asked
  <2>2. QED
    BY <1>2, <2>1
<1>4. ModelTypeOK'
  <2>1. Len(utterance') \in Nat
    BY <1>2
  <2>2. 0 \in 0..Len(utterance')
    BY <2>1
  <2>3. QED
    BY <1>1, <1>3, <2>2 DEF StreamInv, ModelTypeOK
<1>5. handed' = Signed(emitted, candidate)'
  BY <1>1 DEF StreamInv, Signed
<1>6. WasSaid'
  <2>1. DOMAIN utterance' = 1..Len(utterance')
    BY <1>2
  <2>2. \A i \in Marks(utterance') : i > 0
    BY <1>2, <2>1 DEF Marks
  <2>3. QED
    BY <1>1, <2>2 DEF WasSaid, PartsOf
<1>7. QED
  BY <1>1, <1>4, <1>5, <1>6 DEF StreamInv

LEMMA SignedOn ==
    ASSUME NEW a \in Seq(STRING), NEW b \in Seq(STRING), NEW c
    PROVE  Signed(a \o b, c) = Signed(a, c) \o Signed(b, c)
<1> DEFINE Signs == [of : {c}, sign : STRING]
<1>1. \A t \in Seq(STRING) : /\ Signed(t, c) \in Seq(Signs) /\ Len(Signed(t, c)) = Len(t)
                             /\ \A k \in 1..Len(t) : Signed(t, c)[k] = [of |-> c, sign |-> t[k]]
  <2>1. ASSUME NEW t \in Seq(STRING)
        PROVE  /\ Signed(t, c) \in Seq(Signs) /\ Len(Signed(t, c)) = Len(t)
               /\ \A k \in 1..Len(t) : Signed(t, c)[k] = [of |-> c, sign |-> t[k]]
    <3>1. Signed(t, c) \in [1..Len(t) -> Signs]
      BY DEF Signed
    <3>2. Len(t) \in Nat
      OBVIOUS
    <3>3. QED
      BY <3>1, <3>2 DEF Signed
  <2>2. QED
    BY <2>1
<1> DEFINE both == Signed(a \o b, c)
           each == Signed(a, c) \o Signed(b, c)
<1>2. /\ a \o b \in Seq(STRING) /\ Len(a \o b) = Len(a) + Len(b)
      /\ \A i \in 1..Len(a) + Len(b) :
            (a \o b)[i] = IF i <= Len(a) THEN a[i] ELSE b[i - Len(a)]
  BY ConcatProperties
<1>3. both \in Seq(Signs) /\ Len(both) = Len(a) + Len(b)
  BY <1>1, <1>2
<1>4. Signed(a, c) \in Seq(Signs) /\ Signed(b, c) \in Seq(Signs)
  BY <1>1
<1> HIDE DEF Signs
<1>5. /\ each \in Seq(Signs) /\ Len(each) = Len(Signed(a, c)) + Len(Signed(b, c))
      /\ \A i \in 1..Len(Signed(a, c)) + Len(Signed(b, c)) :
            each[i] = IF i <= Len(Signed(a, c)) THEN Signed(a, c)[i]
                      ELSE Signed(b, c)[i - Len(Signed(a, c))]
  BY <1>4, ConcatProperties
<1>6. Len(a) \in Nat /\ Len(b) \in Nat
  OBVIOUS
<1>7. ASSUME NEW i \in 1..Len(both)
      PROVE  both[i] = each[i]
  <2>1. i \in 1..(Len(a) + Len(b))
    BY <1>3
  <2>2. both[i] = [of |-> c, sign |-> (a \o b)[i]]
    BY <1>1, <1>2, <2>1
  <2>3. each[i] = IF i <= Len(a) THEN Signed(a, c)[i] ELSE Signed(b, c)[i - Len(a)]
    BY <1>1, <1>5, <2>1
  <2>4. CASE i <= Len(a)
    <3>1. i \in 1..Len(a)
      BY <2>1, <2>4, <1>6
    <3>2. QED
      BY <1>1, <1>2, <2>1, <2>2, <2>3, <2>4, <3>1
  <2>5. CASE ~(i <= Len(a))
    <3>1. i - Len(a) \in 1..Len(b)
      BY <2>1, <2>5, <1>6
    <3>2. QED
      BY <1>1, <1>2, <2>1, <2>2, <2>3, <2>5, <3>1
  <2>6. QED
    BY <2>4, <2>5
<1>8. Len(both) = Len(each)
  BY <1>1, <1>3, <1>5
<1> HIDE DEF both, each
<1>9. both = each
  BY <1>3, <1>5, <1>7, <1>8, SeqEqual
<1>10. QED
  BY <1>9 DEF both, each

LEMMA Extract ==
    ASSUME NEW text \in Seq(STRING), NEW m \in Nat \ {0}, NEW n \in Nat, n <= Len(text), m <= n + 1
    PROVE  /\ SubSeq(text, m, n) \in Seq(STRING) /\ Len(SubSeq(text, m, n)) = n - m + 1
           /\ \A i \in 1..(n - m + 1) : SubSeq(text, m, n)[i] = text[m + i - 1]
<1>1. Len(text) \in Nat
  OBVIOUS
<1>2. \A i \in m..n : i \in 1..Len(text)
  BY <1>1
<1>3. \A i \in m..n : text[i] \in STRING
  BY <1>2
<1>4. m \in Int /\ n \in Int
  OBVIOUS
<1>5. /\ SubSeq(text, m, n) \in Seq(STRING)
      /\ Len(SubSeq(text, m, n)) = IF m <= n THEN n - m + 1 ELSE 0
      /\ \A i \in 1..n - m + 1 : SubSeq(text, m, n)[i] = text[m + i - 1]
  BY <1>3, <1>4, SubSeqProperties
<1>6. (IF m <= n THEN n - m + 1 ELSE 0) = n - m + 1
  OBVIOUS
<1>7. QED
  BY <1>5, <1>6

LEMMA Remainder ==
    ASSUME NEW text \in Seq(STRING), NEW s \in 0..Len(text)
    PROVE  LET rest == SubSeq(text, s + 1, Len(text))
           IN  /\ rest \in Seq(STRING) /\ Len(rest) = Len(text) - s
               /\ \A i \in 1..(Len(text) - s) : rest[i] = text[s + i]
<1> DEFINE n == Len(text)
           rest == SubSeq(text, s + 1, n)
<1>1. n \in Nat /\ s \in Nat /\ s <= n
  OBVIOUS
<1> HIDE DEF n
<1>2. s + 1 \in Nat \ {0} /\ s + 1 <= n + 1 /\ n <= n
  BY <1>1
<1>3. n <= Len(text)
  BY <1>1 DEF n
<1>4. /\ rest \in Seq(STRING) /\ Len(rest) = n - (s + 1) + 1
      /\ \A i \in 1..(n - (s + 1) + 1) : rest[i] = text[(s + 1) + i - 1]
  BY <1>1, <1>2, <1>3, Extract
<1> HIDE DEF rest
<1>5. n - (s + 1) + 1 = n - s /\ \A i \in 1..(n - s) : (s + 1) + i - 1 = s + i
  BY <1>1
<1>6. rest \in Seq(STRING) /\ Len(rest) = n - s /\ \A i \in 1..(n - s) : rest[i] = text[s + i]
  BY <1>4, <1>5
<1>7. QED
  BY <1>6 DEF rest, n

(* A piece that came goes to what was held back; some of it is handed on.    *)
Follows(text, begun, more) == \A k \in 1..Len(more) : more[k] = text[Len(begun) + k]
Grown(text, begun, rest, n) ==
    rest \o SubSeq(text, Len(begun) + Len(rest) + 1, Len(begun) + Len(rest) + n)
LEMMA PartsGrow ==
    ASSUME NEW text \in Seq(STRING), NEW begun \in Seq(STRING), NEW rest \in Seq(STRING),
           Follows(text, begun, rest), NEW n \in Nat, Len(begun) + Len(rest) + n <= Len(text)
    PROVE  /\ Grown(text, begun, rest, n) \in Seq(STRING)
           /\ Len(Grown(text, begun, rest, n)) = Len(rest) + n
           /\ Follows(text, begun, Grown(text, begun, rest, n))
<1> DEFINE b == Len(begun)
           r == Len(rest)
           came == SubSeq(text, b + r + 1, b + r + n)
           more == rest \o came
<1>1. begun \in Seq(STRING) /\ rest \in Seq(STRING) /\ b \in Nat /\ r \in Nat
  OBVIOUS
<1>2. b + r + n <= Len(text) /\ \A k \in 1..r : rest[k] = text[b + k]
  BY DEF Follows
<1>3. Len(rest) = r
  OBVIOUS
<1> HIDE DEF b, r
<1>4. /\ b + r + 1 \in Nat \ {0} /\ b + r + n \in Nat /\ b + r + 1 <= b + r + n + 1
  BY <1>1
<1>5. /\ came \in Seq(STRING) /\ Len(came) = (b + r + n) - (b + r + 1) + 1
      /\ \A i \in 1..((b + r + n) - (b + r + 1) + 1) : came[i] = text[(b + r + 1) + i - 1]
  BY <1>2, <1>4, Extract
<1>6. (b + r + n) - (b + r + 1) + 1 = n /\ \A i \in 1..n : (b + r + 1) + i - 1 = b + r + i
  BY <1>1
<1> HIDE DEF came
<1>7. came \in Seq(STRING) /\ Len(came) = n /\ \A i \in 1..n : came[i] = text[b + r + i]
  BY <1>5, <1>6
<1>8. /\ more \in Seq(STRING) /\ Len(more) = r + n
      /\ \A i \in 1..(r + n) : more[i] = IF i <= r THEN rest[i] ELSE came[i - r]
  BY ONLY <1>1, <1>3, <1>7, ConcatProperties
<1> HIDE DEF more
<1>9. ASSUME NEW k \in 1..Len(more)
      PROVE  more[k] = text[b + k]
  <2>1. CASE k <= r
    <3>1. k \in 1..r
      BY <2>1, <1>1, <1>8
    <3>2. QED
      BY <2>1, <3>1, <1>2, <1>8
  <2>2. CASE ~(k <= r)
    <3>1. k - r \in 1..n /\ b + r + (k - r) = b + k
      BY <2>2, <1>1, <1>8
    <3>2. QED
      BY <2>2, <3>1, <1>7, <1>8
  <2>3. QED
    BY <2>1, <2>2
<1>10. Grown(text, begun, rest, n) = more
  BY DEF Grown, more, came, b, r
<1>11. more \in Seq(STRING) /\ Len(more) = Len(rest) + n /\ b = Len(begun)
  BY <1>3, <1>8 DEF b
<1>12. QED
  BY <1>9, <1>10, <1>11 DEF Follows

LEMMA PartsMove ==
    ASSUME NEW text \in Seq(STRING), NEW begun \in Seq(STRING), NEW more \in Seq(STRING),
           \A k \in 1..Len(begun) : begun[k] = text[k],
           \A k \in 1..Len(more) : more[k] = text[Len(begun) + k],
           NEW s \in 0..Len(more)
    PROVE  /\ SubSeq(more, 1, s) \in Seq(STRING) /\ Len(SubSeq(more, 1, s)) = s
           /\ Len(begun \o SubSeq(more, 1, s)) = Len(begun) + s
           /\ Len(SubSeq(more, s + 1, Len(more))) = Len(more) - s
           /\ PartsOf(text, begun \o SubSeq(more, 1, s), SubSeq(more, s + 1, Len(more)))
<1> DEFINE b == Len(begun)
           safe == SubSeq(more, 1, s)
           kept == SubSeq(more, s + 1, Len(more))
<1>1. b \in Nat /\ s \in Nat /\ Len(more) \in Nat /\ s <= Len(more)
  OBVIOUS
<1>5. safe \in Seq(STRING) /\ Len(safe) = s /\ \A i \in 1..s : safe[i] = more[i]
  <2>1. 1 \in Nat \ {0} /\ 1 <= s + 1
    BY <1>1
  <2>2. /\ safe \in Seq(STRING) /\ Len(safe) = s - 1 + 1
        /\ \A i \in 1..(s - 1 + 1) : safe[i] = more[1 + i - 1]
    BY <1>1, <2>1, Extract
  <2>3. s - 1 + 1 = s /\ \A i \in 1..s : 1 + i - 1 = i
    BY <1>1
  <2> HIDE DEF safe
  <2>4. QED
    BY <2>2, <2>3
<1>6. /\ kept \in Seq(STRING) /\ Len(kept) = Len(more) - s
      /\ \A i \in 1..(Len(more) - s) : kept[i] = more[s + i]
  BY Remainder DEF kept
<1> HIDE DEF safe, kept, b
<1>7. /\ begun \o safe \in Seq(STRING) /\ Len(begun \o safe) = b + s
      /\ \A i \in 1..(b + s) : (begun \o safe)[i] = IF i <= b THEN begun[i] ELSE safe[i - b]
  <2>1. /\ safe \in Seq(STRING) /\ Len(safe) = s /\ begun \in Seq(STRING) /\ Len(begun) = b
    BY <1>5 DEF b
  <2>2. QED
    BY ONLY <2>1, ConcatProperties
<1>8. \A k \in 1..(b + s) : (begun \o safe)[k] = text[k]
  <2>1. ASSUME NEW k \in 1..(b + s)
        PROVE  (begun \o safe)[k] = text[k]
    <3>1. CASE k <= b
      <4>1. k \in 1..b
        BY <3>1, <1>1
      <4>2. begun[k] = text[k]
        BY <4>1 DEF b
      <4>3. QED
        BY <3>1, <4>2, <1>7
    <3>2. CASE ~(k <= b)
      <4>1. k - b \in 1..s /\ k - b \in 1..Len(more) /\ b + (k - b) = k
        BY <3>2, <1>1
      <4>2. more[k - b] = text[b + (k - b)]
        BY <4>1 DEF b
      <4>4. safe[k - b] = text[k]
        BY <4>1, <4>2, <1>5
      <4>3. QED
        BY <3>2, <4>4, <1>7
    <3>3. QED
      BY <3>1, <3>2
  <2>2. QED
    BY <2>1
<1>9. \A k \in 1..Len(kept) : kept[k] = text[(b + s) + k]
  <2>1. ASSUME NEW k \in 1..Len(kept)
        PROVE  kept[k] = text[(b + s) + k]
    <3>1. k \in 1..(Len(more) - s) /\ s + k \in 1..Len(more) /\ b + (s + k) = (b + s) + k
      BY <1>1, <1>6
    <3>2. more[s + k] = text[b + (s + k)]
      BY <3>1 DEF b
    <3>3. QED
      BY <3>1, <3>2, <1>6
  <2>2. QED
    BY <2>1
<1>10. PartsOf(text, begun \o safe, kept)
  BY <1>6, <1>7, <1>8, <1>9 DEF PartsOf
<1>11. QED
  BY <1>5, <1>6, <1>7, <1>10 DEF safe, kept, b

LEMMA FirstMark ==
    ASSUME NEW text \in Seq(STRING), Marks(text) # {}
    PROVE  /\ Min(Marks(text)) \in Marks(text) /\ Min(Marks(text)) \in 1..Len(text)
           /\ \A i \in Marks(text) : Min(Marks(text)) <= i
<1>1. Marks(text) \subseteq 1..Len(text) /\ Marks(text) \subseteq Nat
  BY DEF Marks
<1>2. PICK x \in Marks(text) : \A y \in Marks(text) : ~(<<y, x>> \in OpToRel(<, Nat))
  BY <1>1, WFMin, NatLessThanWellFounded
<1>3. \A y \in Marks(text) : x <= y
  <2>1. \A y \in Marks(text) : ~(y < x)
    BY <1>1, <1>2 DEF OpToRel
  <2>2. \A y \in Marks(text) : y \in Nat /\ x \in Nat
    BY <1>1
  <2>3. QED
    BY <2>1, <2>2
<1>4. Min(Marks(text)) \in Marks(text) /\ \A y \in Marks(text) : Min(Marks(text)) <= y
  BY <1>2, <1>3 DEF Min
<1>5. QED
  BY <1>1, <1>4

(* What is handed on of a piece ends before a mark, and before what may      *)
(* become one.                                                               *)
LEMMA SafePart ==
    ASSUME NEW text \in Seq(STRING), NEW more \in Seq(STRING), NEW e \in Nat,
           e + Len(more) <= Len(text),
           \A k \in 1..Len(more) : more[k] = text[e + k],
           \A i \in Marks(text) : i > e,
           NEW s \in 0..Len(more),
           \/ s = 0
           \/ Marks(more) # {} /\ s = Min(Marks(more)) - 1
           \/ Marks(more) = {} /\ s = Len(more) - HeldBack(more)
    PROVE  \A i \in Marks(text) : i > e + s
<1>0. /\ Len(text) \in Nat /\ Len(more) \in Nat /\ s \in Nat /\ DOMAIN text = 1..Len(text)
      /\ DOMAIN more = 1..Len(more)
  OBVIOUS
<1>1. SUFFICES ASSUME NEW i \in Marks(text), ~(i > e + s)
               PROVE  FALSE
  OBVIOUS
<1>2. /\ i \in Nat /\ i > e /\ i <= e + s /\ text[i] = "<" /\ text[i + 1] = "!"
  BY <1>0, <1>1 DEF Marks, Mark
<1>3. i - e \in 1..Len(more) /\ i - e <= s /\ e + (i - e) = i /\ e + ((i - e) + 1) = i + 1
  BY <1>0, <1>2
<1>4. more[i - e] = "<"
  BY <1>2, <1>3
<1>5. (i - e) + 1 \in 1..Len(more) => i - e \in Marks(more)
  BY <1>0, <1>2, <1>3, <1>4 DEF Marks, Mark
<1>6. s # 0
  BY <1>0, <1>2
<1>7. CASE Marks(more) # {} /\ s = Min(Marks(more)) - 1
  <2>1. /\ Min(Marks(more)) \in 1..Len(more)
        /\ \A j \in Marks(more) : Min(Marks(more)) <= j
    BY <1>7, FirstMark
  <2>2. (i - e) + 1 \in 1..Len(more)
    BY <1>0, <1>3, <1>7, <2>1
  <2>3. Min(Marks(more)) <= i - e
    BY <1>5, <2>1, <2>2
  <2>4. QED
    BY <1>0, <1>3, <1>7, <2>1, <2>3
<1>8. CASE Marks(more) = {} /\ s = Len(more) - HeldBack(more)
  <2>1. (i - e) + 1 \notin 1..Len(more)
    BY <1>5, <1>8
  <2>2. i - e = Len(more)
    BY <1>0, <1>3, <2>1
  <2>3. more # <<>> /\ Last(more) = "<"
    BY <1>0, <1>3, <1>4, <2>2 DEF Last
  <2>4. HeldBack(more) = 1
    BY <2>3 DEF HeldBack
  <2>5. QED
    BY <1>0, <1>3, <1>8, <2>2, <2>4
<1>9. QED
  BY <1>6, <1>7, <1>8

LEMMA HeldBackFits ==
    ASSUME NEW text \in Seq(STRING)
    PROVE  Len(text) - HeldBack(text) \in 0..Len(text)
<1>1. Len(text) \in Nat /\ (text # <<>> => Len(text) > 0)
  OBVIOUS
<1>2. QED
  BY <1>1 DEF HeldBack

LEMMA PieceStep ==
    ASSUME StreamInv, NEW n \in 1..MaxPiece, Piece(n)
    PROVE  StreamInv'
<1> DEFINE text == held \o SubSeq(utterance, position + 1, position + n)
           safe == IF ~withTools THEN text
                   ELSE IF opened THEN <<>>
                   ELSE IF Marks(text) # {} THEN SubSeq(text, 1, Min(Marks(text)) - 1)
                   ELSE SubSeq(text, 1, Len(text) - HeldBack(text))
           e == Len(emitted)
<1>1. /\ Usable /\ position + n <= Len(utterance) /\ position' = position + n
      /\ held' = SubSeq(text, Len(safe) + 1, Len(text)) /\ HandOn(safe)
      /\ opened' = (opened \/ (withTools /\ Marks(text) # {}))
      /\ withTools' = withTools /\ candidate' = candidate /\ utterance' = utterance
      /\ answered' = answered /\ ending' = ending
  BY DEF Piece
<1>2. /\ ending = "streaming" /\ Asked(candidate) /\ (withTools => Route[candidate])
  BY <1>1 DEF Usable, Streaming
<1>3. /\ WasSaid /\ answered = {} /\ ModelTypeOK /\ emitted \in Seq(STRING)
      /\ handed = Signed(emitted, candidate)
  BY <1>2 DEF StreamInv
<1>4. /\ PartsOf(utterance, emitted, held) /\ position = e + Len(held)
      /\ held \in Seq(STRING) /\ e \in Nat /\ Len(held) \in Nat
      /\ utterance \in Seq(STRING) /\ utterance \in Spoken /\ Len(utterance) \in Nat
  BY <1>3, ModelTurnAssumption DEF WasSaid, PartsOf, ModelTypeOK
<1>5. n \in Nat /\ n >= 1
  BY ModelTurnAssumption
<1>6. e + Len(held) + n <= Len(utterance)
  BY <1>1, <1>4
<1>7. text = held \o SubSeq(utterance, e + Len(held) + 1, e + Len(held) + n)
  BY <1>4
<1>9. /\ text \in Seq(STRING) /\ Len(text) = Len(held) + n
      /\ \A k \in 1..Len(text) : text[k] = utterance[e + k]
  <2>1. /\ utterance \in Seq(STRING) /\ emitted \in Seq(STRING) /\ held \in Seq(STRING)
        /\ Follows(utterance, emitted, held)
    BY <1>3, <1>4 DEF PartsOf, Follows
  <2>2. Len(emitted) + Len(held) + n <= Len(utterance)
    BY <1>6
  <2>3. /\ Grown(utterance, emitted, held, n) \in Seq(STRING)
        /\ Len(Grown(utterance, emitted, held, n)) = Len(held) + n
        /\ Follows(utterance, emitted, Grown(utterance, emitted, held, n))
    BY <1>5, <2>1, <2>2, PartsGrow
  <2>4. text = Grown(utterance, emitted, held, n)
    BY <1>7 DEF Grown
  <2> HIDE DEF text
  <2>5. QED
    BY <2>3, <2>4 DEF Follows
<1> HIDE DEF text
<1>8. ASSUME NEW s \in 0..Len(text)
      PROVE  /\ SubSeq(text, 1, s) \in Seq(STRING) /\ Len(SubSeq(text, 1, s)) = s
             /\ Len(emitted \o SubSeq(text, 1, s)) = e + s
             /\ Len(SubSeq(text, s + 1, Len(text))) = Len(text) - s
             /\ PartsOf(utterance, emitted \o SubSeq(text, 1, s),
                        SubSeq(text, s + 1, Len(text)))
  <2>1. \A k \in 1..Len(emitted) : emitted[k] = utterance[k]
    BY <1>4 DEF PartsOf
  <2>2. QED
    BY <1>3, <1>4, <1>9, <2>1, PartsMove
<1>10. \E s \in 0..Len(text) :
         /\ safe = SubSeq(text, 1, s)
         /\ ~withTools => s = Len(text)
         /\ withTools => \/ s = 0
                         \/ Marks(text) # {} /\ s = Min(Marks(text)) - 1
                         \/ Marks(text) = {} /\ s = Len(text) - HeldBack(text)
  <2>1. Len(text) \in Nat
    BY <1>9
  <2>2. CASE ~withTools
    <3>1. safe = SubSeq(text, 1, Len(text))
      BY <1>9, <2>2
    <3>2. Len(text) \in 0..Len(text)
      BY <2>1
    <3>3. QED
      BY <2>2, <3>1, <3>2
  <2>3. CASE withTools /\ opened
    <3>1. safe = <<>> /\ SubSeq(text, 1, 0) = <<>>
      BY <2>3, SubSeqEmpty
    <3>2. 0 \in 0..Len(text)
      BY <2>1
    <3>3. QED
      BY <2>3, <3>1, <3>2
  <2>4. CASE withTools /\ ~opened /\ Marks(text) # {}
    <3>1. safe = SubSeq(text, 1, Min(Marks(text)) - 1)
      BY <2>4
    <3>2. Min(Marks(text)) - 1 \in 0..Len(text)
      BY <1>9, <2>1, <2>4, FirstMark
    <3>3. QED
      BY <2>4, <3>1, <3>2
  <2>5. CASE withTools /\ ~opened /\ Marks(text) = {}
    <3>1. safe = SubSeq(text, 1, Len(text) - HeldBack(text))
      BY <2>5
    <3>2. Len(text) - HeldBack(text) \in 0..Len(text)
      BY <1>9, HeldBackFits
    <3>3. QED
      BY <2>5, <3>1, <3>2
  <2>6. QED
    BY <2>2, <2>3, <2>4, <2>5
<1> HIDE DEF safe
<1>11. PICK s \in 0..Len(text) :
         /\ safe = SubSeq(text, 1, s)
         /\ ~withTools => s = Len(text)
         /\ withTools => \/ s = 0
                         \/ Marks(text) # {} /\ s = Min(Marks(text)) - 1
                         \/ Marks(text) = {} /\ s = Len(text) - HeldBack(text)
  BY <1>10
<1>12. s \in 0..Len(text) /\ s \in Nat /\ Len(text) \in Nat /\ s <= Len(text)
  BY <1>4, <1>5, <1>9
<1>13. /\ safe \in Seq(STRING) /\ Len(safe) = s /\ Len(emitted \o safe) = e + s
       /\ Len(SubSeq(text, s + 1, Len(text))) = Len(text) - s
       /\ PartsOf(utterance, emitted \o safe, SubSeq(text, s + 1, Len(text)))
  BY <1>8, <1>11, <1>12
<1>14. emitted' = emitted \o safe /\ held' = SubSeq(text, s + 1, Len(text))
  BY <1>1, <1>13 DEF HandOn
<1>15. handed' = Signed(emitted', candidate')
  <2>1. handed' = handed \o Signed(safe, candidate)
    BY <1>1 DEF HandOn, Signed
  <2>2. QED
    BY <1>1, <1>3, <1>13, <1>14, <2>1, SignedOn
<1>16. WasSaid'
  <2>1. PartsOf(utterance, emitted, held)'
    BY <1>1, <1>13, <1>14
  <2>2. position' = Len(emitted') + Len(held')
    <3>1. Len(emitted') = e + s /\ Len(held') = Len(text) - s
      BY <1>13, <1>14
    <3>2. position + n = (e + s) + (Len(text) - s)
      BY <1>4, <1>5, <1>9, <1>12
    <3>3. QED
      BY <1>1, <3>1, <3>2
  <2>3. ~withTools' => Len(held') = 0
    BY <1>1, <1>11, <1>12, <1>13, <1>14
  <2>4. withTools' => \A i \in Marks(utterance') : i > Len(emitted')
    <3> SUFFICES ASSUME withTools PROVE \A i \in Marks(utterance) : i > e + s
      BY <1>1, <1>13, <1>14
    <3>1. \A i \in Marks(utterance) : i > e
      BY <1>3 DEF WasSaid
    <3>2. e + Len(text) <= Len(utterance)
      BY <1>4, <1>5, <1>6, <1>9
    <3> HIDE DEF e
    <3>3. QED
      BY <1>4, <1>9, <1>11, <3>1, <3>2, SafePart
  <2>5. QED
    BY <2>1, <2>2, <2>3, <2>4 DEF WasSaid
<1>17. ModelTypeOK'
  <2>1. position' \in 0..Len(utterance')
    BY <1>1, <1>4, <1>5
  <2>2. opened' \in BOOLEAN
    BY <1>1, <1>3 DEF ModelTypeOK
  <2>3. QED
    BY <1>1, <1>3, <2>1, <2>2 DEF ModelTypeOK
<1>18. emitted' \in Seq(STRING)
  BY <1>13, <1>14 DEF PartsOf
<1>19. QED
  BY <1>1, <1>2, <1>3, <1>15, <1>16, <1>17, <1>18 DEF StreamInv, Asked

LEMMA GiveUpStep ==
    ASSUME StreamInv, Usable, GiveUpOnCandidate
    PROVE  StreamInv'
<1>1. Asked(candidate) /\ ending = "streaming" /\ answered = {}
  BY DEF Usable, Streaming, StreamInv
<1>2. CASE Started
  <2>1. /\ ending' = "raised"
        /\ UNCHANGED <<withTools, candidate, utterance, position, held, emitted, handed,
                       opened, answered>>
    BY <1>2 DEF GiveUpOnCandidate
  <2>2. ModelTypeOK' /\ WasSaid'
    BY <1>1, <2>1 DEF StreamInv, ModelTypeOK, WasSaid
  <2>3. QED
    BY <1>1, <2>1, <2>2 DEF StreamInv, Asked
<1>3. CASE ~Started
  <2>1. emitted = <<>> /\ NextCandidate
    BY <1>3 DEF Started, GiveUpOnCandidate
  <2>2. QED
    BY <1>1, <2>1, NextCandidateStep
<1>4. QED
  BY <1>2, <1>3

LEMMA FinishStep ==
    ASSUME StreamInv, FinishResponse
    PROVE  StreamInv'
<1> DEFINE e == Len(emitted)
           u == utterance
           content == Response.content
<1>1. /\ Usable /\ position = Len(u) /\ ~(withTools /\ Refused(u))
      /\ \/ /\ withTools /\ IsPrefix(emitted, content)
            /\ HandOn(SubSeq(content, e + 1, Len(content)))
         \/ /\ \/ ~withTools
               \/ IsStrictPrefix(content, emitted)
            /\ UNCHANGED <<emitted, handed>>
      /\ held' = <<>> /\ answered' = {Response} /\ ending' = "done"
      /\ withTools' = withTools /\ candidate' = candidate /\ utterance' = utterance
      /\ position' = position /\ opened' = opened
  BY DEF FinishResponse, CameWhole
<1>2. /\ ending = "streaming" /\ Asked(candidate) /\ (withTools => Route[candidate])
  BY <1>1 DEF Usable, Streaming
<1>3. /\ WasSaid /\ ModelTypeOK /\ emitted \in Seq(STRING)
      /\ handed = Signed(emitted, candidate)
  BY <1>2 DEF StreamInv
<1>4. /\ u \in Seq(STRING) /\ e \in Nat /\ Len(u) \in Nat /\ position = e + Len(held)
      /\ held \in Seq(STRING) /\ Len(held) \in Nat
      /\ \A k \in 1..e : emitted[k] = u[k]
      /\ DOMAIN emitted = 1..e /\ DOMAIN u = 1..Len(u)
  BY <1>3, ModelTurnAssumption DEF WasSaid, PartsOf, ModelTypeOK
<1>5. e <= Len(u)
  BY <1>1, <1>4
<1>6. ASSUME withTools
      PROVE  Marks(emitted) = {}
  <2>1. \A i \in Marks(u) : i > e
    BY <1>3, <1>6 DEF WasSaid
  <2>2. ASSUME NEW i \in Marks(emitted) PROVE FALSE
    <3>1. i \in 1..e /\ i + 1 \in 1..e /\ emitted[i] = "<" /\ emitted[i + 1] = "!"
      BY <1>4, <2>2 DEF Marks, Mark
    <3>2. i \in 1..Len(u) /\ i + 1 \in 1..Len(u) /\ u[i] = "<" /\ u[i + 1] = "!"
      BY <1>4, <1>5, <3>1
    <3>3. i \in Marks(u)
      BY <1>4, <3>2 DEF Marks, Mark
    <3>4. QED
      BY <1>4, <2>1, <3>1, <3>3
  <2>3. QED
    BY <2>2
<1>7. ASSUME withTools, Marks(u) # {}
      PROVE  /\ content = Cleaned(Unblocked(u)) /\ content \in Seq(STRING)
             /\ Marks(content) # {} => CutShort
             /\ IsStrictPrefix(content, emitted) =>
                   Blank(SubSeq(emitted, Len(content) + 1, e))
  <2>1. content = Cleaned(Unblocked(u))
    BY <1>7 DEF Response, Normalized
  <2>2. \A i \in Marks(u) : i > e
    BY <1>3, <1>7 DEF WasSaid
  <2>3. e \in 0..Len(u)
    BY <1>4, <1>5
  <2>4. /\ Unblocked(u) \in Seq(STRING) /\ e <= Len(Unblocked(u))
        /\ \A k \in 1..e : Unblocked(u)[k] = u[k]
    BY <1>4, <2>2, <2>3, UnblockedBegins
  <2> DEFINE x == Unblocked(u)
  <2> HIDE DEF x
  <2>5. content \in Seq(STRING) /\ (Marks(content) # {} => Marks(x) # {})
    BY <2>1, <2>4, CleanedMarks DEF x
  <2>6. CallBlocks(u) # {}
    BY <1>1, <1>7 DEF Refused
  <2>7. Marks(content) # {} => CutShort
    BY <2>5, <2>6 DEF CutShort, x
  <2>8. ASSUME IsStrictPrefix(content, emitted)
        PROVE  Blank(SubSeq(emitted, Len(content) + 1, e))
    <3> DEFINE c == Len(content)
    <3>1. c \in Nat /\ c = Len(Cleaned(x))
      BY <2>1, <2>5 DEF x
    <3>2. c <= e /\ SubSeq(content, 1, c) = SubSeq(emitted, 1, c)
      BY <2>8 DEF IsStrictPrefix, IsPrefix
    <3>3. \A k \in 1..c : content[k] = emitted[k]
      <4> HIDE DEF content, e, u
      <4>1. ASSUME NEW k \in 1..c PROVE content[k] = emitted[k]
        <5>1. SubSeq(content, 1, c) = content
          BY <2>5
        <5>2. SubSeq(emitted, 1, c)[k] = emitted[k]
          <6>1. c \in 0..Len(emitted)
            BY <1>4, <3>1, <3>2 DEF e
          <6>2. c \in Nat /\ c <= Len(emitted) /\ 1 \in Nat \ {0} /\ 1 <= c + 1
            BY <3>1, <3>2 DEF e
          <6>3. \A i \in 1..(c - 1 + 1) : SubSeq(emitted, 1, c)[i] = emitted[1 + i - 1]
            BY <1>3, <6>2, Extract
          <6>4. k \in 1..(c - 1 + 1) /\ 1 + k - 1 = k
            BY <3>1
          <6>5. QED
            BY <6>3, <6>4
        <5>3. QED
          BY <3>2, <5>1, <5>2
      <4>2. QED
        BY <4>1
    <3>4. x \in Seq(STRING) /\ e <= Len(x) /\ \A k \in 1..e : x[k] = emitted[k]
      BY <1>4, <2>4 DEF x
    <3>5. c <= Len(x) /\ \A k \in 1..c : Cleaned(x)[k] = x[k]
      <4>1. Len(x) \in Nat /\ c <= Len(x)
        BY <1>4, <3>1, <3>2, <3>4
      <4>2. \A k \in 1..c : k \in 1..e
        BY <1>4, <3>1, <3>2
      <4>3. QED
        BY <2>1, <3>3, <3>4, <4>1, <4>2 DEF x
    <3>6. \A k \in (c + 1)..Len(x) : x[k] = "_"
      BY <3>1, <3>4, <3>5, CleanedEnds
    <3>7. \A k \in (c + 1)..e : emitted[k] = "_"
      <4>1. \A k \in (c + 1)..e : k \in 1..e /\ k \in (c + 1)..Len(x)
        BY <1>4, <3>1, <3>4
      <4>2. QED
        BY <3>4, <3>6, <4>1
    <3> HIDE DEF c
    <3>8. c \in 0..Len(emitted)
      BY <1>4, <3>1, <3>2
    <3>9. LET rest == SubSeq(emitted, c + 1, Len(emitted))
          IN  /\ rest \in Seq(STRING) /\ Len(rest) = Len(emitted) - c
              /\ \A i \in 1..(Len(emitted) - c) : rest[i] = emitted[c + i]
      BY <1>3, <3>8, Remainder
    <3>10. \A i \in 1..(e - c) : c + i \in (c + 1)..e
      BY <1>4, <3>1
    <3> DEFINE left == SubSeq(emitted, c + 1, e)
    <3>13. left \in Seq(STRING) /\ Len(left) = e - c
           /\ \A i \in 1..(e - c) : left[i] = emitted[c + i]
      BY <3>9
    <3> HIDE DEF left
    <3>14. DOMAIN left = 1..(e - c)
      BY <3>13
    <3>15. Blank(left)
      BY <3>7, <3>10, <3>13, <3>14 DEF Blank
    <3>11. Blank(SubSeq(emitted, c + 1, e))
      BY <3>15 DEF left
    <3>12. QED
      BY <3>11 DEF c
  <2>9. QED
    BY <2>1, <2>5, <2>7, <2>8
<1>8. ASSUME ~withTools \/ Marks(u) = {}
      PROVE  content = u
  BY <1>8 DEF Response, Normalized
<1>9. content \in Seq(STRING) /\ (Response.calls => withTools)
  <2>1. content \in Seq(STRING)
    BY <1>4, <1>7, <1>8
  <2>2. QED
    BY <2>1 DEF Response
<1> HIDE DEF content
<1>10. ASSUME NEW text \in Seq(STRING)
       PROVE  IsPrefix(text, text) /\ SubSeq(text, Len(text) + 1, Len(text)) = <<>>
  <2>1. Len(text) \in Nat
    OBVIOUS
  <2>2. Len(text) + 1 \in Int /\ Len(text) \in Int /\ Len(text) < Len(text) + 1
    BY <2>1
  <2>3. SubSeq(text, Len(text) + 1, Len(text)) = <<>>
    BY <2>2, SubSeqEmpty
  <2>4. IsPrefix(text, text)
    BY <2>1 DEF IsPrefix
  <2>5. QED
    BY <2>3, <2>4
<1>11. Blank(<<>>)
  <2>1. DOMAIN <<>> = {}
    OBVIOUS
  <2>2. QED
    BY <2>1 DEF Blank
<1>12. /\ emitted' \in Seq(STRING) /\ handed' = Signed(emitted', candidate')
       /\ withTools /\ Marks(emitted') # {} => CutShort
       /\ IsPrefix(content, emitted')
       /\ Blank(SubSeq(emitted', Len(content) + 1, Len(emitted')))
  <2>1. CASE /\ withTools /\ IsPrefix(emitted, content)
             /\ HandOn(SubSeq(content, e + 1, Len(content)))
    <3> DEFINE rest == SubSeq(content, e + 1, Len(content))
    <3>1. e <= Len(content) /\ SubSeq(emitted, 1, e) = SubSeq(content, 1, e)
      BY <2>1 DEF IsPrefix
    <3>2. e \in 0..Len(content)
      BY <1>4, <1>9, <3>1
    <3>3. /\ rest \in Seq(STRING) /\ Len(rest) = Len(content) - e
          /\ \A i \in 1..(Len(content) - e) : rest[i] = content[e + i]
      BY <1>9, <3>2, Remainder
    <3>4. emitted' = emitted \o rest /\ handed' = handed \o Signed(rest, candidate)
      BY <2>1 DEF HandOn, Signed
    <3> HIDE DEF rest
    <3>5. handed' = Signed(emitted', candidate')
      BY <1>1, <1>3, <3>3, <3>4, SignedOn
    <3>6. emitted' = content
      <4>1. /\ emitted' \in Seq(STRING) /\ Len(emitted') = e + Len(rest)
            /\ \A i \in 1..(e + Len(rest)) :
                  emitted'[i] = IF i <= e THEN emitted[i] ELSE rest[i - e]
        BY <1>3, <3>3, <3>4, ConcatProperties
      <4>2. Len(content) \in Nat /\ Len(emitted') = Len(content)
        BY <1>4, <1>9, <3>1, <3>3, <4>1
      <4>3. \A i \in 1..e : emitted[i] = content[i]
        <5>1. SubSeq(emitted, 1, e) = emitted
          BY <1>3
        <5>2. e \in Nat /\ e <= Len(content) /\ 1 \in Nat \ {0} /\ 1 <= e + 1
          BY <1>4, <3>1
        <5>3. \A i \in 1..(e - 1 + 1) : SubSeq(content, 1, e)[i] = content[1 + i - 1]
          BY <1>9, <5>2, Extract
        <5>4. \A i \in 1..e : i \in 1..(e - 1 + 1) /\ 1 + i - 1 = i
          BY <1>4
        <5>5. QED
          BY <3>1, <5>1, <5>3, <5>4
      <4>4. ASSUME NEW i \in 1..Len(emitted') PROVE emitted'[i] = content[i]
        <5>1. CASE i <= e
          <6>1. i \in 1..e /\ i \in 1..(e + Len(rest))
            BY <4>1, <5>1
          <6>2. QED
            BY <4>1, <4>3, <5>1, <6>1
        <5>2. CASE ~(i <= e)
          <6>1. i - e \in 1..(Len(content) - e) /\ e + (i - e) = i /\ i \in 1..(e + Len(rest))
            BY <1>4, <4>1, <4>2, <5>2
          <6>2. QED
            BY <3>3, <4>1, <5>2, <6>1
        <5>3. QED
          BY <5>1, <5>2
      <4>5. QED
        BY <1>9, <4>1, <4>2, <4>4, SeqEqual
    <3>7. Marks(content) # {} => CutShort
      BY <2>1, <1>7, <1>8 DEF content
    <3>8. QED
      BY <1>9, <1>10, <1>11, <3>5, <3>6, <3>7
  <2>2. CASE ~withTools /\ UNCHANGED <<emitted, handed>>
    <3>1. content = u
      BY <1>8, <2>2
    <3>2. e = Len(u)
      BY <1>1, <1>3, <1>4, <2>2 DEF WasSaid
    <3>3. emitted = u
      BY <1>3, <1>4, <3>2, SeqEqual
    <3>4. QED
      BY <1>1, <1>3, <1>10, <1>11, <2>2, <3>1, <3>3
  <2>3. CASE withTools /\ IsStrictPrefix(content, emitted) /\ UNCHANGED <<emitted, handed>>
    <3>1. IsPrefix(content, emitted) /\ content # emitted
      BY <2>3 DEF IsStrictPrefix
    <3>2. CASE Marks(u) = {}
      <4>3. content = u
        BY <1>8, <3>2
      <4>4. Len(content) <= e
        BY <3>1 DEF IsPrefix
      <4>6. Len(u) <= e
        BY <4>3, <4>4
      <4>7. e \in Nat /\ Len(u) \in Nat /\ e <= Len(u)
        BY <1>4, <1>5
      <4>1. content = u /\ e = Len(u)
        BY <4>3, <4>6, <4>7
      <4>2. emitted = u
        BY <1>3, <1>4, <4>1, SeqEqual
      <4>5. QED
        BY <3>1, <4>1, <4>2
    <3>3. CASE Marks(u) # {}
      <4>1. Blank(SubSeq(emitted, Len(content) + 1, e))
        BY <1>7, <2>3, <3>3 DEF content
      <4>2. QED
        BY <1>1, <1>3, <1>6, <2>3, <3>1, <4>1
    <3>4. QED
      BY <3>2, <3>3
  <2>4. QED
    BY <1>1, <2>1, <2>2, <2>3
<1>13. ModelTypeOK'
  BY <1>1, <1>3 DEF ModelTypeOK
<1>14. WellEnded'
  <2>1. CutShort' = CutShort
    BY <1>1 DEF CutShort
  <2>2. answered' = {Response} /\ withTools' = withTools
    BY <1>1
  <2>3. \A r \in answered' : r.content = content /\ (r.calls => withTools)
    BY <1>9, <2>2 DEF content
  <2>4. QED
    BY <1>9, <1>12, <2>1, <2>2, <2>3 DEF WellEnded
<1>15. QED
  BY <1>1, <1>2, <1>12, <1>13, <1>14 DEF StreamInv, Asked

LEMMA StreamStep == StreamInv /\ [ModelNext]_modelVars => StreamInv'
<1> SUFFICES ASSUME StreamInv, [ModelNext]_modelVars
             PROVE  StreamInv'
  OBVIOUS
<1>1. CASE SkipCandidate
  <2>1. /\ Asked(candidate) /\ ending = "streaming" /\ withTools /\ ~Route[candidate]
        /\ NextCandidate
    BY <1>1 DEF SkipCandidate, Streaming
  <2>2. emitted = <<>>
    BY <2>1 DEF StreamInv
  <2>3. QED
    BY <2>1, <2>2, NextCandidateStep
<1>2. CASE \E n \in 1..MaxPiece : Piece(n)
  BY <1>2, PieceStep
<1>3. CASE ProviderFails
  BY <1>3, GiveUpStep DEF ProviderFails
<1>4. CASE FinishResponse
  BY <1>4, FinishStep
<1>5. CASE RefuseResponse
  BY <1>5, GiveUpStep DEF RefuseResponse
<1>6. CASE NobodyLeft
  <2>1. /\ ending = "streaming" /\ ~Asked(candidate) /\ ending' = "exhausted"
        /\ UNCHANGED <<withTools, candidate, utterance, position, held, emitted, handed,
                       opened, answered>>
    BY <1>6 DEF NobodyLeft
  <2>2. ModelTypeOK' /\ WasSaid'
    BY <2>1 DEF StreamInv, ModelTypeOK, WasSaid
  <2>3. QED
    BY <2>1, <2>2 DEF StreamInv, Asked
<1>7. CASE UNCHANGED modelVars
  <2>1. UNCHANGED <<withTools, candidate, utterance, position, held, emitted, handed,
                    opened, answered, ending>>
    BY <1>7 DEF modelVars
  <2>2. ModelTypeOK' /\ (WasSaid => WasSaid') /\ (WellEnded => WellEnded')
    BY <2>1 DEF StreamInv, ModelTypeOK, WasSaid, WellEnded, CutShort
  <2>3. QED
    BY <2>1, <2>2 DEF StreamInv, Asked
<1>8. QED
  BY <1>1, <1>2, <1>3, <1>4, <1>5, <1>6, <1>7 DEF ModelNext

(* For any route, any pieces and whatever the models say: what a turn hands  *)
(* on is the text of one model, which could take the offered tools; no mark  *)
(* of a call is in it and no sign is lost (ModelGateway.stream_turn).        *)
THEOREM OneModelSpeaks == ModelSpec => []StreamSound
<1>1. ModelInit => StreamInv
  BY StreamStarts
<1>2. StreamInv /\ [ModelNext]_modelVars => StreamInv'
  BY StreamStep
<1>3. StreamInv => StreamSound
  BY StreamImplies
<1>4. QED
  BY <1>1, <1>2, <1>3, PTL DEF ModelSpec
=============================================================================
