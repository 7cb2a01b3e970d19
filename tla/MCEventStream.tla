---------------------------- MODULE MCEventStream ----------------------------
(* Small instances of RunManager, EventStream and WebWorkspace for TLC, four *)
(* scenarios of one state space.  manager: the registry alone, with two runs *)
(* of a conversation.  clients: one run, its first watcher, a second client  *)
(* that resumes it, and every command.  reconnects: one run and one host, no *)
(* commands, and a client that loses its connection twice.  page: the store  *)
(* of the web client, whose conversations are called c1 and c2 too, so that  *)
(* the symmetry group stays small.                                           *)
EXTENDS EventStream, WebWorkspace, TLC

CONSTANTS r1, r2, conversation, c1, c2, s1, s2, s3, f1, f2

VARIABLE scenario

mcVars == <<scenario, streamVars, webVars>>
clientVars == <<log, over, activity, hostOut, outbox, stream, session>>

MCConversationOf == [x \in {r1, r2} |-> conversation]

\* Readers, clients, conversations and flows are interchangeable.
MCSymmetry ==
    Permutations(Readers) \cup Permutations(Clients) \cup Permutations(Flows)

MCInit ==
    /\ scenario \in {"manager", "clients", "reconnects", "page"}
    /\ StreamInit /\ WebInit

\* Bounds of the run with two hosts and two clients: readers may fall behind, but one
\* that did has closed when the next host starts (the run lagging is what happens
\* otherwise); three events, one reconnection.
ClientBounds ==
    scenario = "clients" =>
        /\ EvictedHaveClosed
        /\ log <= 3
        /\ \A x \in Clients : session[x].tries <= 1

\* What happens without commands: a host is started, and its client watches it.
Watching(x) ==
    \/ ReadFirst(x) \/ ReadNext(x) \/ Drop(x) \/ Reconnect(x) \/ Replay(x) \/ Check(x)
    \/ \E s \in Readers : Chat(x, s)

Undisturbed ==
    \/ \E h \in Hosts : \/ HostCommits(h) \/ HostAsks(h) \/ HostFinishes(h) \/ HostFails(h)
                        \/ HostYieldsNext(h) \/ HostReturns(h)
    \/ \E x \in Clients : Watching(x)
    \/ \E s \in Readers : CloseReader(s)

MCNext ==
    \/ scenario = "manager" /\ ManagerNext /\ UNCHANGED <<scenario, clientVars, webVars>>
    \/ scenario = "clients" /\ StreamNext /\ UNCHANGED <<scenario, webVars>>
    \/ scenario = "reconnects" /\ Undisturbed /\ UNCHANGED <<scenario, webVars>>
    \/ scenario = "page" /\ WebNext /\ UNCHANGED <<scenario, streamVars>>

MCSpec == MCInit /\ [][MCNext]_mcVars

(* A live host is found.  With readers that lag two hosts are possible (the  *)
(* run lagging).                                                             *)
HostFound == scenario = "clients" => HostReachable

(* A client that reconnects while no command changes the log hears every     *)
(* event.                                                                    *)
ReconnectsGapless == scenario = "reconnects" => Gapless

(* Nobody looks in vain: requests for a host, reconnecting clients for an    *)
(* event.                                                                    *)
NothingMissed == HostFound /\ ReconnectsGapless
=============================================================================
