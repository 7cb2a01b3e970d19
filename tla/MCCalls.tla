------------------------------ MODULE MCCalls ------------------------------
(* What has to end, side by side for TLC: a run whose second step needs the  *)
(* first (TaskRun), and calls through a gateway that connects again and      *)
(* again (McpGateway).  They share no state: a behaviour is one of one of    *)
(* them.                                                                     *)
EXTENDS MCTaskRun, McpGateway

CONSTANTS r, w, x

VARIABLE area    \* the module the behaviour is of

mcVars == <<area, vars, mcpVars>>

MCInit == area \in {"run", "gateway"} /\ Init /\ McpInit

MCNext ==
    \/ area = "run" /\ Next /\ UNCHANGED <<area, mcpVars>>
    \/ area = "gateway" /\ McpNext /\ UNCHANGED <<area, vars>>

\* The fairness of FairSpec, and of what each user of the gateway does by itself.
MCFairness ==
    /\ WF_mcVars(area = "run" /\ HostStep /\ UNCHANGED <<area, mcpVars>>)
    /\ WF_mcVars(area = "run" /\ loop = "none" /\ Recovery /\ UNCHANGED <<area, mcpVars>>)
    /\ \A u \in Users :
          WF_mcVars(area = "gateway" /\ Advances(u) /\ UNCHANGED <<area, vars>>)

MCSpec == MCInit /\ [][MCNext]_mcVars /\ MCFairness

\* Settles and CallsEnd are each about the behaviours of their module.
MCSettles == area = "run" => Settles
MCCallsEnd == area = "gateway" => CallsEnd
=============================================================================
