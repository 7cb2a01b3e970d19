------------------------------ MODULE MCTools ------------------------------
(* The modules of a turn of the agent and of the calls it makes, and the     *)
(* rows of a run whose steps are worked on in parallel, side by side for     *)
(* TLC.  They share no state: a behaviour is one of one of them.             *)
EXTENDS AgentTurn, ToolResult, MCHypothesis, Joins, DataRoles, ModelTurn,
        TaskOutline, ResourceFeed, MCTaskRun

CONSTANTS r, w, s1, s2

VARIABLE area    \* the module the behaviour is of

mcVars == <<area, turnVars, resultVars, hypVars, joinVars, roleVars, modelVars,
            outlineVars, listingVars, feedVars, vars>>

\* The calls of a frontier and the subscribers of a key, which nothing tells apart.
MCSymmetry == Permutations({profile, chart}) \cup Permutations({s1, s2})

MCRoute == <<TRUE, FALSE, TRUE>>
MCSpoken ==
    {<<>>, <<"a", "_">>, <<"a", "<", "a">>, <<"_", "a", "<", "!", "c", ">">>,
     <<"a", "_", "<", "!", "c", ">", "a">>, <<"<", "!", "x", ">">>, <<"a", "<", "!", "c">>,
     <<"a", "_", "_", "a", "<", "!", "c", ">">>, <<"<", "!", "c", ">", "<", "!", "c">>,
     <<"<", "!", "c", "<", "!", "c", ">">>, <<"<", "!", ">", "<", "!", "c", "_", "c", ">">>}

MCNamable == [join_datasets |-> {r, w}, join_keys |-> {r}, join_type |-> {w}]
MCVerdicts == [Args -> {"ready", "blocked"}]

MCFeature(dtype, values, unique, hints) ==
    [dtype |-> dtype, values |-> values, unique |-> unique, hints |-> hints]
MCFeatures ==
    {MCFeature("datetime", "many", "high", {}), MCFeature("numeric", "many", "high", {"metric"}),
     MCFeature("numeric", "few", "low", {}), MCFeature("str", "few", "low", {"dimension"}),
     MCFeature("str", "unavailable", "low", {})}

MCCapabilities == {Rules[k].capability : k \in DOMAIN Rules}
MCCatalogues == {MCCapabilities, MCCapabilities \ {"chart", "preflight"}}
MCHistories == {{}, {"chart"}, {"profile", "stats", "table"}}
MCWords ==
    UNION {Rules[k].asks \cup Rules[k].unless : k \in DOMAIN Rules}
    \cup {"graph", "recent", "done", "revise", "recompute", "general"}
MCRequests ==
    {{a, b} : a, b \in MCWords}
    \cup {{"explore"}, {"recent", "chart", "report"}, {"recent", "revise", "report"},
          {"profile", "trend", "report"}, {"define", "join", "figure"}, {"nochart", "graph", "sum"}}
MCOutlineInit ==
    /\ \/ area = "outline"
       \/ /\ words = {"explore"} /\ hasData = FALSE /\ artifacts = {}
          /\ usable = MCCapabilities /\ resolved = FALSE
    /\ OutlineInit

MCInit ==
    /\ area \in {"turn", "result", "hypothesis", "joins", "roles", "model",
                  "outline", "listing", "feed", "rows"}
    /\ TurnInit /\ ResultInit /\ HypInit
    /\ area # "hypothesis" => screened = [k \in Kinds |-> "rejected"]
    /\ JoinInit
    /\ area # "joins" => goal = [p \in JoinParts |-> Unnamed] /\ \A a \in Args : verdict[a] = "ready"
    /\ RolesInit
    /\ area # "roles" =>
           /\ analysis = "trend" /\ named = {}
           /\ profiles[1] = [c \in Columns |-> MCFeature("str", "unavailable", "low", {})]
    /\ ModelInit
    /\ area # "model" => ~withTools /\ utterance = <<>>
    /\ MCOutlineInit /\ ListingInit /\ FeedInit /\ Init

MCNext ==
    \/ /\ area = "turn" /\ TurnNext
       /\ UNCHANGED <<area, resultVars, hypVars, joinVars, roleVars, modelVars,
                       outlineVars, listingVars, feedVars, vars>>
    \/ /\ area = "result" /\ ResultNext
       /\ UNCHANGED <<area, turnVars, hypVars, joinVars, roleVars, modelVars,
                       outlineVars, listingVars, feedVars, vars>>
    \/ /\ area = "hypothesis" /\ HypNext
       /\ UNCHANGED <<area, turnVars, resultVars, joinVars, roleVars, modelVars,
                       outlineVars, listingVars, feedVars, vars>>
    \/ /\ area = "joins" /\ JoinNext
       /\ UNCHANGED <<area, turnVars, resultVars, hypVars, roleVars, modelVars,
                       outlineVars, listingVars, feedVars, vars>>
    \/ /\ area = "roles" /\ RolesNext
       /\ UNCHANGED <<area, turnVars, resultVars, hypVars, joinVars, modelVars,
                       outlineVars, listingVars, feedVars, vars>>
    \/ /\ area = "model" /\ ModelNext
       /\ UNCHANGED <<area, turnVars, resultVars, hypVars, joinVars, roleVars,
                       outlineVars, listingVars, feedVars, vars>>
    \/ /\ area = "outline" /\ OutlineNext
       /\ UNCHANGED <<area, turnVars, resultVars, hypVars, joinVars, roleVars,
                       modelVars, listingVars, feedVars, vars>>
    \/ /\ area = "listing" /\ ListingNext
       /\ UNCHANGED <<area, turnVars, resultVars, hypVars, joinVars, roleVars,
                       modelVars, outlineVars, feedVars, vars>>
    \/ /\ area = "feed" /\ FeedNext
       /\ UNCHANGED <<area, turnVars, resultVars, hypVars, joinVars, roleVars,
                       modelVars, outlineVars, listingVars, vars>>
    \/ /\ area = "rows" /\ Next
       /\ UNCHANGED <<area, turnVars, resultVars, hypVars, joinVars, roleVars, modelVars,
                       outlineVars, listingVars, feedVars>>

MCSpec == MCInit /\ [][MCNext]_mcVars
=============================================================================
