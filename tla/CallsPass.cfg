SPECIFICATION MCSpec
CONSTANTS
    load = load
    model = model
    profile = profile
    chart = chart
    derive = derive
    NoStep = NoStep
    Steps <- MCSteps
    Deps <- MCDeps
    Calls <- MCCalls
    Tool <- MCTool
    Capable <- MCCapable
    ReadOnly = {profile}
    Deriving = {derive}
    MaxToolCalls = 3
    MaxParallelism = 2
    MaxInvocations = 4
    MaxRounds = 2
    MaxPlans = 2
    MaxQuestions = 2
    r = r
    w = w
    x = x
    Readers = {r}
    Writers = {w}
    Watchers = {x}
    MaxReconnects = 1
    Fallback = TRUE
    MaxGateways = 2
INVARIANTS
    RestIsResumable
    CompletedHasEvidence
    GatewaySound
PROPERTIES
    MCSettles
    MCCallsEnd
CHECK_DEADLOCK FALSE
