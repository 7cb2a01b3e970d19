SPECIFICATION MCSpec
SYMMETRY MCSymmetry
CONSTANTS
    r = r
    w = w
    s1 = s1
    s2 = s2
    Signatures = {r, w}
    Parallel = {r, w}
    MaxTurnCalls = 3
    MaxInvalid = 2
    MaxTurnRounds = 2
    MaxBatch = 2
    Issues = {w}
    MaxTurnPlans = 2
    MaxHosts = 2
    MaxAttempts = 3
    Route <- MCRoute
    Spoken <- MCSpoken
    MaxPiece = 9
    Unselected = Unselected
    Profiles <- MCProfiles
    MaxTests = 3
    MaxReplans = 1
    MaxPlanned = 4
    Namable <- MCNamable
    Unnamed = Unnamed
    Verdicts <- MCVerdicts
    MaxJoinCalls = 3
    MaxJoinData = 2
    Columns = {r, w}
    Features <- MCFeatures
    MaxRoleCalls = 2
    MaxDatasets = 2
    Requests <- MCRequests
    Histories <- MCHistories
    Catalogues <- MCCatalogues
    Additions = {"figure"}
    MaxSteps = 3
    Definitions = {1, 2, 3}
    PageSize = 2
    Collectors = {r}
    Pagers = {w}
    NoCursor = NoCursor
    Subscribers = {s1, s2}
    MaxVersion = 2
    MaxBreaks = 1
    Nobody = Nobody
    load = load
    model = model
    profile = profile
    chart = chart
    derive = derive
    NoStep = NoStep
    Steps <- MCSteps
    Deps <- MCNoDeps
    Calls <- MCBatchCalls
    Tool <- MCBatchTool
    Capable <- MCBatchCapable
    ReadOnly = {profile, chart}
    Deriving = {derive}
    MaxToolCalls = 3
    MaxParallelism = 2
    MaxInvocations = 4
    MaxRounds = 3
    MaxPlans = 2
    MaxQuestions = 1
INVARIANTS
    TypeOK
    RowsAgree
    DataStable
    WithinBudget
    TurnSound
    ResultSound
    StreamSound
    CallsGoverned
    OutlineSound
    ResourcesSound
    HypothesisSound
PROPERTIES
    NoReexecution
    NothingUndone
    ImplementsLifecycle
CHECK_DEADLOCK FALSE
