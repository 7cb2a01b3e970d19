SPECIFICATION Spec
CONSTANTS
    load = load
    model = model
    profile = profile
    chart = chart
    derive = derive
    NoStep = NoStep
    Steps <- MCSteps
    Deps <- MCDeps
    Calls <- MCCalls
    Tool <- MCTool
    Capable <- MCCapable
    ReadOnly = {profile}
    Deriving = {derive}
    MaxToolCalls = 3
    MaxParallelism = 2
    MaxInvocations = 4
    MaxRounds = 2
    MaxPlans = 2
    MaxQuestions = 2
INVARIANTS
    AnswerContinues
CHECK_DEADLOCK FALSE
