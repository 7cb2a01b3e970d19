SPECIFICATION MCSpec
SYMMETRY MCSymmetry
CONSTANTS
    a1 = a1
    a2 = a2
    b1 = b1
    b2 = b2
    k1 = k1
    k2 = k2
    k3 = k3
    m1 = m1
    v1 = v1
    Nobody = Nobody
    Memories = {m1}
    Contents = {a1, a2}
    Targets = {v1}
    Keys = {k1, k2, k3}
    Runs = {m1}
    MaxVersions = 3
    Missing = Nobody
    Documents = {m1}
    Texts = {v1}
    Callers = {b1, b2}
    Seed <- MCSeed
    Absent = Nobody
    MaxGenerations = 3
    Processes = {b1, b2}
    Current = 3
    Altering = {3}
    Holdings = {a1, a2}
    RunRows = {m1, v1}
    Unfinished = {v1}
    Nothing = Nobody
    MaxCopies = 3
    Conversations = {a1, a2}
    Datasets = {m1, v1}
    Readers = {b1, b2}
    Capacity = 1
    MaxWrites = 2
    Turns = {k1, k2, k3}
    Talks = {a1, a2}
    Entries = {b1, b2}
    NoEntry = Nobody
    Works = {a1, a2}
    NoWork = Nobody
    Partial = v1
    MaxBackups = 3
    Formulas = {a1, a2}
    Fields = {v1}
    Instants = {1}
    DefVersions = {1, 2}
    DefKeys = {k1, k2, k3}
    Calls = {b1, b2}
    MaxBatches = 2
    Undefined = Nobody
    Openers = {m1, v1}
    API = m1
    Beside = FALSE
    Sources = {v1}
    Queries = {m1}
    MaxConcurrent = 1
    MaxQueued = 0
    MaxCandidates = 3
    Unset = Nobody
    Wordings <- MCWordings
    MaxUploads = 2
    MaxCharts = 1
    MaxTurns = 2
    Settings <- MCSettings
    MaxTalk = 6
    MaxRuns = 2
    Findings <- MCFindings
    DraftTexts <- MCDrafts
    Asked <- MCAsked
    MaxRounds = 3
    MaxToolCalls = 2
    MaxAnswerers = 2
    Projects = {a1, a2}
    Chats = {b1, b2}
    Tables = {k1, k2, k3}
    Invocations = {m1}
    Names = {v1}
    NoRef = Nobody
INVARIANTS
    StoresTypeOK
    OneHistory
    DatabaseSafe
    FilesMatch
    OneTurn
    Lineage
    MilvusSound
    ContextKept
    AnswerSound
    Traceable
PROPERTIES
    Heals
    DescentKept
CHECK_DEADLOCK FALSE
