SPECIFICATION MilvusSpec
CONSTANTS
    API = API
    Unset = Unset
    Openers = {API, Script}
    Beside = TRUE
    Sources = {s1}
    Queries = {q1}
    MaxConcurrent = 1
    MaxQueued = 0
    MaxCandidates = 3
INVARIANTS
    CleanupSparesReads
CHECK_DEADLOCK FALSE
