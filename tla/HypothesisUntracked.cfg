SPECIFICATION HypSpec
CONSTANTS
    Unselected = Unselected
    Profiles <- MCProfiles
    MaxTests = 3
    MaxReplans = 1
    MaxPlanned = 4
INVARIANTS
    FailedHasNoEvidence
CHECK_DEADLOCK FALSE
