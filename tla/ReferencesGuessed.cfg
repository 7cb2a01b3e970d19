SPECIFICATION ReferencesSpec
CONSTANTS
    Wordings <- MCThis
    MaxUploads = 2
    MaxCharts = 1
    MaxTurns = 2
INVARIANTS
    PlanBindingKept
CHECK_DEADLOCK FALSE
