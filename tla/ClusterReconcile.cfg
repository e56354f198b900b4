SPECIFICATION FairSpec
CONSTANTS
    Limit = 2
    WorkPhases <- MCWorkPhases
    MaxEdits = 2
    MaxFails = 2
    MaxFaults = 1
INVARIANTS
    FailedMeansExhausted
    PauseStopsWork
PROPERTIES
    FinalizerKept
    PauseConverges
    DeletionEnds
    WorkGetsDone
CHECK_DEADLOCK FALSE
