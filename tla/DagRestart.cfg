\* A diamond of components, one worker at a time (so that a failure finds the
\* other item of its batch queued), two faults, one crash; the cache follows.
CONSTANTS
    Components = {1, 2, 3, 4}
    Prereqs <- DiamondPrereqs
    Batches <- DiamondBatches
    Unneeded = {1}
    Registry = {2, 4}
    FailFast = {1, 2, 3, 4}
    MaxParallel = 1
    None = None
    InformerLag = FALSE
    Shutdowns = FALSE
    MaxFaults = 2
    MaxCrashes = 1
SPECIFICATION FairSpec
PROPERTIES CompletionsKept NoRework ImplementsPromise HopEndsOrParks
CHECK_DEADLOCK FALSE
