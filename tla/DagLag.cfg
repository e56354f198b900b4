\* Two legacy components in parallel, then a registry component with the policy
\* Continue; a cache behind by any number of writes, a shutdown or a crash.
CONSTANTS
    Components = {1, 2, 3}
    Prereqs <- JoinPrereqs
    Batches <- JoinBatches
    Unneeded = {}
    Registry = {3}
    FailFast = {1, 2}
    MaxParallel = 2
    None = None
    InformerLag = TRUE
    Shutdowns = TRUE
    MaxFaults = 1
    MaxCrashes = 1
SPECIFICATION Spec
INVARIANTS CompletedHonest FinishedHonest
CHECK_DEADLOCK FALSE
