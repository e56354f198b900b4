SPECIFICATION FairSpec
CONSTANTS
    Nodes = {m, w}
    Masters = {m}
    Preprocessed = {w}
    Postprocessed = {m, w}
    Limit = 2
    MaxFails = 2
    MaxFaults = 1
    MaxCmds = 2
INVARIANTS FlagsAreEarned SkipForCause
PROPERTIES NodesProvisioned
CHECK_DEADLOCK FALSE
