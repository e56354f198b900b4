SPECIFICATION FairSpec
CONSTANTS
    Versions <- MCVersions
    RuleSets <- MCRuleSets
    Comps = {x, y}
    Limit = 2
    Late = FALSE
    MaxEdits = 1
    MaxFails = 2
    MaxFaults = 1
INVARIANTS ShortestPath
PROPERTIES RecordedMeansInstalled HopsFollowRules Converges
CHECK_DEADLOCK FALSE
