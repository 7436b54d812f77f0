\* One pump, one failed step.
SPECIFICATION Spec
CONSTANTS
    Keys <- MCKey
    OldKeys = {}
    Modes = {"none"}
    Down = {}
    MaxEvents = 2
    MaxForeign = 0
    MaxPasses = 0
    Batch = 1
    MaxRetry = 0
    MaxFaults = 1
INVARIANT
    QdrantMatches
