\* A fill or a repair beside the pump; any one fetch, apply, commit, chunk or
\* process fails.
SPECIFICATION Spec
CONSTANTS
    Keys <- MCKeys
    OldKeys = {1}
    Modes = {"fill", "repair"}
    Down = {}
    MaxEvents = 3
    MaxForeign = 1
    MaxPasses = 2
    Batch = 2
    MaxRetry = 0
    MaxFaults = 1
INVARIANTS
    TypeOK
    AckedEverywhere
    ClickHouseMatches
    QdrantMatchesUnfailed
