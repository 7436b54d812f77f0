\* Every pair of schemas of three families of objects; the other systems do not
\* move.
SPECIFICATION DiffOnly
CONSTANTS
    p1 = p1
    p2 = p2
    a = a
    b = b
    c = c
    w1 = w1
    NoRow = NoRow
    Callers <- MCCallers
    L1TTLs = {0, 1}
    TTLs = {0, 1}
    MaxTTL = 1
    MaxNow = 1
    MaxVersion = 2
    MaxCalls = 3
    MaxFails = 1
    Users <- MCCallers
    CacheKeys <- MCKeys
    MaxEntries = 2
    Lifetimes = {0, 1}
    Forever = 10
    MaxClock = 3
    Getters <- MCCallers
    Updaters <- MCCallers
    MaxRow = 3
    MaxGets = 3
    MaxTrouble = 1
    Readers <- MCCallers
    Writers <- MCWriters
    Columns <- MCColumns
    MaxGen = 2
    MaxQueries = 2
    MaxWrites = 1
    MaxLost = 1
    MaxKey = 3
    RangeSize = 2
    MaxReport = 2
    MaxChanges = 3
    MaxMoves = 2
    Families <- MCFamilies
    Outputs <- MCOutputs
    MaxReruns = 1
    Workers <- MCCallers
    Nobody = Nobody
    Pool = Pool
    MaxEvents = 3
    Batch = 2
    MaxAttempts = 2
    MaxFaults = 1
CHECK_DEADLOCK FALSE
INVARIANT
    ViewDropsAreLegal
