\* Two callers throughout.  tiered: three calls, both L1TTL modes, one failure or
\* write from elsewhere.  memory: three keys and room for two.  entity: two
\* getters, two writers, two writes.  topics: two readers, one write, one lost
\* call or generation.  verify: three keys in ranges of two, a report of two, two
\* changes or stops meanwhile.  diff: every pair of schemas of three families of
\* objects, one re-run.  mysql: two workers, three events in batches of two, one
\* fault.  The systems may come to rest.
SPECIFICATION Spec
CONSTANTS
    p1 = p1
    p2 = p2
    a = a
    b = b
    c = c
    w1 = w1
    NoRow = NoRow
    Callers <- MCCallers
    L1TTLs = {0, 1}
    TTLs = {0, 1}
    MaxTTL = 1
    MaxNow = 1
    MaxVersion = 2
    MaxCalls = 3
    MaxFails = 1
    Users <- MCCallers
    CacheKeys <- MCKeys
    MaxEntries = 2
    Lifetimes = {0, 1}
    Forever = 10
    MaxClock = 3
    Getters <- MCCallers
    Updaters <- MCCallers
    MaxRow = 3
    MaxGets = 3
    MaxTrouble = 1
    Readers <- MCCallers
    Writers <- MCWriters
    Columns <- MCColumns
    MaxGen = 2
    MaxQueries = 2
    MaxWrites = 1
    MaxLost = 1
    MaxKey = 3
    RangeSize = 2
    MaxReport = 2
    MaxChanges = 3
    MaxMoves = 2
    Families <- MCFamilies
    Outputs <- MCOutputs
    MaxReruns = 1
    Workers <- MCCallers
    Nobody = Nobody
    Pool = Pool
    MaxEvents = 3
    Batch = 2
    MaxAttempts = 2
    MaxFaults = 1
SYMMETRY Symmetry
CHECK_DEADLOCK FALSE
INVARIANTS
    CopiesTypeOK
    HerdsCollapse
    NearFollowsFar
    CachedRowCurrent
    NoStaleAnswer
    DefectsCounted
    SettledIsOwed
    
    MySQLOutboxSound
PROPERTIES
    MemorySound
