\* replicated: two goroutines of one session, two replicas, two commits, three
\* statements, one gap.  registry: three entries at a time and one Quiesce.
\* migrations: two processes, two versions, three calls, two failures.  events:
\* two writers of two streams, three events, appends of two, one reader.  tree: two
\* processes, four nodes, four calls, one failure.  All five may come to rest.
SPECIFICATION Spec
CONSTANTS
    Goroutines = {g1, g2}
    Replicas = {r1, r2}
    Primary = Primary
    MaxWAL = 2
    MaxOps = 3
    MaxGaps = 1
    Slots = {e1, e2, e3}
    Quiescers = {q1}
    NoSlot = NoSlot
    Migrators = {m1, m2}
    NoMigrator = NoMigrator
    MaxVersion = 2
    MaxRuns = 3
    MaxMishaps = 2
    Streams = {s1, s2}
    Appenders = {w1, w2}
    Readers = {v1}
    MaxId = 3
    MaxLimit = 2
    MaxBatch = 2
    Operators = {o1, o2}
    MigrationIds = {1, 2, 3, 4}
    Parents <- MCParents
    MaxPlans = 4
    MaxBreaks = 1
CHECK_DEADLOCK FALSE
INVARIANTS
    SessionsTypeOK
    ReadsOwnWrites
    RegistryDrains
    HistoryTellsTruth
    TreeSound
    StreamsWhole
    SkipsOnlyLate
PROPERTIES
    QuiesceEnds
