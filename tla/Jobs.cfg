\* Two workers, three jobs in two slots, two crashes or late heartbeats.  The
\* table comes to rest once every job has ended and been cleaned up.
SPECIFICATION FairSpec
CONSTANTS
    w1 = w1
    w2 = w2
    s1 = s1
    s2 = s2
    NoJob = NoJob
    NoWorker = NoWorker
    Ids <- MCIds
    Slots <- MCSlots
    Workers <- MCWorkers
    Kinds <- MCKinds
    CountsRows = TRUE
    MaxFaults = 2
CHECK_DEADLOCK FALSE
INVARIANTS
    TypeOK
    OverlapExcused
PROPERTIES
    OutcomeStays
    EveryJobEnds
