\* OrderingNone: one worker per handler kind, claims only.
SPECIFICATION Spec
CONSTANTS
    w1 = w1
    w2 = w2
    a1 = a1
    NoAgg = NoAgg
    Ids <- MCIdsPair
    Workers <- MCWorkers
    Aggs <- MCAggs
    AggOf <- MCAggOfNone
    BatchWorkers = {w2}
    PerAggregate = FALSE
    SerialEmitters = FALSE
    Batch = 2
    MaxAttempts = 2
    MaxFaults = 1
INVARIANTS
    TypeOK
    NoLostEvent
    OnlyCommittedDelivered
    NoUnexcusedDuplicate
    ParkedAfterMaxAttempts
