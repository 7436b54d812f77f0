\* Every committed event settles, under OrderingPerAggregate with one fault.
SPECIFICATION FairSpec
CONSTANTS
    w1 = w1
    w2 = w2
    a1 = a1
    NoAgg = NoAgg
    Ids <- MCIdsPair
    Workers <- MCWorkers
    Aggs <- MCAggs
    AggOf <- MCAggOfPair
    BatchWorkers = {w2}
    PerAggregate = TRUE
    SerialEmitters = TRUE
    Batch = 2
    MaxAttempts = 2
    MaxFaults = 1
PROPERTY
    EventuallySettled
