\* OrderingPerAggregate, transactions that emit for one aggregate excluding each other.
SPECIFICATION Spec
CONSTANTS
    w1 = w1
    w2 = w2
    a1 = a1
    NoAgg = NoAgg
    Ids <- MCIds
    Workers <- MCWorkers
    Aggs <- MCAggs
    AggOf <- MCAggOf
    BatchWorkers = {w2}
    PerAggregate = TRUE
    SerialEmitters = TRUE
    Batch = 2
    MaxAttempts = 2
    MaxFaults = 1
PROPERTY
    AggregateOrder
