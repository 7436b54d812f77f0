\* idempotency: three callers of one key, three closures run.  saga: four steps,
\* one without compensation, two attempts, three failures.  logical: two sinks, two
\* transactions, a channel of two, two failures, which the pump's budget takes.
\* All three may come to rest.
SPECIFICATION Spec
CONSTANTS
    Callers = {c1, c2, c3}
    Keys = {k1}
    Nobody = Nobody
    MaxExecutions = 3
    Steps = 4
    NoComp = {2}
    MaxAttempts = 2
    MaxFaults = 3
    Width = 1
    Buffer = 2
    NSinks = 2
    MaxRetry = 2
    MaxTake = 2
    MaxLog = 2
    MaxTrouble = 2
CHECK_DEADLOCK FALSE
INVARIANTS
    DurableTypeOK
    AllOrReported
    ConfirmedOrDropped
PROPERTIES
    PerformedOnce
    RunEnds
    EventuallyMirrored
