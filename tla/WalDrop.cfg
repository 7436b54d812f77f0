\* One change a transaction, a channel of two, two sinks, one failure: enough for a
\* batch that is refused and one behind it that is not.
SPECIFICATION LogicalSpec
CONSTANTS
    Width = 1
    Buffer = 2
    NSinks = 2
    MaxRetry = 2
    MaxTake = 2
    MaxLog = 3
    MaxTrouble = 1
CHECK_DEADLOCK FALSE
INVARIANT ConfirmedIsMirrored
