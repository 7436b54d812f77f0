\* The pump catches up after any one failure or restart.
SPECIFICATION FairSpec
CONSTANTS
    Keys <- MCKey
    OldKeys = {}
    Modes = {"none"}
    Down = {}
    MaxEvents = 3
    MaxForeign = 1
    MaxPasses = 0
    Batch = 2
    MaxRetry = 0
    MaxFaults = 1
PROPERTY
    EveryChangeAcked
