CONSTANTS
    Workers = {w1, w2}
    Nobody = Nobody
    Events = {1, 2, 3}
    At <- MCAt
    Broken = {3}
    BatchSize = 2
    MaxRuntime = 1
    MaxClock = 2
    MaxCrashes = 1
SPECIFICATION RWFairSpec
INVARIANT RWInv
INVARIANT ProcessedOnce
PROPERTY DrainedLeavesNothing
PROPERTY DueIsProcessed
