SPECIFICATION Spec
CONSTANTS
    Histories = 2
    NodeBatches = 1
    EdgeBatches = 1
    RestartTicks = 3
    LeaseTicks = 24
    Leases = {0, 12, 24}
    MaxCrashes = 2
INVARIANT DoneIsWhole
INVARIANT OneCrashLosesNoHistory
PROPERTY EveryRunEnds
