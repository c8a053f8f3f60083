SPECIFICATION LedgerSpec
CONSTANTS
    Process = {api, ingest}
    api = api
    ingest = ingest
    Costs = {1}
    MaxCost = 1
    Cap = 1
    InFlight = 2
    FlushEvery = 2
    Ttl = 2
    DayTicks = 3
    MaxClock = 3
    MaxLines = 3
SYMMETRY Alike
INVARIANT CapAcrossRestarts
INVARIANT UnsyncedBounded
PROPERTY RollupIsFresh
CHECK_DEADLOCK FALSE
