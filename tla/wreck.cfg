\* Writers that crash, before and after purges.
SPECIFICATION SpecMaintenance
CONSTANTS
    w1 = w1
    w2 = w2
    b = b
    Words = {w1, w2}
    Bits = {b}
    PaLimit = 4
    MaxPages = 1
    PageCounts = {1}
    PagesPerGroup = 1
    WorkerCounts = {1}
    MaxWorkers = 2
    DeltaThresholds = {1}
    ShadowModes = {TRUE}
    Snapshots = {1, 2, 3}
    Queries = {0, 1, 2, 3}
    Contents <- AllContents
    SpillChoices = {TRUE, FALSE}
    MaxCrashes = 1
    MaxIoErrors = 0
    Thresholds = {2}
    MaxToolRuns = 1
    MaxToolCrashes = 1
INVARIANTS
    CheckFindsLoss
PROPERTIES
    PurgeKeepsPast
