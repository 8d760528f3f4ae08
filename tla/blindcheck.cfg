\* A save that fails leaves a blob that no record names, and a crash loses it.
SPECIFICATION SpecMaintenance
CONSTANTS
    w1 = w1
    w2 = w2
    b = b
    Words = {w1, w2}
    Bits = {b}
    PaLimit = 4
    MaxPages = 2
    PageCounts = {2}
    PagesPerGroup = 1
    WorkerCounts = {1}
    MaxWorkers = 1
    DeltaThresholds = {1}
    ShadowModes = {TRUE}
    Snapshots = {1, 2, 3}
    Queries = {3}
    Contents <- TwoContents
    SpillChoices = {TRUE, FALSE}
    MaxCrashes = 1
    MaxIoErrors = 1
    Thresholds = {1}
    MaxToolRuns = 0
    MaxToolCrashes = 0
INVARIANTS
    CheckAlwaysFindsLoss
