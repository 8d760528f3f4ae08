\* Two pages with a worker file each, through saves, conversions and purges;
\* purges are killed and run again, with other thresholds too.
SPECIFICATION SpecMaintenance
CONSTANTS
    w1 = w1
    w2 = w2
    b = b
    Words = {w1, w2}
    Bits = {b}
    PaLimit = 4
    MaxPages = 2
    PageCounts = {2}
    PagesPerGroup = 1
    WorkerCounts = {2}
    MaxWorkers = 2
    DeltaThresholds = {1}
    ShadowModes = {TRUE}
    Snapshots = {1, 2}
    Queries = {0, 1, 2}
    Contents <- AllContents
    SpillChoices = {FALSE}
    MaxCrashes = 0
    MaxIoErrors = 0
    Thresholds = {0, 1}
    MaxToolRuns = 2
    MaxToolCrashes = 1
CONSTRAINT
    SecondPageHoldsA
INVARIANTS
    FormatsAgree
    PurgeComplete
    OrderKept
    CheckAccepts
    DeltaHasBase
    CheckFindsLoss
PROPERTIES
    PurgeKeepsPast
