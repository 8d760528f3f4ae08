\* One page through all mixtures of chunk kinds, thresholds and shadow modes, up
\* to the last snapshot id and one beyond it.
SPECIFICATION Spec
CONSTANTS
    w1 = w1
    w2 = w2
    b = b
    Words = {w1, w2}
    Bits = {b}
    PaLimit = 4
    MaxPages = 1
    PageCounts = {0, 1}
    PagesPerGroup = 1
    WorkerCounts = {1}
    MaxWorkers = 2
    DeltaThresholds = {0, 1}
    ShadowModes = {TRUE, FALSE}
    Snapshots = {0, 1, 524287, 524288}
    Queries = {0, 1, 2, 524287}
    Contents <- AllContents
    SpillChoices = {FALSE}
    MaxCrashes = 0
    MaxIoErrors = 0
INVARIANTS
    TypeOK
PROPERTIES
    RefinesStore
