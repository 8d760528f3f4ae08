\* Two groups of pages share the worker files: every interleaving of their
\* appends, for every bitmap and every length of the memory.
SPECIFICATION FairSpec
CONSTANTS
    w1 = w1
    w2 = w2
    b = b
    Words = {w1, w2}
    Bits = {b}
    PaLimit = 4
    MaxPages = 4
    PageCounts = {3, 4}
    PagesPerGroup = 2
    WorkerCounts = {1, 2}
    MaxWorkers = 2
    DeltaThresholds = {1}
    ShadowModes = {TRUE}
    Snapshots = {1}
    Queries = {0, 1}
    Contents <- DeltaContents
    SpillChoices = {FALSE}
    MaxCrashes = 0
    MaxIoErrors = 0
INVARIANTS
    SlotsWritten
    BlobsDisjoint
    ReadPathsAgree
PROPERTIES
    RefinesStore
    SaveTakesEffect
