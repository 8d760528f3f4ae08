\* The process dies while the second snapshot, a Delta, is on its way to the log.
SPECIFICATION Spec
CONSTANTS
    w1 = w1
    w2 = w2
    b = b
    Words = {w1, w2}
    Bits = {b}
    PaLimit = 4
    MaxPages = 1
    PageCounts = {1}
    PagesPerGroup = 1
    WorkerCounts = {1}
    MaxWorkers = 2
    DeltaThresholds = {1}
    ShadowModes = {TRUE}
    Snapshots = {1, 2}
    Queries = {0, 1, 2}
    Contents <- TwoContents
    SpillChoices = {FALSE}
    MaxCrashes = 1
    MaxIoErrors = 0
INVARIANTS
    SealedAlwaysReads
