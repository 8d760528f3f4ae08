\* A save fails at its second page, when the buffer of the worker file cannot be
\* emptied, and leaves the base of its first page behind, which never reaches the log.
SPECIFICATION Spec
CONSTANTS
    w1 = w1
    w2 = w2
    b = b
    Words = {w1, w2}
    Bits = {b}
    PaLimit = 4
    MaxPages = 2
    PageCounts = {2}
    PagesPerGroup = 1
    WorkerCounts = {1}
    MaxWorkers = 2
    DeltaThresholds = {1}
    ShadowModes = {TRUE}
    Snapshots = {1, 2}
    Queries = {0, 1, 2}
    Contents <- TwoContents
    SpillChoices = {TRUE, FALSE}
    MaxCrashes = 0
    MaxIoErrors = 1
INVARIANTS
    DeltaAlwaysHasBase
