\* Two pages, reopened with other numbers of workers between the saves.
SPECIFICATION SpecReaders
CONSTANTS
    w1 = w1
    w2 = w2
    b = b
    Words = {w1, w2}
    Bits = {b}
    PaLimit = 4
    MaxPages = 2
    PageCounts = {2}
    PagesPerGroup = 1
    WorkerCounts = {1, 2}
    MaxWorkers = 2
    DeltaThresholds = {1}
    ShadowModes = {TRUE}
    Snapshots = {0, 1}
    Queries = {0, 1}
    Contents <- DeltaContents
    SpillChoices = {FALSE}
    MaxCrashes = 0
    MaxIoErrors = 0
INVARIANTS
    BlobsInSnapshotOrder
    LogInOrder
    ReaderSeesSealed
    ChainAnswers
