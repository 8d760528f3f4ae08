\* Two processes and more keys than a set has ways, killed at any point.
SPECIFICATION FairSpec
CONSTANTS
    Procs = {p1, p2}
    METADATA_PAGES = 2
    SETS_PER_META = 1
    WAYS_PER_SET = 2
    U8_MAX = 2
    Keys = {0, 1, 2}
    Hash <- OneSet
    A = A
    B = B
    Contents = {A, B}
    Images <- FewImages
    Identities = {db}
    NoPage = NoPage
    Torn = Torn
    MaxCreators = 1
    MaxKills = 1
INVARIANTS
    TypeOK
    KeysPlaced
    OpenedIsInitialised
PROPERTIES
    RefinesCache
    OldestMakesRoom
    MutexReleased
