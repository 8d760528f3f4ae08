\* Two processes create the cache at the same time, and one of them is killed.
SPECIFICATION Spec
CONSTANTS
    Procs = {p1, p2}
    METADATA_PAGES = 1
    SETS_PER_META = 1
    WAYS_PER_SET = 1
    U8_MAX = 1
    Keys = {0}
    Hash <- OneSet
    A = A
    B = B
    Contents = {A}
    Images <- FewImages
    Identities = {db}
    NoPage = NoPage
    Torn = Torn
    MaxCreators = 2
    MaxKills = 1
INVARIANTS
    OpenedIsInitialised
