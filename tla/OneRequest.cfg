SPECIFICATION Spec
CONSTANTS
    Requests = {r1}
    MaxPostID = 3
    MaxThreadID = 2
    Filenames = {f1, f2}
    ThreadKinds <- AllKinds
    MaxThreads = 1
    CyclicThreadNumPosts = 1
    MayCollide = FALSE
    Faults = {}
INVARIANT UploadsAccountedFor
PROPERTIES
    BuildingNeverKillsTheServer
    ImplementsForum
CHECK_DEADLOCK FALSE
