SPECIFICATION Spec
CONSTANTS
    Requests = {r1, r2}
    MaxPostID = 2
    MaxThreadID = 1
    Filenames = {}
    ThreadKinds <- Plain
    MaxThreads = 1
    CyclicThreadNumPosts = 1
    MayCollide = FALSE
    Faults = {}
PROPERTY BuildingNeverKillsTheServer
CHECK_DEADLOCK FALSE
