SPECIFICATION FairSpec
CONSTANTS
    Requests = {r1, r2}
    MaxPostID = 2
    MaxThreadID = 1
    Filenames = {f1}
    ThreadKinds <- Cyclic
    MaxThreads = 1
    CyclicThreadNumPosts = 1
    MayCollide = FALSE
    Faults = {"chown"}
INVARIANT OPAndThreadAgree
PROPERTY RequestsFinish
CHECK_DEADLOCK FALSE
