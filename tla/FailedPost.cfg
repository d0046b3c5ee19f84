SPECIFICATION Spec
CONSTANTS
    Requests = {r1}
    MaxPostID = 1
    MaxThreadID = 1
    Filenames = {f1}
    ThreadKinds <- Plain
    MaxThreads = 1
    CyclicThreadNumPosts = 1
    MayCollide = FALSE
    Faults = {"attach"}
PROPERTY FailedPostIsDeleted
CHECK_DEADLOCK FALSE
