SPECIFICATION Spec
CONSTANTS
    Requests = {r1, r2}
    MaxPostID = 2
    MaxThreadID = 2
    Filenames = {f1}
    ThreadKinds <- Plain
    MaxThreads = 1
    CyclicThreadNumPosts = 1
    MayCollide = FALSE
    Faults = {"insert", "attach", "remove", "query", "crash"}
SYMMETRY Symmetry
INVARIANTS ThreadLimit UploadsSurvive
PROPERTY ImplementsForum
CHECK_DEADLOCK FALSE
