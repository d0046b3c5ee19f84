SPECIFICATION Spec
CONSTANTS
    Requests = {r1, r2}
    MaxPostID = 3
    MaxThreadID = 1
    Filenames = {f1}
    ThreadKinds <- Cyclic
    MaxThreads = 1
    CyclicThreadNumPosts = 1
    MayCollide = FALSE
    Faults = {}
SYMMETRY Symmetry
INVARIANTS TypeOK CyclicBound UploadsSurvive
PROPERTY UploadsLeftOnlyByRaces
CHECK_DEADLOCK FALSE
