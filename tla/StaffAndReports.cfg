SPECIFICATION Spec
CONSTANTS
    Requests = {r1, r2}
    MayFail = TRUE
    Usernames = {"admin", "jan"}
    InitialRank <- AdminAndJanitor
    NewRanks = {1}
    SessionKeys = {k1, k2}
    ReportedPosts = {2}
    Reasons = {"spam"}
    MaxReportID = 3
    Texts = {"old", "new"}
    FirstText = "old"
    BoardDirs = {"a", "b"}
    ThreadPosts = {"op"}
    FirstFiles <- OnlyTheOPHasAFile
    NewFiles = {"x", "y"}
SYMMETRY Symmetry
INVARIANTS
    TypesOK
    SessionsEndWithTheAccount
    DuplicatesOnlyByRace
    RefusedEditIsUndone
    NoUploadIsLost
PROPERTIES
    OnlyAdminsChangeOthers
    BlockedPostsAreNotReported
CHECK_DEADLOCK FALSE
