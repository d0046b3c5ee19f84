SPECIFICATION Spec
CONSTANTS
    Requests = {r1, r2}
    MayFail = TRUE
    Dirs = {"a"}
    Sections = {"main"}
    BoardConfigs = {"x", "y"}
    MaxCreations = 2
    Discussions = {1, 2, 3}
    ReplyNumbers = {1, 2}
    RepliesOnBoardPage <- OneReplyUnlessStickied
    ThreadsPerPage = 2
    FirstReplies <- BusyOrQuiet
    MaxChanges = 1
    Databases = {"mysql", "postgres", "sqlite3"}
    SQLDrivers = {"mysql", "postgres", "sqlite3"}
    OldBans = {1, 2}
    LegacyTables = {"file_ban", "wordfilters"}
    MaxStarts = 3
SYMMETRY Symmetry
INVARIANTS
    TypesOK
    BoardListIsWhole
    CountsMakeSense
    UndisturbedBuildIsExact
    IDsAreOwn
    LegacyFiltersSurvive
    UninterruptedUpdateConverts
    RestartsRepairTheUpdate
    NewDatabaseIsWhole
PROPERTY ImplementsAtomicInserts
CHECK_DEADLOCK FALSE
