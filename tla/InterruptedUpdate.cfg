INIT UpdateInit
NEXT UpdateNext
CONSTANTS
    Requests = {}
    MayFail = TRUE
    SQLDrivers = {"mysql"}
    OldBans = {1, 2}
    LegacyTables = {"file_ban", "wordfilters"}
    MaxStarts = 3
INVARIANT NoBanIsLost
CHECK_DEADLOCK FALSE
