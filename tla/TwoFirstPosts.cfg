INIT InsertInit
NEXT InsertNext
CONSTANTS
    Requests = {r1, r2}
    MayFail = FALSE
    Databases = {"mysql"}
INVARIANT EveryThreadHasItsOP
CHECK_DEADLOCK FALSE
