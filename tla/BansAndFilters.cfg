SPECIFICATION Spec
CONSTANTS
    Requests = {r1, r2}
    MayFail = TRUE
    Hosts = {1}
    BannedBoards = {1}
    MaxBanID = 2
    MaxAppealID = 2
    Words = {"a", "b"}
    FilterForms <- BanOrLog
    WordfilterForms <- ReplaceByBanned
    MaxFilterID = 2
    MaxFiltering = 1
SYMMETRY Symmetry
INVARIANTS
    TypesOK
    LiftedBansAreAudited
    NewestAppealIsAudited
    FiltersInForceApply
PROPERTY BannedCannotPost
CHECK_DEADLOCK FALSE
