SPECIFICATION MCSpec
CONSTANTS
    Transactions = {1, 2}
    At <- OneTime
    PageSize = 1
    MaxNew = 1
    MaxTroubles = 1
    ta = ta
    tb = tb
    Tenants = {ta, tb}
    Rows = {1}
    HomeOf <- Homes
    MaxChanges <- Changes
    Links = {1, 2, 3}
    MaxAttempts = 2
    Window = 1
    LockTime = 1
    MaxTime = 2
    MaxAsks = 3
    Presses = {p}
    Person = p
    Others = {o}
    None = None
INVARIANTS NothingForeignOrTwice OwnActionsAreShown UnverifiedHasLink LockedOnlyAfterMax
PROPERTIES  DisputeHoldsUnlessCrossed SpentLinkDoesNothing DeskCatchesUp
CHECK_DEADLOCK FALSE
