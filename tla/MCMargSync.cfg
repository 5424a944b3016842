SPECIFICATION MargSpec
CONSTANTS
    s1 = s1
    s2 = s2
    b1 = b1
    StockKeys = {s1, s2}
    BillKeys = {b1}
    InitialFeed <- MCFeed
    Workers = {w1, w2}
    Requests <- MCRequests
    FromTime = 2
    MaxTime = 3
    MaxLogs = 2
    MaxTroubles = 1
INVARIANTS MargTypeOK RunsExclude CursorIsCovered PassedBillsAreProjected HiddenRowsAreGone CompletedLogsAreStaged
PROPERTY InventoryLockIsReleased
CHECK_DEADLOCK FALSE
