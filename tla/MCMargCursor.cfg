SPECIFICATION MargSpec
CONSTANTS
    s1 = s1
    s2 = s2
    b1 = b1
    StockKeys = {s1, s2}
    BillKeys = {b1}
    InitialFeed <- MCFeed
    Workers = {w1}
    Requests <- MCBackfills
    FromTime = 2
    MaxTime = 2
    MaxLogs = 2
    MaxTroubles = 0
INVARIANT StockIsWhole
CHECK_DEADLOCK FALSE
