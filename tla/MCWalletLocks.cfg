SPECIFICATION LocksSpec
CONSTANTS
    Callers = {c1, c2}
    HoldAmounts = {1300000, 2600000}
    Charges = {0, 1600000}
    Postings <- MCPostings
    Thresholds = {1}
    NoThreshold = NoThreshold
    MaxHolds = 2
    MaxRows = 2
INVARIANTS TypeOK ReservedIsHeld BooksReconcile LedgerChains AggregatesMirror OneChargePerHold OverspendHasACause
PROPERTIES WalletSpec TransactionsEnd
