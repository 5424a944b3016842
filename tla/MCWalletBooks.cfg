SPECIFICATION Spec
CONSTANTS
    HoldAmounts = {1000000}
    Charges = {0, 500000}
    Postings <- MCPostings
    Thresholds = {1}
    NoThreshold = NoThreshold
    MaxHolds = 2
    MaxRows = 2
INVARIANT BooksReconcile
