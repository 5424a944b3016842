SPECIFICATION PurchasesSpec
CONSTANTS
    CardPurchases = {1}
    BankPurchases = {2}
    Price <- MCPrice
    Workers = {w1, w2}
    HoldAmounts = {1000000}
    Charges = {0}
    Postings <- MCPostings
    Thresholds = {}
    NoThreshold = NoThreshold
    MaxHolds = 0
    MaxRows = 3
PROPERTY SettlementDecides
