SPECIFICATION DisputesSpec
CONSTANTS
    DisputeIds = {1}
    Admins = {a1, a2}
    Price = 20
    Charge = 10
    RefundRequests <- OneRefund
    Adjustments <- BonusAndDebit
    Cent = 10
    MaxRefunds = 1
    HoldAmounts = {}
    Charges = {}
    Postings = {}
    Thresholds = {}
    NoThreshold = NoThreshold
    MaxHolds = 1
    MaxRows = 5
SYMMETRY AdminSymmetry
INVARIANT ChargeReversedOnce
