SPECIFICATION DisputesSpec
CONSTANTS
    DisputeIds = {}
    Admins = {a1, a2}
    Price = 20
    Charge = 10
    RefundRequests <- SubCentAndAll
    Adjustments = {}
    Cent = 10
    MaxRefunds = 2
    HoldAmounts = {}
    Charges = {}
    Postings = {}
    Thresholds = {}
    NoThreshold = NoThreshold
    MaxHolds = 1
    MaxRows = 5
SYMMETRY AdminSymmetry
INVARIANT RefundsCapped
