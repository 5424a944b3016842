SPECIFICATION DisputesSpec
CONSTANTS
    DisputeIds = {1}
    Admins = {a1, a2}
    Price = 20
    Charge = 10
    RefundRequests <- HalvesAndAll
    Adjustments <- DebitOnly
    Cent = 10
    MaxRefunds = 3
    HoldAmounts = {}
    Charges = {}
    Postings = {}
    Thresholds = {}
    NoThreshold = NoThreshold
    MaxHolds = 1
    MaxRows = 5
SYMMETRY AdminSymmetry
CONSTRAINT RefundsOrDispute
INVARIANTS CompletedRefundIsLedgered DebitFollowsPayout RefundedWasCovered RefundsBounded ReversalsBounded ResolvedByMoney
