SPECIFICATION ChargingSpec
CONSTANTS
    r1 = r1
    r2 = r2
    u1 = u1
    Requests = {r1, r2}
    Users = {u1}
    Nobody = Nobody
    UserOf <- MCUserOf
    Credit = 10
    MaxUnbilled = 1
    MaxServed = 4
    PolicyHolds = 1
    TenantRows <- MCTenantRows
    UserRows = {}
    PlanRow <- MCPlanRow
    NoLimit = NoLimit
    Enforcement = {TRUE, FALSE}
    HoldAmounts = {1300000}
    Charges = {2000000}
    Postings = {}
    Thresholds = {}
    NoThreshold = NoThreshold
    MaxHolds = 4
    MaxRows = 5
INVARIANTS MoneyTrail CallsAreHeld RequestsBounded SpendBounded
PROPERTY HoldsEnd
CHECK_DEADLOCK FALSE
