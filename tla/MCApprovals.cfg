SPECIFICATION ApprovalsSpec
CONSTANTS
    u1 = u1
    u2 = u2
    Users = {u1, u2}
    Submitters = {u1}
    Admins = {u2}
    NSteps = 3
    Required <- MCRequired
    MayApprove <- MCMayApprove
    Rejectable = {1, 2}
    MaxInstances = 2
    MaxRequests = 8
    Tasks = {t1, t2}
INVARIANTS ApprovalsTypeOK ApprovedIsSignedOff OneActiveInstance
PROPERTIES VerdictsStand SignOffSpec
SYMMETRY TaskSymmetry
CHECK_DEADLOCK FALSE
