SPECIFICATION FairSpec
CONSTANTS
    u1 = u1
    c1 = c1
    c2 = c2
    u2 = u2
    User = {u1, u2}
    b1 = b1
    b2 = b2
    x1 = x1
    Order = {b1, b2, x1}
    NoOrder = NoOrder
    ModeOf <- MCModeOf
    Hours <- MCHours
    BuyerOf <- MCBuyerOf
    Size <- MCSize
    Allocated <- MCAllocated
    Percent <- MCPercent
    Package = Package
    Zone = 0
    Grace = 1
    NoReturn = NoReturn
    Job = {}
    NoJob = NoJob
    Check = {c1, c2}
CHECK_DEADLOCK FALSE
INVARIANTS
    TypeOK
    CapacityKept
    SharedInv
PROPERTIES
    AdmittedWhenRoom
