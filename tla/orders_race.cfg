SPECIFICATION Spec
CONSTANTS
    b = b
    w = w
    w2 = w2
    x = x
    x2 = x2
    Order = {b, w, w2, x}
    NoOrder = NoOrder
    ModeOf <- MCModeOf
    Hours <- MCHours
    Package = Package
    Zone = 1
    Grace = 1
    NoReturn = NoReturn
    Job = {}
    NoJob = NoJob
    r1 = r1
    r2 = r2
    Req = {r1, r2}
    MaxNow = 2
    MaxRefund = 0
    MaxFail = 1
INVARIANTS
    CreditedOnce
    CreditInv
