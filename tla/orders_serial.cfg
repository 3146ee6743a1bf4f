SPECIFICATION FairSpec
CONSTANTS
    b = b
    w = w
    w2 = w2
    x = x
    x2 = x2
    Order = {b, w, x, x2}
    NoOrder = NoOrder
    ModeOf <- MCModeOf
    Hours <- MCHours
    Package = Package
    Zone = 1
    Grace = 1
    NoReturn = NoReturn
    Job = {}
    NoJob = NoJob
    r1 = r1
    r2 = r2
    Req = {r1}
    MaxNow = 2
    MaxRefund = 1
    MaxFail = 1
INVARIANTS
    TypeOK
    ExpireBacked
    GrantedOnce
    AdmittedIsGranted
    EntitledInv
    OnceInv
    RecordInv
    TimeInv
PROPERTIES
    PurchaseKeepsQuota
    RefundRecordKept
    PaidIsCredited
    Entitled
