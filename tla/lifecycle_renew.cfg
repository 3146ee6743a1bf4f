SPECIFICATION FairSpec
CONSTANTS
    b = b
    b2 = b2
    w = w
    x = x
    Order = {b, w, x}
    NoOrder = NoOrder
    ModeOf <- MCModeOf
    Hours <- MCHours
    Package = Package
    Zone = 0
    Grace = 1
    NoReturn = NoReturn
    j1 = j1
    j2 = j2
    Job = {j1}
    NoJob = NoJob
    MaxNow = 4
    MaxFail = 0
INVARIANTS
    LifeInv
PROPERTIES
    RecycledAfterGrace
    NoticeEnds
    RecycleEnds
    QuotaEnforced
