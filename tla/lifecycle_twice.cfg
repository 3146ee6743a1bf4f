SPECIFICATION FairSpec
CONSTANTS
    b = b
    b2 = b2
    w = w
    x = x
    Order = {b, b2}
    NoOrder = NoOrder
    ModeOf <- MCModeOf
    Hours <- MCHours
    Package = Package
    Zone = 0
    Grace = 1
    NoReturn = NoReturn
    j1 = j1
    j2 = j2
    Job = {j1, j2}
    NoJob = NoJob
    MaxNow = 5
    MaxFail = 1
INVARIANTS
    TypeOK
    ReadyIsInstalled
    LifeInv
PROPERTIES
    InUseIsKept
    LabelSteps
    UnpausedInUse
