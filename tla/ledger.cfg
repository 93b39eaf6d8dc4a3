SPECIFICATION Spec
CONSTANTS
    Procs = {p1, p2}
    ReservationIds = {e1, e2}
    ResultIds = {e2, e3}
    ReserveAmounts <- OneReserve
    ChargeAmounts <- AllCharges
    Authorized <- SmallAuthorization
    MaxFaults = 2
    NoProc = NoProc
    Stale = Stale
    NoId = NoId
INVARIANTS
    LogIsLegalChain
    HeadAnchorsLog
    DispatchAtMostOnce
    AcknowledgedIsDurable
PROPERTY ImplementsBudgetManager
SYMMETRY ProcSymmetry
