SPECIFICATION Spec
CONSTANTS
    Procs = {p1}
    ReservationIds = {e1, e2}
    ResultIds = {e3}
    ReserveAmounts <- SmallReserves
    ChargeAmounts <- AllCharges
    Authorized <- SmallAuthorization
    MaxFaults = 0
    NoProc = NoProc
    Stale = Stale
    NoId = NoId
INVARIANT SelfWrittenLogReplays
