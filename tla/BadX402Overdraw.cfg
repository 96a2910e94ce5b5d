\* A webhook lands while an x402 leaf is being signed.
CONSTANTS
    root = root  sub = sub  p1 = p1  p2 = p2  p3 = p3  f1 = f1
    NoCard = NoCard  NoKey = NoKey  NoTx = NoTx  k1 = k1
    Card <- OneCard
    Parent <- RootOnly
    LifetimeCap <- Four
    PeriodCap <- NoTerm
    PeriodStart <- NoTerm
    PeriodSeconds <- NoTerm
    MaxUses <- NoTerm
    PerTxMax <- NoTerm
    Expiry <- NoTerm
    Call = {p1}
    Fiat = {f1}
    Key = {}
    Lanes = {"x402", "fiat"}
    OwnerMoves = {}
    Faults = {}
    Amounts = {2}
    Fees = {1, 2}
    Headroom = 2
    EstimateRetries = 2
    Cutoff = 1
    LastStart = 1
    MaxClock = 3
SPECIFICATION Spec
INVARIANTS WithinLimits
CHECK_DEADLOCK FALSE
