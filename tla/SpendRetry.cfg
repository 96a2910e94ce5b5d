\* Three requests under one key, crashes and a relayer that errs.
CONSTANTS
    root = root  sub = sub  p1 = p1  p2 = p2  p3 = p3  f1 = f1
    NoCard = NoCard  NoKey = NoKey  NoTx = NoTx  k1 = k1
    Card <- OneCard
    Parent <- RootOnly
    LifetimeCap <- NoTerm
    PeriodCap <- NoTerm
    PeriodStart <- NoTerm
    PeriodSeconds <- NoTerm
    MaxUses <- NoTerm
    PerTxMax <- NoTerm
    Expiry <- NoTerm
    Call = {p1, p2, p3}
    Fiat = {}
    Key = {k1}
    Lanes = {"pay"}
    OwnerMoves = {"freeze"}
    Faults = {"crash", "headBlip", "early500"}
    Amounts = {1}
    Fees = {1, 2, 3}
    Headroom = 3
    EstimateRetries = 1
    Cutoff = 1
    LastStart = 0
    MaxClock = 2
SPECIFICATION Spec
INVARIANTS OneRedemptionPerKey ConfirmedIsMined
PROPERTIES IncludedIsNotFailed
SYMMETRY ThreeCalls
CHECK_DEADLOCK FALSE
