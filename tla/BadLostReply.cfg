\* The relayer took the transaction, its answer was lost, the agent retries.
CONSTANTS
    root = root  sub = sub  p1 = p1  p2 = p2  p3 = p3  f1 = f1
    NoCard = NoCard  NoKey = NoKey  NoTx = NoTx  k1 = k1
    Card <- OneCard
    Parent <- RootOnly
    LifetimeCap <- NoTerm
    PeriodCap <- NoTerm
    PeriodStart <- NoTerm
    PeriodSeconds <- NoTerm
    MaxUses <- NoTerm
    PerTxMax <- NoTerm
    Expiry <- NoTerm
    Call = {p1, p2}
    Fiat = {}
    Key = {k1}
    Lanes = {"pay"}
    OwnerMoves = {}
    Faults = {"lostReply"}
    Amounts = {1}
    Fees = {1, 2}
    Headroom = 2
    EstimateRetries = 2
    Cutoff = 1
    LastStart = 1
    MaxClock = 3
SPECIFICATION Spec
INVARIANTS OneRedemptionPerKey
CHECK_DEADLOCK FALSE
