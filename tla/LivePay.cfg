\* Every booked spend is resolved, every waiter served, no settlement resent.
CONSTANTS
    root = root  sub = sub  p1 = p1  p2 = p2  p3 = p3  f1 = f1
    NoCard = NoCard  NoKey = NoKey  NoTx = NoTx  k1 = k1
    Card <- OneCard
    Parent <- RootOnly
    LifetimeCap <- NoTerm
    PeriodCap <- NoTerm
    PeriodStart <- NoTerm
    PeriodSeconds <- NoTerm
    MaxUses <- NoTerm
    PerTxMax <- NoTerm
    Expiry <- NoTerm
    Call = {p1, p2}
    Fiat = {f1}
    Key = {k1}
    Lanes = {"pay", "fiat"}
    OwnerMoves = {}
    Faults = {"slow", "feeClash", "lostReply"}
    Amounts = {1}
    Fees = {1, 2}
    Headroom = 2
    EstimateRetries = 1
    Cutoff = 1
    LastStart = 0
    MaxClock = 2
SPECIFICATION FairSpec
INVARIANTS SettledOnce
PROPERTIES FiatStaysHeld PendingIsResolved WaitersAreServed
CHECK_DEADLOCK FALSE
