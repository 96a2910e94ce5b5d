\* Two requests and a webhook on a root card and its sub-card.
CONSTANTS
    root = root  sub = sub  p1 = p1  p2 = p2  p3 = p3  f1 = f1
    NoCard = NoCard  NoKey = NoKey  NoTx = NoTx  k1 = k1
    Card <- TwoCards
    Parent <- Family
    LifetimeCap <- Four
    PeriodCap <- SubThree
    PeriodStart <- WindowOrigin
    PeriodSeconds <- SubTwo
    MaxUses <- Two
    PerTxMax <- NoTerm
    Expiry <- SubTwo
    Call = {p1, p2}
    Fiat = {f1}
    Key = {k1}
    Lanes = {"pay", "fiat"}
    OwnerMoves = {"revoke"}
    Faults = {"crash"}
    Amounts = {1}
    Fees = {1, 2}
    Headroom = 2
    EstimateRetries = 1
    Cutoff = 1
    LastStart = 1
    MaxClock = 3
SPECIFICATION Spec
INVARIANTS WithinLimits MovingMoneyIsBooked MetersAgree
PROPERTIES SpendableWhenSent KeepsTheBook
SYMMETRY TwoCalls
CHECK_DEADLOCK FALSE
