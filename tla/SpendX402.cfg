\* A spend and paid fetches share the budget of a card tree that may be nuked.
CONSTANTS
    root = root  sub = sub  p1 = p1  p2 = p2  p3 = p3  f1 = f1
    NoCard = NoCard  NoKey = NoKey  NoTx = NoTx  k1 = k1
    Card <- TwoCards
    Parent <- Family
    LifetimeCap <- Four
    PeriodCap <- SubThree
    PeriodStart <- WindowOrigin
    PeriodSeconds <- SubTwo
    MaxUses <- Two
    PerTxMax <- NoTerm
    Expiry <- NoTerm
    Call = {p1, p2}
    Fiat = {}
    Key = {}
    Lanes = {"pay", "x402"}
    OwnerMoves = {"nuke"}
    Faults = {"crash"}
    Amounts = {1}
    Fees = {1, 2}
    Headroom = 2
    EstimateRetries = 2
    Cutoff = 1
    LastStart = 1
    MaxClock = 8
SPECIFICATION FairSpec
INVARIANTS OneSectionPerTree WithinLimits
PROPERTIES ReservationIsResolved
CHECK_DEADLOCK FALSE
