\* Trees of three cards, asked for one dimension at a time, and two redemptions.
CONSTANTS
    c1 = c1  c2 = c2  c3 = c3
    usdc = usdc  router = router  shop = shop
    swap = swap  approve = approve  approveUint = approveUint  transfer = transfer
    None = None
    Card = {c1, c2, c3}
    Address = {usdc, router, shop}
    Usdc = usdc
    Sig = {swap, approve, approveUint, transfer}
    Canonical <- Canon
    Approve = approve
    Transfer = transfer
    RootTerms <- Roots
    Asks <- Asked
    Amounts = {1}
    Fee = 1
    MaxCalls = 2
    Backdate = 1
    MaxClock = 1
    MaxRedeemed = 2
SPECIFICATION Spec
INVARIANTS NeverWider ApproveIsCapped ChainAgrees
CHECK_DEADLOCK FALSE
SYMMETRY Same
