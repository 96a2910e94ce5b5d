\* Two consent requests, two logins, three tokens, clocks that outlive them.
CONSTANTS
    u1 = u1  u2 = u2  k1 = k1  k2 = k2  k3 = k3
    None = None
    User = {u1, u2}
    Card = {k1, k2, k3}
    Client = {a, b}
    Request = {r1, r2}
    Owner <- Owners
    Above <- Ancestors
    Expiry <- Expiries
    RequestTtl = 1
    CodeTtl = 1
    RefreshTtl = 1
    ClientTtl = 0
    CodeGrace = 0
    TokenGrace = 0
    MaxTokens = 3
    MaxClock = 2
SPECIFICATION Spec
INVARIANTS OneLivePerGrant EndedStaysEnded WitnessStays
    OnlyTheLoaderGrants LedgerIsHonest
CHECK_DEADLOCK FALSE
SYMMETRY Same
