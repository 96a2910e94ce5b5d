\* Two cards, two requests and two admin operations, client- or server-signed.
CONSTANTS
    c1 = c1  c2 = c2  t1 = t1  t2 = t2  o1 = o1  o2 = o2  f1 = f1  f2 = f2
    NoCard = NoCard  NoOp = NoOp  NoNonce = NoNonce  NoFee = NoFee
    Card = {c1, c2}
    Task = {t1, t2}
    Op = {o1, o2}
    Fee = {f1, f2}
    Faults = {"onboard", "reread"}
    MaxNonce = 2
SPECIFICATION Spec
INVARIANTS RevokedIsDisabled NukeReachesAll SentOnce NoOrphans ClaimIsHeld
PROPERTIES DeadStaysDead LiveIsNotDeleted
CHECK_DEADLOCK FALSE
SYMMETRY Same
