\* Two cards, two agents of one DID, one slow T3N request, a window of two ticks;
\* two accounts, two answers, three turns.
CONSTANTS
    None = None
    Virtual = Virtual
    Ip = Ip
    Card = {1, 2}
    Agent = {a, b}
    Request = {r}
    Window = 2
    MaxCalls = 2
    MaxBad = 1
    Tables <- SmallTables
    MaxDelay = 1
    MaxChanges = 1
    NoLogin = NoLogin
    Login = {l1, l2}
    Known = {l1, l2}
    MaxPresses = 2
    MaxTurns = 3
SPECIFICATION Doors
INVARIANTS CeilingHolds OneAnswer
PROPERTIES NeverShutOut
CHECK_DEADLOCK FALSE
