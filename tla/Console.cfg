\* Two logins, two session changes, one retry.
CONSTANTS
    None = None
    Login = {a, b}
    Ceremonies = {1, 2}
    MaxSessions = 2
    MaxRetries = 1
    Forms <- FourForms
SPECIFICATION ConsoleSpec
INVARIANTS OnboardedIsKnown NothingDropped CardIsItsSigners
PROPERTIES BootResolves
CHECK_DEADLOCK FALSE
