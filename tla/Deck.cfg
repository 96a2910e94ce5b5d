\* Two cards, two tree requests in flight, two changes of the server.
CONSTANTS
    Card = {1, 2}
    None = None
    Requests = {1, 2}
    MaxFlights = 1
    MaxEvents = 2
SPECIFICATION Spec
INVARIANTS PanelIsTheHeros DoneIsDone
PROPERTIES ScreenCatchesUp
CHECK_DEADLOCK FALSE
