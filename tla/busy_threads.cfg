SPECIFICATION BusyFairSpec
CONSTANTS
    Handlers = {h1, h2}
    Outsiders = {o1}
    MaxBusy = 1
    MaxDepth = 2
    WaitInSection = TRUE
INVARIANTS PermitsConsistent
PROPERTIES EveryEventHandled
