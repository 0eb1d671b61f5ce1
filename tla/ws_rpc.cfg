SPECIFICATION Spec
CONSTANTS
    Conns = {x1, x2}
    Jobs = {j1}
    MaxBusy = 1
    CallbackBroadcasts = TRUE
CHECK_DEADLOCK FALSE
INVARIANTS Consistent KnownDeadlocks
PROPERTIES PermitsUsedRightly
