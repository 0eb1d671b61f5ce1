SPECIFICATION FairSpec
CONSTANTS
    r1 = r1
    r2 = r2
    Requests <- TwoRequests
    Body <- TwoInOrder
    Handlers = 2
    Registrars = {w1}
    Changes = 2
    Reentrant = TRUE
    Garbage = 1
CHECK_DEADLOCK FALSE
INVARIANTS Consistent MethodsServed
PROPERTIES AnsweredOnce AllServed
