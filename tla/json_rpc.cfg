SPECIFICATION RpcFairSpec
CONSTANTS
    Script <- SomeCalls
    c1 = c1
    c2 = c2
    c3 = c3
    Changing = {"error", "value"}
    Methods = {"null", "set", "clear", "error", "callError"}
    Bodies <- SomeBodies
    corsEnabled = TRUE
    corsOrigin = {"*"}
    PageOrigin = {"elsewhere"}
    MaxEvents = 1
CHECK_DEADLOCK FALSE
INVARIANTS RpcConsistent
PROPERTIES EachCallOnce EverySettled
