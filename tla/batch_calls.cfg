SPECIFICATION FairSpec
CONSTANTS
    Threads = {t1, t2}
    Calls = {c1, c2, c3}
    Reentrant = TRUE
CHECK_DEADLOCK FALSE
INVARIANTS Consistent NoCallLost
PROPERTIES EachCallOnce EverySettled
