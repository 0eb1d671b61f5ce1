SPECIFICATION Spec
CONSTANTS
    Sites = {s1, s2}
    MaxRequests = 2
    MaxFaults = 1
    Careful = TRUE
CHECK_DEADLOCK FALSE
INVARIANTS Consistent RepeatedRightly RightContents
PROPERTIES CallsEnd
