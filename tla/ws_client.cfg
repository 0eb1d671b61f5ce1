SPECIFICATION FairSpec
CONSTANTS
    Calls = {c1, c2}
    MaxConnections = 3
    MaxIncidents = 1
CHECK_DEADLOCK FALSE
INVARIANTS Consistent
PROPERTIES EachCallOnce NeverStuck
