SPECIFICATION PageFairSpec
CONSTANTS
    c1 = c1
    c2 = c2
    Script <- SomeCalls
    MaxSockets = 4
    MaxFaults = 2
    MaxConnects = 2
    MaxCloses = 1
    MaxAsked = 1
CHECK_DEADLOCK FALSE
INVARIANTS PageConsistent
PROPERTIES EverySettled
