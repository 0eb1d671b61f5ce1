SPECIFICATION FramesFairSpec
CONSTANTS
    MaxFrames = 4
    Unasked = TRUE
CHECK_DEADLOCK FALSE
INVARIANTS FramesConsistent
PROPERTIES InOrder NothingAfterClose EveryDelivered
