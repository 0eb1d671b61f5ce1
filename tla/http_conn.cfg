SPECIFICATION FairSpec
CONSTANTS
    Kinds <- MixedKinds
    NReq = 2
    MaxOps = 3
    Moves = {"read", "canRead", "write", "length", "plain", "switch", "errorPage", "throw", "retContinue", "retWrite", "retSleep", "retOK", "retNotModified", "closeOutput"}
    Pipelined = TRUE
    EofReads = {"zero", "throw"}
CHECK_DEADLOCK FALSE
INVARIANTS Consistent ResponsesInOrder NoContinueDeadlock OutputFramed
PROPERTIES Answered
