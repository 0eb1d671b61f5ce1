SPECIFICATION FairSpec
CONSTANTS
    Calls = {c1, c2}
    Requests = {r1}
    Notes = {n1}
    MaxIn = 2
CHECK_DEADLOCK FALSE
INVARIANTS Consistent
PROPERTIES EachCallOnce AnswerSettles
