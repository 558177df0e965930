SPECIFICATION Spec
CONSTANTS
    b1 = b1
    b2 = b2
    b3 = b3
    Block = {b1, b2, b3}
    NULL = NULL
    MaxConn = 2
    MaxNeg = 2
    MaxJobs = 2
CHECK_DEADLOCK FALSE
INVARIANT EarlyFrameRefused
