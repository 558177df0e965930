SPECIFICATION FairSpec
CONSTANTS
    b1 = b1
    b2 = b2
    b3 = b3
    Block = {b1, b2, b3}
    NULL = NULL
    MaxConn = 3
    MaxNeg = 3
    MaxJobs = 3
CHECK_DEADLOCK FALSE
INVARIANTS TypeOK NoFault HeapExact KeyAgreement AnswerOnItsWay
PROPERTY NegotiationAnswered
