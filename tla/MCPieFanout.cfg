SPECIFICATION PoolSpec
CONSTANTS
    w1 = w1
    w2 = w2
    w3 = w3
    Workers = {w1, w2, w3}
    NumLibs = 4
    OutCap = 4
INVARIANTS
    TypeOK
    ResultComplete
    NoSendOnClosed
PROPERTIES
    NoLateWork
    ImplementsSweep
    Terminates
CHECK_DEADLOCK FALSE
