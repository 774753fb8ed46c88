CONSTANTS
    w1 = w1
    w2 = w2
    Workers <- MC_Workers
    MaxAttempts = 3
    MaxConn = 2
    MaxReqs = 3
SPECIFICATION CodeFairSpec
PROPERTY
    HandshakeEnds
CHECK_DEADLOCK FALSE
