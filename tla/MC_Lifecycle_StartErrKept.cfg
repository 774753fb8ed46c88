CONSTANTS
    w1 = w1
    w2 = w2
    Workers <- MC_Workers
    MaxAttempts = 2
    MaxConn = 1
    MaxReqs = 1
SPECIFICATION Spec
INVARIANT
    StartErrKept
CHECK_DEADLOCK FALSE
