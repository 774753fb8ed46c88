CONSTANTS
    r1 = r1
    r2 = r2
    Reqs <- MC_OneReq
    MaxTTL = 3
    ReapBuffer = 1
    MaxTime = 9
    MaxResp = 3
    MaxConn = 3
SPECIFICATION FairSpec
INVARIANTS
    TypeOK
    AtMostOnceDelivery
    NoStrandedWaiter
PROPERTIES
    EntriesEventuallyReaped
    CallerReturns
    ImplementsCorrelation
