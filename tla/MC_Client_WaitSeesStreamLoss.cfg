CONSTANTS
    r1 = r1
    r2 = r2
    Reqs <- MC_OneReq
    MaxTTL = 2
    ReapBuffer = 1
    MaxTime = 5
    MaxResp = 2
    MaxConn = 2
SPECIFICATION Spec
INVARIANT
    WaitSeesStreamLoss
