\* A reliable server and one secure-channel drop with reconnect.
CONSTANTS
    ty1 = ty1
    ty2 = ty2
    Trx <- MCTrx
    ServiceTypes <- MCServiceTypes
    RespType <- MCRespType
    MaxHandle = 4
    MaxDrops = 1
    ServerLossy = FALSE
    ReplyWithinDeadline = TRUE
    MaxUses = 1
    CallerAwaitsActivation = TRUE

SPECIFICATION ServiceSpec

PROPERTY SyncCallReturns

\* Calls per transaction object are bounded: all threads end up idle.
CHECK_DEADLOCK FALSE
