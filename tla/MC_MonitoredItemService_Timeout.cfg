\* A server that never answers a request (spec.md S5).
CONSTANTS
    ty1 = ty1
    ty2 = ty2
    Trx <- MCTrx
    ServiceTypes <- MCServiceTypes
    RespType <- MCRespType
    MaxHandle = 4
    MaxDrops = 0
    ServerLossy = TRUE
    ReplyWithinDeadline = TRUE
    MaxUses = 1
    CallerAwaitsActivation = TRUE

SPECIFICATION ServiceSpec

PROPERTY SyncCallReturns

\* Calls per transaction object are bounded: all threads end up idle.
CHECK_DEADLOCK FALSE
