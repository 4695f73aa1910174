\* A reliable server; transaction objects reused from sendSync to send.
CONSTANTS
    ty1 = ty1
    ty2 = ty2
    Trx <- MCTrx
    ServiceTypes <- MCServiceTypes
    RespType <- MCRespType
    MaxHandle = 4
    MaxDrops = 0
    ServerLossy = FALSE
    ReplyWithinDeadline = TRUE
    MaxUses = 2
    CallerAwaitsActivation = TRUE

SPECIFICATION ServiceSpec

PROPERTY AsyncCallReturns

\* Calls per transaction object are bounded: all threads end up idle.
CHECK_DEADLOCK FALSE
