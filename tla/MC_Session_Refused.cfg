\* A server that may refuse an ActivateSession request.
CONSTANTS
    ty1 = ty1
    ty2 = ty2
    Trx <- MCTrx
    ServiceTypes <- MCServiceTypes
    RespType <- MCRespType
    MaxHandle = 4
    MaxDrops = 1
    ServerLossy = TRUE
    ReplyWithinDeadline = FALSE

SPECIFICATION RefusingSpec

INVARIANT SessionActiveOnServer

\* Every transaction is posted once and the handle counter is bounded, so
\* the session reaches states where nothing more happens.
CHECK_DEADLOCK FALSE
