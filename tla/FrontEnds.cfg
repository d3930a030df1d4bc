\* One async request with a body of two units, which may be too large for the
\* bridge and for aread_body; two background services, one of which may die
\* before it has started; two requests on a connection of the httptools backend.
SPECIFICATION FrontEndsSpec
CONSTANTS
    Length = 2
    MaxBodySize = 1
    ReadCap = 1
    MaxPieces = 1
    BodyLength = 2
    BodyCap = 2
    Calls = 2
    Chunks = 2
    TheRequest = r
    Requests = {r}
    Background = {a, b}
    MayFailToStart = {a}
    MaxRequests = 2
    MaxUnits = 2
    Cap = 1
    Pipelining = FALSE
    SkipsBody = FALSE
INVARIANTS BodyAndResponse WsgiFaithful NoHalfStartedHost ToolsSafe
PROPERTIES EveryRequestEnds HostComesAndGoes
CHECK_DEADLOCK FALSE
