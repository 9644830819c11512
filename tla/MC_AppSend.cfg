\* Fan-out of every send primitive over two workers with two clients each,
\* client id lists of up to two (duplicates included), two calls, scratch
\* growth past the initial buffer size.
CONSTANTS
    WorkerC = 2
    PeerIds = {0, 1}
    MaxWsMsgSize = 16
    InitWbufSize = 2
    ReallocMultiplier = 2
    ScratchSizes = {4}
    UserSizes = {1}
    Utf8Flags = {TRUE}
    MaxScratch = 4
    MaxCids = 2
    MaxCalls = 2
SPECIFICATION Spec
INVARIANT RoutingHeaderPerSpec
INVARIANT ScratchInBounds
PROPERTY FanOutRefinement
CHECK_DEADLOCK FALSE
