\* A payload over max_ws_msg_size: rs_send() returns RS_FATAL from a void
\* function, the primitive drops the message and the app carries on.
CONSTANTS
    WorkerC = 2
    PeerIds = {0, 1}
    InitWbufSize = 2
    ReallocMultiplier = 2
    ScratchSizes = {4}
    Utf8Flags = {TRUE}
    MaxScratch = 4
    MaxCids = 2
    MaxCalls = 1
    MaxWsMsgSize = 4
    UserSizes = {1}
SPECIFICATION Spec
PROPERTY FanOutRefinement
