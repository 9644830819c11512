\* The WebSocket length rs_send() puts after the opcode byte, for
\* payloads either side of the 125 and 65535 boundaries.
CONSTANTS
    WorkerC = 2
    PeerIds = {0, 1}
    InitWbufSize = 2
    ReallocMultiplier = 2
    ScratchSizes = {4}
    Utf8Flags = {TRUE}
    MaxScratch = 4
    MaxCids = 2
    MaxCalls = 1
    MaxWsMsgSize = 70000
    UserSizes = {1, 122, 65533}
SPECIFICATION Spec
INVARIANT FrameLengthPerSpec
