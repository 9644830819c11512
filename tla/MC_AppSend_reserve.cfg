\* The bytes rs_send() writes against the bytes it reserved, for records
\* with zero, one and two recipients.
CONSTANTS
    WorkerC = 2
    PeerIds = {0, 1}
    InitWbufSize = 2
    ReallocMultiplier = 2
    ScratchSizes = {4}
    Utf8Flags = {TRUE}
    MaxScratch = 4
    MaxCids = 2
    MaxCalls = 1
    MaxWsMsgSize = 16
    UserSizes = {1}
SPECIFICATION Spec
INVARIANT RecordWithinReservation
