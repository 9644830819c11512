\* A client's RST during a pending write leaves the slot occupied forever.
CONSTANTS
    s1 = s1
    s2 = s2
    Slots <- MC_OneSlot
    NoSlot = NoSlot
    MaxConns = 1
    MaxIn = 1
    MsgSize = 3
    SndBuf = 2
    MaxMsgs = 1
    ClientMayReset = TRUE
    ClientFloods = FALSE
    MaxEvents = 0
SPECIFICATION FairSpec
PROPERTY ResetPeerFreed
\* RS_FATAL really stops the process.
CHECK_DEADLOCK FALSE
