\* A client's RST makes handle_tcp_io() return RS_FATAL.
CONSTANTS
    s1 = s1
    s2 = s2
    Slots <- MC_OneSlot
    NoSlot = NoSlot
    MaxConns = 1
    MaxIn = 1
    MsgSize = 3
    SndBuf = 2
    MaxMsgs = 1
    ClientMayReset = TRUE
    ClientFloods = FALSE
    MaxEvents = 0
SPECIFICATION Spec
INVARIANT NoFatalFromClient
