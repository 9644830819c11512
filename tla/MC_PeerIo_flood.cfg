\* A client that keeps sending after the FIN holds the worker in the
\* read() loop of read_bidirectional_tcp_shutdown().
CONSTANTS
    s1 = s1
    s2 = s2
    Slots <- MC_OneSlot
    NoSlot = NoSlot
    MaxConns = 3
    MaxIn = 3
    MsgSize = 3
    SndBuf = 2
    MaxMsgs = 3
    ClientMayReset = FALSE
    ClientFloods = TRUE
    MaxEvents = 1
SPECIFICATION ProgressSpec
PROPERTY EventLoopProgress
