\* Well-behaved clients on one slot reused by three connections, with up to
\* two app answers queued: closure
\* completes, the FIN is sent once, and partial writes resume exactly.
CONSTANTS
    s1 = s1
    s2 = s2
    Slots <- MC_OneSlot
    NoSlot = NoSlot
    MaxConns = 3
    MaxIn = 3
    MsgSize = 3
    SndBuf = 2
    MaxMsgs = 3
    ClientMayReset = FALSE
    ClientFloods = FALSE
    MaxEvents = 2
SPECIFICATION FairSpec
INVARIANT TypeOK
INVARIANT ByteStreamIntact
INVARIANT ShutdownOnce
PROPERTY CloseAfterBidirectionalShutdown
PROPERTY PeerClosureCompletes
