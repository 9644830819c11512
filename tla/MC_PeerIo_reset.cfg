\* Two slots, clients that may reset, stop at any point or never close, and
\* only the worker assumed to run: safety of the close sequence under resets,
\* and the worker never held by one peer.  A RST can end the process (see
\* the peer_no_fatal run) or leave a slot idle forever (see peer_reset_freed),
\* so the server may really stop here.
CONSTANTS
    s1 = s1
    s2 = s2
    Slots <- MC_Slots
    NoSlot = NoSlot
    MaxConns = 3
    MaxIn = 1
    MsgSize = 3
    SndBuf = 2
    MaxMsgs = 2
    ClientMayReset = TRUE
    ClientFloods = FALSE
    MaxEvents = 1
SPECIFICATION ProgressSpec
PROPERTY CloseAfterBidirectionalShutdown
PROPERTY EventLoopProgress
CHECK_DEADLOCK FALSE
