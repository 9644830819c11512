\* One slot, two connections through it: the app answers the first
\* connection's WebSocket message with rs_to_cur() while the worker closes
\* that connection and hands the slot to the next one.
CONSTANTS
    s1 = s1
    s2 = s2
    Slots <- MC_OneSlot
    NoSlot = NoSlot
    MaxConns = 2
    MaxIn = 2
    MsgSize = 1
    SndBuf = 1
    MaxMsgs = 2
    ClientMayReset = FALSE
    ClientFloods = FALSE
    MaxEvents = 1
SPECIFICATION Spec
INVARIANT DeliveredToAddressee
