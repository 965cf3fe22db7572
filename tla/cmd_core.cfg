SPECIFICATION Spec
CONSTANTS
    p1 = p1
    p2 = p2
    scan = scan
    key = key
    traffic = traffic
    Senders = {p1, p2}
    NumSlots = 4
    MaxQueued = 2
    Ids = {scan, key, traffic}
    TrafficIds = {traffic}
    Requests <- AllRequests
    Killable = {p1, p2}
    MayTimeout = TRUE
    MaxCalls = 3
SYMMETRY SenderSymmetry
INVARIANTS ListSound OnlyHeadSent OneTransmitter SentMessageAlive SlotOwned CmdInv
PROPERTIES OwnConfirm ImplementsChannel
