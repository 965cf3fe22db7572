SPECIFICATION FairSpec
CONSTANTS
    p1 = p1
    p2 = p2
    scan = scan
    key = key
    traffic = traffic
    Senders = {p1, p2}
    NumSlots = 4
    MaxQueued = 2
    Ids = {scan, key, traffic}
    TrafficIds = {}
    Requests <- BufferRequests
    Killable = {}
    MayTimeout = TRUE
    MaxCalls = 3
INVARIANT WakerPending
PROPERTIES CallsReturn CommandsFinish
