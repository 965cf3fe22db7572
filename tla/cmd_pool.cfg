SPECIFICATION Spec
CONSTANTS
    p1 = p1
    p2 = p2
    scan = scan
    key = key
    traffic = traffic
    Senders = {p1, p2}
    NumSlots = 4
    MaxQueued = 1
    Ids = {scan, key, traffic}
    TrafficIds = {}
    Requests <- DeferRequests
    Killable = {}
    MayTimeout = TRUE
    MaxCalls = 5
SYMMETRY SenderSymmetry
INVARIANT PoolSuffices
