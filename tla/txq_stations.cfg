SPECIFICATION Spec
CONSTANTS
    ann = ann
    be = be
    vi = vi
    mgt = mgt
    Stas = {ann}
    Txqs = {be}
    MgtTxqs = {}
    Hwqs = {"BE"}
    StaOf <- OneSta
    HwqOf <- OneHwq
    PsOf <- OneUapsd
    Prio <- OnePrio
    x1 = x1
    x2 = x2
    NoSender = NoSender
    Senders = {x1, x2}
    CREDITS = 1
    CreditMax = 127
    FLOW_STOP = 2
    FLOW_RESTART = 2
    CountMod = 4
    MaxReq = 1
    MaxLen = 2
    MaxCfm = 0
    Events = {"sta", "ps", "VIF_PS"}
CHECK_DEADLOCK FALSE
SYMMETRY Swap
CONSTRAINT ListsIntact
PROPERTIES WorkScheduled StopsFollow
