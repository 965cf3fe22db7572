SPECIFICATION Spec
CONSTANTS
    ann = ann
    be = be
    vi = vi
    mgt = mgt
    Stas = {ann}
    Txqs = {be}
    MgtTxqs = {}
    Hwqs = {"BE"}
    StaOf <- OneSta
    HwqOf <- OneHwq
    PsOf <- OneUapsd
    Prio <- OnePrio
    x1 = x1
    x2 = x2
    NoSender = NoSender
    Senders = {x1, x2}
    CREDITS = 2
    CreditMax = 127
    FLOW_STOP = 2
    FLOW_RESTART = 2
    CountMod = 65536
    MaxReq = 2
    MaxLen = 2
    MaxCfm = 1
    Events = {"cfm", "CHAN"}
CHECK_DEADLOCK FALSE
SYMMETRY Swap
CONSTRAINT FewRetries
PROPERTY OffChannelSilent
