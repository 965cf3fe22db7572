SPECIFICATION Spec
CONSTANTS
    ann = ann
    be = be
    vi = vi
    mgt = mgt
    Stas = {ann}
    Txqs = {be, vi}
    MgtTxqs = {}
    Hwqs = {"BE", "VI"}
    StaOf <- TwoSta
    HwqOf <- TwoHwq
    PsOf <- TwoUapsd
    Prio <- TwoPrio
    x1 = x1
    x2 = x2
    NoSender = NoSender
    Senders = {x1, x2}
    CREDITS = 2
    CreditMax = 127
    FLOW_STOP = 2
    FLOW_RESTART = 2
    CountMod = 65536
    MaxReq = 2
    MaxLen = 3
    MaxCfm = 0
    Events = {"ps", "interrupt", "CHAN", "VIF_PS", "CSA"}
SYMMETRY Swap
INVARIANTS StopsAgree NotForgotten
PROPERTIES OffChannelSilent OnlyRequested SpServed TimTold WorkScheduled
