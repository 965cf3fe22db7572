SPECIFICATION FairSpec
CONSTANTS
    ann = ann
    be = be
    vi = vi
    mgt = mgt
    Stas = {ann}
    Txqs = {be, vi, mgt}
    MgtTxqs = {mgt}
    Hwqs = {"BE", "VI"}
    StaOf <- ThreeSta
    HwqOf <- ThreeHwq
    PsOf <- ThreeMixed
    Prio <- ThreePrio
    x1 = x1
    x2 = x2
    NoSender = NoSender
    Senders = {x1}
    CREDITS = 1
    CreditMax = 127
    FLOW_STOP = 1
    FLOW_RESTART = 1
    CountMod = 65536
    MaxReq = 2
    MaxLen = 2
    MaxCfm = 0
    Events = {"ps", "bus"}
INVARIANTS QueuesSound NetdevHeld
PROPERTIES Drains PeriodEnds
