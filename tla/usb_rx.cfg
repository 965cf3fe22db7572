SPECIFICATION FairSpec
CONSTANTS
    RX_URBS = 2
    MAX_RXQLEN = 2
    MaxTrgg = 1
    MaxFails = 1
    MaxSuspends = 1
CHECK_DEADLOCK FALSE
INVARIANT UsbRxInv
PROPERTIES FramesTaken DisconnectEnds
