SPECIFICATION FairSpec
CONSTANTS
    TX_URBS = 5
    TXDESC_CNT = 1
    Plain = Plain
    CfmSkbs = {}
    None = None
    MaxTrgg = 2
    MaxFails = 1
    MaxSuspends = 1
CHECK_DEADLOCK FALSE
INVARIANTS UsbTxInv StopHasWaker
PROPERTIES TrafficResumes PostedIsSubmitted
