SPECIFICATION Spec
CONSTANTS
    TX_URBS = 4
    TXDESC_CNT = 2
    Plain = Plain
    CfmSkbs = {f1, f2, f3}
    None = None
    MaxTrgg = 1
    MaxFails = 1
    MaxSuspends = 1
SYMMETRY SkbSymmetry
CHECK_DEADLOCK FALSE
CONSTRAINT RingIntact
INVARIANT RingSound
