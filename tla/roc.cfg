SPECIFICATION FairSpec
CONSTANTS
    None = None
    Vifs = {v1, v2}
    Odd <- EveryOdd
    MaxOps = 3
    MaxOdd = 1
CHECK_DEADLOCK FALSE
INVARIANTS RocInv CookiesMatch
PROPERTY RocEnds
