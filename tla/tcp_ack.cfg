SPECIFICATION FairSpec
CONSTANTS
    c1 = c1
    c2 = c2
    Conns = {c1, c2}
    None = None
    TCP_ACK_NUM = 2
    TCP_ACK_DROP_CNT = 2
    SeqMod = 8
    First = 7
    MaxSeq = 9
    MaxAcks = 5
    MaxEvents = 1
CHECK_DEADLOCK FALSE
INVARIANTS TcpAckInv NewestKept
PROPERTY AcksReach
