SPECIFICATION Spec
CONSTANTS
    A = A
    B = B
    C = C
    D = D
    NoAddr = NoAddr
    NoEntry = NoEntry
    Broadcast = Broadcast
    Node = {A, B, C}
    Link <- Line3
    IpNumber <- Numbers
    Flows <- AtoC
    Greeters = {}
    Timers <- NoPairs
    MaxSeq = 1
    TTL_START = 2
    TTL_INCREMENT = 2
    TTL_THRESHOLD = 2
    NET_DIAMETER = 3
    RREQ_RETRIES = 0
    MaxHop = 3
CHECK_DEADLOCK FALSE
PROPERTY UnseenRreqProcessed
