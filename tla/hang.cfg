SPECIFICATION Spec
CONSTANTS
    A = A
    B = B
    C = C
    D = D
    NoAddr = NoAddr
    NoEntry = NoEntry
    Broadcast = Broadcast
    Node = {A, B, C, D}
    Link <- Line4
    IpNumber <- Numbers
    Flows <- AtoDandBtoC
    Greeters = {}
    Timers <- BforC
    MaxSeq = 1
    TTL_START = 3
    TTL_INCREMENT = 2
    TTL_THRESHOLD = 2
    NET_DIAMETER = 3
    RREQ_RETRIES = 0
    MaxHop = 3
CHECK_DEADLOCK FALSE
INVARIANTS SearchHasThread 
