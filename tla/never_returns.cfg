SPECIFICATION FairSpec
CONSTANTS
    A = A
    B = B
    C = C
    D = D
    NoAddr = NoAddr
    NoEntry = NoEntry
    Broadcast = Broadcast
    Node = {A, B}
    Link <- Line2
    IpNumber <- Numbers
    Flows <- AtoBandBack
    Greeters = {}
    Timers <- AforB
    MaxSeq = 1
    TTL_START = 2
    TTL_INCREMENT = 2
    TTL_THRESHOLD = 2
    NET_DIAMETER = 3
    RREQ_RETRIES = 0
    MaxHop = 3
CHECK_DEADLOCK FALSE
PROPERTY SendRreqReturns
