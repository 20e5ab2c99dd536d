SPECIFICATION Spec
CONSTANTS
    D = D
    E = E
    Self = Self
    t1 = t1
    t2 = t2
    t3 = t3
    t4 = t4
    t5 = t5
    NoThread = NoThread
    Dest = {D, E}
    Timer = {t1, t2, t3, t4, t5}
    Rreps <- AnsweredOrForwarded
    Rreqs <- OfEoverD
    Calls = {D, E}
    Packets = {}
    Expiring = {D}
    SearchBelow = 1
    ReplyBelow = 1
    MaxLoose = 1
CHECK_DEADLOCK FALSE
PROPERTIES ReplyRaisesNumber
