CONSTANTS
    Threads = {t1, t2}
    NoThread = NoThread
    MaxTrigger = 2
    MaxQty = 1
    EntryFloor = 2
    BandLevels = {1, 2}
    WidestBand = 1
    Faults = {"unreadable", "lost_ack", "cancel_fails", "refused", "slow_book", "restart"}
    MaxFaults = 1
    MaxOrders = 3
SPECIFICATION Spec
SYMMETRY Symmetry
PROPERTIES SingleFaultKeepsAStop
CHECK_DEADLOCK FALSE
