CONSTANTS
    Threads = {t1, t2}
    NoThread = NoThread
    MaxTrigger = 1
    MaxQty = 1
    EntryFloor = 1
    BandLevels = {1}
    WidestBand = 1
    Faults = {"unreadable", "lost_ack", "cancel_fails", "refused", "slow_book", "exit", "restart"}
    MaxFaults = 1
    MaxOrders = 4
SPECIFICATION FairSpec
PROPERTY EventuallyProtected
CHECK_DEADLOCK FALSE
