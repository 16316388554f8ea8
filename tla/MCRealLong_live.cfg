CONSTANTS
    Qty = 3
    Manual = 0
    MaxLevel = 2
    Faults = {"refused", "unfilled", "lost_buy", "lost_sell", "cancel_fails", "unreadable", "restart"}
    MaxFaults = 2
    MaxEntries = 1
    MaxOrders = 11
SPECIFICATION FairSpec
INVARIANT NeverForgets
PROPERTIES
    KeepsPromise
    GhostIsCleared
    NeverNakedForever
