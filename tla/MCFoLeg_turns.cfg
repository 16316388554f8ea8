SPECIFICATION FairSpec
CONSTANTS
    Threads = {"scan", "tick"}
    Overlap = FALSE
    Slots <- FourSlots
    MaxShort = 0
    MaxLevel = 2
    MaxBuys = 1
    Retries = 1
    Faults = {"unreadable", "late_book", "refused", "unfilled", "lost_buy", "lost_stop", "lost_sell", "cancel_failed", "restart"}
    MaxFaults = 2
INVARIANT NeverForgets NoOrphanStop
PROPERTY KeepsPromise TriggerNeverLowers NakedLegEnds GhostRowEnds
