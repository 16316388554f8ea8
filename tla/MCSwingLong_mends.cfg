SPECIFICATION FairSpec
CONSTANTS
    Overlap = {"reconcile"}
    Faults = {"refused", "lost_buy", "lost_sell", "cancel_fails", "unreadable", "restart"}
    MaxEvents = 2
INVARIANT TypeOK
PROPERTIES HeldIsTracked StopCoversHeld RowAgrees
