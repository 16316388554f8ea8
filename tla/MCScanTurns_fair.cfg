SPECIFICATION FairSpec
CONSTANTS
    a = a
    x = x
    p = p
    q = q
    Watchlist <- List
    Nse <- Equities
    Evidenced <- Index
    Batch = 1
    MaxDeals = 1
    MaxUpsets = 1
INVARIANT TickFirst
PROPERTIES HeldScanned Covers SweepReturns
