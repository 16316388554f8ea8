SPECIFICATION FairSpec
CONSTANTS
    a = a
    c = c
    Symbols <- Two
    Swing <- OneSwing
    Cap = 1
    Faults = {"refused", "lost_buy", "lost_sell", "unfilled", "cancel_fails", "locked", "unset", "late_set", "restart"}
    MaxEvents = 3
CHECK_DEADLOCK FALSE
INVARIANTS OverspendBounded
PROPERTIES KillAccounts MirroredOffKept MirroredOffReturns
