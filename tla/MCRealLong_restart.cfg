CONSTANTS
    Qty = 3
    Manual = 1
    MaxLevel = 2
    Faults = {"refused", "unfilled", "lost_sell", "restart"}
    MaxFaults = 1
    MaxEntries = 1
    MaxOrders = 10
SPECIFICATION Spec
INVARIANTS
    AtMostOneStop
PROPERTIES
    TargetOnlyBehindStop
