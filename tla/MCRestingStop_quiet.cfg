CONSTANTS
    Threads = {t1, t2}
    NoThread = NoThread
    MaxTrigger = 2
    MaxQty = 2
    EntryFloor = 2
    BandLevels = {1}
    WidestBand = 1
    Faults = {"exit"}
    MaxFaults = 1
    MaxOrders = 2
SPECIFICATION Spec
SYMMETRY Symmetry
INVARIANTS TypeOK OneScanAtATime NoDoubleReservation
PROPERTY ReplacementNeverLoosens
CHECK_DEADLOCK FALSE
