CONSTANTS
    N = 3
    Faults = {"no_price", "starved", "timeout", "drop", "login"}
    MaxFaults = 2
SPECIFICATION FairSpec
INVARIANTS OneResolve
PROPERTIES CycleComplete ExpiredDropOut ServesAgain
