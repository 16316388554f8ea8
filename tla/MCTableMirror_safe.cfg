SPECIFICATION FairSpec
CONSTANTS
    Positions = {a, b, c}
    ChunkRows = 3
    Pushers = {tick}
    Startup = startup
    Faults = {"unreachable", "push_lost", "restart", "slow"}
    MaxFaults = 3
INVARIANT TypeOK
PROPERTY OpenStaysMirrored
PROPERTY OpenReachesMirror
\* Every position may be lost or closed and nothing is left to do.
CHECK_DEADLOCK FALSE
