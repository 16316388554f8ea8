SPECIFICATION Spec
CONSTANTS
    a = a
    b = b
    c = c
    Symbols = {a, b, c}
    EngineOf <- MCEngineOf
    Writers = {w1}
    Startup = startup
    Faults = {"unreadable", "push_lost", "restart"}
    MaxFaults = 3
INVARIANT MirroredIsTracked
PROPERTY OpenStaysMirrored
PROPERTY ClosedStaysClosed
