SPECIFICATION Spec
CONSTANTS
    t1 = t1
    t2 = t2
    Tasks = {t1, t2}
    Readers = {}
    Bounds <- TwoBounds
    Latencies = {2}
    MaxRequests = 2
SYMMETRY Symmetric
INVARIANTS InflightIsCurrent
CHECK_DEADLOCK FALSE
