SPECIFICATION MCSpec
CONSTANTS
    t1 = t1
    t2 = t2
    Tasks = {t1, t2}
    Readers = {t1, t2}
    Bounds <- TwoBounds
    Latencies = {2, 3, 7}
    MaxRequests = 3
SYMMETRY Symmetric
INVARIANTS TypeOK CountersExact InflightExact MaxExact PercentilesRight
PROPERTIES InfoSeesOwnRequests
CHECK_DEADLOCK FALSE
