SPECIFICATION MCSpec
CONSTANTS
    Threads = {t1, t2, t3}
    Conns = {c1, c2, c3, c4}
    MaxIdle = 1
    MaxTotal = 2
    NoConn = NoConn
SYMMETRY Symmetry
INVARIANT ExhaustedJustified
