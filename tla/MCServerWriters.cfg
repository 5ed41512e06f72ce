SPECIFICATION Spec
CONSTANTS
    c1 = c1
    c2 = c2
    Conns = {c1, c2}
    Commands <- Writers
    Malformed = Malformed
    Methods <- MCMethods
    Keys = {"k"}
    Values = {"v", "w"}
    Numerals <- MCNumerals
    TicksPerSec = 2
    MaxSent = 1
    MaxTime = 2
    Absent = Absent
    None = None
SYMMETRY Symmetric
INVARIANTS SetWithoutExpiration
CHECK_DEADLOCK FALSE
