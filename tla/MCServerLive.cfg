SPECIFICATION FairSpec
CONSTANTS
    c1 = c1
    c2 = c2
    Conns = {c1, c2}
    Commands <- Answerable
    Malformed = Malformed
    Methods <- MCMethods
    Keys = {"k"}
    Values = {"v"}
    Numerals <- MCNumerals
    TicksPerSec = 2
    MaxSent = 2
    MaxTime = 1
    Absent = Absent
    None = None
PROPERTIES AllAnswered
CHECK_DEADLOCK FALSE
