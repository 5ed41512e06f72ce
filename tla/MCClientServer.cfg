SPECIFICATION FocusedSpec
CONSTANTS
    c1 = c1
    c2 = c2
    Conns = {c1, c2}
    Commands <- AllCommands
    Malformed = Malformed
    Methods <- MCMethods
    Keys = {"k"}
    Values = {"v"}
    Numerals <- MCNumerals
    TicksPerSec = 2
    MaxSent = 2
    MaxTime = 2
    Absent = Absent
    None = None
SYMMETRY Symmetric
INVARIANTS TypeOK ClientAgrees NoDoubleDelete SetExExpires MetricsMatchAnswers EofAfterAnswers
CHECK_DEADLOCK FALSE
