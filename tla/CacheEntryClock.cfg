SPECIFICATION Spec
CONSTANTS
    Bytes = {0}
    MaxKeySize = 1
    MaxValueSize = 1
    Durations = {2}
    UMax = 7
    MaxNanos = 3
INVARIANTS ExpiryIgnoresAdjustments
CHECK_DEADLOCK FALSE
