SPECIFICATION MCSpec
CONSTANTS
    Keys = {a, b, c, d}
    Values = {v}
    Ttls = {1}
    MaxTime = 1
    None = none
    WordMax = 4095
    IMax = 2047
    Commands <- MCCommands
    MaxStream = 2
    Garbage <- MCGarbage
    Streams <- MCStreams
    Bytes = {0, 1}
    MaxKeySize = 2
    MaxValueSize = 1
    Durations = {0, 2}
    UMax = 3
    MaxNanos = 2
INVARIANTS MapMatchesArena FreeListExact ArenaBounded LinksFollowUse
INVARIANTS ChunkingInvisible RefusesGarbage ReadsInStep CutIsNoValue
INVARIANTS EntryAsAsked VersionTellsStale DeadlineKept
INVARIANTS AbiAsDocumented
CHECK_DEADLOCK FALSE
