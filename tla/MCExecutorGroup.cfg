SPECIFICATION Spec
CONSTANTS
    Timeout = 2
    MaxOutput = 1
    Chunk = 1
    MaxWrites = 1
    MaxStall = 1
CHECK_DEADLOCK FALSE
INVARIANT TimeoutKillsGroup
