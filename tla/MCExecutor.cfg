SPECIFICATION FairSpec
CONSTANTS
    Timeout = 2
    MaxOutput = 1
    Chunk = 2
    MaxWrites = 2
    MaxStall = 1
CHECK_DEADLOCK FALSE
INVARIANTS
    TypeOK
    OutputExact
    TimeBounded
    HonestVerdict
    GroupKilled
PROPERTY Returns
