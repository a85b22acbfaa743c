SPECIFICATION Spec
CONSTANTS
    MaxParts = 3
    Codes <- Words
    Files <- Contents
CHECK_DEADLOCK FALSE
INVARIANTS
    TypeOK
    CommandHonest
    RightCode
PROPERTY CommandEnds
