SPECIFICATION Spec
CONSTANTS
    Requests = {r1, r2, r3}
    MaxConcurrent = 1
    MaxQueue = 1
    Configurations <- Describing
SYMMETRY RequestSymmetry
CHECK_DEADLOCK FALSE
INVARIANTS
    TypeOK
    SlotsFollowRequests
    AnswersHonest
