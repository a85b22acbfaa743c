SPECIFICATION FairSpec
CONSTANTS
    Requests = {r1, r2}
    MaxConcurrent = 1
    MaxQueue = 1
    Configurations <- Settings
CHECK_DEADLOCK FALSE
INVARIANTS
    AnsweredUnlessFault
    ResultsRouted
    ThinkingResolved
PROPERTIES
    Finishes
    UsesGuardFairly
