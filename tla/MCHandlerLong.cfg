SPECIFICATION Spec
CONSTANTS
    Requests = {r1}
    MaxConcurrent = 1
    MaxQueue = 1
    Configurations <- Settings
CHECK_DEADLOCK FALSE
INVARIANT LongOutputAttached
