SPECIFICATION FairSpec
CONSTANTS
    Requests = {r1, r2}
    Users = {u1, u2}
    NoUser = NoUser
CHECK_DEADLOCK FALSE
INVARIANTS
    RunsOnItsInput
    LeavesNothing
PROPERTY PromptEnds
