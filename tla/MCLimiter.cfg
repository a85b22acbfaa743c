SPECIFICATION HSpec
CONSTANTS
    Users = {u1, u2, u3}
    PerUser = 2
    GlobalLimit = 3
    Window = 2
    MaxTime = 6
SYMMETRY UserSymmetry
INVARIANTS
    HitsBounded
    GrantsSpaced
    NothingForgotten
PROPERTIES
    UsersSwept
    RetryAfterExact
    ImplementsSlidingWindow
