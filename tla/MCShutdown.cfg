SPECIFICATION SSpec
CONSTANTS
    Jobs = {j1, j2}
    Model = "b"
    Fallbacks <- ThreeFallbacks
CHECK_DEADLOCK FALSE
INVARIANTS
    ShutdownTypeOK
    ExitCodeHonest
    UnwoundCleanly
    AskedInTurn
    ClientsClosed
PROPERTY OneStopsAll
