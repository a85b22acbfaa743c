SPECIFICATION FairSpec
CONSTANTS
    Tasks = {t1, t2, t3, t4, t5}
    MaxConcurrent = 2
    MaxQueue = 2
INVARIANTS
    SlotConservation
    InFlightExact
    NoLostWakeup
PROPERTIES
    RefusedOnlyWhenFull
    WaiterServed
    ImplementsSlotQueue
