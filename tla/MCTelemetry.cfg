SPECIFICATION Spec
CONSTANTS
    Capacity = 2
    BatchSize = 2
    FlushTicks = 2
    SleepTicks = 1
    DropTicks = 1
    MaxEvents = 4
INVARIANTS
    IInv
    HandOver
    DeliveredOnceInOrder
    PostFitsBackend
    NoDropBelowCapacity
    LossBound
PROPERTIES
    ExitReached
    EventuallyHanded
