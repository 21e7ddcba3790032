CONSTANTS
    RingSize = 2
    MaxFrames = 3
    MaxEarly = 1
    MaxSignals = 2
SPECIFICATION FairSpec
CHECK_DEADLOCK FALSE
INVARIANTS
    TypeOK
    Backlog
    QueuedIsSignalled
    FramesInOrder
    HandlerHasThread
    KilledOnlyUnmasked
PROPERTIES
    ShutdownEnds
    InterruptEnds
    NextInterruptEnds
    FramesAreRead
