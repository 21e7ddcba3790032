CONSTANTS
    RingSize = 2
    MaxFrames = 3
    MaxEarly = 1
    MaxSignals = 2
SPECIFICATION Spec
CHECK_DEADLOCK FALSE
INVARIANTS
    NothingUnread
