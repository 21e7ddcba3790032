CONSTANTS
    c1 = c1
    c2 = c2
    Callers = {c1, c2}
    IntrThread = intr
    NoThread = none
    AnyAddr = any
    IfAddr = if
    OtherAddrs = {}
    NumPcbs = 2
    MaxPort = 2
    SourcePortMin = 2
    BindPorts = {0, 1}
    MaxArrivals = 2
    MaxEvents = 1
SPECIFICATION Spec
SYMMETRY Symmetry
PROPERTIES
    ImplementsService
INVARIANTS
    NoSleepOnDatagram
    InOrder
