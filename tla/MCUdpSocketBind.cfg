CONSTANTS
    c1 = c1
    c2 = c2
    Callers = {c1, c2}
    IntrThread = intr
    NoThread = none
    AnyAddr = any
    IfAddr = if
    OtherAddrs = {lo}
    NumPcbs = 2
    MaxPort = 3
    SourcePortMin = 2
    BindPorts = {0, 1, 2}
    MaxArrivals = 1
    MaxEvents = 0
SPECIFICATION Spec
SYMMETRY Symmetry
INVARIANTS
    TypeOK
    MutexOwners
    DeliveredWhereBound
    UniqueEndpoints
    AnswersReachSender
PROPERTIES
    ChosenPortInRange
    EndpointGuarded
    WildcardKeepsPort
