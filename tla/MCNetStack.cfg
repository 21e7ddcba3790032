CONSTANTS
    c1 = c1
    c2 = c2
    m1 = m1
    m2 = m2
    Callers = {c1, c2}
    IntrThread = intr
    OurIp = our_ip
    Gateway = gateway
    OtherIps = {host}
    Macs = {m1, m2}
    BroadcastMac = broadcast
    IdRange = 4
    FirstId = 3
    MaxFrames = 3
    MaxOutputs = 2
SPECIFICATION Spec
SYMMETRY Symmetry
CHECK_DEADLOCK FALSE
INVARIANTS
    TypeOK
    OneEntryEach
    KnownIsSent
    NextHopIsGateway
    IdsDiffer
    OnlyEchoMissEnds
