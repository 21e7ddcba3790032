CONSTANTS
    Main = main
    IntrThread = intr
    OurIp = our_ip
    Gateway = gateway
    OtherIps = {}
    Macs = {m1}
    BroadcastMac = broadcast
    IdRange = 3
    FirstId = 2
    MaxFrames = 4
    MaxOutputs = 4
    AnyAddr = any
    Ports = {5555, 5556}
    Port = 5555
SPECIFICATION FairSpec
CHECK_DEADLOCK FALSE
INVARIANTS
    TypeOK
PROPERTIES
    ImplementsEchoService
    Settled
