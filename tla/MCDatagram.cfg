CONSTANTS
    Clients <- MCClients
    ClientPorts <- MCPorts
    Bodies <- MCBodies
    Echoes <- MCEchoes
    Ids <- MCIds
    PastBytes <- MCPastBytes
    FillByte = 170
SPECIFICATION Spec
CHECK_DEADLOCK FALSE
INVARIANTS
    TypeOK
    RegularAccepted
    ReceivedBegins
    EchoAnswered
    PingAnswered
    ArpAnswered
