CONSTANTS
    Uninit = Uninit
    NoAddress = NoAddress
    InitialCapacity = 2
    PortSpace = 65536
    FirstBypassPort = 11567
    Hosts = {"a0"}
    DirectMessages <- AllMessages
    TakenPorts = {11567}
    MaxDirect = 4
    MaxErrors = 0
    MaxKills = 1
SPECIFICATION Spec
INVARIANTS
    TypeOK
    AcksHonoured
    RoutesListed
\* An agent may be hung, and connections stop at their bound.
CHECK_DEADLOCK FALSE
