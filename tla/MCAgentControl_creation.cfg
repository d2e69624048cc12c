CONSTANTS
    Uninit = Uninit
    NoAddress = NoAddress
    InitialCapacity = 4
    PortSpace = 65536
    FirstBypassPort = 11567
    Hosts = {"a0", "a1"}
    DirectMessages <- AddMessages
    TakenPorts = {11567}
    MaxDirect = 3
    MaxErrors = 1
    MaxKills = 0
SPECIFICATION FairSpec
PROPERTIES
    CreationEnds
\* An agent may be hung, and connections stop at their bound.
CHECK_DEADLOCK FALSE
