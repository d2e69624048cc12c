CONSTANTS
    Uninit = Uninit
    NoAddress = NoAddress
    InitialCapacity = 4
    PortSpace = 65536
    FirstBypassPort = 11567
    Hosts = {"a0"}
    DirectMessages <- AddMessages
    TakenPorts = {}
    MaxDirect = 2
    MaxErrors = 1
    MaxKills = 0
SPECIFICATION FairSpec
PROPERTIES
    AnswersOwnInterface
\* An agent may be hung, and connections stop at their bound.
CHECK_DEADLOCK FALSE
