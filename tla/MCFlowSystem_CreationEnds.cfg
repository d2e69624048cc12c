CONSTANTS
    Uninit = Uninit
    NoHost = NoHost
    NoAddress = NoAddress
    InitialCapacity = 4
    FirstPort = 8108
    LowPort = 4000
    PortSpace = 65536
    FirstBypassPort = 11567
    BypassPorts = {11567, 11568, 11569, 11570, 11571, 11572}
    OverlayList <- TwoNodes
    AgentList <- TwoAgents
    FlowIds = {}
    UninitInts = {0}
    MaxDeletes = 0
    Requests <- OverlayRequests
    TakenPorts = {11567}
    DirectMessages = {}
    MaxDirect = 0
    MaxErrors = 0
    MaxKills = 0
    MaxRestarts = 1
SPECIFICATION FairSystemSpec
PROPERTIES
    CreationEnds
\* The manager stops, crashes or waits for an agent that never answers.
CHECK_DEADLOCK FALSE
