CONSTANTS
    Uninit = Uninit
    NoHost = NoHost
    NoAddress = NoAddress
    InitialCapacity = 8
    FirstPort = 8108
    LowPort = 4000
    PortSpace = 65536
    FirstBypassPort = 11567
    BypassPorts = {11567, 11568, 11569, 11570, 11571, 11572}
    OverlayList <- TwoNodes
    AgentList <- TwoAgents
    FlowIds = {}
    UninitInts = {0}
    MaxDeletes = 0
    Requests <- AllRequests
    TakenPorts = {11567}
    DirectMessages = {}
    MaxDirect = 0
    MaxErrors = 0
    MaxKills = 1
    MaxRestarts = 1
SPECIFICATION FairSystemSpec
INVARIANTS
    PathWired
    NoMisdelivery
    AckBelongsToWaiter
PROPERTIES
    ImplementsManager
    
    UsesHandshake
\* The manager stops, crashes or waits for an agent that never answers.
CHECK_DEADLOCK FALSE
