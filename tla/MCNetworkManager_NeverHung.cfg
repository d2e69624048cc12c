CONSTANTS
    Uninit = Uninit
    NoHost = NoHost
    FirstPort = 8108
    LowPort = 4000
    BypassPorts = {11567}
    InitialCapacity = 4
    OverlayList <- TwoNodes
    AgentList <- TwoAgents
    Requests <- FreeRequests
    FlowIds = {}
    PortSpace = 8115
    UninitInts = {0}
    MaxDeletes = 0
    MaxRestarts = 0
SPECIFICATION Spec
INVARIANT
    NeverHung
\* The manager stops, crashes or hangs in the end.
CHECK_DEADLOCK FALSE
