CONSTANTS
    Uninit = Uninit
    NoHost = NoHost
    FirstPort = 8108
    LowPort = 4000
    BypassPorts = {11567}
    InitialCapacity = 2
    OverlayList <- FourNodes
    AgentList <- TwoAgents
    Requests <- FileRequests
    FlowIds = {0, 2}
    PortSpace = 8111
    UninitInts = {0, 1}
    MaxDeletes = 2
    MaxRestarts = 1
SPECIFICATION Spec
INVARIANTS
    TypeOK
    PortsUnique
    IdsDense
    CapacityAccounted
    NoOverdraft
    LiveFlowsListed
    PrintedFlowsGranted
    HangsOnlyAfterGrowth
\* The manager stops, crashes or hangs in the end.
CHECK_DEADLOCK FALSE
