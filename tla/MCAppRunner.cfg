SPECIFICATION FairSpec
CONSTANTS
    None = None
    Apps <- AllApps
INVARIANTS
    TypeOK
    SuccessMeansAll
    NothingLeft
    ShortestPaths
    PortsMatch
PROPERTY
    AppEnds
CHECK_DEADLOCK FALSE
