CONSTANTS
    SwitchNames <- Order
    Exercises <- AllExercises
    Default = Default
    Missing = Missing
    NoConf = NoConf
    Nobody = Nobody
    MaxRuns = 2
    MaxDisturbances = 1
SPECIFICATION FairSpec
INVARIANTS
    TypeOK
    StartedRuns
    ConfigurationLoaded
    CleanRunsRepeat
PROPERTIES
    RunEnds
\* The user may stay away.
CHECK_DEADLOCK FALSE
