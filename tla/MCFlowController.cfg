CONSTANTS
    NoText = NoText
    NoFile = NoFile
    NoFlow = NoFlow
    NoProgram = NoProgram
    BasicProgram = BasicProgram
    s1 = s1
    s2 = s2
    Flows = {f0, f1}
    Texts <- SomeTexts
    Switches = {s1, s2}
    DeviceOf <- Devices
    MaxRestarts = 1
    MaxFailures = 1
SPECIFICATION FairSpec
INVARIANTS
    TypeOK
    NewestRuleInstalled
    StreamsClosed
PROPERTIES
    ImplementsHandshake
    RequestServed
\* The controller ends when it is told to, and dies.
CHECK_DEADLOCK FALSE
