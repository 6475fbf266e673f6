SPECIFICATION Spec
CONSTANTS
    Sessions = {s1}
    Tools = {calculator}
    NoTool = NoTool
    MaxSteps = 3
    MaxCalls = 2
    MaxCrashes = 1
INVARIANTS
    TypeOK
    TrailTellsSession
    RecordsNameTheirTurn
    StopIsAnAnswer
PROPERTIES
    SessionsSettle
CHECK_DEADLOCK FALSE
