SPECIFICATION Spec
CONSTANTS
    Requests = {r1, r2}
    Models = {a, b, c}
    UnknownModels = {u}
    NoModel = NoModel
    a = a
    b = b
    c = c
    u = u
    FallbackOf <- MCFallbackDangling
    TaskDefaults <- MCTaskDefaultsNoChat
    DefaultTask = "chat"
    Bodies <- MCBodiesOdd
    MaxCrashes = 1
PROPERTIES
    RequestsSettle
CHECK_DEADLOCK FALSE
