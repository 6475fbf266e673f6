SPECIFICATION Spec
CONSTANTS
    Clients = {one}
    one = one
    MaxAttempts = 3
    BodyOf <- MCBodyOf
    GatewayTimeout = 1
    RouterTimeout = 2
    InferenceTimeout = 3
    OllamaTimeout = 3
    MaxGeneration = 1
    DefaultModel = a
    Models = {a, b}
    a = a
    b = b
    UnknownModels = {u}
    u = u
    NoModel = NoModel
    FallbackOf <- MCFallbackOf
    TaskDefaults <- MCTaskDefaults
    DefaultTask = "chat"
    MaxFaults = 1
INVARIANTS
    TypeOK
    TimeoutsBounded
    OneGenerationEach
    SlowIsNotBroken
    ServedAsGenerated
PROPERTIES
    ComesToRest
CHECK_DEADLOCK FALSE
