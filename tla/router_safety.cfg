SPECIFICATION Spec
CONSTANTS
    Requests = {r1, r2}
    Models = {a, b, c}
    UnknownModels = {u}
    NoModel = NoModel
    a = a
    b = b
    c = c
    u = u
    FallbackOf <- MCFallbackOf
    TaskDefaults <- MCTaskDefaults
    DefaultTask = "chat"
    Bodies <- MCBodies
    MaxCrashes = 1
SYMMETRY Symmetry
INVARIANTS
    TypeOK
    NoCallRepeated
    CallsInOrder
    ExhaustedAfterAll
    
    CacheHoldsServedResponses
    RepliesHaveProvenance
CHECK_DEADLOCK FALSE
