SPECIFICATION Spec
CONSTANTS
    Models = {a, b, c}
    UnknownModels = {u}
    NoModel = NoModel
INVARIANTS
    ReturnsTheChain
CHECK_DEADLOCK FALSE
