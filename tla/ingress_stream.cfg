SPECIFICATION Spec
CONSTANTS
    Requests = {r1}
    Calls <- MCCalls
    Key = "key"
    Limit = 1
    Window = 2
    PiiEnabled = TRUE
    RouterAnswers <- MCRouterAnswers
    MaxTime = 1
    MaxFaults = 1
INVARIANT StreamsComplete
CHECK_DEADLOCK FALSE
