SPECIFICATION Spec
CONSTANTS
    Requests = {r1, r2, r3}
    Calls <- MCCalls
    Key = "key"
    Limit = 1
    Window = 2
    PiiEnabled = TRUE
    RouterAnswers <- MCRouterAnswers
    MaxTime = 2
    MaxFaults = 1
SYMMETRY Symmetry
INVARIANTS
    TypeOK
    WithinLimit
    RefusedOnlyWhenFull
    ClosedOnceAsAnswered
    RefusalsStayOutside
    RoutedIsAudited
CHECK_DEADLOCK FALSE
