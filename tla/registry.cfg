SPECIFICATION PortalSpec
CONSTANTS
    Requests = {r1, r2, r3}
    Names = {m, n}
    Statuses = {"active", "retired"}
    Absent = Absent
    Missing = Missing
    Damaged = Damaged
    MaxFaults = 2
SYMMETRY Symmetry
INVARIANTS
    TypeOK
    MemoryIsFile
    AcknowledgedSurvives
    RegisteredOnce
    LaterChangeStays
CHECK_DEADLOCK FALSE
