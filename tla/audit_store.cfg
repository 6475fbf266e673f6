SPECIFICATION Spec
CONSTANTS
    Singles = {s1, s2}
    Batches = {b1, b2}
    AuditIds = {x, y, z}
    MaxBatch = 2
    MaxErrors = 1
    MaxCrashes = 1
SYMMETRY Symmetry
INVARIANTS
    TypeOK
    RefusedIsNotStored
    ReturnedRowsStay
PROPERTIES
    ImplementsAuditLog
CHECK_DEADLOCK FALSE
