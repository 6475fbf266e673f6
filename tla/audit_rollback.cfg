SPECIFICATION Spec
CONSTANTS
    Singles = {s1, s2}
    Batches = {b1}
    AuditIds = {x, y, z}
    MaxBatch = 2
    MaxErrors = 0
    MaxCrashes = 0
INVARIANT ConflictLeavesNoTransaction
CHECK_DEADLOCK FALSE
