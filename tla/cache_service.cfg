SPECIFICATION Spec
CONSTANTS
    Lookups = {l1}
    Writes = {w1, w2, w3}
    p = p
    q = q
    far = far
    Prompts = {p, q, far}
    ModelNames = {m}
    TaskTypes = {"chat"}
    TTL <- MCOneTTL
    Score <- MCScore
    Threshold = 9
    MaxSemantic = 1
    MaxWriters = 2
    MaxTime = 1
    MaxFaults = 1
SYMMETRY Symmetry
INVARIANTS
    TypeOK
    SemanticFollowsExact
    OvershootBoundedByWriters
PROPERTIES
    ExactReadsLatestWrite
    ServesTheBestMatch
CHECK_DEADLOCK FALSE
