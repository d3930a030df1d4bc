SPECIFICATION FairSpec
CONSTANTS
    Conns = {c1}
    Fds = {f1}
    Workers = {w1, w2}
    Pooled = TRUE
    MaxChunks = 4
    MaxSweeps = 1
INVARIANTS
    ConnectionsSafe
PROPERTIES
    Only408WhenStalled RequestsAreServed
CHECK_DEADLOCK FALSE
