SPECIFICATION Spec
CONSTANTS
    Conns = {c1, c2}
    Fds = {f1}
    Workers = {w1}
    Pooled = TRUE
    MaxChunks = 2
    MaxSweeps = 0
INVARIANTS
    NoOrphan
CHECK_DEADLOCK FALSE
