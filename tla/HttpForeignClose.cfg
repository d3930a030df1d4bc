SPECIFICATION Spec
CONSTANTS
    Conns = {c1}
    Fds = {f1}
    Workers = {w1, w2}
    Pooled = TRUE
    MaxChunks = 4
    MaxSweeps = 0
INVARIANTS
    NobodyClosesUnderWorker
CHECK_DEADLOCK FALSE
