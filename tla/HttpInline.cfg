SPECIFICATION Spec
CONSTANTS
    Conns = {c1, c2}
    Fds = {f1}
    Workers = {}
    Pooled = FALSE
    MaxChunks = 5
    MaxSweeps = 1
SYMMETRY Symmetry
INVARIANTS CycleInStep ShutdownClosesAll
CHECK_DEADLOCK FALSE
