SPECIFICATION FairSpec
CONSTANTS
    Conns = {c1}
    Fds = {f1}
    Workers = {w1}
    Pooled = TRUE
    MaxChunks = 4
    MaxSweeps = 0
PROPERTIES
    PipelinedAreServed
CHECK_DEADLOCK FALSE
