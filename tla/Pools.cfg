SPECIFICATION PoolsSpec
CONSTANTS
    t1 = t1  t2 = t2  t3 = t3
    Tasks = {t1, t2, t3}
    Workers = {w1, w2, w3}
    Creator <- Nested
INVARIANTS
    PoolSafe GroupSafe
PROPERTIES
    PoolSettles GroupExitReturns
CHECK_DEADLOCK FALSE
