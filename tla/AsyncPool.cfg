\* Two submissions and two workers: a worker is needed while the loop runs a
\* call of the same executor.
SPECIFICATION AsyncSpec
CONSTANTS
    Tasks = {t1, t2}
    Workers = {w1, w2}
INVARIANTS LoopNeverDeadlocks
CHECK_DEADLOCK FALSE
