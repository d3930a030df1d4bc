SPECIFICATION Spec
CONSTANTS
    Scheds <- MCScheds
    Tasks = {"job", "log", "next", "last"}
    TaskOf <- MCTaskOf
    Source <- MCSource
    Target <- MCTarget
    Take <- MCTake
    Delayed = {"paced", "slow"}
    MaxResults = 2
INVARIANT NeverMissesAResult
CHECK_DEADLOCK FALSE
