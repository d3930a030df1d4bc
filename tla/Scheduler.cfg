SPECIFICATION Spec
CONSTANTS
    Scheds <- MCScheds
    Tasks = {"job", "log", "next", "last"}
    TaskOf <- MCTaskOf
    Source <- MCSource
    Target <- MCTarget
    Take <- MCTake
    Delayed = {"paced", "slow"}
    MaxResults = 2
INVARIANTS EveryResultOnce TasksInStep
PROPERTIES TasksEnd
CHECK_DEADLOCK FALSE
