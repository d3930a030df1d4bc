SPECIFICATION ToolsSpec
CONSTANTS
    MaxRequests = 2
    MaxUnits = 1
    Cap = 1
    Pipelining = TRUE
    SkipsBody = FALSE
INVARIANTS PipelinedInOrder
CHECK_DEADLOCK FALSE
