SPECIFICATION Spec
CONSTANTS
    Selectors = 2
    Conns = {c1}
    MaxRequests = 2
    Backend = "httptools"
INVARIANTS NoneForgotten
CHECK_DEADLOCK FALSE
