SPECIFICATION FairSpec
CONSTANTS
    Selectors = 2
    Conns = {c1}
    MaxRequests = 2
    Backend = "h11"
INVARIANTS ServiceSafe
PROPERTIES ServiceSettles
CHECK_DEADLOCK FALSE
