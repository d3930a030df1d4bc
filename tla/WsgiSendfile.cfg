SPECIFICATION WsgiSpec
CONSTANTS
    BodyLength = 1
    BodyCap = 1
    Calls = 1
    Chunks = 1
INVARIANTS SendfileIsServed
CHECK_DEADLOCK FALSE
