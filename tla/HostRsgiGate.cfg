SPECIFICATION HostSpec
CONSTANTS
    Background = {a, b}
    Requests = {r}
    MayFailToStart = {a, b}
PROPERTIES GateAlwaysOpens
CHECK_DEADLOCK FALSE
