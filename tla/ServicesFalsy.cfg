SPECIFICATION Spec
CONSTANTS
    th1 = th1
    th2 = th2
    th3 = th3
    q1 = q1
    Types <- SmallTypes
    Deps <- SmallDeps
    AppTypes = {"config", "pool"}
    RequestTypes = {"session", "handler"}
    Eager = {"config"}
    Falsy = {"session"}
    Requests = {q1}
    Threads = {th1, th2, th3}
    ScopeOf <- SmallScopes
    Calls = 1
INVARIANTS OncePerScope
