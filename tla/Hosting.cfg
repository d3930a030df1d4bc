SPECIFICATION FairSpec
CONSTANTS
    app = app  shell = shell  inner = inner  side = side
    Services = {app, shell, inner, side}
    Root = app
    Parent <- MCParent
    Ancestors <- MCAncestors
    Kind <- MCKind
    Sync = {side}
    Guarded = {shell}
    ShutByApp = {shell, side}
    Rude = {inner}
    CleanupFails = {shell, side}
INVARIANTS
    TypeOK ResourcesOutliveTasks SiblingsSurvive
PROPERTIES
    EndsPropagate StopsComplete
CHECK_DEADLOCK FALSE
