SPECIFICATION AppSpec
CONSTANTS
  Methods <- MCMethods
  Algorithms <- MCAlgorithms
  MinSize = 2
  CompressibleTypes <- MCTypes
  Index = "file"
  CacheControl = "max-age"
  Mounts <- MCMounts
  Handlers <- MCHandlers
  AppMiddlewares <- MCAppMiddlewares
  BuiltIns <- MCBuiltIns
  Registrable <- MCRegistrable
  MaxRoutes = 3
  Requests <- MCRequests
  Accepts <- MCAccepts
  Tree <- MCTree
  Sizes = {0, 1, 3}
  MaxWrites = 2
  ShrinksWhileServed = FALSE
INVARIANTS
  DispatchFollowsRegistration
  OperationMatchesItsDocument
  ResponseDescribesItsBody
  NotModifiedIsTrue
  EventsReachThePeer
