CONSTANTS
  Nil = Nil
  Clients = {c1, c2}
  Limit = 2
  Window = 1
  MaxRequests = 4
SPECIFICATION RoutesFairSpec
INVARIANTS RoutesTypeOK OpenHandlersBounded PendingServedNothing
PROPERTIES RefusedForAReason KeepsThePromise PastVisitorsForgotten
