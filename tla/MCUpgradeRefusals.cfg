\* One connection with one request, plain or a refused upgrade, and two
\* middlewares.
CONSTANTS
  c1 = c1
  Conns = {c1}
  Middlewares = 2
  MaxRequests = 1
  Kinds = {"http", "rejected"}
  Panics = FALSE
SPECIFICATION ServerSpec
CHECK_DEADLOCK FALSE
INVARIANT EveryResponseSeen
