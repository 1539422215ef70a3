\* Requests of every kind on two connections, middlewares that answer or
\* panic, sockets that panic; the server stops in the end. Two requests that
\* nest transactions, with several effects per scope, handles that outlive
\* their scope and a request without task-locals.
CONSTANTS
  c1 = c1
  c2 = c2
  Conns = {c1, c2}
  Middlewares = 2
  MaxRequests = 2
  Kinds = {"http", "upgrade", "rejected"}
  Panics = TRUE
  r1 = r1
  r2 = r2
  Requests = {r1, r2}
  MaxTxns = 2
  PoolSize = 2
  MaxDepth = 2
  MaxEffects = 3
  MaxDetached = 1
  Scoped = {r1}
  Outside = Outside
SPECIFICATION Spec
INVARIANTS
  OnionOrder
  CountsAreTrue
  FlushedOnce
  PoolIsSound
PROPERTIES
  DrainEnds
  ScopesEnd
