\* Two requests that nest transactions on a pool of two connections; a
\* body may hand its connection to a task of its own.
CONSTANTS
  r1 = r1
  r2 = r2
  Requests = {r1, r2}
  MaxTxns = 1
  PoolSize = 2
  MaxDepth = 2
  MaxEffects = 1
  MaxDetached = 1
  Scoped = {r1}
  Outside = Outside
SPECIFICATION TxnSpec
INVARIANTS
  OnlyAfterCommit
