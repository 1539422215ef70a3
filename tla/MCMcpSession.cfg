\* Three clients on a table of one session, create() calls that overlap,
\* streams that hold back one frame; every stream ends.
CONSTANTS
  Clients = {1, 2, 3}
  Posts = {1, 2}
  MaxSessions = 1
  Ttl = 1
  Horizon = 2
  Capacity = 1
  Parallel = 2
SPECIFICATION MCSpec
CHECK_DEADLOCK FALSE
INVARIANTS
  WithinBounds
  AnswersArrive
PROPERTIES
  OldestEvicted
  StreamEndsWithSession
