\* One client and one message.
CONSTANTS
  Clients = {1}
  Posts = {1}
  MaxSessions = 1
  Ttl = 0
  Horizon = 0
  Capacity = 1
  Parallel = 1
SPECIFICATION Spec
CHECK_DEADLOCK FALSE
INVARIANT EveryAnswerStreams
