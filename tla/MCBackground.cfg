\* Two workers, three jobs: a is retried, b has no runner and no retries, c
\* never returns and keeps its worker for good. A ring of two slots and three
\* events: handlers lag, panic and join late.
CONSTANTS
  a = a
  b = b
  c = c
  Jobs = {a, b, c}
  Tasks = {1, 2, 3}
  MaxWorkers = 2
  MaxRetries <- MCMaxRetries
  Registered = {a, c}
  Hanging = {c}
  Delays = {0, 1}
  None = None
  h1 = h1
  h2 = h2
  h3 = h3
  Handlers = {h1, h2, h3}
  Types = {"placed", "paid"}
  Wants <- MCWants
  Capacity = 2
  MaxEvents = 3
  Fragile = {h2}
SPECIFICATION Spec
INVARIANTS
  PermitConservation
  JobsAccounted
  DeliveryIsExact
PROPERTIES
  AttemptsInTime
  ImplementsLifecycle
  EventuallySettled
  EventuallyReached
