\* The gate: one browser with overlapping requests next to a blacklisted one.
\* The wire and the routes: see MCGatekeeper.tla.
CONSTANTS
  b1 = b1
  b2 = b2
  Ips = {b1, b2}
  Blacklist = {b2}
  MaxRequests = 2
  Window = 1
  MaxTime = 1
  NoBucket = NoBucket
  Requests = {1, 2, 3}
  Modes <- AllModes
  Visits <- VisitsOf
  Bearers = {0}
  Timeout = 0
  MaxOverlap = 2
  MaxRestarts = 1
  Nothing = Nothing
  clerk = clerk
  editor = editor
  chief = chief
  NoRole = NoRole
  SuperAdmin = superadmin
  MaxBuffer = 6
  Methods <- AllMethods
  Roles <- AllRoles
SPECIFICATION Run
CHECK_DEADLOCK FALSE
INVARIANTS
  GateHolds
  OwnFormsOnly
  WireIsSound
  RoutesAreRight
