\* Two clients; two tasks and a boot; two servers and a command line; one rule;
\* three administrators on six rows; a lookup beside one write; two MCP calls,
\* one of them privileged, one tool registered up to twice, one administrator
\* and an audit log of one entry.
CONSTANTS
  Ips = {i1, i2}
  MaxRequests = 2
  Window = 2
  MaxTime = 5
  NoBucket = NoBucket
  Types = {a, b, c, v}
  a = a
  b = b
  c = c
  v = v
  ann = ann
  ben = ben
  cat = cat
  Null = Null
  NoLimit = NoLimit
  MaxWrites = 1
  Admins = {ann, ben, cat}
  LastId = 6
  c1 = c1
  c2 = c2
  tool = tool
  root = root
  Columns = {c1, c2}
  Locked = Locked
  Connections = 2
  PageSize = 1
  MaxFaults = 1
  Threads = {t1, t2}
  Main = Main
  Absent = Absent
  MaxBoots = 2
  MaxAsks = 2
  LastFile = 2
  Servers = {s1, s2}
  Clis = {m1}
  Commands <- AllCommands
  MaxCrashes = 1
  Second = 3
  Period = 6
  MaxLate = 2
  Horizon = 20
  Calls = {c1, c2}
  Tools = {tool}
  Resources = {"secret"}
  Prompts = {"greeting"}
  Gated = {"secret", "greeting"}
  Unknown = "-"
  Schemas <- MCSchemas
  Messages <- MCMessages
  Privileged = {c1}
  Operators = {root}
  MaxSlots = 2
  Capacity = 1
SPECIFICATION Spec
CHECK_DEADLOCK FALSE
INVARIANTS
  BurstBound
  ContainerIsSound
  LedgerHolds
  CronBounded
  EditsAreAccounted
  ViewsAreWhole
  RecordsAreRight
  KillSwitchHolds
  OnlyPermitted
  RecordsAgree
