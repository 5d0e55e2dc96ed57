SPECIFICATION FairParts
CONSTANTS
  Parts = {"structs", "recvq", "dns"}
  Conns = {c1, c2}
  Remotes = {r1}
  MaxClients = 1
  MaxBuffer = 0
  Hub = FALSE
  Callers = {x1}
  Ips = {0}
  Classes = {"users"}
  ConfIds = {1, 2, 3}
  Settings <- OneUser
  PerIp = 2
  Throttle = 1
  ThrottleMax = 1
  MaxAsked = 2
  None = None
  Chunks = {1}
  Capacity = 2
  MaxFlood = 1
  MaxBurst = 2
  MaxLine = 2
  RecvLimit = 4
  ReadSize = 3
  OperFlood = TRUE
  MaxBytes = 6
  MaxTicks = 2
INVARIANTS Limits Parsed
PROPERTIES Ended Heard
CHECK_DEADLOCK FALSE
