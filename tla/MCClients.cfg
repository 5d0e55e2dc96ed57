SPECIFICATION PartsSpec
CONSTANTS
  Parts = {"structs", "access", "pool", "file", "cmds", "index", "motd", "dns", "names"}
  Conns = {c1, c2, c3}
  Remotes = {r1, r2}
  MaxClients = 1
  MaxBuffer = 1
  Hub = TRUE
  Callers = {x1, x2}
  Ips = {0}
  Classes = {"users"}
  ConfIds = {1, 2, 3}
  Settings <- OneUser
  PerIp = 2
  Throttle = 1
  ThrottleMax = 1
  MaxAsked = 2
  None = None
  Chunks = {1, 2, 3}
  Capacity = 3
  MaxFlood = 1
  MaxBurst = 2
  MaxLine = 2
  RecvLimit = 4
  ReadSize = 3
  OperFlood = TRUE
  MaxBytes = 6
  MaxTicks = 2
SYMMETRY Symm
INVARIANTS Listed Counted NoDangling FreedOnce ChunksOk Entered LookupsRight
PROPERTIES SubnetLimit Allocates
CHECK_DEADLOCK FALSE
