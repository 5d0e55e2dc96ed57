SPECIFICATION PartsSpec
CONSTANTS
  Parts = {"ping"}
  e1 = e1  e2 = e2  None = None
  Ends = {e1, e2}
  Peer <- BothPeer
  Checkers = {e1, e2}
  Authed = {}
  Pings = {24}
  Limit = 24
  Delay = 3
  MaxTalk = 1
  Opers = {"o"}  Peers = {"p"}
  Blocks = {1, 2, 3, 4}
  Sizes = {2}
  MaxSendq = 3
  MaxLines = 3
  Servers <- Abc  Links <- Wires  Ways <- Toward
  Users <- People  Home <- At  Starts <- Seats
  Operators = {"u", "x"}
  Kinds = {"chan", "ops", "user", "all", "wallops", "locops"}
  CallerId = {"w"}  Soft = {"v"}  Bypass = FALSE
  Accepts <- Friends
  RegOnly = {"u"}  Registered = {"v"}
  Cluster = {"a", "b"}
  FloodCount = 1
  MaxSays = 2
  MaxMoves = 1
  MaxRehash = 0
  Nodes <- Abc  Networks <- Setups  MaxConns = 3
INVARIANTS PingedFirst
CHECK_DEADLOCK FALSE
