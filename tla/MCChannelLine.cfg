SPECIFICATION PartsSpec
CONSTANTS
  Parts = {"line", "topic", "burst", "rules", "remote", "split", "ask", "modes", "list", "lines", "votes", "names"}
  ModeParams = 2
  a = a
  b = b
  h = h
  ua = ua
  ub = ub
  Servers = {a, b, h}
  Users = {ua, ub}
  Masks = {ub}
  Home <- PairHome
  Links <- LineLinks
  Breaks <- LineLinks
  Via <- LineVia
  Commands = {"PART", "KICK", "o", "t", "k", "b"}
  MaxTS = 2
  MaxKey = 1
  MaxCmds = 3
  MaxSplits = 1
  Clients = {1}
  Ips = {0, 1}
  Nets <- Two
  Names = {0}
  Files <- Both
  Opers <- Voters
  Exemptions = {{}, {"K"}, {"G"}}
  Life = 1
  Lives <- Spans
  Request = 1
  MinBits = 1
  Step = 2
  Placed <- Bannable
  MaxBans = 2
  Holders = {a, b, h}
  Wires <- LineLinks
  Topics = {"x"}
  Unset = ""
  Born = {1, 2}
  MaxTime = 2
  MaxCuts = 1
  MaxSets = 2
  Locals = {"u", "v"}
  Remotes = {"r"}
  Channels = {"x", "y"}
  Idents = {1, 2}
  Modes = {"i"}
  MaxChannels = 1
  MaxIds = 2
  MaxMasks = 1
  Changing = {"x"}
  MaxLimit = 0
  LastTs = 2
INVARIANTS KnownMembers Convergence TopicsAgree RulesRight RulesKept BansHold
PROPERTIES TSNeverRises LoserDeopped
CHECK_DEADLOCK FALSE
