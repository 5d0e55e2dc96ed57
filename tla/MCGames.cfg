SPECIFICATION PartsSpec
CONSTANTS
  Nodes = {1, 2, 3}
  Heads = {"a", "b"}
  Null = 0
  Parts = {"games", "modes", "db", "masks", "timers", "web", "bot", "lists"}
  Workers = {w1, w2}
  Names = {n1, n2}
  MaxGames = 2
  Expire = 1
  MaxAborts = 1
  Requests = {1, 2}
  Usernames = {"a", "b"}
  Mails = {"m", "n"}
  Passwords = {"p", "q"}
  Html <- MCHtml
  Players = {"x"}
  MaxUsers = 3
  MaxEdits = 1
  Users = {"u", "v"}
  Ident = {"u"}
  Hosts = {2}
  Files <- MCFiles
  OperUmodes = {"l", "w"}
  OperOnly = {"l"}
  OnConnect = {"i"}
  Asks <- MCAsks
  Orders <- MCOrders
  MaxOps = 4
INVARIANTS TypeOK ListedHasHost AccountsRight OpersRight KeptRight
PROPERTIES CleanTakesOnlyOld ListedExpires
