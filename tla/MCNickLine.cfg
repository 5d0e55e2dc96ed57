SPECIFICATION LineSpec
CONSTANTS
  a = a
  b = b
  h = h
  u1 = u1
  u2 = u2
  u3 = u3
  None = None
  Servers = {a, b, h}
  Users = {u1, u2, u3}
  Nicks = {1, 2}
  Home <- LineHome
  Person <- PairPerson
  Links <- LineLinks
  Breaks <- LineBreaks
  Via <- LineVia
  MaxTS = 2
  MaxMoves = 4
  MaxSplits = 1
INVARIANTS TypeOK NickUnique NickAgreement KillsJustified
PROPERTIES Settles
CHECK_DEADLOCK FALSE
