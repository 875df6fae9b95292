SPECIFICATION Spec
CONSTANTS
  c1 = c1
  c2 = c2
  c3 = c3
  u1 = u1
  u2 = u2
  Conns = {c1, c2}
  Users = {u1, u2}
  UserOf <- OwnIds
  NoConn = NoConn
  NoSweeper = NoSweeper
  QueueCap = 1
  HistoryLimit = 1
  Inputs = {}
  MaxReads = 0
  MayExpire = TRUE
INVARIANTS
  MembersCanBeQueried
