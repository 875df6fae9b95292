SPECIFICATION MeetingSpec
CONSTANTS
  c1 = c1
  c2 = c2
  Conns = {c1, c2}
  Users = {c1, c2}
  UserOf <- OwnId
  NoConn = NoConn
  NoSweeper = NoSweeper
  MayExpire = FALSE
  QueueCap = 2
  HistoryLimit = 1
  Inputs = {"screen-share-started"}
  MaxReads = 1
SYMMETRY Swap
VIEW LiveView
INVARIANTS
  MeetingTypeOK
  EverybodyWasTold
  OneIsToOffer
