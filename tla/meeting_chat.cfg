SPECIFICATION MeetingSpec
CONSTANTS
  c1 = c1
  c2 = c2
  Conns = {c1, c2}
  Users = {c1, c2}
  UserOf <- OwnId
  NoConn = NoConn
  NoSweeper = NoSweeper
  MayExpire = FALSE
  QueueCap = 2
  HistoryLimit = 2
  Inputs = {"chat-message"}
  MaxReads = 2
SYMMETRY Swap
VIEW ChatView
INVARIANTS
  NoChatMissed
  SenderOrderKept
