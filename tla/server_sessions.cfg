SPECIFICATION Spec
CONSTANTS
  c1 = c1
  c2 = c2
  c3 = c3
  u1 = u1
  u2 = u2
  Conns = {c1, c2, c3}
  Users = {u1, u2}
  UserOf <- SharedId
  NoConn = NoConn
  NoSweeper = NoSweeper
  QueueCap = 1
  HistoryLimit = 1
  Inputs = {"screen-share-started", "chat-message", "offer", "invalid"}
  MaxReads = 1
  MayExpire = TRUE
VIEW HandlerView
INVARIANTS
  NoSendOnClosed
  BroadcastReachesPresent
  RegisteredIsLive
  CutOffOnlyByTakeover
PROPERTIES
  ImplementsPresence
