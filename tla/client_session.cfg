SPECIFICATION Spec
CONSTANTS
  Calls = {k1, k2, k3}
  Sockets = {s1, s2, s3}
  NoSocket = NoSocket
  Rooms = {r1, r2}
  NoRoom = NoRoom
SYMMETRY Swap
INVARIANTS
  TypeOK
  SocketIsLive
  CanLeave
  NoOrphanUnlessHasty
  ShownIsCurrent
