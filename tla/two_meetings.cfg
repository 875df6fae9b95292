SPECIFICATION Spec
CONSTANTS
  Calls = {k1, k2}
  Sockets = {s1, s2}
  NoSocket = NoSocket
  Rooms = {r1, r2}
  NoRoom = NoRoom
SYMMETRY Swap
INVARIANTS
  OneMeetingAtATime
