SPECIFICATION Spec
CONSTANTS
  Pages = {a, b, c}
  None = None
  MaxJoins = 3
  MaxShares = 0
  MayDrop = FALSE
SYMMETRY Swap
INVARIANTS
  Connected
