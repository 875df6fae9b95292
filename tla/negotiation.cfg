SPECIFICATION Spec
CONSTANTS
  Pages = {a, b}
  None = None
  MaxJoins = 4
  MaxShares = 1
  MayDrop = TRUE
SYMMETRY Swap
CONSTRAINT Unspoilt
INVARIANTS
  TypeOK
  AgreeUnlessSpoilt
  TracksAreHeard
  SomeCandidate
