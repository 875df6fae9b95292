SPECIFICATION Spec
CONSTANTS
  Me = me
  Others = {o1}
  Captures = {c1}
  Camera = camera
  None = None
  MaxJoins = 2
  MaxNews = 0
  MaxClicks = 0
SYMMETRY Swap
INVARIANTS
  SentIsTagged
