SPECIFICATION Spec
CONSTANTS
  Me = me
  Others = {o1}
  Captures = {c1, c2}
  Camera = camera
  None = None
  MaxJoins = 2
  MaxNews = 2
  MaxClicks = 1
SYMMETRY Swap
CONSTRAINTS
  Unspoilt
  Behind
  Budget
INVARIANTS
  TypeOK
  CaptureKnown
  OnlyTheShareIsSent
  ShareIsLive
  ShareIsInSession
  FlagIsTrue
  StageFitsList
  MuteIsTrue
  HandIsTrue
