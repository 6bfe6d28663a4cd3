\* Darwin: the process table is compared before and after.
CONSTANTS
  p1 = p1
  p2 = p2
  w1 = w1
  Pids = {p1, p2}
  Worktrees = {w1}
  Darwin = TRUE
  FactSets <- MCFacts
  HintSets <- MCNoHints
  MaxMoves = 3
  Outside = Outside
  Gone = Gone
  NoDirectory = NoDirectory
  NoPid = NoPid
  NoPlan = NoPlan
SYMMETRY MCSymmetry
SPECIFICATION Spec
INVARIANTS TypeOK LiveProcessProtects SilentMeansComplete
CHECK_DEADLOCK FALSE
