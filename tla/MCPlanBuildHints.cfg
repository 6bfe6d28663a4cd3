\* A process whose command line lies in another worktree.
CONSTANTS
  p1 = p1
  p2 = p2
  w1 = w1
  w2 = w2
  Pids = {p1, p2}
  Worktrees = {w1, w2}
  Darwin = FALSE
  FactSets <- MCNoFacts
  HintSets <- MCHints
  MaxMoves = 0
  Outside = Outside
  Gone = Gone
  NoDirectory = NoDirectory
  NoPid = NoPid
  NoPlan = NoPlan
SYMMETRY MCSymmetry
SPECIFICATION Spec
INVARIANT CwdProtects
CHECK_DEADLOCK FALSE
