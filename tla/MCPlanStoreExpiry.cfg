\* Two lifetimes: the newest plan may expire first, while Latest is loading.
CONSTANTS
  Procs = {p1, p2, p3}
  Ids = {1, 2}
  Ttls = {1, 2}
  MaxTime = 1
  NoKey = NoKey
  BadKey = BadKey
  NoPlan = NoPlan
  Damaged = Damaged
  ClockMayStepBack = FALSE
SYMMETRY ProcSymmetry
SPECIFICATION Spec
PROPERTIES LatestFindsUnexpired
CHECK_DEADLOCK FALSE
