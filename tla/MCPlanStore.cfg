\* Three processes, two identifiers, a clock that moves and may be set back.
CONSTANTS
  Procs = {p1, p2, p3}
  Ids = {1, 2}
  Ttls = {2}
  MaxTime = 2
  NoKey = NoKey
  BadKey = BadKey
  NoPlan = NoPlan
  Damaged = Damaged
  ClockMayStepBack = TRUE
SYMMETRY ProcSymmetry
SPECIFICATION Spec
INVARIANTS IntegrityErrorsAreReal AnswersAreSaved
PROPERTIES ReturnedIsCurrent LatestIsNewest
CHECK_DEADLOCK FALSE
