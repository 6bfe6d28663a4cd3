\* Two publishers of one destination and a reader, a power loss; while only one
\* of the publishers has begun, others change the directories twice.
CONSTANTS
  p1 = p1
  p2 = p2
  s1 = s1
  s2 = s2
  Publishers = {p1, p2}
  N = 2
  StagingNames = {s1, s2}
  Dest = Dest
  Others = Others
  NoEntry = NoEntry
  MaxTries = 2
  MaxChanges = 2
  MaxRivals = 1
  MaxLosses = 1
SYMMETRY MCSymmetry
SPECIFICATION ReadSpec
INVARIANTS WholeOrAbsent ReceiptIsTrue ReadIsThere
PROPERTIES ImplementsWriteOnceFile RecoveryCopyKept RemovesOnlySealed
CHECK_DEADLOCK FALSE
