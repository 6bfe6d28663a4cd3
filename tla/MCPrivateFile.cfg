\* Two writers, one reader, a power loss: every interleaving of the calls,
\* each of which returns.
CONSTANTS
  Writers = {w1, w2}
  Readers = {r1}
  StagingNames = {s1, s2}
  NoFile = NoFile
  Size = 2
  Limit = 2
  MaxTries = 2
  MaxLosses = 1
SPECIFICATION FairSpec
INVARIANTS TypeOK NoTornRead ReportMatchesDirectory StagedFileIsKept
PROPERTIES FinalNeverReplaced ImplementsWriteOnceFile WritersEnd
CHECK_DEADLOCK FALSE
