\* Three changes, wherever they fall; a value may return between the collections.
CONSTANTS
  Values <- MCValues
  Shape <- MCShape
  Bytes <- MCBytes
  MaximumBytes = 8
  Shared <- MCParts
  MaxChanges = 3
  NotRead = NotRead
  Empty = Empty
SPECIFICATION Spec
INVARIANTS ConsistentCopy ExpectedSource ExpectedParts WithinBudget NothingOnFailure
CHECK_DEADLOCK FALSE
