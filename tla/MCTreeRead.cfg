\* A tree of four entries read whole or in part while others change it twice.
CONSTANTS
  Objects <- MCObjects
  Above = 1
  Top = 1
  Names <- MCNames
  Nowhere = Nowhere
  FirstTrees <- MCFirstTrees
  Selections <- MCSelections
  Required = {1}
  MaxEntries = 4
  MaxBytes = 2
  MaxSize = 2
  MaxDepth = 4
  MaxChanges = 2
SPECIFICATION Spec
INVARIANTS TreeOfOneMoment WithinLimits
CHECK_DEADLOCK FALSE
