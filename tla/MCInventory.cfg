CONSTANTS
  A = A
  B = B
  NoRepo = NoRepo
  Irregular = Irregular
  NoDir = NoDir
  Dirs <- MCDirs
  Parent <- MCParent
  Repos <- MCRepos
  Primary <- MCPrimary
  Common <- MCCommon
  Ignored <- MCIgnored
  Worlds <- MCWorlds
  Requests <- MCRequests
  MaxChanges = 1
  MaxFaults = 1
  Workers = {w1, w2}
SPECIFICATION Spec
INVARIANTS TypeOK NothingInsideIsFree SilentInventoryIsComplete FailuresProtect
PROPERTY LoadEnds
CHECK_DEADLOCK FALSE
