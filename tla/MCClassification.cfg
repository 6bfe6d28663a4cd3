\* Any two pieces of evidence after any worktree.
CONSTANTS
  WorktreeFacts <- MCFacts
  Policies <- MCPolicies
  ProcessRecords <- MCProcesses
  AgentRecords <- MCAgents
  AdapterRecords <- MCAdapters
  MaxPieces = 2
SPECIFICATION EvidenceSpec
INVARIANT DocumentedButUnsigned
PROPERTY EvidenceOnlyProtects
CHECK_DEADLOCK FALSE
