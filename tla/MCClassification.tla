--------------------------- MODULE MCClassification ---------------------------
(* Classification for TLC: grade 1 is worse than the minimum, 0 is not.      *)
EXTENDS Classification

MCFacts == {{}, {"recent"}, {"detached"}, {"recent", "detached"}, {"unproven"}, {"dirty"}}
MCPolicies == [valid : {TRUE}, minimum : {0}] \cup [valid : {FALSE}, minimum : {0}]
MCProcesses == [state : {"active", "unknown"}, error : BOOLEAN]
MCAgents ==
  [state : {"active", "idle", "archived", "not_applicable", "unknown"},
   latest : {"recent", "old", "none"}, warned : {FALSE}, session : {NoSession, "s"},
   place : {"here", "there"}, grade : {0, 1}]
  \cup [state : {"idle"}, latest : {"old"}, warned : {TRUE}, session : {"s"}, place : {"here"}, grade : {0}]
MCAdapters ==
  [applicable : BOOLEAN, healthy : BOOLEAN, error : BOOLEAN, offline : BOOLEAN,
   trusted : BOOLEAN, grade : {0, 1}]
================================================================================
