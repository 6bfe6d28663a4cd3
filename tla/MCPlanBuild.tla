------------------------------ MODULE MCPlanBuild ------------------------------
(* PlanBuild for TLC.                                                        *)
EXTENDS PlanBuild, TLC

MCNoFacts  == {{}}
MCFacts    == {{}, {"unproven"}, {"detached"}, {"unknown_git_state", "recent"}}
MCNoHints  == {{}}
MCHints    == {{}} \cup {{w} : w \in Worktrees}
MCSymmetry == Permutations(Pids) \cup Permutations(Worktrees)
================================================================================
