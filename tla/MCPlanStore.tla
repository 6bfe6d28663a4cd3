------------------------------ MODULE MCPlanStore ------------------------------
(* PlanStore for TLC.                                                       *)
EXTENDS PlanStore, TLC

(* Processes are interchangeable: each draws its own key and no step        *)
(* compares two of them by anything but equality.                           *)
ProcSymmetry == Permutations(Procs)
================================================================================
