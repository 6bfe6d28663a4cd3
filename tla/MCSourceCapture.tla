---------------------------- MODULE MCSourceCapture ----------------------------
(* SourceCapture for TLC.  Values 0 and 1 look the same to `git status`, and *)
(* value 1 is larger.  Of the four roots, which are treated alike, one is    *)
(* replaced.                                                                *)
EXTENDS SourceCapture

MCValues == 0..2
MCShape  == [v \in MCValues |-> IF v = 2 THEN 1 ELSE 0]
MCBytes  == [v \in MCValues |-> IF v = 1 THEN 2 ELSE 1]
MCParts  == Cells \ {"repository", "common", "adminDir"}
================================================================================
