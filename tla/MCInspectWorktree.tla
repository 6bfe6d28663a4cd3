-------------------------- MODULE MCInspectWorktree --------------------------
(* InspectWorktree for TLC: two repositories, one with a linked worktree.    *)
EXTENDS InspectWorktree

CONSTANTS r1, r2, main1, link1, main2, b1, c1, c2

MCOwner == [a \in {main1, link1, main2} |-> IF a = main2 THEN r2 ELSE r1]
MCMain  == [r \in {r1, r2} |-> IF r = r1 THEN main1 ELSE main2]
MCListings == [primary : BOOLEAN, branch : {b1, Detached}, commit : {c1}]
================================================================================
