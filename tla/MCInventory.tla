------------------------------ MODULE MCInventory ------------------------------
(* Inventory for TLC:                                                          *)
(*   1 t  the top          2 t/a  main worktree of A   3 t/w  worktree of A    *)
(*   4 t/w/node_modules    5 t/z  main worktree of B                           *)
(*   6 t/z/x  where A keeps its common directory (git init --separate-git-dir) *)
(* There is a stale marker in 4; 7 is t/y, which nobody has made yet.          *)
EXTENDS Inventory, TLC

CONSTANTS A, B

MCDirs    == 1..7
MCParent  == <<1, 1, 1, 3, 1, 5, 1>>
MCRepos   == {A, B}
MCPrimary == [r \in MCRepos |-> IF r = A THEN 2 ELSE 5]
MCCommon  == [r \in MCRepos |-> IF r = A THEN 6 ELSE -5]
MCIgnored == {4}

MCWorlds == {[exists     |-> 1..6,
              marker     |-> <<NoRepo, A, A, B, B, NoRepo, NoRepo>>,
              registered |-> [r \in MCRepos |-> IF r = A THEN {2, 3} ELSE {5}]]}

(* All of the tree; a root that lies in B; two roots, with the data directory  *)
(* where A keeps its metadata; the data directory in a worktree; a root in the *)
(* data directory, which is passed over.                                       *)
MCRequests == {[roots |-> {1}, cwd |-> 1, data |-> NoDir],
               [roots |-> {6}, cwd |-> 6, data |-> NoDir],
               [roots |-> {3, 5}, cwd |-> 1, data |-> 6],
               [roots |-> {2}, cwd |-> 1, data |-> 3],
               [roots |-> {6}, cwd |-> 1, data |-> 6]}
================================================================================
