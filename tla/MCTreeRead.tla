------------------------------ MODULE MCTreeRead ------------------------------
(* TreeRead for TLC: a root with a file and a directory, which has a file or *)
(* a link; a file and a directory that are not yet anywhere.                 *)
EXTENDS TreeRead

MCNames == 1..2

Dir(a, b) == [kind |-> "dir", at |-> 0, size |-> 0, child |-> <<a, b>>]
Leaf(kind) == [kind |-> kind, at |-> 0, size |-> 1, child |-> <<Nowhere, Nowhere>>]

MCObjects == 1..7

Tree(kind) == <<Dir(2, Nowhere), Dir(3, 4), Leaf("file"), Dir(5, Nowhere), Leaf(kind),
                Leaf("file"), Dir(Nowhere, Nowhere)>>

MCFirstTrees == {Tree("file"), Tree("link")}

MCSelections == {Whole, {<<1>>, <<2, 1>>}, {<<2, 1>>}, {<<1>>, <<2>>}, {<<2>>, <<2, 1>>}}
===============================================================================
