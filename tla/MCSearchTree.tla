----------------------------- MODULE MCSearchTree -----------------------------
(***************************************************************************)
(* SearchTree on functions of three inputs, and on functions of four of    *)
(* which both parts of a division can be divided again.                    *)
(***************************************************************************)
EXTENDS SearchTree

Three == {[ins |-> {1, 2, 3}, on |-> {{1}, {2, 3}, {1, 2, 3}} \cup X]
            : X \in SUBSET {{2}, {1, 2}, {3}}}

XorAnd == [ins |-> 1..4,
           on  |-> {a \in SUBSET (1..4) : ((1 \in a) # (2 \in a)) /\ 3 \in a}]

\* Its best division is the last one there is.
LastIsBest == [ins |-> {1, 2, 3}, on |-> {{}, {2}, {1, 3}, {2, 3}}]

MCFunctions == Three \cup {LastIsBest, XorAnd}

MCSearches == [method : {"full", "bound", "bfs"}, ignoreXor : {FALSE}]
                \cup {[method |-> "bfs", ignoreXor |-> TRUE]}
=============================================================================
