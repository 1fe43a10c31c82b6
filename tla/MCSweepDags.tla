----------------------------- MODULE MCSweepDags -----------------------------
(***************************************************************************)
(* One round of Sweep on every circuit of four two-input gates over two    *)
(* primary inputs, whatever the order of the names; the outputs are the    *)
(* gates nobody reads.                                                     *)
(***************************************************************************)
EXTENDS Sweep

Inputs == 1..2
Gates == 3..6

Pairs == {S \in SUBSET (Inputs \cup Gates) : Cardinality(S) = 2}

Wirings == {f \in [Gates -> Pairs] : \A g \in Gates : g \notin f[g]}

Circuit(f) ==
  [pi |-> Inputs, gate |-> Gates, fanin |-> f,
   po |-> {g \in Gates : \A h \in Gates : g \notin f[h]}]

DagNets == {n \in {Circuit(f) : f \in Wirings} : Acyclic(n)}

\* An exact match, and one that is out of the question.
DagMatch == {[errorCount |-> 0, nNode |-> 9], [errorCount |-> 30, nNode |-> 9]}

DagMeasured == {0}
=============================================================================
