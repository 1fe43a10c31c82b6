--------------------------- MODULE MCNetAlgorithms ---------------------------
(***************************************************************************)
(* NetAlgorithms on every circuit of four two-input gates over two primary *)
(* inputs whose outputs are the gates nobody reads, and on every circuit   *)
(* of three such gates with any outputs.                                   *)
(***************************************************************************)
EXTENDS NetAlgorithms

Inputs == 1..2

Pairs(S) == {P \in SUBSET S : Cardinality(P) = 2}

\* The circuits over the gates G that read two other nodes each.
Dags(G) ==
  LET wirings == {f \in [G -> Pairs(Inputs \cup G)] : \A g \in G : g \notin f[g]}
  IN  {n \in {[pi |-> Inputs, gate |-> G, fanin |-> f,
               po |-> {g \in G : \A h \in G : g \notin f[h]}] : f \in wirings} : Acyclic(n)}

AnyOutputs(n) == {[n EXCEPT !.po = O] : O \in SUBSET n.gate \ {{}}}

MCCircuits == Dags(3..6) \cup UNION {AnyOutputs(n) : n \in Dags(3..5)}
=============================================================================
