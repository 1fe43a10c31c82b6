------------------------------- MODULE MCSweep -------------------------------
(***************************************************************************)
(* Sweep on four hand-made circuits.                                       *)
(***************************************************************************)
EXTENDS Sweep, TLC

\* 5 is read by both branches of 8, so it is a cone of its own that the
\* cones of 6 and 7 read; the cone of 8 has too many inputs to be selected.
Reconvergent ==
  [pi |-> 1..4, po |-> {8}, gate |-> 5..8,
   fanin |-> (5 :> {1, 2}) @@ (6 :> {3, 5}) @@ (7 :> {4, 5}) @@ (8 :> {6, 7})]

\* Names against the topology, a constant (4), and a gate nobody reads (5).
Reversed ==
  [pi |-> 6..8, po |-> {3}, gate |-> 1..5,
   fanin |-> (1 :> {2, 8}) @@ (2 :> {6, 7}) @@ (3 :> {1, 4}) @@ (4 :> {}) @@ (5 :> {6, 8})]

\* An output inside the cone of another output.
InnerOutput ==
  [pi |-> 1..3, po |-> {4, 5}, gate |-> 4..5,
   fanin |-> (4 :> {1, 2}) @@ (5 :> {3, 4})]

\* Nested cones, the widest of which filterMffcBySize removes.
Chain ==
  [pi |-> 1..5, po |-> {9}, gate |-> 6..9,
   fanin |-> (6 :> {1, 2}) @@ (7 :> {3, 6}) @@ (8 :> {4, 7}) @@ (9 :> {5, 8})]

MCNets == {Reconvergent, Reversed, InnerOutput, Chain}

\* With a depth bonus of 9/10, 11 errors pass RELAXED = 8 two wires away
\* from an output and not closer.
MCMatch == [errorCount : {0, 3, 11}, nNode : {1, 2}]

\* Below, at and above TIGHT = 4.
MCMeasured == {0, 3, 4, 5}
=============================================================================
