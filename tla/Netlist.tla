------------------------------- MODULE Netlist -------------------------------
(***************************************************************************)
(* The combinational circuit a BlifBooleanNet holds, and the cones that    *)
(* circuit/net_algorithms.cpp takes of it.                                 *)
(*                                                                         *)
(* A circuit is a record.  Its nodes are numbers: the maps and sets of the *)
(* code are ordered by node name, and the order of the numbers stands for  *)
(* the order of the names, which need not agree with the topology.         *)
(*                                                                         *)
(*   pi      the primary inputs            (BNET_INPUT_NODE)               *)
(*   po      the names listed as outputs                                   *)
(*   gate    the nodes driven by a .names, constants included              *)
(*   fanin   the signals each gate reads; empty for a constant             *)
(*                                                                         *)
(* The functions of the gates are not part of this module: a cone depends  *)
(* only on who reads whom.  Everything here is a definition without        *)
(* recursion, so that the cones can be reasoned about; NetAlgorithms       *)
(* models the loops that compute them.                                     *)
(***************************************************************************)
EXTENDS Naturals, FiniteSets

Node(net) == net.pi \cup net.gate

FaninOf(net, n) == IF n \in net.gate THEN net.fanin[n] ELSE {}

\* A listed output is not a fanout: only a .names line that reads n is one.
Fanouts(net, n) == {g \in net.gate : n \in net.fanin[g]}

\* The sets of gates that hold, with a gate, the gates it reads.
ClosedGates(net) ==
  {X \in SUBSET net.gate : \A g \in X : net.fanin[g] \cap net.gate \subseteq X}

\* getFaninSet: for each node the cone of what it transitively reads.  The
\* gates of a cone are those in every closed set that holds its root.
FaninSet(net) ==
  [n \in Node(net) |->
     IF n \in net.pi THEN {n}
     ELSE LET closed == {X \in ClosedGates(net) : n \in X}
              gates  == {g \in net.gate : \A X \in closed : g \in X}
          IN  gates \cup UNION {net.fanin[g] : g \in gates}]

\* No combinational cycle: among any gates there is one that reads no other.
Acyclic(net) ==
  \A X \in SUBSET net.gate : X # {} => \E g \in X : net.fanin[g] \cap X = {}

IsNetlist(net) ==
  /\ net.pi \subseteq Nat /\ net.gate \subseteq Nat
  /\ net.pi \cap net.gate = {}
  /\ net.fanin \in [net.gate -> SUBSET Node(net)]
  /\ net.po \subseteq Node(net)

\* Mutant of Escaping: only the nodes that n itself reads are looked at.
EscapingDirectOnly(net, cone, n) ==
  {m \in FaninOf(net, n) : ~(Fanouts(net, m) \subseteq cone[n])}

\* Nodes of the cone of n that something outside of it reads.
Escaping(net, cone, n) ==
  LET c == cone[n] IN {m \in c \ {n} : ~(Fanouts(net, m) \subseteq c)}

\* Mutant of Mffc: only the escaping nodes are erased, not their cones.
MffcErasingEscapingOnly(net, cone, n) == cone[n] \ Escaping(net, cone, n)

\* getMffcSet: the cone of n, without the cones of the nodes that escape.
Mffc(net, cone, n) == cone[n] \ UNION {cone[m] : m \in Escaping(net, cone, n)}

\* getInputFromSet: a source of the set is its own input, a gate
\* contributes the primary inputs and the outside nodes it reads.
InputFromSet(net, S) ==
  {m \in S : FaninOf(net, m) = {}}
    \cup {m \in UNION {FaninOf(net, n) : n \in S} : m \in net.pi \/ m \notin S}

\* One entry of getFFC: the nodes that a replacement of the root removes,
\* and the signals the replacement may read.
Ffc(net, cone, r) ==
  LET m == Mffc(net, cone, r)
      inputs == InputFromSet(net, m)
  IN  [name |-> r, nodeSet |-> m \ inputs, inputNode |-> inputs]

\* The std::map from name to FFC that getFFC returns.
GetFFC(net) ==
  LET cone == FaninSet(net) IN [r \in Node(net) |-> Ffc(net, cone, r)]

\* What can be reached from S against the direction of the wires in at
\* most k steps.
Within(net, S, k) ==
  LET reach[i \in 0..k] ==
        IF i = 0 THEN S
        ELSE LET near == reach[i - 1]
             IN  near \cup UNION {FaninOf(net, n) : n \in near}
  IN  reach[k]

\* depth2Output: the keys are the nodes an output depends on, the value is
\* the number of wires on a shortest way to an output.
Depth2Output(net) ==
  LET K == Cardinality(Node(net))
  IN  [n \in Within(net, net.po, K) |->
         CHOOSE k \in 0..K :
            /\ n \in Within(net, net.po, k)
            /\ \A j \in 0..(k - 1) : n \notin Within(net, net.po, j)]
=============================================================================
