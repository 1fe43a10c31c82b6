----------------------------- MODULE MCMffcDriver -----------------------------
(***************************************************************************)
(* MffcDriver on circuits of four inputs with cones that read one another, *)
(* cones that overlap, and an output inside a cone.                        *)
(***************************************************************************)
EXTENDS MffcDriver

Xor(S) == {X \in SUBSET S : Cardinality(X) \in {1, 3}}
And(S) == {S}

Circuit(po, fanin, fn) ==
  [pi |-> 1..4, po |-> po, gate |-> DOMAIN fanin, fanin |-> fanin, fn |-> fn,
   size |-> [g \in DOMAIN fanin |-> 1]]

Fanin(a, b, c, d, e) == [g \in 5..9 |-> CASE g = 5 -> a [] g = 6 -> b [] g = 7 -> c [] g = 8 -> d [] OTHER -> e]

\* 8 reads 6, which 9 reads, too: two cones of three inputs.
Cascade ==
  LET fanin == Fanin({1, 2}, {5, 3}, {6, 4}, {7, 1}, {6, 2})
  IN  Circuit({8, 9}, fanin, [g \in 5..9 |-> IF g \in {5, 7} THEN Xor(fanin[g]) ELSE And(fanin[g])])

\* The cone of 7 is part of that of 8 and has three inputs of its own.
Nested ==
  LET fanin == Fanin({1, 2}, {1, 3}, {5, 6, 4}, {7, 2}, {5, 6})
  IN  Circuit({8, 9}, fanin, [g \in 5..9 |-> IF g \in {7} THEN And(fanin[g]) ELSE Xor(fanin[g])])

\* The output 7 is only read by 8.
OutputInside ==
  LET fanin == Fanin({1, 2}, {5, 3}, {5, 4, 1}, {7, 2}, {6, 4})
  IN  Circuit({7, 8, 9}, fanin, [g \in 5..9 |-> Xor(fanin[g])])

MCCircuits == {Cascade, Nested, OutputInside}

\* At most one term is wrong; the netlist may be of another function.
MCAnswers(table, inputs) ==
  LET flip(b) == (table \ {b}) \cup ({b} \ table)
  IN  [fun : {table} \cup {flip(b) : b \in SUBSET inputs}, nNode : {2}, nLine : {2}, agrees : {TRUE}]
        \cup {[fun |-> {}, nNode |-> 0, nLine |-> 1, agrees |-> TRUE],
              [fun |-> table, nNode |-> 4, nLine |-> 5, agrees |-> TRUE],
              [fun |-> table, nNode |-> 4, nLine |-> 4, agrees |-> FALSE]}

\* Eight vectors: one half of all, the other half, or both in part and some
\* of them twice.
MCDraws(inputs) ==
  LET all == [j \in 1..8 |-> {i \in inputs \ {1} : (j \div 2^(i - 2)) % 2 = 1}]
  IN  {all, [j \in 1..8 |-> all[j] \cup {1}],
       [j \in 1..8 |-> IF j <= 4 THEN all[j] \cup {1} ELSE all[(j % 2) + 1]]}
=============================================================================
