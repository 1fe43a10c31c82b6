-------------------------------- MODULE BestK ---------------------------------
(***************************************************************************)
(* What a bounded priority collection promises: of the items it is offered *)
(* it keeps the K with the fewest errors, the earlier ones of a tie, and   *)
(* it gives the worst of them away first.                                  *)
(***************************************************************************)
EXTENDS Naturals, FiniteSets

CONSTANTS
  K,      \* how many items are kept, a natural number
  Errors  \* the error counts an item can have, natural numbers

VARIABLES
  kept,  \* the items
  turn   \* how many were offered so far

Item == [errorCount : Errors, turn : Nat \ {0}]

Before(a, b) == \/ a.errorCount < b.errorCount
                \/ a.errorCount = b.errorCount /\ a.turn < b.turn

IsWorst(x, S) == x \in S /\ \A y \in S \ {x} : Before(y, x)

Init == kept = {} /\ turn = 0

\* When there is no room for one more, the worst has to go.
Offer(e) ==
  LET all == kept \cup {[errorCount |-> e, turn |-> turn + 1]}
  IN  /\ turn' = turn + 1
      /\ \/ Cardinality(kept) < K /\ kept' = all
         \/ /\ Cardinality(kept) = K
            /\ \E x \in all : IsWorst(x, all) /\ kept' = all \ {x}

Take ==
  /\ \E x \in kept : IsWorst(x, kept) /\ kept' = kept \ {x}
  /\ UNCHANGED turn

Next == Take \/ \E e \in Errors : Offer(e)

Spec == Init /\ [][Next]_<<kept, turn>>
=============================================================================
