-------------------------------- MODULE MinSet --------------------------------
(***************************************************************************)
(* MinSet of newApprox/src/min_set.h, statement by statement: a vector     *)
(* with the smallest items pushed, in order.  push moves the greater items *)
(* to temp, puts the new one behind the others, moves them back, and drops *)
(* the last when there are more than len.                                  *)
(*                                                                         *)
(* An item is a Kmap::BestApprox, of which operator > compares the error   *)
(* count; turn tells when it was pushed.                                   *)
(***************************************************************************)
EXTENDS Naturals, Sequences, FiniteSets

CONSTANTS
  len,    \* the size of the set
  Errors  \* the error counts there are

ASSUME MinSetAssumption == len \in Nat /\ Errors \subseteq Nat

VARIABLES
  data,  \* the vector
  temp,  \* the items push moved away
  item,  \* the item that is pushed last
  step,  \* where push is
  turn   \* how many items were pushed

minSetVars == <<data, temp, item, step, turn>>

Item == [errorCount : Errors, turn : Nat \ {0}]

Back(s) == s[Len(s)]
PopBackOf(s) == SubSeq(s, 1, Len(s) - 1)

MinSetInit ==
  /\ data = <<>> /\ temp = <<>>
  /\ item = [errorCount |-> 0, turn |-> 0]
  /\ step = "idle"
  /\ turn = 0

-----------------------------------------------------------------------------
\* push(t) is called.
Push(e) ==
  /\ step = "idle"
  /\ turn' = turn + 1
  /\ item' = [errorCount |-> e, turn |-> turn + 1]
  /\ temp' = <<>>
  /\ step' = "pop"
  /\ UNCHANGED data

\* Mutant of IsGreater: >= for >.
IsGreaterOrEqual(a, b) == a.errorCount >= b.errorCount

\* operator >
IsGreater(a, b) == a.errorCount > b.errorCount

BackIsGreater == data # <<>> /\ IsGreater(Back(data), item)

\* An iteration of the first loop.
MoveAway ==
  /\ step = "pop" /\ BackIsGreater
  /\ temp' = Append(temp, Back(data))
  /\ data' = PopBackOf(data)
  /\ UNCHANGED <<item, step, turn>>

PushBack ==
  /\ step = "pop" /\ ~BackIsGreater
  /\ data' = Append(data, item)
  /\ step' = "restore"
  /\ UNCHANGED <<temp, item, turn>>

\* Mutant of MoveBack: temp is read from its front.
MoveBackFront ==
  /\ step = "restore" /\ temp # <<>>
  /\ data' = Append(data, Head(temp))
  /\ temp' = Tail(temp)
  /\ UNCHANGED <<item, step, turn>>

\* An iteration of the second loop.
MoveBack ==
  /\ step = "restore" /\ temp # <<>>
  /\ data' = Append(data, Back(temp))
  /\ temp' = PopBackOf(temp)
  /\ UNCHANGED <<item, step, turn>>

\* Mutant of Trimmed: nothing is dropped.
TrimmedNever(s) == s

Trimmed(s) == IF Len(s) > len THEN PopBackOf(s) ELSE s

Trim ==
  /\ step = "restore" /\ temp = <<>>
  /\ data' = Trimmed(data)
  /\ step' = "idle"
  /\ UNCHANGED <<temp, item, turn>>

PushSteps == MoveAway \/ PushBack \/ MoveBack \/ Trim

\* popBack, which the caller only calls when there is an item.
PopBack ==
  /\ step = "idle" /\ data # <<>>
  /\ data' = PopBackOf(data)
  /\ UNCHANGED <<temp, item, step, turn>>

MinSetNext == PushSteps \/ PopBack \/ \E e \in Errors : Push(e)

MinSetSpec == MinSetInit /\ [][MinSetNext]_minSetVars

-----------------------------------------------------------------------------
\* All items, in order: those of temp are read from its back.
Count == Len(data) + Len(temp)
All(k) == IF k <= Len(data) THEN data[k] ELSE temp[Count + 1 - k]

\* The items of the abstract collection.  The new one belongs to it from the
\* moment it is in data, the item that Trim will drop does not any more.
Kept == {All(k) : k \in {n \in 1..Count : n <= len}}

\* The abstract turn is counted then, too.
Turn == IF step = "pop" THEN turn - 1 ELSE turn

BK == INSTANCE BestK WITH K <- len, kept <- Kept, turn <- Turn

\* push and popBack, step by step, keep the len best items: taking the
\* greater items out of the vector and putting them back loses and reorders
\* none, and what is dropped is the worst.
ImplementsBestK == BK!Spec
=============================================================================
