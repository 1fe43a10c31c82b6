-------------------------- MODULE DecomposeTheorems ---------------------------
(***************************************************************************)
(* MinSet is a BestK, for every size and every set of error counts, and    *)
(* what searchPrcoe, which uses one, answers, for any number of inputs and *)
(* any estimates.                                                          *)
(***************************************************************************)
EXTENDS Decompose, FiniteSetTheorems, SequenceTheorems, Functions, TLAPS

(***************************************************************************)
(* MinSet.  The invariant says that data followed by temp, read from its   *)
(* back, is strictly ordered all the time: what the loops of push move     *)
(* from one to the other leaves this sequence as it is.                    *)
(***************************************************************************)

\* All, of any two sequences.
AllOf(d, t, k) == IF k <= Len(d) THEN d[k] ELSE t[Len(d) + Len(t) + 1 - k]

MTypeOK ==
  /\ data \in Seq(Item) /\ temp \in Seq(Item)
  /\ turn \in Nat
  /\ step \in {"idle", "pop", "restore"}
  /\ step # "idle" => item \in Item /\ item.turn = turn

Ordered == \A j, k \in 1..Count : j < k => BK!Before(All(j), All(k))

PushedBefore == \A k \in 1..Count : All(k).turn <= Turn

Sizes ==
  /\ step = "idle" => temp = <<>> /\ Len(data) <= len
  /\ step = "pop" => Count <= len
  /\ step = "restore" => Count <= len + 1

GreaterMoved ==
  step = "pop" => \A k \in 1..Len(temp) : temp[k].errorCount > item.errorCount

MInv == MTypeOK /\ Ordered /\ PushedBefore /\ Sizes /\ GreaterMoved

-----------------------------------------------------------------------------
\* The back of a vector goes to the back of another.
LEMMA BackMoves ==
  ASSUME NEW d \in Seq(Item), NEW t \in Seq(Item), d # <<>>
  PROVE  /\ Back(d) \in Item
         /\ PopBackOf(d) \in Seq(Item) /\ Len(PopBackOf(d)) = Len(d) - 1
         /\ \A k \in 1..(Len(d) - 1) : PopBackOf(d)[k] = d[k]
         /\ Append(t, Back(d)) \in Seq(Item) /\ Len(Append(t, Back(d))) = Len(t) + 1
         /\ \A k \in 1..Len(t) : Append(t, Back(d))[k] = t[k]
         /\ Append(t, Back(d))[Len(t) + 1] = Back(d)
         /\ Len(d) \in Nat \ {0} /\ Len(t) \in Nat
<1>1. Len(d) \in Nat \ {0} /\ Len(t) \in Nat
  BY EmptySeq, LenProperties
<1>2. Back(d) \in Item
  BY <1>1, ElementOfSeq DEF Back
<1>3. /\ PopBackOf(d) \in Seq(Item) /\ Len(PopBackOf(d)) = Len(d) - 1
      /\ \A k \in 1..(Len(d) - 1) : PopBackOf(d)[k] = d[k]
  <2>1. \A k \in 1..(Len(d) - 1) : d[k] \in Item
    BY <1>1, ElementOfSeq
  <2>2. /\ SubSeq(d, 1, Len(d) - 1) \in Seq(Item)
        /\ Len(SubSeq(d, 1, Len(d) - 1)) = Len(d) - 1
        /\ \A k \in 1..(Len(d) - 1) : SubSeq(d, 1, Len(d) - 1)[k] = d[k]
    <3> DEFINE n == Len(d) - 1
    <3>1. 1 \in Int /\ n \in Int /\ n \in Nat /\ \A k \in 1..n : d[k] \in Item
      BY <1>1, <2>1
    <3> HIDE DEF n
    <3>2. SubSeq(d, 1, n) \in Seq(Item)
      BY <3>1
    <3>3. Len(SubSeq(d, 1, n)) = n
      BY <3>1
    <3>4. \A k \in 1..n : SubSeq(d, 1, n)[k] = d[k]
      BY <3>1
    <3> QED
      BY <3>2, <3>3, <3>4 DEF n
  <2> QED
    BY <2>2 DEF PopBackOf
<1> QED
  BY <1>1, <1>2, <1>3, AppendProperties

\* MoveAway changes nothing in the whole sequence.
LEMMA AllMovedAway ==
  ASSUME NEW d \in Seq(Item), NEW t \in Seq(Item), d # <<>>,
         NEW k \in 1..(Len(d) + Len(t))
  PROVE  /\ Len(PopBackOf(d)) + Len(Append(t, Back(d))) = Len(d) + Len(t)
         /\ AllOf(PopBackOf(d), Append(t, Back(d)), k) = AllOf(d, t, k)
<1>1. /\ PopBackOf(d) \in Seq(Item) /\ Len(PopBackOf(d)) = Len(d) - 1
      /\ \A j \in 1..(Len(d) - 1) : PopBackOf(d)[j] = d[j]
      /\ Append(t, Back(d)) \in Seq(Item) /\ Len(Append(t, Back(d))) = Len(t) + 1
      /\ \A j \in 1..Len(t) : Append(t, Back(d))[j] = t[j]
      /\ Append(t, Back(d))[Len(t) + 1] = Back(d)
      /\ Len(d) \in Nat \ {0} /\ Len(t) \in Nat
  BY BackMoves
<1>2. CASE k < Len(d)
  BY <1>1, <1>2 DEF AllOf
<1>3. CASE k = Len(d)
  BY <1>1, <1>3 DEF AllOf, Back
<1>4. CASE k > Len(d)
  BY <1>1, <1>4 DEF AllOf
<1> QED
  BY <1>1, <1>2, <1>3, <1>4

\* Nor does MoveBack.
LEMMA AllMovedBack ==
  ASSUME NEW d \in Seq(Item), NEW t \in Seq(Item), t # <<>>,
         NEW k \in 1..(Len(d) + Len(t))
  PROVE  /\ Len(Append(d, Back(t))) + Len(PopBackOf(t)) = Len(d) + Len(t)
         /\ AllOf(Append(d, Back(t)), PopBackOf(t), k) = AllOf(d, t, k)
<1>1. /\ PopBackOf(t) \in Seq(Item) /\ Len(PopBackOf(t)) = Len(t) - 1
      /\ \A j \in 1..(Len(t) - 1) : PopBackOf(t)[j] = t[j]
      /\ Append(d, Back(t)) \in Seq(Item) /\ Len(Append(d, Back(t))) = Len(d) + 1
      /\ \A j \in 1..Len(d) : Append(d, Back(t))[j] = d[j]
      /\ Append(d, Back(t))[Len(d) + 1] = Back(t)
      /\ Len(t) \in Nat \ {0} /\ Len(d) \in Nat
  BY BackMoves
<1>2. CASE k <= Len(d)
  BY <1>1, <1>2 DEF AllOf
<1>3. CASE k = Len(d) + 1
  BY <1>1, <1>3 DEF AllOf, Back
<1>4. CASE k > Len(d) + 1
  BY <1>1, <1>4 DEF AllOf
<1> QED
  BY <1>1, <1>2, <1>3, <1>4

\* PushBack puts the new item between the two.
LEMMA AllPushed ==
  ASSUME NEW d \in Seq(Item), NEW t \in Seq(Item), NEW x \in Item,
         NEW k \in 1..(Len(d) + Len(t) + 1)
  PROVE  /\ Append(d, x) \in Seq(Item) /\ Len(Append(d, x)) = Len(d) + 1
         /\ AllOf(Append(d, x), t, k) = IF k <= Len(d) THEN AllOf(d, t, k)
                                        ELSE IF k = Len(d) + 1 THEN x
                                        ELSE AllOf(d, t, k - 1)
<1>1. /\ Append(d, x) \in Seq(Item) /\ Len(Append(d, x)) = Len(d) + 1
      /\ \A j \in 1..Len(d) : Append(d, x)[j] = d[j]
      /\ Append(d, x)[Len(d) + 1] = x
      /\ Len(d) \in Nat /\ Len(t) \in Nat
  BY AppendProperties, LenProperties
<1>2. CASE k <= Len(d)
  BY <1>1, <1>2 DEF AllOf
<1>3. CASE k = Len(d) + 1
  BY <1>1, <1>3 DEF AllOf
<1>4. CASE k > Len(d) + 1
  BY <1>1, <1>4 DEF AllOf
<1> QED
  BY <1>1, <1>2, <1>3, <1>4

\* Every member of the sequence is an item.
LEMMA AllAreItems ==
  ASSUME NEW d \in Seq(Item), NEW t \in Seq(Item), NEW k \in 1..(Len(d) + Len(t))
  PROVE  /\ AllOf(d, t, k) \in Item
         /\ AllOf(d, t, k).errorCount \in Nat /\ AllOf(d, t, k).turn \in Nat \ {0}
<1>1. AllOf(d, t, k) \in Item
  BY LenProperties, ElementOfSeq DEF AllOf
<1> QED
  BY <1>1, MinSetAssumption DEF Item

\* The definitions of the model are those of AllOf, in both states.
LEMMA AllIsAllOf ==
  /\ Count = Len(data) + Len(temp) /\ Count' = Len(data') + Len(temp')
  /\ \A k : All(k) = AllOf(data, temp, k) /\ All(k)' = AllOf(data', temp', k)
BY DEF All, AllOf, Count

-----------------------------------------------------------------------------
\* An empty vector has no items.
LEMMA EmptyVector == <<>> \in Seq(Item) /\ Len(<<>>) = 0
BY EmptySeq

LEMMA InitInv == MinSetInit => MInv
<1> SUFFICES ASSUME MinSetInit PROVE MInv
  OBVIOUS
<1>1. Count = 0
  BY EmptyVector DEF MinSetInit, Count
<1> QED
  BY <1>1, EmptyVector, MinSetAssumption
     DEF MinSetInit, MInv, MTypeOK, Ordered, PushedBefore, Sizes, GreaterMoved

\* What MInv says, of AllOf.
LEMMA InvOfAll ==
  ASSUME MInv
  PROVE  /\ Count = Len(data) + Len(temp) /\ Count \in Nat
         /\ Len(data) \in Nat /\ Len(temp) \in Nat
         /\ \A k \in 1..Count : /\ AllOf(data, temp, k) \in Item
                               /\ AllOf(data, temp, k).errorCount \in Nat
                               /\ AllOf(data, temp, k).turn \in Nat \ {0}
                               /\ AllOf(data, temp, k).turn <= Turn
         /\ \A j, k \in 1..Count : j < k =>
              BK!Before(AllOf(data, temp, j), AllOf(data, temp, k))
<1>1. data \in Seq(Item) /\ temp \in Seq(Item) /\ Len(data) \in Nat /\ Len(temp) \in Nat
  BY LenProperties DEF MInv, MTypeOK
<1> QED
  BY <1>1, AllAreItems, AllIsAllOf DEF MInv, Ordered, PushedBefore

\* The same sequence, and the same turn, keep the order.
LEMMA SameAllKeepsOrder ==
  ASSUME MInv, Count' = Count, Turn' = Turn,
         \A k \in 1..Count : AllOf(data', temp', k) = AllOf(data, temp, k)
  PROVE  Ordered' /\ PushedBefore'
<1>1. \A k \in 1..Count' : All(k)' = All(k)
  BY AllIsAllOf
<1> QED
  BY <1>1 DEF MInv, Ordered, PushedBefore, BK!Before

LEMMA PushInv ==
  ASSUME MInv, NEW e \in Errors, Push(e)
  PROVE  MInv' /\ Count' = Count /\ Turn' = Turn
               /\ \A k \in 1..Count : AllOf(data', temp', k) = AllOf(data, temp, k)
<1>1. temp = <<>> /\ Len(data) <= len /\ data' = data /\ temp' = temp /\ turn \in Nat
  BY DEF MInv, MTypeOK, Sizes, Push
<1>2. /\ Count' = Count /\ Turn' = Turn
      /\ \A k \in 1..Count : AllOf(data', temp', k) = AllOf(data, temp, k)
  BY <1>1 DEF Push, Count, Turn
<1>3. MTypeOK'
  BY <1>1 DEF MInv, MTypeOK, Push, Item
<1>4. Ordered' /\ PushedBefore'
  BY <1>2, SameAllKeepsOrder
<1>5. Sizes' /\ GreaterMoved'
  BY <1>1, EmptyVector, InvOfAll, <1>2 DEF Sizes, GreaterMoved, Push
<1> QED
  BY <1>2, <1>3, <1>4, <1>5 DEF MInv

LEMMA MoveAwayInv ==
  ASSUME MInv, MoveAway
  PROVE  MInv' /\ Count' = Count /\ Turn' = Turn
               /\ \A k \in 1..Count : AllOf(data', temp', k) = AllOf(data, temp, k)
<1>1. /\ data \in Seq(Item) /\ temp \in Seq(Item) /\ data # <<>>
      /\ data' = PopBackOf(data) /\ temp' = Append(temp, Back(data))
      /\ Back(data).errorCount > item.errorCount
  BY DEF MInv, MTypeOK, MoveAway, BackIsGreater, IsGreater
<1>2. \A k \in 1..Count : AllOf(data', temp', k) = AllOf(data, temp, k)
  BY <1>1, AllMovedAway, InvOfAll
<1>3. Count' = Count /\ Turn' = Turn
  <2>1. /\ Len(data') = Len(data) - 1 /\ Len(temp') = Len(temp) + 1
        /\ Len(data) \in Nat /\ Len(temp) \in Nat
    BY <1>1, BackMoves
  <2> QED
    BY <2>1 DEF MoveAway, Count, Turn
<1>4. MTypeOK'
  BY <1>1, BackMoves DEF MInv, MTypeOK, MoveAway
<1>5. Ordered' /\ PushedBefore'
  BY <1>2, <1>3, SameAllKeepsOrder
<1>6. Sizes'
  BY <1>3 DEF MInv, Sizes, MoveAway
<1>7. GreaterMoved'
  <2>1. /\ Len(temp') = Len(temp) + 1 /\ temp'[Len(temp) + 1] = Back(data)
        /\ \A k \in 1..Len(temp) : temp'[k] = temp[k]
        /\ Len(temp) \in Nat
    BY <1>1, BackMoves
  <2>2. \A k \in 1..Len(temp) : temp[k].errorCount > item.errorCount
    BY DEF MInv, GreaterMoved, MoveAway
  <2>3. \A k \in 1..Len(temp') : temp'[k].errorCount > item.errorCount
    BY <2>1, <2>2, <1>1
  <2> QED
    BY <2>3 DEF GreaterMoved, MoveAway
<1> QED
  BY <1>2, <1>3, <1>4, <1>5, <1>6, <1>7 DEF MInv

LEMMA MoveBackInv ==
  ASSUME MInv, MoveBack
  PROVE  MInv' /\ Count' = Count /\ Turn' = Turn
               /\ \A k \in 1..Count : AllOf(data', temp', k) = AllOf(data, temp, k)
<1>1. /\ data \in Seq(Item) /\ temp \in Seq(Item) /\ temp # <<>>
      /\ data' = Append(data, Back(temp)) /\ temp' = PopBackOf(temp)
  BY DEF MInv, MTypeOK, MoveBack
<1>2. \A k \in 1..Count : AllOf(data', temp', k) = AllOf(data, temp, k)
  BY <1>1, AllMovedBack, InvOfAll
<1>3. Count' = Count /\ Turn' = Turn
  <2>1. /\ Len(temp') = Len(temp) - 1 /\ Len(data') = Len(data) + 1
        /\ Len(temp) \in Nat /\ Len(data) \in Nat
    BY <1>1, BackMoves
  <2> QED
    BY <2>1 DEF MoveBack, Count, Turn
<1>4. MTypeOK'
  BY <1>1, BackMoves DEF MInv, MTypeOK, MoveBack
<1>5. Ordered' /\ PushedBefore'
  BY <1>2, <1>3, SameAllKeepsOrder
<1>6. Sizes' /\ GreaterMoved'
  BY <1>3 DEF MInv, Sizes, MoveBack, GreaterMoved
<1> QED
  BY <1>2, <1>3, <1>4, <1>5, <1>6 DEF MInv

\* Where the new item goes: all of data are before it, all of temp after it.
LEMMA PlaceOfItem ==
  ASSUME MInv, step = "pop", ~BackIsGreater
  PROVE  /\ item \in Item /\ item.turn = Turn + 1 /\ item.errorCount \in Nat
         /\ Turn \in Nat
         /\ \A k \in 1..Len(data) : BK!Before(AllOf(data, temp, k), item)
         /\ \A k \in 1..Count : k > Len(data) => BK!Before(item, AllOf(data, temp, k))
<1>1. item \in Item /\ item.turn = turn /\ turn = Turn + 1 /\ item.errorCount \in Nat
      /\ turn \in Nat \ {0} /\ Turn \in Nat
  <2>1. item \in Item /\ item.turn = turn /\ turn \in Nat /\ Turn = turn - 1
    BY DEF MInv, MTypeOK, Turn
  <2>2. item.errorCount \in Errors /\ item.turn \in Nat \ {0}
    BY <2>1 DEF Item
  <2>3. item.errorCount \in Nat
    BY <2>2, MinSetAssumption
  <2>4. turn \in Nat \ {0} /\ turn = Turn + 1 /\ Turn \in Nat
    BY <2>1, <2>2
  <2> QED
    BY <2>1, <2>3, <2>4
<1>2. ASSUME NEW k \in 1..Len(data)
      PROVE  BK!Before(AllOf(data, temp, k), item)
  <2> DEFINE b == AllOf(data, temp, Len(data))
             x == AllOf(data, temp, k)
  <2>1. Len(data) \in 1..Count /\ k \in 1..Count /\ Len(data) \in Nat
    BY InvOfAll
  <2>2. b = Back(data) /\ data # <<>>
    BY <2>1, EmptyVector DEF AllOf, Back
  <2>3. ~(b.errorCount > item.errorCount)
    BY <2>2 DEF BackIsGreater, IsGreater
  <2>4. x.errorCount <= b.errorCount
    BY <2>1, InvOfAll DEF BK!Before
  <2>5. x.errorCount \in Nat /\ b.errorCount \in Nat /\ x.turn \in Nat /\ x.turn <= Turn
    BY <2>1, InvOfAll
  <2> HIDE DEF b, x
  <2>6. BK!Before(x, item)
    BY <1>1, <2>3, <2>4, <2>5 DEF BK!Before
  <2> QED
    BY <2>6 DEF x
<1>3. ASSUME NEW k \in 1..Count, k > Len(data)
      PROVE  BK!Before(item, AllOf(data, temp, k))
  <2>1. Count + 1 - k \in 1..Len(temp)
    BY <1>3, InvOfAll
  <2>2. AllOf(data, temp, k) = temp[Count + 1 - k]
    BY <1>3, InvOfAll DEF AllOf
  <2>3. AllOf(data, temp, k).errorCount > item.errorCount
    BY <2>1, <2>2 DEF MInv, GreaterMoved
  <2> QED
    BY <1>1, <2>3, InvOfAll DEF BK!Before
<1> QED
  BY <1>1, <1>2, <1>3

\* What PushBack does to the whole sequence.
LEMMA PushBackInv ==
  ASSUME MInv, PushBack
  PROVE  /\ MInv' /\ Count' = Count + 1 /\ Turn' = Turn + 1 /\ Count <= len
         /\ \A k \in 1..Count' :
              AllOf(data', temp', k) = IF k <= Len(data) THEN AllOf(data, temp, k)
                                       ELSE IF k = Len(data) + 1 THEN item
                                       ELSE AllOf(data, temp, k - 1)
<1>1. /\ data \in Seq(Item) /\ temp \in Seq(Item) /\ item \in Item /\ turn \in Nat
      /\ step = "pop" /\ step' = "restore" /\ ~BackIsGreater /\ item.turn = turn
      /\ data' = Append(data, item) /\ temp' = temp /\ item' = item /\ turn' = turn
  BY DEF MInv, MTypeOK, PushBack
<1>2. /\ Count = Len(data) + Len(temp) /\ Count \in Nat
      /\ Len(data) \in Nat /\ Len(temp) \in Nat
  BY InvOfAll
<1>3. 1 \in 1..(Len(data) + Len(temp) + 1)
  BY <1>2
<1>4. Len(data') = Len(data) + 1 /\ data' \in Seq(Item)
  BY <1>1, <1>3, AllPushed
<1>5. Count' = Count + 1
  BY <1>1, <1>2, <1>4 DEF Count
<1>6. \A k \in 1..Count' :
        AllOf(data', temp', k) = IF k <= Len(data) THEN AllOf(data, temp, k)
                                 ELSE IF k = Len(data) + 1 THEN item
                                 ELSE AllOf(data, temp, k - 1)
  BY <1>1, <1>2, <1>5, AllPushed
<1>7. Turn' = Turn + 1 /\ Turn' = turn /\ Turn \in Nat
  BY <1>1, PlaceOfItem DEF Turn
<1>8. MTypeOK'
  BY <1>1, <1>4 DEF MTypeOK
<1>9. Count <= len
  BY <1>1 DEF MInv, Sizes
<1>10. Sizes' /\ GreaterMoved'
  BY <1>1, <1>2, <1>5, <1>9, MinSetAssumption DEF Sizes, GreaterMoved
<1>11. Ordered'
  <2> SUFFICES ASSUME NEW j \in 1..Count', NEW k \in 1..Count', j < k
               PROVE  BK!Before(AllOf(data', temp', j), AllOf(data', temp', k))
    BY AllIsAllOf DEF Ordered, BK!Before
  <2>1. CASE k <= Len(data)
    BY <2>1, <1>2, <1>5, <1>6, InvOfAll
  <2>2. CASE k = Len(data) + 1
    BY <2>2, <1>1, <1>2, <1>5, <1>6, PlaceOfItem
  <2>3. CASE k > Len(data) + 1 /\ j = Len(data) + 1
    <3>1. k - 1 \in 1..Count /\ k - 1 > Len(data)
      BY <2>3, <1>2, <1>5
    <3>2. AllOf(data', temp', j) = item /\ AllOf(data', temp', k) = AllOf(data, temp, k - 1)
      BY <2>3, <1>2, <1>6
    <3>3. BK!Before(item, AllOf(data, temp, k - 1))
      BY <3>1, <1>1, PlaceOfItem
    <3> QED
      BY <3>2, <3>3
  <2>4. CASE k > Len(data) + 1 /\ j < Len(data) + 1
    <3>1. k - 1 \in 1..Count /\ j \in 1..Count /\ j < k - 1
      BY <2>4, <1>2, <1>5
    <3>2. /\ AllOf(data', temp', j) = AllOf(data, temp, j)
          /\ AllOf(data', temp', k) = AllOf(data, temp, k - 1)
      BY <2>4, <1>2, <1>6
    <3>3. BK!Before(AllOf(data, temp, j), AllOf(data, temp, k - 1))
      BY <3>1, InvOfAll
    <3> QED
      BY <3>2, <3>3
  <2>5. CASE k > Len(data) + 1 /\ j > Len(data) + 1
    <3>1. k - 1 \in 1..Count /\ j - 1 \in 1..Count /\ j - 1 < k - 1
      BY <2>5, <1>2, <1>5
    <3>2. /\ AllOf(data', temp', j) = AllOf(data, temp, j - 1)
          /\ AllOf(data', temp', k) = AllOf(data, temp, k - 1)
      BY <2>5, <1>2, <1>6
    <3>3. BK!Before(AllOf(data, temp, j - 1), AllOf(data, temp, k - 1))
      BY <3>1, InvOfAll
    <3> QED
      BY <3>2, <3>3
  <2> QED
    BY <2>1, <2>2, <2>3, <2>4, <2>5, <1>2, <1>5
<1>12. PushedBefore'
  <2> SUFFICES ASSUME NEW k \in 1..Count'
               PROVE  AllOf(data', temp', k).turn <= Turn'
    BY AllIsAllOf DEF PushedBefore
  <2>1. CASE k <= Len(data)
    BY <2>1, <1>2, <1>5, <1>6, <1>7, InvOfAll
  <2>2. CASE k = Len(data) + 1
    BY <2>2, <1>1, <1>2, <1>5, <1>6, <1>7
  <2>3. CASE k > Len(data) + 1
    <3>1. k - 1 \in 1..Count /\ AllOf(data', temp', k) = AllOf(data, temp, k - 1)
      BY <2>3, <1>2, <1>5, <1>6
    <3>2. /\ AllOf(data, temp, k - 1).turn \in Nat
          /\ AllOf(data, temp, k - 1).turn <= Turn
      BY <3>1, InvOfAll
    <3> QED
      BY <3>1, <3>2, <1>7
  <2> QED
    BY <2>1, <2>2, <2>3, <1>2, <1>5
<1> QED
  BY <1>5, <1>6, <1>7, <1>8, <1>9, <1>10, <1>11, <1>12 DEF MInv

\* The last item is dropped, by Trim or by PopBack.
LEMMA DropInv ==
  ASSUME MInv, temp = <<>>, data # <<>>, data' = PopBackOf(data),
         step' = "idle", UNCHANGED <<temp, item, turn>>,
         step # "pop", Count <= len + 1
  PROVE  MInv' /\ Count' = Count - 1 /\ Turn' = Turn
               /\ \A k \in 1..Count' : AllOf(data', temp', k) = AllOf(data, temp, k)
<1>1. /\ data \in Seq(Item) /\ Len(temp) = 0 /\ Len(temp') = 0
      /\ Count = Len(data) /\ Len(data) \in Nat \ {0}
      /\ data' \in Seq(Item) /\ Len(data') = Len(data) - 1
      /\ \A k \in 1..(Len(data) - 1) : data'[k] = data[k]
  BY EmptyVector, InvOfAll, BackMoves DEF MInv, MTypeOK
<1>2. Count' = Count - 1 /\ Turn' = Turn
  BY <1>1 DEF Count, Turn
<1>3. \A k \in 1..Count' : AllOf(data', temp', k) = AllOf(data, temp, k)
  BY <1>1, <1>2 DEF AllOf
<1>4. MTypeOK'
  BY <1>1 DEF MInv, MTypeOK
<1>5. Ordered' /\ PushedBefore'
  BY <1>1, <1>2, <1>3, AllIsAllOf DEF MInv, Ordered, PushedBefore, BK!Before
<1>6. Sizes' /\ GreaterMoved'
  BY <1>1, <1>2, MinSetAssumption DEF Sizes, GreaterMoved, Count
<1> QED
  BY <1>2, <1>3, <1>4, <1>5, <1>6 DEF MInv

LEMMA PopBackInv ==
  ASSUME MInv, PopBack
  PROVE  MInv' /\ Count' = Count - 1 /\ Turn' = Turn /\ Count <= len /\ Count \in Nat \ {0}
               /\ \A k \in 1..Count' : AllOf(data', temp', k) = AllOf(data, temp, k)
<1>1. /\ temp = <<>> /\ Len(data) <= len /\ data # <<>> /\ data' = PopBackOf(data)
      /\ step' = "idle" /\ step = "idle" /\ UNCHANGED <<temp, item, turn>>
  BY DEF MInv, Sizes, PopBack
<1>2. Count = Len(data) /\ Len(data) \in Nat \ {0}
  BY <1>1, EmptyVector, InvOfAll, BackMoves DEF MInv, MTypeOK
<1>3. Count <= len + 1
  BY <1>1, <1>2, MinSetAssumption
<1> QED
  BY <1>1, <1>2, <1>3, DropInv

LEMMA TrimInv ==
  ASSUME MInv, Trim
  PROVE  MInv' /\ Turn' = Turn /\ (Count' = Count \/ (Count' = Count - 1 /\ Count' = len))
               /\ \A k \in 1..Count' : AllOf(data', temp', k) = AllOf(data, temp, k)
<1>1. /\ temp = <<>> /\ step = "restore" /\ step' = "idle" /\ UNCHANGED <<temp, item, turn>>
      /\ data' = Trimmed(data) /\ Count <= len + 1
  BY DEF MInv, Sizes, Trim
<1>2. Count = Len(data) /\ Len(data) \in Nat
  BY <1>1, EmptyVector, InvOfAll
<1>3. CASE Len(data) > len
  <2>1. data # <<>> /\ data' = PopBackOf(data)
    BY <1>1, <1>2, <1>3, EmptyVector, MinSetAssumption DEF Trimmed
  <2> QED
    BY <1>1, <1>2, <1>3, <2>1, DropInv, MinSetAssumption
<1>4. CASE ~(Len(data) > len)
  <2>1. data' = data
    BY <1>1, <1>4 DEF Trimmed
  <2>2. /\ Count' = Count /\ Turn' = Turn
        /\ \A k \in 1..Count : AllOf(data', temp', k) = AllOf(data, temp, k)
    BY <1>1, <2>1 DEF Count, Turn
  <2>3. Ordered' /\ PushedBefore'
    BY <2>2, SameAllKeepsOrder
  <2>4. MTypeOK' /\ Sizes' /\ GreaterMoved'
    BY <1>1, <1>2, <1>4, <2>1, MinSetAssumption
       DEF MInv, MTypeOK, Sizes, GreaterMoved
  <2> QED
    BY <2>2, <2>3, <2>4 DEF MInv
<1> QED
  BY <1>3, <1>4

\* A step of the vector preserves the invariant.
LEMMA NextInv == MInv /\ [MinSetNext]_minSetVars => MInv'
<1> SUFFICES ASSUME MInv, [MinSetNext]_minSetVars PROVE MInv'
  OBVIOUS
<1>1. CASE MoveAway
  BY <1>1, MoveAwayInv
<1>2. CASE PushBack
  BY <1>2, PushBackInv
<1>3. CASE MoveBack
  BY <1>3, MoveBackInv
<1>4. CASE Trim
  BY <1>4, TrimInv
<1>5. CASE PopBack
  BY <1>5, PopBackInv
<1>6. CASE \E e \in Errors : Push(e)
  BY <1>6, PushInv
<1>7. CASE UNCHANGED minSetVars
  BY <1>7 DEF minSetVars, MInv, MTypeOK, Ordered, PushedBefore, Sizes, GreaterMoved,
              Count, All, Turn, BK!Before
<1> QED
  BY <1>1, <1>2, <1>3, <1>4, <1>5, <1>6, <1>7 DEF MinSetNext, PushSteps

-----------------------------------------------------------------------------
\* Kept, of AllOf, in both states.
LEMMA KeptOfAll ==
  /\ Kept = {AllOf(data, temp, k) : k \in {n \in 1..Count : n <= len}}
  /\ Kept' = {AllOf(data', temp', k) : k \in {n \in 1..Count' : n <= len}}
BY AllIsAllOf DEF Kept

\* The order is strict.
LEMMA BeforeIsStrict ==
  ASSUME MInv, NEW j \in 1..Count, NEW k \in 1..Count, j < k
  PROVE  /\ AllOf(data, temp, j) # AllOf(data, temp, k)
         /\ ~BK!Before(AllOf(data, temp, k), AllOf(data, temp, j))
<1> DEFINE x == AllOf(data, temp, j)
           y == AllOf(data, temp, k)
<1>1. /\ BK!Before(x, y)
      /\ x.errorCount \in Nat /\ x.turn \in Nat
      /\ y.errorCount \in Nat /\ y.turn \in Nat
  BY InvOfAll
<1> HIDE DEF x, y
<1>2. x # y /\ ~BK!Before(y, x)
  BY <1>1 DEF BK!Before
<1> QED
  BY <1>2 DEF x, y

\* As long as they fit, there are Count items to keep.
LEMMA KeptCardinality ==
  ASSUME MInv, Count <= len
  PROVE  Kept = {AllOf(data, temp, k) : k \in 1..Count} /\ Cardinality(Kept) = Count
<1> DEFINE f == [k \in 1..Count |-> AllOf(data, temp, k)]
<1>1. Count \in Nat
  BY InvOfAll
<1>2. {n \in 1..Count : n <= len} = 1..Count
  BY <1>1, MinSetAssumption
<1>3. Kept = {AllOf(data, temp, k) : k \in 1..Count}
  BY <1>2, KeptOfAll
<1>4. f \in [1..Count -> Kept] /\ \A t \in Kept : \E k \in 1..Count : f[k] = t
  BY <1>3
<1>5. \A j, k \in 1..Count : f[j] = f[k] => j = k
  <2> SUFFICES ASSUME NEW j \in 1..Count, NEW k \in 1..Count, f[j] = f[k] PROVE j = k
    OBVIOUS
  <2> QED
    BY <1>1, BeforeIsStrict
<1> HIDE DEF f
<1>6. f \in Bijection(1..Count, Kept)
  BY <1>4, <1>5 DEF Bijection, Injection, Surjection, IsInjective
<1>7. ExistsBijection(1..Count, Kept)
  BY <1>6 DEF ExistsBijection
<1>8. IsFiniteSet(1..Count) /\ Cardinality(1..Count) = Count
  BY <1>1, FS_Interval
<1> QED
  BY <1>3, <1>7, <1>8, FS_Bijection

\* What leaves the first len of the sequence as they are changes nothing that
\* the abstract collection shows.
LEMMA SameKept ==
  ASSUME MInv, Turn' = Turn,
         Count' = Count \/ (Count' = Count - 1 /\ Count' = len),
         \A k \in 1..Count' : AllOf(data', temp', k) = AllOf(data, temp, k)
  PROVE  UNCHANGED <<Kept, Turn>>
<1>1. Count \in Nat /\ len \in Nat
  BY InvOfAll, MinSetAssumption
<1>2. {n \in 1..Count' : n <= len} = {n \in 1..Count : n <= len}
  BY <1>1
<1>3. \A k \in {n \in 1..Count : n <= len} : k \in 1..Count'
  BY <1>2
<1>4. Kept' = Kept
  BY <1>2, <1>3, KeptOfAll
<1> QED
  BY <1>4

\* BestK counts with the Cardinality of this module.
LEMMA SameCardinality == ASSUME NEW S PROVE BK!Cardinality(S) = Cardinality(S)
BY DEF BK!Cardinality, Cardinality

\* PushBack offers the item to the collection.
LEMMA PushBackOffers ==
  ASSUME MInv, PushBack
  PROVE  BK!Offer(item.errorCount) /\ item.errorCount \in Errors
<1> DEFINE A(k) == AllOf(data, temp, k)
           B(k) == AllOf(data', temp', k)
           all == Kept \cup {item}
<1>1. /\ MInv' /\ Count' = Count + 1 /\ Turn' = Turn + 1 /\ Count <= len
      /\ \A k \in 1..Count' : B(k) = IF k <= Len(data) THEN A(k)
                                    ELSE IF k = Len(data) + 1 THEN item ELSE A(k - 1)
  BY PushBackInv
<1>2. Count \in Nat /\ Len(data) \in 0..Count /\ len \in Nat
  BY InvOfAll, MinSetAssumption
<1>3. item.errorCount \in Errors /\ item = [errorCount |-> item.errorCount, turn |-> Turn + 1]
  <2>1. item \in Item /\ item.turn = Turn + 1
    BY PlaceOfItem DEF PushBack
  <2> QED
    BY <2>1 DEF Item
<1>4. Kept = {A(k) : k \in 1..Count} /\ Cardinality(Kept) = Count
  BY <1>1, KeptCardinality
<1>5. all = {B(k) : k \in 1..Count'}
  <2>1. ASSUME NEW k \in 1..Count PROVE A(k) \in {B(l) : l \in 1..Count'}
    <3>1. CASE k <= Len(data)
      BY <3>1, <1>1, <1>2
    <3>2. CASE k > Len(data)
      <4>1. k + 1 \in 1..Count' /\ k + 1 > Len(data) + 1 /\ (k + 1) - 1 = k
        BY <3>2, <1>1, <1>2
      <4>2. B(k + 1) = A(k)
        BY <4>1, <1>1, <1>2
      <4> QED
        BY <4>1, <4>2
    <3> QED
      BY <3>1, <3>2, <1>2
  <2>2. item \in {B(l) : l \in 1..Count'}
    <3>1. Len(data) + 1 \in 1..Count' /\ ~(Len(data) + 1 <= Len(data))
      BY <1>1, <1>2
    <3>2. B(Len(data) + 1) = item
      BY <3>1, <1>1
    <3> QED
      BY <3>1, <3>2
  <2>3. ASSUME NEW k \in 1..Count' PROVE B(k) \in all
    <3>1. CASE k <= Len(data)
      BY <3>1, <1>1, <1>2, <1>4
    <3>2. CASE k = Len(data) + 1
      BY <3>2, <1>1, <1>2
    <3>3. CASE k > Len(data) + 1
      <4>1. k - 1 \in 1..Count /\ B(k) = A(k - 1)
        BY <3>3, <1>1, <1>2
      <4> QED
        BY <4>1, <1>4
    <3> QED
      BY <3>1, <3>2, <3>3, <1>1, <1>2
  <2> QED
    BY <2>1, <2>2, <2>3, <1>4
<1>6. Kept' = {B(k) : k \in {n \in 1..Count' : n <= len}}
  BY KeptOfAll
<1>7. CASE Count < len
  <2>1. {n \in 1..Count' : n <= len} = 1..Count'
    BY <1>7, <1>1, <1>2
  <2>2. Kept' = all
    BY <2>1, <1>5, <1>6
  <2> QED
    BY <2>2, <1>1, <1>3, <1>4, <1>7, SameCardinality DEF BK!Offer
<1>8. CASE Count = len
  <2>1. {n \in 1..Count' : n <= len} = 1..len /\ Count' = len + 1 /\ len + 1 \in 1..Count'
    BY <1>8, <1>1, <1>2
  <2>2. \A k \in 1..len : /\ k \in 1..Count' /\ B(k) # B(len + 1)
                          /\ BK!Before(B(k), B(len + 1))
    <3> SUFFICES ASSUME NEW k \in 1..len
                 PROVE  /\ k \in 1..Count' /\ B(k) # B(len + 1)
                        /\ BK!Before(B(k), B(len + 1))
      OBVIOUS
    <3>1. k \in 1..Count' /\ k < len + 1
      BY <2>1, <1>2
    <3>2. BK!Before(B(k), B(len + 1))
      BY <3>1, <2>1, <1>1, AllIsAllOf DEF MInv, Ordered, BK!Before
    <3>3. B(len + 1).errorCount \in Nat /\ B(len + 1).turn \in Nat
      <4>1. data' \in Seq(Item) /\ temp' \in Seq(Item) /\ len + 1 \in 1..(Len(data') + Len(temp'))
        BY <2>1, <1>1, AllIsAllOf DEF MInv, MTypeOK
      <4> QED
        BY <4>1, AllAreItems
    <3> HIDE DEF B
    <3> QED
      BY <3>1, <3>2, <3>3 DEF BK!Before
  <2>3. Kept' = all \ {B(len + 1)}
    <3>1. \A k \in 1..Count' : k \in 1..len \/ k = len + 1
      BY <2>1, <1>2
    <3> QED
      BY <3>1, <2>1, <2>2, <1>5, <1>6
  <2>4. BK!IsWorst(B(len + 1), all)
    <3>1. \A k \in 1..Count' : k \in 1..len \/ k = len + 1
      BY <2>1, <1>2
    <3> QED
      BY <3>1, <2>1, <2>2, <1>5 DEF BK!IsWorst
  <2>5. B(len + 1) \in all
    BY <2>1, <1>5
  <2> HIDE DEF B
  <2> QED
    BY <2>3, <2>4, <2>5, <1>1, <1>3, <1>4, <1>8, SameCardinality DEF BK!Offer
<1> QED
  BY <1>1, <1>2, <1>3, <1>7, <1>8

\* PopBack takes the worst item.
LEMMA PopBackTakes ==
  ASSUME MInv, PopBack
  PROVE  BK!Take
<1> DEFINE A(k) == AllOf(data, temp, k)
<1>1. /\ Count' = Count - 1 /\ Turn' = Turn /\ Count <= len /\ Count \in Nat \ {0}
      /\ \A k \in 1..Count' : AllOf(data', temp', k) = A(k)
  BY PopBackInv
<1>2. Kept = {A(k) : k \in 1..Count}
  BY <1>1, KeptCardinality
<1>3. {n \in 1..Count' : n <= len} = 1..(Count - 1) /\ Count' = Count - 1
  BY <1>1, MinSetAssumption
<1>4. Kept' = {A(k) : k \in 1..(Count - 1)}
  BY <1>1, <1>3, KeptOfAll
<1>5. /\ Count \in 1..Count
      /\ \A k \in 1..Count : k \in 1..(Count - 1) \/ k = Count
      /\ \A k \in 1..(Count - 1) : k \in 1..Count /\ k < Count
  BY <1>1
<1>6. \A k \in 1..(Count - 1) : A(k) # A(Count) /\ BK!Before(A(k), A(Count))
  BY <1>5, BeforeIsStrict, InvOfAll
<1> HIDE DEF A
<1>7. Kept' = Kept \ {A(Count)} /\ A(Count) \in Kept
  BY <1>2, <1>4, <1>5, <1>6
<1>8. BK!IsWorst(A(Count), Kept)
  BY <1>2, <1>5, <1>6 DEF BK!IsWorst
<1> QED
  BY <1>1, <1>7, <1>8 DEF BK!Take

LEMMA InitImplements == MinSetInit => BK!Init
<1> SUFFICES ASSUME MinSetInit PROVE BK!Init
  OBVIOUS
<1>1. Count = 0
  BY EmptyVector DEF MinSetInit, Count
<1> QED
  BY <1>1 DEF MinSetInit, BK!Init, Kept, Turn

\* Every step of the vector is a step of the collection, or none.
LEMMA NextImplements ==
  MInv /\ [MinSetNext]_minSetVars => [BK!Next]_<<Kept, Turn>>
<1> SUFFICES ASSUME MInv, [MinSetNext]_minSetVars
             PROVE  BK!Next \/ UNCHANGED <<Kept, Turn>>
  OBVIOUS
<1>1. CASE MoveAway
  BY <1>1, MoveAwayInv, SameKept
<1>2. CASE PushBack
  BY <1>2, PushBackOffers DEF BK!Next
<1>3. CASE MoveBack
  BY <1>3, MoveBackInv, SameKept
<1>4. CASE Trim
  BY <1>4, TrimInv, SameKept
<1>5. CASE PopBack
  BY <1>5, PopBackTakes DEF BK!Next
<1>6. CASE \E e \in Errors : Push(e)
  BY <1>6, PushInv, SameKept
<1>7. CASE UNCHANGED minSetVars
  BY <1>7 DEF minSetVars, Kept, Count, All, Turn
<1> QED
  BY <1>1, <1>2, <1>3, <1>4, <1>5, <1>6, <1>7 DEF MinSetNext, PushSteps

\* The invariant of the vector: whatever the loops of push do, data and temp
\* are one strictly ordered sequence that is at most one too long.
THEOREM MinSetIsOrdered == MinSetSpec => []MInv
BY InitInv, NextInv, PTL DEF MinSetSpec

\* MinSet (min_set.h) implements BestK: it keeps the len items with the
\* fewest errors of all that were pushed, and popBack removes the worst.
THEOREM MinSetImplementsBestK == MinSetSpec => ImplementsBestK
<1>1. MinSetInit => BK!Init
  BY InitImplements
<1>2. MInv /\ [MinSetNext]_minSetVars => [BK!Next]_<<Kept, Turn>>
  BY NextImplements
<1> QED
  BY <1>1, <1>2, MinSetIsOrdered, PTL DEF MinSetSpec, ImplementsBestK, BK!Spec

-----------------------------------------------------------------------------
(***************************************************************************)
(* searchPrcoe.  What is kept of the splits can be argued about in terms of*)
(* BestK: as long as nothing was taken, a split that is not kept comes after*)
(* all that are.                                                           *)
(***************************************************************************)

Half == 2^(InputSize - 1)

\* How many splits were divided.
Divided == (i - 1) \div 2

\* Candidate, of any problem.
Split(p, k) == [errorCount |-> p.errorOf[k], turn |-> k]

LoopInv ==
  /\ problem \in Problems
  /\ i \in Nat /\ i = 2 * Divided + 1 /\ Divided \in 0..(Half - 1)

BestInv ==
  /\ best.turn \in {0} \cup Splits
  /\ best = [errorCount |-> IF best.turn = 0 THEN MAX_VALUE ELSE problem.resultOf[best.turn],
             turn       |-> best.turn]
  /\ Dividing \/ step # "idle" => best.turn = 0

Covered(k) == best.errorCount <= problem.resultOf[k]

Series == {"FULL_SEARCH", "BRANCH_AND_BOUND"}

SeriesInv ==
  /\ mode # "BFS_SEARCH" => step = "idle" /\ data = <<>> /\ turn = 0
  /\ mode \notin Series => searchSeries = <<>>
  /\ mode \in Series =>
       /\ searchSeries \in Seq(Item) /\ Len(searchSeries) <= Divided
       /\ \A k \in 1..Len(searchSeries) : searchSeries[k] = Candidate(k)
       /\ Dividing => Len(searchSeries) = Divided
       /\ ~Dividing => \A k \in Splits : \/ k <= Len(searchSeries) \/ Covered(k)
                                         \/ mode = "BRANCH_AND_BOUND"
                                              /\ problem.errorOf[k] >= best.errorCount

\* The splits that come before split k.
Ahead(p, k) == {l \in Splits : BK!Before(Split(p, l), Split(p, k))}

\* S is made of some of the first n splits.
AreSplits(p, n, S) == \A x \in S : x.turn \in 1..n /\ x = Split(p, x.turn)

\* Of the first n splits, those of S come before the others.
AreFirst(p, n, S) ==
  \A k \in 1..n : \/ Split(p, k) \in S
                  \/ Cardinality(S) = len /\ \A x \in S : BK!Before(x, Split(p, k))

SetInv ==
  mode = "BFS_SEARCH" =>
    /\ turn = Divided
    /\ step # "idle" => item = Candidate(turn)
    /\ AreSplits(problem, Turn, Kept)
    /\ best.turn = 0 => AreFirst(problem, Turn, Kept)
    /\ best.turn # 0 => \A k \in Splits : \/ Candidate(k) \in Kept
                                          \/ Covered(k)
                                          \/ Cardinality(Ahead(problem, k)) >= InputSize

DInv == MInv /\ LoopInv /\ BestInv /\ SeriesInv /\ SetInv

-----------------------------------------------------------------------------
\* The numbers of the loop.
LEMMA Numbers ==
  /\ Half \in Nat \ {0, 1} /\ Splits = 1..(Half - 1)
  /\ IsFiniteSet(Splits) /\ Cardinality(Splits) = Half - 1
  /\ len = InputSize /\ len \in Nat
  /\ Dividing <=> i < 2 * Half - 1
<1>1. Half \in Nat \ {0, 1} /\ Splits = 1..(Half - 1) /\ 2^InputSize = 2 * Half
  BY ShiftAssumption DEF Half, Splits
<1>2. IsFiniteSet(1..(Half - 1)) /\ Cardinality(1..(Half - 1)) = Half - 1
  <2> DEFINE n == Half - 1
  <2>1. n \in Nat \ {0} /\ 1 \in Int /\ n \in Int
    BY <1>1
  <2> HIDE DEF n
  <2>2. IsFiniteSet(1..n) /\ Cardinality(1..n) = n
    BY <2>1, FS_Interval
  <2> QED
    BY <2>2 DEF n
<1> QED
  BY <1>1, <1>2, DecomposeAssumption, MinSetAssumption DEF Dividing

LEMMA LoopNumbers ==
  ASSUME LoopInv
  PROVE  /\ Dividing => /\ SplitOf(i) = Divided + 1 /\ Divided + 1 \in Splits
                        /\ i + 2 = 2 * ((i + 2 - 1) \div 2) + 1
                        /\ (i + 2 - 1) \div 2 = Divided + 1
                        /\ Divided + 1 \in 0..(Half - 1)
         /\ ~Dividing => Divided = Half - 1 /\ Splits = 1..Divided
         /\ Splits \subseteq Nat \ {0} /\ 1 \in Splits
         /\ Divided \in Nat
<1> DEFINE d == Divided
<1>1. i \in Nat /\ i = 2 * d + 1 /\ d \in 0..(Half - 1) /\ d = (i - 1) \div 2
  BY DEF LoopInv, Divided
<1>2. Half \in Nat \ {0, 1} /\ Splits = 1..(Half - 1) /\ (Dividing <=> i < 2 * Half - 1)
  BY Numbers
<1> HIDE DEF d
<1>3. Dividing => d + 1 \in 1..(Half - 1)
  BY <1>1, <1>2
<1>4. SplitOf(i) = d + 1
  BY <1>1 DEF SplitOf
<1>5. (i + 2 - 1) \div 2 = d + 1
  BY <1>1
<1>6. ~Dividing => d = Half - 1
  BY <1>1, <1>2
<1> QED
  BY <1>1, <1>2, <1>3, <1>4, <1>5, <1>6 DEF d

\* The numbers of a problem.
LEMMA SplitNumbers ==
  ASSUME NEW p \in Problems, NEW k \in Splits
  PROVE  /\ Split(p, k) \in Item /\ p.errorOf[k] \in Errors
         /\ Split(p, k).errorCount = p.errorOf[k] /\ Split(p, k).turn = k
         /\ p.errorOf[k] \in Nat /\ p.resultOf[k] \in Nat
         /\ p.resultOf[k] < MAX_VALUE /\ MAX_VALUE \in Nat /\ p.mode \in Modes
         /\ k \in Nat \ {0}
<1>1. /\ p \in [mode : Modes, errorOf : [Splits -> Errors], resultOf : [Splits -> Nat]]
      /\ p.resultOf[k] < MAX_VALUE /\ MAX_VALUE \in Nat
  BY DecomposeAssumption
<1>2. p.errorOf[k] \in Errors /\ p.resultOf[k] \in Nat /\ p.mode \in Modes
  BY <1>1
<1>3. k \in Nat \ {0}
  BY Numbers
<1> QED
  BY <1>1, <1>2, <1>3, MinSetAssumption DEF Split, Item

-----------------------------------------------------------------------------
\* The order of items is strict, transitive and total.
LEMMA BeforeIsOrder ==
  ASSUME NEW p \in Problems, NEW j \in Splits, NEW k \in Splits, NEW l \in Splits
  PROVE  /\ ~(BK!Before(Split(p, j), Split(p, k)) /\ BK!Before(Split(p, k), Split(p, j)))
         /\ BK!Before(Split(p, j), Split(p, k)) /\ BK!Before(Split(p, k), Split(p, l))
              => BK!Before(Split(p, j), Split(p, l))
BY SplitNumbers DEF BK!Before

\* A set of splits that all come before one is no larger than Ahead.
LEMMA AheadIsLarge ==
  ASSUME NEW p \in Problems, NEW k \in Splits, NEW S, AreSplits(p, Half - 1, S),
         \A x \in S : BK!Before(x, Split(p, k))
  PROVE  Cardinality(S) <= Cardinality(Ahead(p, k))
<1> DEFINE A == Ahead(p, k)
           f == [x \in S |-> x.turn]
<1>1. IsFiniteSet(A)
  BY Numbers, FS_Subset DEF Ahead
<1>2. f \in [S -> A]
  BY Numbers DEF AreSplits, Ahead
<1>3. \A x, y \in S : f[x] = f[y] => x = y
  BY DEF AreSplits
<1>4. f \in Injection(S, A)
  BY <1>2, <1>3 DEF Injection, IsInjective
<1> HIDE DEF f, A
<1>5. Cardinality(S) <= Cardinality(A)
  BY <1>1, <1>4, FS_Injection
<1> QED
  BY <1>5 DEF A

\* And Ahead is smaller than a set of splits that has it, and the split, too.
LEMMA AheadIsSmall ==
  ASSUME NEW p \in Problems, NEW k \in Splits, NEW S, IsFiniteSet(S), Split(p, k) \in S,
         \A l \in Ahead(p, k) : Split(p, l) \in S
  PROVE  Cardinality(Ahead(p, k)) < Cardinality(S)
<1> DEFINE A == Ahead(p, k)
           R == S \ {Split(p, k)}
           f == [l \in A |-> Split(p, l)]
<1>1. IsFiniteSet(R) /\ Cardinality(R) = Cardinality(S) - 1 /\ Cardinality(S) \in Nat
  BY FS_RemoveElement, FS_CardinalityType
<1>2. IsFiniteSet(A) /\ Cardinality(A) \in Nat
  BY Numbers, FS_Subset, FS_CardinalityType DEF Ahead
<1>3. \A l \in A : Split(p, l) # Split(p, k)
  BY BeforeIsOrder DEF Ahead
<1>4. f \in [A -> R]
  BY <1>3
<1>5. \A j, l \in A : f[j] = f[l] => j = l
  BY DEF Split
<1>6. f \in Injection(A, R)
  BY <1>4, <1>5 DEF Injection, IsInjective
<1> HIDE DEF f, A, R
<1>7. Cardinality(A) <= Cardinality(R)
  BY <1>1, <1>6, FS_Injection
<1> QED
  BY <1>1, <1>2, <1>7 DEF A

\* A collection that holds the first splits is offered the next one.
LEMMA OfferKeepsFirst ==
  ASSUME NEW p \in Problems, NEW n \in Nat, n + 1 \in Splits,
         NEW S, IsFiniteSet(S), AreSplits(p, n, S), AreFirst(p, n, S),
         NEW T, \/ Cardinality(S) < len /\ T = S \cup {Split(p, n + 1)}
                \/ /\ Cardinality(S) = len
                   /\ \E x \in S \cup {Split(p, n + 1)} :
                        /\ BK!IsWorst(x, S \cup {Split(p, n + 1)})
                        /\ T = (S \cup {Split(p, n + 1)}) \ {x}
  PROVE  AreSplits(p, n + 1, T) /\ AreFirst(p, n + 1, T)
<1> DEFINE new == Split(p, n + 1)
           all == S \cup {new}
<1>1. n + 1 \in 1..(n + 1) /\ 1..n \subseteq 1..(n + 1) /\ 1..(n + 1) \subseteq Splits
  BY Numbers
<1>2. new \notin S /\ \A k \in 1..(n + 1) : k = n + 1 \/ k \in 1..n
  BY DEF AreSplits, Split
<1>3. \A x \in all : x.turn \in 1..(n + 1) /\ x = Split(p, x.turn)
  BY <1>1 DEF AreSplits, Split
<1>4. T \subseteq all
  OBVIOUS
<1>5. AreSplits(p, n + 1, T)
  BY <1>3, <1>4 DEF AreSplits
<1>6. CASE Cardinality(S) < len
  <2>1. \A k \in 1..(n + 1) : Split(p, k) \in T
    BY <1>2, <1>6, FS_CardinalityType, Numbers DEF AreFirst
  <2> QED
    BY <1>5, <2>1 DEF AreFirst
<1>7. CASE Cardinality(S) = len
  <2> HIDE DEF new
  <2>0. ~(Cardinality(S) < len) /\ len \in Nat
    BY <1>7, Numbers
  <2>1. PICK w \in all : BK!IsWorst(w, all) /\ T = all \ {w}
    BY <2>0 DEF new
  <2>2. Cardinality(T) = len
    <3>1. IsFiniteSet(all) /\ Cardinality(all) = len + 1
      BY <1>2, <1>7, FS_AddElement
    <3>2. Cardinality(all \ {w}) = Cardinality(all) - 1
      BY <3>1, FS_RemoveElement
    <3> QED
      BY <2>0, <2>1, <3>1, <3>2
  <2>3. \A x \in T : BK!Before(x, w)
    BY <2>1 DEF BK!IsWorst
  <2>4. ASSUME NEW k \in 1..(n + 1), Split(p, k) \notin T, NEW x \in T
        PROVE  BK!Before(x, Split(p, k))
    <3>1. CASE Split(p, k) \in all
      BY <3>1, <2>1, <2>3, <2>4
    <3>2. CASE Split(p, k) \notin all
      <4>1. k \in 1..n /\ \A y \in S : BK!Before(y, Split(p, k))
        BY <3>2, <1>2 DEF AreFirst, new
      <4>2. CASE x \in S
        BY <4>1, <4>2
      <4>3. CASE x = new
        <5>1. w \in S
          BY <4>3, <2>1, <2>4
        <5>2. BK!Before(new, w) /\ BK!Before(w, Split(p, k))
          BY <4>1, <4>3, <5>1, <2>3
        <5>3. w = Split(p, w.turn) /\ w.turn \in Splits /\ k \in Splits
          BY <1>1, <1>3
        <5> QED
          BY <4>3, <5>2, <5>3, BeforeIsOrder DEF new
      <4> QED
        BY <4>2, <4>3, <1>4
    <3> QED
      BY <3>1, <3>2
  <2> QED
    BY <1>5, <2>2, <2>4 DEF AreFirst
<1> QED
  BY <1>6, <1>7

\* AreSplits and AreFirst, of the next state.
LEMMA Primes ==
  /\ AreSplits(problem, Turn, Kept)' <=> AreSplits(problem', Turn', Kept')
  /\ AreFirst(problem, Turn, Kept)' <=> AreFirst(problem', Turn', Kept')
  /\ \A k : Ahead(problem, k)' = Ahead(problem', k) /\ Candidate(k)' = Split(problem', k)
  /\ \A k : Candidate(k) = Split(problem, k)
BY DEF AreSplits, AreFirst, Ahead, Candidate, Split, BK!Before

LEMMA SplitsAreFinite ==
  ASSUME NEW p \in Problems, NEW S, AreSplits(p, Half - 1, S)
  PROVE  IsFiniteSet(S)
<1> DEFINE f == [x \in S |-> x.turn]
<1>1. f \in [S -> Splits]
  BY Numbers DEF AreSplits
<1>2. \A x, y \in S : f[x] = f[y] => x = y
  BY DEF AreSplits
<1>3. f \in Injection(S, Splits)
  BY <1>1, <1>2 DEF Injection, IsInjective
<1> QED
  BY <1>3, Numbers, FS_Injection

-----------------------------------------------------------------------------
\* The set has no more than its vector when push is not running.
LEMMA IdleKept ==
  ASSUME MInv, step = "idle"
  PROVE  /\ Kept = {data[k] : k \in DOMAIN data} /\ Cardinality(Kept) = Len(data)
         /\ Len(data) <= len /\ Turn = turn
<1>1. temp = <<>> /\ Len(data) <= len /\ data \in Seq(Item)
  BY DEF MInv, Sizes, MTypeOK
<1>2. Count = Len(data) /\ Len(data) \in Nat /\ DOMAIN data = 1..Len(data)
  BY <1>1, EmptyVector, InvOfAll, LenProperties
<1>3. Kept = {AllOf(data, temp, k) : k \in 1..Count} /\ Cardinality(Kept) = Count
  BY <1>1, <1>2, KeptCardinality
<1>4. \A k \in 1..Count : AllOf(data, temp, k) = data[k]
  BY <1>2 DEF AllOf
<1>5. Turn = turn
  BY DEF Turn
<1> QED
  BY <1>1, <1>2, <1>3, <1>4, <1>5

\* popBack removes the back, and nothing else.
LEMMA PopBackKept ==
  ASSUME MInv, PopBack
  PROVE  /\ Back(data) \in Kept /\ Kept' \subseteq Kept
         /\ Kept \subseteq Kept' \cup {Back(data)}
         /\ Turn' = Turn
<1> DEFINE A(k) == AllOf(data, temp, k)
<1>1. /\ Count' = Count - 1 /\ Turn' = Turn /\ Count <= len /\ Count \in Nat \ {0}
      /\ \A k \in 1..Count' : AllOf(data', temp', k) = A(k)
  BY PopBackInv
<1>2. Kept = {A(k) : k \in 1..Count}
  BY <1>1, KeptCardinality
<1>3. {n \in 1..Count' : n <= len} = 1..(Count - 1) /\ Count' = Count - 1
  BY <1>1, MinSetAssumption
<1>4. Kept' = {A(k) : k \in 1..(Count - 1)}
  BY <1>1, <1>3, KeptOfAll
<1>5. A(Count) = Back(data)
  <2>1. temp = <<>> /\ data \in Seq(Item)
    BY DEF MInv, Sizes, MTypeOK, PopBack
  <2>2. Count = Len(data)
    BY <2>1, EmptyVector, InvOfAll
  <2> QED
    BY <1>1, <2>2 DEF AllOf, Back
<1>6. /\ Count \in 1..Count
      /\ \A k \in 1..Count : k \in 1..(Count - 1) \/ k = Count
      /\ \A k \in 1..(Count - 1) : k \in 1..Count
  BY <1>1
<1> HIDE DEF A
<1> QED
  BY <1>1, <1>2, <1>4, <1>5, <1>6

-----------------------------------------------------------------------------
\* The steps of the loops are steps of the set, or leave it alone.
LEMMA StepOfMinSet == LoopInv /\ [Next]_vars => [MinSetNext]_minSetVars
<1> SUFFICES ASSUME LoopInv, [Next]_vars PROVE [MinSetNext]_minSetVars
  OBVIOUS
<1>1. CASE Divide
  <2>1. problem.errorOf[SplitOf(i)] \in Errors
    BY <1>1, LoopNumbers, SplitNumbers DEF Divide, LoopInv
  <2> QED
    BY <1>1, <2>1 DEF Divide, MinSetNext
<1>2. CASE InPush
  BY <1>2 DEF InPush, MinSetNext
<1>3. CASE TakeFromSeries
  BY <1>3 DEF TakeFromSeries
<1>4. CASE TakeFromSet
  BY <1>4 DEF TakeFromSet, MinSetNext
<1>5. CASE Return \/ UNCHANGED vars
  BY <1>5 DEF Return, vars
<1> QED
  BY <1>1, <1>2, <1>3, <1>4, <1>5 DEF Next

\* The loop variable steps through the odd numbers.
LEMMA LoopStep == LoopInv /\ [Next]_vars => LoopInv'
<1> SUFFICES ASSUME LoopInv, [Next]_vars PROVE LoopInv'
  OBVIOUS
<1>1. CASE Divide
  BY <1>1, LoopNumbers DEF Divide, LoopInv, Divided
<1>2. CASE InPush \/ TakeFromSeries \/ TakeFromSet \/ Return \/ UNCHANGED vars
  BY <1>2 DEF InPush, TakeFromSeries, TakeFromSet, Return, vars, LoopInv, Divided
<1> QED
  BY <1>1, <1>2 DEF Next

\* What Init says of the invariant.
LEMMA InitDInv == Init => DInv
<1> SUFFICES ASSUME Init PROVE DInv
  OBVIOUS
<1>1. MInv /\ Kept = {} /\ Turn = 0
  <2>1. BK!Init
    BY InitImplements DEF Init
  <2> QED
    BY <2>1, InitInv DEF Init, BK!Init
<1>2. LoopInv /\ Divided = 0 /\ Dividing
  <2>1. Half \in Nat \ {0, 1} /\ (Dividing <=> i < 2 * Half - 1)
    BY Numbers
  <2>2. i = 1 /\ problem \in Problems
    BY DEF Init
  <2>3. Divided = 0
    BY <2>2 DEF Divided
  <2> QED
    BY <2>1, <2>2, <2>3 DEF LoopInv
<1>3. BestInv
  BY DEF Init, BestInv
<1>4. SeriesInv
  <2>1. searchSeries = <<>> /\ searchSeries \in Seq(Item) /\ Len(searchSeries) = 0
    BY EmptyVector DEF Init
  <2> QED
    BY <1>2, <2>1 DEF Init, MinSetInit, SeriesInv
<1>5. SetInv
  BY <1>1, <1>2 DEF Init, MinSetInit, SetInv, AreSplits, AreFirst
<1> QED
  BY <1>1, <1>2, <1>3, <1>4, <1>5 DEF DInv

\* What leaves all that SetInv is about alone.
LEMMA SameSet ==
  ASSUME SetInv, UNCHANGED <<Kept, Turn, turn, i, problem, best>>,
         step' # "idle" => step # "idle" /\ item' = item
  PROVE  SetInv'
<1>1. UNCHANGED <<mode, Divided>>
  BY DEF mode, Divided
<1> QED
  BY <1>1, Primes DEF SetInv, Covered

LEMMA SameSeries ==
  ASSUME SeriesInv, UNCHANGED <<searchSeries, i, problem, best>>,
         mode # "BFS_SEARCH" => UNCHANGED <<step, data, turn>>
  PROVE  SeriesInv'
<1>1. UNCHANGED <<mode, Divided, Dividing>>
  BY DEF mode, Divided, Dividing
<1> QED
  BY <1>1, Primes DEF SeriesInv, Covered

\* Dividing a split.
LEMMA DivideKeeps ==
  ASSUME DInv, Divide, MInv', LoopInv'
  PROVE  BestInv' /\ SeriesInv' /\ SetInv'
<1>1. /\ Dividing /\ step = "idle" /\ UNCHANGED <<problem, best, mode>> /\ i' = i + 2
      /\ Divided' = Divided + 1
  BY LoopNumbers DEF DInv, Divide, mode, Divided
<1>2. best.turn = 0 /\ BestInv'
  BY <1>1 DEF DInv, BestInv
<1>3. SplitOf(i) = Divided + 1 /\ Divided + 1 \in Splits /\ Divided \in Nat /\ problem \in Problems
  BY <1>1, LoopNumbers DEF DInv, LoopInv
<1>4. CASE mode = "BFS_SEARCH"
  <2>1. Push(problem.errorOf[Divided + 1]) /\ searchSeries' = searchSeries
    BY <1>3, <1>4 DEF Divide
  <2>2. SeriesInv'
    BY <1>1, <1>4, <2>1 DEF DInv, SeriesInv, Series
  <2>3. Kept' = Kept /\ Turn' = Turn
    <3>1. problem.errorOf[Divided + 1] \in Errors
      BY <1>3, SplitNumbers
    <3> QED
      BY <2>1, <3>1, PushInv, SameKept DEF DInv
  <2>4. turn' = turn + 1 /\ item' = Split(problem, turn + 1) /\ turn = Divided
    BY <1>1, <1>4, <2>1 DEF DInv, SetInv, Push, Split
  <2>5. SetInv'
    BY <1>1, <1>2, <1>4, <2>3, <2>4, Primes DEF DInv, SetInv
  <2> QED
    BY <1>2, <2>2, <2>5
<1>5. CASE mode \in Series
  <2>1. /\ searchSeries' = Append(searchSeries, Split(problem, Divided + 1))
        /\ UNCHANGED minSetVars
    BY <1>3, <1>5, Primes DEF Divide, Series
  <2>2. /\ searchSeries \in Seq(Item) /\ Len(searchSeries) = Divided
        /\ \A k \in 1..Len(searchSeries) : searchSeries[k] = Split(problem, k)
    BY <1>1, <1>5, Primes DEF DInv, SeriesInv
  <2>3. Split(problem, Divided + 1) \in Item
    BY <1>3, SplitNumbers
  <2>4. /\ searchSeries' \in Seq(Item) /\ Len(searchSeries') = Divided + 1
        /\ \A k \in 1..Len(searchSeries') : searchSeries'[k] = Split(problem, k)
    BY <1>3, <2>1, <2>2, <2>3, AppendProperties
  <2>5. ~Dividing' => Splits = 1..(Divided + 1)
    <3> SUFFICES ASSUME ~Dividing' PROVE Splits = 1..(Divided + 1)
      OBVIOUS
    <3>1. Half \in Nat \ {0, 1} /\ ~(i' < 2 * Half - 1)
      BY Numbers, ShiftAssumption DEF Dividing, Half
    <3>2. i' \in Nat /\ i' = 2 * (Divided + 1) + 1 /\ Divided + 1 \in 0..(Half - 1)
      BY <1>1 DEF LoopInv
    <3>3. Divided + 1 = Half - 1
      BY <1>3, <3>1, <3>2
    <3> QED
      BY <3>3, Numbers
  <2>6. SeriesInv'
    BY <1>1, <1>3, <1>5, <2>1, <2>4, <2>5, Primes DEF DInv, SeriesInv, minSetVars, Series
  <2> QED
    BY <1>1, <1>2, <1>5, <2>6 DEF SetInv, Series
<1>6. CASE mode = "BFS_SEARCH_PRE_WIDTH"
  <2>1. searchSeries' = searchSeries /\ UNCHANGED minSetVars
    BY <1>6 DEF Divide
  <2> QED
    BY <1>1, <1>2, <1>6, <2>1 DEF DInv, SeriesInv, SetInv, Series, minSetVars
<1> QED
  BY <1>3, <1>4, <1>5, <1>6, SplitNumbers DEF mode, Modes, Series

\* push goes on.
LEMMA InPushKeeps ==
  ASSUME DInv, InPush, MInv', LoopInv'
  PROVE  BestInv' /\ SeriesInv' /\ SetInv'
<1>1. /\ PushSteps /\ UNCHANGED <<problem, i, searchSeries, best, turn, item>>
      /\ step # "idle" /\ mode = "BFS_SEARCH" /\ mode' = mode
  BY DEF InPush, PushSteps, MoveAway, PushBack, MoveBack, Trim, DInv, SeriesInv, mode
<1>2. best.turn = 0 /\ BestInv'
  BY <1>1 DEF DInv, BestInv, Dividing
<1>3. SeriesInv'
  BY <1>1, SameSeries DEF DInv
<1>4. CASE MoveAway \/ MoveBack \/ Trim
  <2>1. UNCHANGED <<Kept, Turn>>
    BY <1>4, MoveAwayInv, MoveBackInv, TrimInv, SameKept DEF DInv
  <2> QED
    BY <1>1, <1>2, <1>3, <2>1, SameSet DEF DInv
<1>5. CASE PushBack
  <2> DEFINE new == Split(problem, turn)
             all == Kept \cup {new}
             n == Turn
  <2>1. item = new /\ turn = Divided
    BY <1>1, Primes DEF DInv, SetInv
  <2>2. turn = n + 1 /\ n \in Nat /\ Turn' = n + 1 /\ turn \in Splits
    <3>1. step = "pop" /\ step' = "restore"
      BY <1>5 DEF PushBack
    <3>2. turn \in Nat /\ item.turn = turn /\ item \in Item
      BY <1>1 DEF DInv, MInv, MTypeOK
    <3>3. turn \in Nat \ {0} /\ turn \in 0..(Half - 1) /\ Half \in Nat
      BY <2>1, <3>2, Numbers DEF Item, DInv, LoopInv
    <3> QED
      BY <1>1, <3>1, <3>3, Numbers DEF Turn
  <2>3. /\ problem \in Problems
        /\ AreSplits(problem, n, Kept) /\ AreFirst(problem, n, Kept)
    BY <1>1, <1>2 DEF DInv, SetInv, LoopInv
  <2>4. IsFiniteSet(Kept)
    <3>1. AreSplits(problem, Half - 1, Kept)
      BY <2>2, <2>3, Numbers DEF AreSplits
    <3> QED
      BY <2>3, <3>1, SplitsAreFinite
  <2>5. new = [errorCount |-> item.errorCount, turn |-> Turn + 1]
    BY <2>1, <2>2 DEF Split
  <2>6. \/ Cardinality(Kept) < len /\ Kept' = all
        \/ /\ Cardinality(Kept) = len
           /\ \E x \in all : BK!IsWorst(x, all) /\ Kept' = all \ {x}
    <3>1. BK!Offer(item.errorCount)
      BY <1>5, PushBackOffers DEF DInv
    <3> HIDE DEF new
    <3> QED
      BY <2>5, <3>1, SameCardinality DEF BK!Offer
  <2> HIDE DEF n
  <2>7. AreSplits(problem, n + 1, Kept') /\ AreFirst(problem, n + 1, Kept')
    BY <2>2, <2>3, <2>4, <2>6, OfferKeepsFirst DEF n
  <2>8. AreSplits(problem, Turn, Kept)' /\ AreFirst(problem, Turn, Kept)'
    BY <1>1, <2>2, <2>7, Primes
  <2>9. turn' = Divided' /\ item' = Candidate(turn)'
    BY <1>1, <2>1, Primes DEF Divided, Candidate, Split
  <2> QED
    BY <1>1, <1>2, <1>3, <2>8, <2>9 DEF SetInv
<1> QED
  BY <1>1, <1>4, <1>5 DEF PushSteps

\* Trying a split: the answer improves or stays, and then the split is
\* covered, or was passed over.
LEMMA TryImproves ==
  ASSUME LoopInv, BestInv, LoopInv', problem' = problem, NEW k \in Splits,
         Try(Split(problem, k)), ~Dividing, i' = i, step' = "idle"
  PROVE  /\ BestInv' /\ best'.errorCount \in Nat /\ best.errorCount \in Nat
         /\ best'.errorCount <= best.errorCount
         /\ \/ best'.errorCount <= problem.resultOf[k]
            \/ mode = "BRANCH_AND_BOUND" /\ problem.errorOf[k] >= best'.errorCount
         /\ mode = "BFS_SEARCH" => best'.turn # 0
<1>1. /\ problem \in Problems
      /\ problem.errorOf[k] \in Nat /\ problem.resultOf[k] \in Nat
      /\ problem.resultOf[k] < MAX_VALUE /\ MAX_VALUE \in Nat /\ k # 0
  BY SplitNumbers DEF LoopInv
<1>2. /\ best.turn \in {0} \cup Splits /\ best.errorCount \in Nat
      /\ best.turn = 0 => best.errorCount = MAX_VALUE
      /\ best.turn # 0 => best.errorCount = problem.resultOf[best.turn]
      /\ best = [errorCount |-> best.errorCount, turn |-> best.turn]
  BY <1>1, SplitNumbers DEF BestInv
<1>3. /\ Split(problem, k).turn = k /\ Split(problem, k).errorCount = problem.errorOf[k]
  BY DEF Split
<1>4. best' = IF ~Pruned(Split(problem, k)) /\ problem.resultOf[k] < best.errorCount
              THEN [errorCount |-> problem.resultOf[k], turn |-> k] ELSE best
  BY <1>3 DEF Try
<1>5. Pruned(Split(problem, k)) <=>
        mode = "BRANCH_AND_BOUND" /\ problem.errorOf[k] >= best.errorCount
  BY <1>3 DEF Pruned
<1>6. ~Dividing'
  BY DEF Dividing
<1>7. CASE ~Pruned(Split(problem, k)) /\ problem.resultOf[k] < best.errorCount
  <2>1. best'.errorCount = problem.resultOf[k] /\ best'.turn = k
    BY <1>4, <1>7
  <2>2. BestInv'
    BY <1>1, <1>4, <1>6, <1>7 DEF BestInv
  <2> QED
    BY <1>1, <1>2, <1>7, <2>1, <2>2
<1>8. CASE ~(~Pruned(Split(problem, k)) /\ problem.resultOf[k] < best.errorCount)
  <2>1. best' = best
    BY <1>4, <1>8
  <2>2. BestInv'
    BY <1>6, <2>1 DEF BestInv
  <2> QED
    BY <1>1, <1>2, <1>5, <1>8, <2>1, <2>2
<1> QED
  BY <1>7, <1>8

\* An iteration of the second loop, with the vector.
LEMMA TakeFromSeriesKeeps ==
  ASSUME DInv, TakeFromSeries, LoopInv'
  PROVE  BestInv' /\ SeriesInv' /\ SetInv'
<1> DEFINE m == Len(searchSeries)
<1>1. /\ step = "idle" /\ step' = "idle" /\ ~Dividing /\ mode \in Series
      /\ UNCHANGED <<step, data, turn, problem, i, mode, Divided, Dividing>>
      /\ searchSeries # <<>> /\ searchSeries' = PopBackOf(searchSeries)
      /\ Try(Back(searchSeries))
  BY DEF TakeFromSeries, minSetVars, mode, Divided, Dividing, Series
<1>2. /\ searchSeries \in Seq(Item) /\ Len(searchSeries) <= Divided
      /\ \A k \in 1..Len(searchSeries) : searchSeries[k] = Split(problem, k)
      /\ \A k \in Splits : \/ k <= Len(searchSeries) \/ Covered(k)
                           \/ mode = "BRANCH_AND_BOUND" /\ problem.errorOf[k] >= best.errorCount
  BY <1>1, Primes DEF DInv, SeriesInv
<1>3. /\ m \in Nat \ {0} /\ searchSeries' \in Seq(Item) /\ Len(searchSeries') = m - 1
      /\ \A k \in 1..(m - 1) : searchSeries'[k] = searchSeries[k]
  BY <1>1, <1>2, BackMoves
<1>4. /\ Splits = 1..Divided /\ Divided \in Nat /\ problem \in Problems
  BY <1>1, LoopNumbers DEF DInv, LoopInv
<1>5. m \in Splits /\ Back(searchSeries) = Split(problem, m)
  BY <1>2, <1>3, <1>4 DEF Back
<1>6. /\ BestInv' /\ best'.errorCount \in Nat /\ best.errorCount \in Nat
      /\ best'.errorCount <= best.errorCount
      /\ \/ best'.errorCount <= problem.resultOf[m]
         \/ mode = "BRANCH_AND_BOUND" /\ problem.errorOf[m] >= best'.errorCount
  BY <1>1, <1>5, TryImproves DEF DInv
<1> HIDE DEF m
<1>7. ASSUME NEW k \in Splits
      PROVE  \/ k <= Len(searchSeries') \/ best'.errorCount <= problem.resultOf[k]
             \/ mode = "BRANCH_AND_BOUND" /\ problem.errorOf[k] >= best'.errorCount
  <2>1. problem.errorOf[k] \in Nat /\ problem.resultOf[k] \in Nat /\ k \in Nat
    BY <1>4, SplitNumbers
  <2>2. CASE k <= m
    BY <2>1, <2>2, <1>3, <1>6
  <2>3. CASE ~(k <= m)
    BY <2>1, <2>3, <1>2, <1>6 DEF Covered, m
  <2> QED
    BY <2>2, <2>3
<1>8. \A k \in 1..Len(searchSeries') : searchSeries'[k] = Split(problem', k)
  BY <1>1, <1>2, <1>3 DEF m
<1>9. Len(searchSeries') <= Divided
  BY <1>2, <1>3, <1>4 DEF m
<1>10. SeriesInv'
  <2>1. step' = "idle" /\ data' = <<>> /\ turn' = 0
    BY <1>1 DEF DInv, SeriesInv, Series
  <2> QED
    BY <1>1, <1>3, <1>7, <1>8, <1>9, <2>1, Primes DEF SeriesInv, Covered
<1> QED
  BY <1>1, <1>6, <1>10 DEF SetInv, Series

\* And with the set.
LEMMA TakeFromSetKeeps ==
  ASSUME DInv, TakeFromSet, MInv', LoopInv'
  PROVE  BestInv' /\ SeriesInv' /\ SetInv'
<1> DEFINE x == Back(data)
           k == x.turn
<1>1. /\ step = "idle" /\ step' = "idle" /\ ~Dividing /\ mode = "BFS_SEARCH"
      /\ UNCHANGED <<problem, i, searchSeries, turn, mode, Divided, Dividing>>
      /\ PopBack /\ Try(Back(data))
  BY DEF TakeFromSet, PopBack, mode, Divided, Dividing
<1>2. /\ x \in Kept /\ Kept' \subseteq Kept /\ Kept \subseteq Kept' \cup {x}
      /\ Turn' = Turn /\ Turn = turn /\ Cardinality(Kept) <= len
  BY <1>1, PopBackKept, IdleKept DEF DInv
<1>3. /\ turn = Divided /\ AreSplits(problem, Turn, Kept)
      /\ best.turn = 0 => AreFirst(problem, Turn, Kept)
      /\ best.turn # 0 => \A l \in Splits : \/ Split(problem, l) \in Kept
                                            \/ Covered(l)
                                            \/ Cardinality(Ahead(problem, l)) >= InputSize
  BY <1>1, Primes DEF DInv, SetInv
<1>4. /\ Splits = 1..Divided /\ Divided = Half - 1 /\ problem \in Problems
  BY <1>1, LoopNumbers DEF DInv, LoopInv
<1>5. k \in Splits /\ x = Split(problem, k)
  BY <1>2, <1>3, <1>4 DEF AreSplits
<1> HIDE DEF x, k
<1>6. /\ BestInv' /\ best'.errorCount \in Nat /\ best.errorCount \in Nat
      /\ best'.errorCount <= best.errorCount
      /\ best'.errorCount <= problem.resultOf[k]
      /\ best'.turn # 0
  BY <1>1, <1>5, TryImproves DEF DInv, x
<1>7. SeriesInv'
  BY <1>1 DEF DInv, SeriesInv, Series
<1>8. ASSUME NEW l \in Splits, best.turn = 0, Split(problem, l) \notin Kept
      PROVE  Cardinality(Ahead(problem, l)) >= InputSize
  <2>1. Cardinality(Kept) = len /\ \A y \in Kept : BK!Before(y, Split(problem, l))
    BY <1>2, <1>3, <1>4, <1>8 DEF AreFirst
  <2>2. AreSplits(problem, Half - 1, Kept)
    BY <1>2, <1>3, <1>4
  <2>3. Cardinality(Kept) <= Cardinality(Ahead(problem, l))
    BY <2>1, <2>2, <1>4, AheadIsLarge
  <2>4. IsFiniteSet(Ahead(problem, l)) /\ Cardinality(Ahead(problem, l)) \in Nat
    BY Numbers, FS_Subset, FS_CardinalityType DEF Ahead
  <2> QED
    BY <2>1, <2>3, <2>4, Numbers
<1>9. ASSUME NEW l \in Splits
      PROVE  \/ Split(problem, l) \in Kept' \/ best'.errorCount <= problem.resultOf[l]
             \/ Cardinality(Ahead(problem, l)) >= InputSize
  <2>1. problem.resultOf[l] \in Nat
    BY <1>4, SplitNumbers
  <2>2. CASE Split(problem, l) \in Kept
    <3>1. CASE Split(problem, l) = x
      <4>1. l = k
        BY <3>1, <1>5 DEF Split
      <4> QED
        BY <4>1, <1>6
    <3> QED
      BY <3>1, <2>2, <1>2
  <2>3. CASE Split(problem, l) \notin Kept
    BY <2>1, <2>3, <1>3, <1>6, <1>8 DEF Covered
  <2> QED
    BY <2>2, <2>3
<1>10. AreSplits(problem', Turn', Kept')
  BY <1>1, <1>2, <1>3 DEF AreSplits
<1>11. SetInv'
  BY <1>1, <1>3, <1>6, <1>9, <1>10, Primes DEF SetInv, Covered
<1> QED
  BY <1>6, <1>7, <1>11

-----------------------------------------------------------------------------
LEMMA NextDInv == DInv /\ [Next]_vars => DInv'
<1> SUFFICES ASSUME DInv, [Next]_vars PROVE DInv'
  OBVIOUS
<1>1. MInv' /\ LoopInv'
  BY StepOfMinSet, LoopStep, NextInv DEF DInv
<1>2. CASE Divide
  BY <1>1, <1>2, DivideKeeps DEF DInv
<1>3. CASE InPush
  BY <1>1, <1>3, InPushKeeps DEF DInv
<1>4. CASE TakeFromSeries
  BY <1>1, <1>4, TakeFromSeriesKeeps DEF DInv
<1>5. CASE TakeFromSet
  BY <1>1, <1>5, TakeFromSetKeeps DEF DInv
<1>6. CASE Return \/ UNCHANGED vars
  <2>1. UNCHANGED <<data, temp, item, step, turn, problem, i, searchSeries, best>>
    BY <1>6 DEF Return, vars, minSetVars
  <2>2. UNCHANGED <<Kept, Turn>>
    BY <2>1 DEF Kept, Count, All, Turn
  <2>3. BestInv'
    BY <2>1 DEF DInv, BestInv, Dividing
  <2> QED
    BY <1>1, <2>1, <2>2, <2>3, SameSet, SameSeries DEF DInv
<1> QED
  BY <1>2, <1>3, <1>4, <1>5, <1>6 DEF Next

\* The invariant of the search: every split that was taken is answered for.
THEOREM SearchKeepsInvariant == Spec => []DInv
BY InitDInv, NextDInv, PTL DEF Spec

-----------------------------------------------------------------------------
\* The variables of searchPrcoe stay in their ranges, and the set never
\* holds more than one split for each input when push has returned.
THEOREM TypeCorrect == Spec => []TypeOK
<1>1. DInv => TypeOK
  <2> SUFFICES ASSUME DInv PROVE TypeOK
    OBVIOUS
  <2>1. /\ data \in Seq(Item) /\ temp \in Seq(Item) /\ step \in {"idle", "pop", "restore"}
        /\ step = "idle" => Len(data) <= InputSize
    BY Numbers DEF DInv, MInv, MTypeOK, Sizes
  <2>2. problem \in Problems /\ i \in 1..(2^InputSize - 1)
    <3>1. 2^InputSize = 2 * Half /\ Half \in Nat
      BY Numbers, ShiftAssumption DEF Half
    <3> QED
      BY <3>1 DEF DInv, LoopInv
  <2>3. best \in [errorCount : Nat, turn : {0} \cup Splits]
    BY <2>2, SplitNumbers, DecomposeAssumption DEF DInv, BestInv
  <2>4. searchSeries \in Seq(Item)
    BY EmptyVector DEF DInv, SeriesInv
  <2>5. turn \in 0..Cardinality(Splits)
    BY Numbers DEF DInv, SeriesInv, SetInv, LoopInv
  <2> QED
    BY <2>1, <2>2, <2>3, <2>4, <2>5 DEF TypeOK
<1> QED
  BY <1>1, SearchKeepsInvariant, PTL

\* What BFS_SEARCH keeps of all splits: the InputSize with the fewest errors,
\* the earlier one of a tie.
THEOREM LeastAreKept == Spec => []KeptAreLeast
<1>1. DInv => KeptAreLeast
  <2> SUFFICES ASSUME DInv, mode = "BFS_SEARCH", step = "idle", ~Dividing, best.turn = 0
               PROVE  {data[n] : n \in DOMAIN data} =
                        {Candidate(k) : k \in {j \in Splits : Cardinality(Ahead(problem, j)) < InputSize}}
    BY Primes DEF KeptAreLeast, Ahead
  <2> DEFINE Least == {j \in Splits : Cardinality(Ahead(problem, j)) < InputSize}
  <2>1. /\ Kept = {data[n] : n \in DOMAIN data} /\ Cardinality(Kept) <= len /\ Turn = turn
    BY IdleKept DEF DInv
  <2>2. /\ Splits = 1..Turn /\ Turn = Half - 1 /\ problem \in Problems
        /\ AreSplits(problem, Turn, Kept) /\ AreFirst(problem, Turn, Kept)
    BY <2>1, LoopNumbers DEF DInv, LoopInv, SetInv
  <2>3. IsFiniteSet(Kept) /\ Cardinality(Kept) \in Nat
    BY <2>2, SplitsAreFinite, FS_CardinalityType
  <2>4. \A k \in Splits : /\ IsFiniteSet(Ahead(problem, k))
                          /\ Cardinality(Ahead(problem, k)) \in Nat
    BY Numbers, FS_Subset, FS_CardinalityType DEF Ahead
  <2>5. ASSUME NEW k \in Splits, Split(problem, k) \in Kept
        PROVE  k \in Least
    <3>1. ASSUME NEW l \in Ahead(problem, k) PROVE Split(problem, l) \in Kept
      <4>1. l \in Splits /\ BK!Before(Split(problem, l), Split(problem, k))
        BY DEF Ahead
      <4>2. ~BK!Before(Split(problem, k), Split(problem, l))
        BY <2>2, <4>1, BeforeIsOrder
      <4> QED
        BY <2>2, <2>5, <4>1, <4>2 DEF AreFirst
    <3>2. Cardinality(Ahead(problem, k)) < Cardinality(Kept)
      BY <2>2, <2>3, <2>5, <3>1, AheadIsSmall
    <3> QED
      BY <2>1, <2>3, <2>4, <3>2, Numbers
  <2>6. ASSUME NEW k \in Splits, Split(problem, k) \notin Kept
        PROVE  k \notin Least
    <3>1. Cardinality(Kept) = len /\ \A y \in Kept : BK!Before(y, Split(problem, k))
      BY <2>2, <2>6 DEF AreFirst
    <3>2. Cardinality(Kept) <= Cardinality(Ahead(problem, k))
      BY <2>2, <3>1, AheadIsLarge
    <3> QED
      BY <2>4, <3>1, <3>2, Numbers
  <2>7. \A x \in Kept : x.turn \in Splits /\ x = Split(problem, x.turn)
    BY <2>2 DEF AreSplits
  <2> HIDE DEF Least
  <2>8. Kept = {Split(problem, k) : k \in Least}
    BY <2>5, <2>6, <2>7 DEF Least
  <2> QED
    BY <2>1, <2>8, Primes DEF Least
<1> QED
  BY <1>1, SearchKeepsInvariant, PTL

\* The answer is one of the splits, and no worse than any that the mode may
\* not overlook.
THEOREM AnswerIsBestOfAll == Spec => []AnswerIsBest
<1>1. DInv => AnswerIsBest
  <2> SUFFICES ASSUME DInv, Done, mode # "BFS_SEARCH_PRE_WIDTH"
               PROVE  /\ best.turn \in Splits /\ best.errorCount = problem.resultOf[best.turn]
                      /\ \A k \in Splits : best.errorCount <= problem.resultOf[k] \/ MayOverlook(k)
                      /\ mode = "BRANCH_AND_BOUND"
                           /\ (\A k \in Splits : problem.errorOf[k] <= problem.resultOf[k])
                           => \A k \in Splits : best.errorCount <= problem.resultOf[k]
    BY DEF AnswerIsBest
  <2>1. /\ step = "idle" /\ ~Dividing /\ data = <<>> /\ searchSeries = <<>>
        /\ problem \in Problems /\ 1 \in Splits
    BY LoopNumbers DEF Done, DInv, LoopInv
  <2>2. \A k \in Splits : /\ problem.errorOf[k] \in Nat /\ problem.resultOf[k] \in Nat
                          /\ problem.resultOf[k] < MAX_VALUE /\ k \in Nat \ {0}
    BY <2>1, SplitNumbers
  <2>3. /\ best.turn \in {0} \cup Splits /\ MAX_VALUE \in Nat
        /\ best.turn = 0 => best.errorCount = MAX_VALUE
        /\ best.turn # 0 => best.errorCount = problem.resultOf[best.turn]
    BY DecomposeAssumption DEF DInv, BestInv
  <2>4. best.errorCount \in Nat
    BY <2>2, <2>3
  <2>5. \A k \in Splits : \/ best.errorCount <= problem.resultOf[k]
                          \/ mode = "BRANCH_AND_BOUND" /\ problem.errorOf[k] >= best.errorCount
                          \/ /\ mode = "BFS_SEARCH"
                             /\ best.turn # 0 /\ Cardinality(Ahead(problem, k)) >= InputSize
    <3>1. CASE mode \in Series
      <4>1. Len(searchSeries) = 0
        BY <2>1, EmptyVector
      <4> QED
        BY <2>1, <2>2, <3>1, <4>1 DEF DInv, SeriesInv, Covered
    <3>2. CASE mode = "BFS_SEARCH"
      <4>1. Kept = {} /\ Cardinality(Kept) = 0 /\ Turn = turn
        BY <2>1, IdleKept, EmptyVector DEF DInv
      <4>2. best.turn # 0
        <5> SUFFICES ASSUME best.turn = 0 PROVE FALSE
          OBVIOUS
        <5>1. AreFirst(problem, Turn, Kept) /\ Splits = 1..Turn
          BY <2>1, <3>2, <4>1, LoopNumbers DEF DInv, SetInv
        <5>2. len # 0
          BY DecomposeAssumption
        <5> QED
          BY <2>1, <4>1, <5>1, <5>2 DEF AreFirst
      <4> QED
        BY <3>2, <4>1, <4>2 DEF DInv, SetInv, Covered
    <3>3. mode \in Modes
      BY <2>1, SplitNumbers DEF mode
    <3> QED
      BY <3>1, <3>2, <3>3 DEF Modes, Series
  <2>6. best.turn \in Splits
    <3>1. best.turn # 0
      BY <2>1, <2>2, <2>3, <2>5, DecomposeAssumption
    <3> QED
      BY <2>3, <3>1
  <2>7. \A k \in Splits : best.errorCount <= problem.resultOf[k] \/ MayOverlook(k)
    BY <2>5, Primes DEF MayOverlook, Ahead
  <2>8. mode = "BRANCH_AND_BOUND" /\ (\A k \in Splits : problem.errorOf[k] <= problem.resultOf[k])
          => \A k \in Splits : best.errorCount <= problem.resultOf[k]
    BY <2>2, <2>4, <2>5
  <2> QED
    BY <2>2, <2>3, <2>6, <2>7, <2>8
<1> QED
  BY <1>1, SearchKeepsInvariant, PTL

\* The set that searchPrcoe uses is a BestK, too.
THEOREM SetImplementsBestK == Spec => ImplementsBestK
<1>1. DInv /\ [Next]_vars => [MinSetNext]_minSetVars
  BY StepOfMinSet DEF DInv
<1>2. Spec => MinSetSpec
  BY <1>1, SearchKeepsInvariant, PTL DEF Spec, Init, MinSetSpec
<1> QED
  BY <1>2, MinSetImplementsBestK, PTL
=============================================================================
