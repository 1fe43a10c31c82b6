-------------------------- MODULE SearchTreeTheorems --------------------------
(***************************************************************************)
(* What the search of module SearchTree promises, for every function,      *)
(* every method of search and every width.                                 *)
(*                                                                         *)
(*   - Good: all spaces that exist are trees of divisions of the function  *)
(*     to take apart.  They share objects that divide() writes to; Agree   *)
(*     says why no space notices: two spaces with the same leaf will       *)
(*     divide it with the same method, so that the second writes what the  *)
(*     first has written.                                                  *)
(*   - ChainOK: while there is no record, the search has only gone down,   *)
(*     so that it meets a space that cannot be divided before it ends.     *)
(*   - The answer is one of the Approximations.  Their definition recurs   *)
(*     on functions of fewer inputs: no method of division sends all       *)
(*     inputs to one side (ProperParts).                                   *)
(*   - FullOK: whatever the full search has not found, some space of the   *)
(*     chain will still come to (ComesTo), or it is no better than the     *)
(*     record.                                                             *)
(***************************************************************************)
EXTENDS SearchTree, CommonTheorems, SequenceTheorems

-----------------------------------------------------------------------------
(***************************************************************************)
(* Divisions.                                                              *)
(***************************************************************************)

\* Some numbers of a set have a least one.
LEMMA MinValue ==
  ASSUME NEW X \in SUBSET Nat, X # {}
  PROVE  Min(X) \in X /\ \A y \in X : Min(X) <= y
BY LeastNumber DEF Min

\* Sets differ in as many members as there are, at most.
LEMMA DifferingType ==
  ASSUME NEW S, IsFiniteSet(S), NEW A \in SUBSET S, NEW B \in SUBSET S
  PROVE  /\ Differing(A, B) \in Nat
         /\ Differing(A, B) <= Cardinality(S)
<1>1. (A \ B) \cup (B \ A) \in SUBSET S
  OBVIOUS
<1> QED
  BY <1>1, FS_Subset, FS_CardinalityType DEF Differing

\* A pattern that a row may be given.
LEMMA RowErrorType ==
  ASSUME NEW right, IsFiniteSet(right), NEW oper, NEW M \in SUBSET SUBSET right,
         NEW row \in SUBSET SUBSET right
  PROVE  RowError(oper, right, M, row) \in Nat
<1>1. IsFiniteSet(SUBSET right)
  BY FS_SUBSET
<1>2. Mode0(oper, M) \in SUBSET SUBSET right
  BY DEF Mode0
<1>3. Mode1(oper, right, M) \in SUBSET SUBSET right
  BY DEF Mode1
<1> QED
  BY <1>1, <1>2, <1>3, DifferingType DEF RowError

\* The errors of a map are a number.
LEMMA ErrorOfType ==
  ASSUME NEW f, NEW left, IsFiniteSet(left), NEW right, IsFiniteSet(right),
         NEW oper, NEW M \in SUBSET SUBSET right
  PROVE  ErrorOf(f, left, right, oper, M) \in Nat
<1> DEFINE e == [r \in SUBSET left |-> RowError(oper, right, M, Row(f, right, r))]
           S == SUBSET left
           A(it) == [s \in SUBSET S |->
                       IF s = {} THEN 0
                       ELSE RowError(oper, right, M, Row(f, right, First(s)))
                              + it[s \ {First(s)}]]
           B(it) == [s \in SUBSET S |-> IF s = {} THEN 0 ELSE e[First(s)] + it[s \ {First(s)}]]
<1>1. ErrorOf(f, left, right, oper, M) = (CHOOSE it : it = A(it))[S]
  BY Zenon DEF ErrorOf, MapThenSumSet, MapThenFoldSet, First
<1>2. SumOf(e, S) = (CHOOSE it : it = B(it))[S]
  BY Zenon DEF SumOf, IsSum
<1>3. ASSUME NEW it
      PROVE  A(it) = B(it)
  <2>1. ASSUME NEW s \in SUBSET S, s # {}
        PROVE  RowError(oper, right, M, Row(f, right, First(s))) = e[First(s)]
    BY <2>1, FirstIsMember
  <2> HIDE DEF e, S
  <2> QED
    BY <2>1
<1>4. \A r \in S : e[r] \in Nat
  BY RowErrorType DEF Row
<1>5. IsFiniteSet(S)
  BY FS_SUBSET
<1> HIDE DEF A, B, e, S
<1>6. (CHOOSE it : it = A(it)) = (CHOOSE it : it = B(it))
  BY <1>3, Zenon
<1>7. SumOf(e, S) \in Nat
  BY <1>4, <1>5, SumType
<1> QED
  BY <1>1, <1>2, <1>6, <1>7

\* A power of two is the number of sets of so many things.
LEMMA PowerType ==
  ASSUME NEW k \in Nat
  PROVE  2^k \in Nat /\ 2^k >= 1
<1> DEFINE S == 1..k
<1>1. IsFiniteSet(S) /\ Cardinality(S) = k
  <2>1. 1 \in Int /\ k \in Int
    OBVIOUS
  <2>2. IsFiniteSet(S) /\ Cardinality(S) = IF 1 > k THEN 0 ELSE k - 1 + 1
    BY <2>1, FS_Interval, Zenon
  <2>3. k = IF 1 > k THEN 0 ELSE k - 1 + 1
    OBVIOUS
  <2> QED
    BY <2>2, <2>3
<1> HIDE DEF S
<1>2. IsFiniteSet(SUBSET S) /\ Cardinality(SUBSET S) = 2^k
  BY <1>1, FS_SUBSET
<1>3. Cardinality(SUBSET S) \in Nat /\ Cardinality(SUBSET S) # 0
  BY <1>2, FS_CardinalityType, FS_EmptySet
<1> QED
  BY <1>2, <1>3

\* So is the number of a column.
LEMMA ColumnType ==
  ASSUME NEW right, IsFiniteSet(right), NEW c \in SUBSET right
  PROVE  Column(right, c) \in Nat
<1> DEFINE e == [i \in c |-> 2^Cardinality({j \in right : j > i})]
           A(it) == [s \in SUBSET c |->
                       IF s = {} THEN 0
                       ELSE 2^Cardinality({j \in right : j > First(s)}) + it[s \ {First(s)}]]
           B(it) == [s \in SUBSET c |-> IF s = {} THEN 0 ELSE e[First(s)] + it[s \ {First(s)}]]
<1>1. Column(right, c) = (CHOOSE it : it = A(it))[c]
  BY Zenon DEF Column, MapThenSumSet, MapThenFoldSet, First
<1>2. SumOf(e, c) = (CHOOSE it : it = B(it))[c]
  BY Zenon DEF SumOf, IsSum
<1>3. ASSUME NEW it
      PROVE  A(it) = B(it)
  <2>1. ASSUME NEW s \in SUBSET c, s # {}
        PROVE  2^Cardinality({j \in right : j > First(s)}) = e[First(s)]
    BY <2>1, FirstIsMember
  <2> HIDE DEF e
  <2> QED
    BY <2>1
<1>4. ASSUME NEW i \in c
      PROVE  e[i] \in Nat
  <2>1. {j \in right : j > i} \in SUBSET right
    OBVIOUS
  <2>2. Cardinality({j \in right : j > i}) \in Nat
    BY <2>1, FS_Subset, FS_CardinalityType
  <2> QED
    BY <2>2, PowerType
<1>5. IsFiniteSet(c)
  BY FS_Subset
<1> HIDE DEF A, B, e
<1>6. (CHOOSE it : it = A(it)) = (CHOOSE it : it = B(it))
  BY <1>3, Zenon
<1>7. SumOf(e, c) \in Nat
  BY <1>4, <1>5, SumType
<1> QED
  BY <1>1, <1>2, <1>6, <1>7

\* When findBestMajorRow tries the columns of X.
Turn(right, X) == MapThenSumSet(LAMBDA c : 2^Column(right, c), X)

\* And the turn in which findBestMajorRow tries a choice of columns.
LEMMA TurnType ==
  ASSUME NEW right, IsFiniteSet(right), NEW X \in SUBSET SUBSET right
  PROVE  Turn(right, X) \in Nat
<1> DEFINE e == [c \in X |-> 2^Column(right, c)]
           A(it) == [s \in SUBSET X |->
                       IF s = {} THEN 0 ELSE 2^Column(right, First(s)) + it[s \ {First(s)}]]
           B(it) == [s \in SUBSET X |-> IF s = {} THEN 0 ELSE e[First(s)] + it[s \ {First(s)}]]
<1>1. Turn(right, X) = (CHOOSE it : it = A(it))[X]
  BY Zenon DEF Turn, MapThenSumSet, MapThenFoldSet, First
<1>2. SumOf(e, X) = (CHOOSE it : it = B(it))[X]
  BY Zenon DEF SumOf, IsSum
<1>3. ASSUME NEW it
      PROVE  A(it) = B(it)
  <2>1. ASSUME NEW s \in SUBSET X, s # {}
        PROVE  2^Column(right, First(s)) = e[First(s)]
    BY <2>1, FirstIsMember
  <2> HIDE DEF e
  <2> QED
    BY <2>1
<1>4. ASSUME NEW c \in X
      PROVE  e[c] \in Nat
  BY ColumnType, PowerType
<1>5. IsFiniteSet(X)
  BY FS_SUBSET, FS_Subset
<1> HIDE DEF A, B, e
<1>6. (CHOOSE it : it = A(it)) = (CHOOSE it : it = B(it))
  BY <1>3, Zenon
<1>7. SumOf(e, X) \in Nat
  BY <1>4, <1>5, SumType
<1> QED
  BY <1>1, <1>2, <1>6, <1>7

\* findBestMajorRow answers a choice of the columns it tries.
LEMMA BestChoiceType ==
  ASSUME NEW f, NEW left, IsFiniteSet(left), NEW right, IsFiniteSet(right), NEW oper,
         NEW decided \in SUBSET SUBSET right, NEW tried \in SUBSET SUBSET right
  PROVE  BestChoice(f, left, right, oper, decided, tried) \in SUBSET tried
<1> DEFINE err == [X \in SUBSET tried |-> ErrorOf(f, left, right, oper, decided \cup X)]
           turn(X) == Turn(right, X)
           best == {X \in SUBSET tried : \A Y \in SUBSET tried : err[X] <= err[Y]}
<1>1. \A X \in SUBSET tried : err[X] \in Nat
  BY ErrorOfType
<1>2. \A X \in SUBSET tried : turn(X) \in Nat
  <2>1. \A X \in SUBSET tried : X \in SUBSET SUBSET right
    OBVIOUS
  <2> QED
    BY <2>1, TurnType
<1>3. BestChoice(f, left, right, oper, decided, tried)
        = CHOOSE X \in best : \A Y \in best : turn(X) <= turn(Y)
  BY DEF BestChoice, Turn
<1> HIDE DEF err, turn
<1>4. \E X \in best : TRUE
  <2>1. {err[X] : X \in SUBSET tried} \in SUBSET Nat /\ {err[X] : X \in SUBSET tried} # {}
    BY <1>1
  <2>2. PICK e \in {err[X] : X \in SUBSET tried} : \A d \in {err[X] : X \in SUBSET tried} : e <= d
    BY <2>1, LeastNumber
  <2>3. PICK X \in SUBSET tried : e = err[X]
    BY <2>2
  <2>4. \A Y \in SUBSET tried : err[X] <= err[Y]
    BY <2>2, <2>3
  <2> QED
    BY <2>3, <2>4
<1>5. best \in SUBSET SUBSET tried
  OBVIOUS
<1> HIDE DEF best
<1>6. \E X \in best : \A Y \in best : turn(X) <= turn(Y)
  <2>1. {turn(X) : X \in best} \in SUBSET Nat /\ {turn(X) : X \in best} # {}
    BY <1>2, <1>4, <1>5
  <2>2. PICK e \in {turn(X) : X \in best} : \A d \in {turn(X) : X \in best} : e <= d
    BY <2>1, LeastNumber
  <2>3. PICK X \in best : e = turn(X)
    BY <2>2
  <2>4. \A Y \in best : turn(X) <= turn(Y)
    BY <2>2, <2>3
  <2> QED
    BY <2>3, <2>4
<1> QED
  BY <1>3, <1>5, <1>6

\* The major row is a set of columns.
LEMMA MajorRowType ==
  ASSUME NEW f, NEW left, IsFiniteSet(left), NEW right, IsFiniteSet(right), NEW oper
  PROVE  MajorRow(f, left, right, oper) \in SUBSET SUBSET right
<1> DEFINE rows == Counted(f, left, right, oper)
           ones(c) == Cardinality({r \in rows : r \cup c \in f.on})
           decided == {c \in SUBSET right : 2 * ones(c) > Cardinality(rows)}
           notSure == {c \in SUBSET right : 2 * ones(c) = Cardinality(rows)}
           tried == Tried(right, notSure)
<1>1. MajorRow(f, left, right, oper) = decided \cup BestChoice(f, left, right, oper, decided, tried)
  BY DEF MajorRow
<1>2. decided \in SUBSET SUBSET right /\ notSure \in SUBSET SUBSET right
  OBVIOUS
<1> HIDE DEF decided, notSure
<1>3. tried \in SUBSET SUBSET right
  BY <1>2 DEF Tried
<1> HIDE DEF tried
<1>4. BestChoice(f, left, right, oper, decided, tried) \in SUBSET tried
  BY <1>2, <1>3, BestChoiceType
<1> QED
  BY <1>1, <1>2, <1>3, <1>4

\* The operations a division may be made with.
Methods == {"drop", "and", "or", "xor"}

\* What divide answers for a division of the inputs.
IsDivision(d, left, right) ==
  /\ d.left = [ins |-> left, on |-> d.left.on] /\ d.left.on \subseteq SUBSET left
  /\ d.right = [ins |-> right, on |-> d.right.on] /\ d.right.on \subseteq SUBSET right
  /\ d.oper \in Methods

\* findMinError1 to findMinError4 make a division.
LEMMA FindMinErrorType ==
  ASSUME NEW f, NEW left, IsFiniteSet(left), NEW right, IsFiniteSet(right), NEW oper \in Methods
  PROVE  /\ IsDivision(FindMinError(f, left, right, oper), left, right)
         /\ FindMinError(f, left, right, oper).error \in Nat
<1> DEFINE M == IF oper = "drop" THEN {} ELSE MajorRow(f, left, right, oper)
<1>1. FindMinError(f, left, right, oper) = Approximation(f, left, right, oper, M)
  BY DEF FindMinError
<1>2. M \in SUBSET SUBSET right
  BY MajorRowType
<1> HIDE DEF M
<1>3. ErrorOf(f, left, right, oper, M) \in Nat
  BY <1>2, ErrorOfType
<1> QED
  BY <1>1, <1>2, <1>3 DEF Approximation, IsDivision

\* The first of the results with the fewest errors is one of them.
LEMMA FirstLeastIsMember ==
  ASSUME NEW n \in Nat \ {0}, NEW results, DOMAIN results = 1..n,
         \A k \in 1..n : results[k].error \in Nat
  PROVE  \E k \in 1..n : FirstLeast(results) = results[k]
<1> DEFINE X == {k \in DOMAIN results :
                   \A j \in DOMAIN results : results[k].error <= results[j].error}
           E == {results[k].error : k \in 1..n}
<1>1. E \in SUBSET Nat
  OBVIOUS
<1>2. E # {}
  <2>1. results[1].error \in E
    OBVIOUS
  <2> QED
    BY <2>1
<1>3. PICK e \in E : \A d \in E : e <= d
  <2> HIDE DEF E
  <2> QED
    BY <1>1, <1>2, LeastNumber
<1>4. PICK k \in 1..n : e = results[k].error
  BY <1>3
<1>5. \A j \in 1..n : results[k].error <= results[j].error
  BY <1>3, <1>4
<1>6. k \in X /\ X \in SUBSET Nat
  BY <1>5
<1> HIDE DEF X, E
<1>7. Min(X) \in X
  BY <1>6, MinValue
<1> QED
  BY <1>7 DEF FirstLeast, X

\* The results that divide compares.
LEMMA Concatenations ==
  ASSUME NEW a, NEW b, NEW c, NEW d
  PROVE  /\ << a, b, c >> \o <<>> = << a, b, c >>
         /\ << a, b, c >> \o << d >> = << a, b, c, d >>
<1> DEFINE S == {a, b, c, d}
           s == << a, b, c >>
<1>1. s \in Seq(S) /\ d \in S
  OBVIOUS
<1>2. Append(s, d) = << a, b, c, d >>
  <2> DEFINE t == << a, b, c, d >>
  <2>1. t \in Seq(S) /\ Len(t) = 4 /\ t[1] = a /\ t[2] = b /\ t[3] = c /\ t[4] = d
    OBVIOUS
  <2>2. Len(s) = 3 /\ s[1] = a /\ s[2] = b /\ s[3] = c
    OBVIOUS
  <2> HIDE DEF s, t, S
  <2>3. /\ Append(s, d) \in Seq(S) /\ Len(Append(s, d)) = Len(s) + 1
        /\ \A i \in 1..Len(s) : Append(s, d)[i] = s[i]
        /\ Append(s, d)[Len(s) + 1] = d
    BY <1>1, AppendProperties
  <2>4. \A i \in 1..4 : Append(s, d)[i] = t[i]
    BY <2>1, <2>2, <2>3
  <2>5. Append(s, d) = t
    BY <2>1, <2>2, <2>3, <2>4, SeqEqual
  <2> QED
    BY <2>5 DEF t
<1> HIDE DEF s, S
<1>3. s \o <<>> = s /\ s \o << d >> = Append(s, d)
  BY <1>1, ConcatEmptySeq, AppendIsConcat
<1> QED
  BY <1>2, <1>3 DEF s

\* divide makes two functions, of the inputs it is told, and an operation.
LEMMA DivideType ==
  ASSUME NEW f, NEW left, IsFiniteSet(left), NEW right, IsFiniteSet(right), NEW ignoreXor
  PROVE  IsDivision(Divide(f, left, right, ignoreXor), left, right)
<1> DEFINE r(oper) == FindMinError(f, left, right, oper)
           three == << r("drop"), r("and"), r("or") >>
           four == << r("drop"), r("and"), r("or"), r("xor") >>
<1>1. \A oper \in Methods : IsDivision(r(oper), left, right) /\ r(oper).error \in Nat
  BY FindMinErrorType
<1> HIDE DEF r
<1>2. Divide(f, left, right, ignoreXor)
        = FirstLeast(three \o IF ignoreXor THEN <<>> ELSE << r("xor") >>)
  BY DEF Divide, r
<1>3. three \o <<>> = three /\ three \o << r("xor") >> = four
  BY Concatenations
<1>4. CASE ignoreXor
  <2>1. Divide(f, left, right, ignoreXor) = FirstLeast(three)
    BY <1>2, <1>3, <1>4
  <2>2. \A k \in 1..3 : IsDivision(three[k], left, right) /\ three[k].error \in Nat
    BY <1>1 DEF Methods
  <2>3. DOMAIN three = 1..3
    OBVIOUS
  <2> HIDE DEF three
  <2>4. \E k \in 1..3 : FirstLeast(three) = three[k]
    <3>1. 3 \in Nat \ {0}
      OBVIOUS
    <3>2. \A k \in 1..3 : three[k].error \in Nat
      BY <2>2
    <3> QED
      BY ONLY <2>3, <3>1, <3>2, FirstLeastIsMember
  <2> QED
    BY <2>1, <2>2, <2>4
<1>5. CASE ~ignoreXor
  <2>1. Divide(f, left, right, ignoreXor) = FirstLeast(four)
    BY <1>2, <1>3, <1>5
  <2>2. \A k \in 1..4 : IsDivision(four[k], left, right) /\ four[k].error \in Nat
    BY <1>1 DEF Methods
  <2>3. DOMAIN four = 1..4
    OBVIOUS
  <2> HIDE DEF four
  <2>4. \E k \in 1..4 : FirstLeast(four) = four[k]
    <3>1. 4 \in Nat \ {0}
      OBVIOUS
    <3>2. \A k \in 1..4 : four[k].error \in Nat
      BY <2>2
    <3> QED
      BY ONLY <2>3, <3>1, <3>2, FirstLeastIsMember
  <2> QED
    BY <2>1, <2>2, <2>4
<1> QED
  BY <1>4, <1>5

\* Combining two functions gives one of all their inputs.
LEMMA CombineType ==
  ASSUME NEW P, NEW f \in FunctionsOver(P), NEW g \in FunctionsOver(P), NEW oper
  PROVE  /\ Combine(f, g, oper).ins = f.ins \cup g.ins
         /\ Combine(f, g, oper).on \in SUBSET SUBSET (f.ins \cup g.ins)
         /\ Combine(f, g, oper) \in FunctionsOver(P)
BY DEF Combine, FunctionsOver

-----------------------------------------------------------------------------
(***************************************************************************)
(* Binary trees.                                                           *)
(***************************************************************************)

\* The names of nodes.
Ways == Seq({0, 1})

\* A tree has a root, and each of its nodes has none or two children.
Shaped(tree) ==
  /\ tree = [p \in DOMAIN tree |-> tree[p]]
  /\ DOMAIN tree \subseteq Ways /\ IsFiniteSet(DOMAIN tree)
  /\ <<>> \in DOMAIN tree
  /\ \A p \in Ways : Left(p) \in DOMAIN tree => p \in DOMAIN tree
  /\ \A p \in Ways : Left(p) \in DOMAIN tree <=> Right(p) \in DOMAIN tree

\* A way goes to the left or to the right.
LEMMA Ways01 ==
  ASSUME NEW p \in Ways
  PROVE  /\ Len(p) \in Nat /\ DOMAIN p = 1..Len(p)
         /\ \A i \in 1..Len(p) : p[i] \in {0, 1}
BY LenProperties DEF Ways

\* The children of nodes are other nodes.
LEMMA ChildWays ==
  ASSUME NEW p \in Ways
  PROVE  /\ Left(p) \in Ways /\ Right(p) \in Ways
         /\ Left(p) # <<>> /\ Right(p) # <<>> /\ Left(p) # p /\ Right(p) # p
         /\ Len(Left(p)) = Len(p) + 1 /\ Len(Right(p)) = Len(p) + 1
         /\ \A q \in Ways : /\ Left(p) = Left(q) => p = q
                            /\ Right(p) = Right(q) => p = q
                            /\ Left(p) # Right(q)
<1>1. 0 \in {0, 1} /\ 1 \in {0, 1} /\ p \in Seq({0, 1})
  BY DEF Ways
<1>2. /\ Left(p) \in Ways /\ Left(p) # <<>> /\ Len(Left(p)) = Len(p) + 1
      /\ Right(p) \in Ways /\ Right(p) # <<>> /\ Len(Right(p)) = Len(p) + 1
  BY <1>1, AppendProperties DEF Left, Right, Ways
<1>3. Left(p) # p /\ Right(p) # p
  BY <1>2, Ways01
<1>4. ASSUME NEW q \in Ways
      PROVE  /\ Left(p) = Left(q) => p = q
             /\ Right(p) = Right(q) => p = q
             /\ Left(p) # Right(q)
  <2>1. q \in Seq({0, 1})
    BY DEF Ways
  <2> QED
    BY <1>1, <2>1, AppendInjective DEF Left, Right
<1> QED
  BY <1>2, <1>3, <1>4

\* A part of a way is a way.
LEMMA PrefixWay ==
  ASSUME NEW p \in Ways, NEW k \in 0..Len(p)
  PROVE  /\ SubSeq(p, 1, k) \in Ways /\ Len(SubSeq(p, 1, k)) = k
         /\ \A i \in 1..k : SubSeq(p, 1, k)[i] = p[i]
<1>1. Len(p) \in Nat /\ \A i \in 1..k : p[i] \in {0, 1}
  BY Ways01
<1>2. 1 \in Int /\ k \in Int
  BY <1>1
<1>3. /\ SubSeq(p, 1, k) \in Seq({0, 1})
      /\ Len(SubSeq(p, 1, k)) = IF 1 <= k THEN k - 1 + 1 ELSE 0
      /\ \A i \in 1..(k - 1 + 1) : SubSeq(p, 1, k)[i] = p[1 + i - 1]
  BY ONLY <1>1, <1>2, SubSeqProperties
<1> QED
  BY <1>1, <1>3 DEF Ways

\* A way that goes on beyond k.
LEMMA WayGoesOn ==
  ASSUME NEW p \in Ways, NEW k \in 0..(Len(p) - 1)
  PROVE  /\ SubSeq(p, 1, k) \in Ways
         /\ \/ SubSeq(p, 1, k + 1) = Left(SubSeq(p, 1, k))
            \/ SubSeq(p, 1, k + 1) = Right(SubSeq(p, 1, k))
<1>1. Len(p) \in Nat /\ k \in 0..Len(p) /\ k + 1 \in 0..Len(p) /\ k + 1 \in 1..Len(p)
  BY Ways01
<1> DEFINE s == SubSeq(p, 1, k)
           t == SubSeq(p, 1, k + 1)
           b == p[k + 1]
<1>5. b \in {0, 1}
  BY <1>1, Ways01
<1> HIDE DEF s, t, b
<1>6. s \in Seq({0, 1}) /\ Len(s) = k /\ \A i \in 1..k : s[i] = p[i]
  BY <1>1, PrefixWay DEF s, Ways
<1>7. t \in Seq({0, 1}) /\ Len(t) = k + 1 /\ \A i \in 1..(k + 1) : t[i] = p[i]
  BY <1>1, PrefixWay DEF t, Ways
<1>8. t = Append(s, b)
  <2>1. /\ Append(s, b) \in Seq({0, 1}) /\ Len(Append(s, b)) = Len(s) + 1
        /\ \A i \in 1..Len(s) : Append(s, b)[i] = s[i]
        /\ Append(s, b)[Len(s) + 1] = b
    BY <1>5, <1>6, AppendProperties
  <2>2. \A i \in 1..(k + 1) : Append(s, b)[i] = t[i]
    BY <1>6, <1>7, <2>1 DEF b
  <2> QED
    BY <1>6, <1>7, <2>1, <2>2, SeqEqual
<1> QED
  BY <1>5, <1>6, <1>8 DEF s, t, Left, Right, Ways

\* The prefix of the full length.
LEMMA WholeWay ==
  ASSUME NEW p \in Ways
  PROVE  SubSeq(p, 1, Len(p)) = p
BY SubSeqFull DEF Ways

\* The way to a node goes through nodes.
LEMMA PrefixIsNode ==
  ASSUME NEW tree, Shaped(tree), NEW p \in DOMAIN tree, NEW k \in 0..Len(p)
  PROVE  SubSeq(p, 1, k) \in DOMAIN tree
<1>1. p \in Ways /\ Len(p) \in Nat
  BY Ways01 DEF Shaped
<1> DEFINE bad == {j \in 0..Len(p) : SubSeq(p, 1, Len(p) - j) \notin DOMAIN tree}
<1>2. SUFFICES ASSUME bad # {} PROVE FALSE
  <2>1. Len(p) - k \notin bad
    BY <1>2
  <2>2. Len(p) - k \in 0..Len(p) /\ Len(p) - (Len(p) - k) = k
    BY <1>1
  <2> QED
    BY <2>1, <2>2
<1>3. PICK j \in bad : \A i \in bad : j <= i
  <2>1. bad \in SUBSET Nat
    BY <1>1
  <2> HIDE DEF bad
  <2> QED
    BY <1>2, <2>1, LeastNumber
<1>4. j \in 0..Len(p) /\ SubSeq(p, 1, Len(p) - j) \notin DOMAIN tree
  BY <1>3
<1>5. j # 0
  <2>1. SubSeq(p, 1, Len(p)) = p
    BY <1>1, WholeWay
  <2>2. Len(p) - 0 = Len(p)
    BY <1>1
  <2>3. SubSeq(p, 1, Len(p)) \in DOMAIN tree
    BY <2>1, Zenon
  <2>4. j = 0 => SubSeq(p, 1, Len(p) - 0) \notin DOMAIN tree
    BY <1>4
  <2> QED
    BY <2>2, <2>3, <2>4
<1>6. j - 1 \notin bad
  BY <1>1, <1>3
<1>7. SubSeq(p, 1, Len(p) - (j - 1)) \in DOMAIN tree
  BY <1>1, <1>4, <1>5, <1>6
<1> HIDE DEF bad
<1> DEFINE h == Len(p) - j
<1>8. h \in 0..(Len(p) - 1) /\ Len(p) - (j - 1) = h + 1
  BY <1>1, <1>4, <1>5
<1> HIDE DEF h
<1>9. /\ SubSeq(p, 1, h) \in Ways
      /\ \/ SubSeq(p, 1, h + 1) = Left(SubSeq(p, 1, h))
         \/ SubSeq(p, 1, h + 1) = Right(SubSeq(p, 1, h))
  BY <1>1, <1>8, WayGoesOn
<1>10. SubSeq(p, 1, h + 1) \in DOMAIN tree
  BY <1>7, <1>8
<1>11. SubSeq(p, 1, h) \in DOMAIN tree
  BY <1>9, <1>10 DEF Shaped
<1> QED
  BY <1>4, <1>11 DEF h

\* p comes before q: where they part, p goes left.
LEMMA LeftOfAt ==
  ASSUME NEW p \in Ways, NEW q \in Ways
  PROVE  IsLeftOf(p, q) <=>
           \E i \in Nat : /\ i >= 1 /\ i <= Len(p) /\ i <= Len(q) /\ p[i] < q[i]
                          /\ \A h \in Nat : h >= 1 /\ h < i => p[h] = q[h]
<1>1. /\ Len(p) \in Nat /\ DOMAIN p = 1..Len(p)
      /\ Len(q) \in Nat /\ DOMAIN q = 1..Len(q)
  BY Ways01
<1>2. ASSUME NEW i \in Nat, i >= 1, i <= Len(p), i <= Len(q)
      PROVE  SubSeq(p, 1, i - 1) = SubSeq(q, 1, i - 1)
               <=> \A h \in Nat : h >= 1 /\ h < i => p[h] = q[h]
  <2> DEFINE s == SubSeq(p, 1, i - 1)
             t == SubSeq(q, 1, i - 1)
  <2>1. i - 1 \in 0..Len(p) /\ i - 1 \in 0..Len(q)
    BY <1>1, <1>2
  <2>2. s \in Ways /\ Len(s) = i - 1 /\ \A h \in 1..(i - 1) : s[h] = p[h]
    BY <2>1, PrefixWay
  <2>3. t \in Ways /\ Len(t) = i - 1 /\ \A h \in 1..(i - 1) : t[h] = q[h]
    BY <2>1, PrefixWay
  <2> HIDE DEF s, t
  <2>4. (\A h \in 1..Len(s) : s[h] = t[h]) => s = t
    BY <2>2, <2>3, SeqEqual DEF Ways
  <2>5. s = t <=> \A h \in Nat : h >= 1 /\ h < i => p[h] = q[h]
    BY <2>2, <2>3, <2>4
  <2> QED
    BY <2>5 DEF s, t
<1>3. \A i : i \in DOMAIN p \cap DOMAIN q <=> i \in Nat /\ i >= 1 /\ i <= Len(p) /\ i <= Len(q)
  BY <1>1
<1> QED
  BY <1>2, <1>3 DEF IsLeftOf

\* IsLeftOf is an order.
LEMMA LeftOfTransitive ==
  ASSUME NEW p \in Ways, NEW q \in Ways, NEW r \in Ways, IsLeftOf(p, q), IsLeftOf(q, r)
  PROVE  IsLeftOf(p, r)
<1>1. PICK i \in Nat : /\ i >= 1 /\ i <= Len(p) /\ i <= Len(q) /\ p[i] < q[i]
                       /\ \A h \in Nat : h >= 1 /\ h < i => p[h] = q[h]
  BY LeftOfAt
<1>2. PICK j \in Nat : /\ j >= 1 /\ j <= Len(q) /\ j <= Len(r) /\ q[j] < r[j]
                       /\ \A h \in Nat : h >= 1 /\ h < j => q[h] = r[h]
  BY LeftOfAt
<1>3. p[i] \in {0, 1} /\ q[i] \in {0, 1} /\ q[j] \in {0, 1} /\ r[j] \in {0, 1}
  BY <1>1, <1>2, Ways01
<1>4. Len(p) \in Nat /\ Len(q) \in Nat /\ Len(r) \in Nat
  BY Ways01
<1>5. i # j
  BY <1>1, <1>2, <1>3
<1>6. CASE i < j
  <2>1. i <= Len(r) /\ p[i] < r[i] /\ \A h \in Nat : h >= 1 /\ h < i => p[h] = r[h]
    BY <1>1, <1>2, <1>4, <1>6
  <2> QED
    BY <1>1, <2>1, LeftOfAt
<1>7. CASE j < i
  <2>1. j <= Len(p) /\ p[j] < r[j] /\ \A h \in Nat : h >= 1 /\ h < j => p[h] = r[h]
    BY <1>1, <1>2, <1>4, <1>7
  <2> QED
    BY <1>2, <2>1, LeftOfAt
<1> QED
  BY <1>5, <1>6, <1>7

\* A strict one.
LEMMA NotLeftOfItself ==
  ASSUME NEW p \in Ways
  PROVE  ~IsLeftOf(p, p)
<1>1. \A i \in 1..Len(p) : ~(p[i] < p[i])
  BY Ways01
<1>2. Len(p) \in Nat
  BY Ways01
<1> QED
  BY <1>1, <1>2, LeftOfAt

\* No leaf is on the way to another one.
LEMMA LeafIsNoPrefix ==
  ASSUME NEW tree, Shaped(tree), NEW p \in Leaves(tree), NEW q \in DOMAIN tree,
         Len(p) < Len(q), \A i \in 1..Len(p) : p[i] = q[i]
  PROVE  FALSE
<1>1. p \in Ways /\ q \in Ways /\ p \in DOMAIN tree /\ Left(p) \notin DOMAIN tree
  BY DEF Shaped, Leaves
<1>2. Len(p) \in Nat /\ Len(q) \in Nat
  BY <1>1, Ways01
<1> DEFINE k == Len(p)
           s == SubSeq(q, 1, k)
<1>3. k \in 0..Len(q) /\ k \in 0..(Len(q) - 1) /\ k + 1 \in 0..Len(q)
  BY <1>2
<1>4. s \in Ways /\ Len(s) = k /\ \A i \in 1..k : s[i] = q[i]
  BY <1>1, <1>3, PrefixWay
<1>5. s = p
  BY <1>1, <1>4, SeqEqual DEF Ways
<1>6. SubSeq(q, 1, k + 1) \in {Left(s), Right(s)}
  BY <1>1, <1>3, WayGoesOn
<1>7. SubSeq(q, 1, k + 1) \in DOMAIN tree
  BY <1>3, PrefixIsNode
<1> HIDE DEF k, s
<1>8. Left(p) \in DOMAIN tree \/ Right(p) \in DOMAIN tree
  BY <1>5, <1>6, <1>7
<1> QED
  BY <1>1, <1>8 DEF Shaped

\* Of two leaves one is left of the other.
LEMMA LeavesInOrder ==
  ASSUME NEW tree, Shaped(tree), NEW p \in Leaves(tree), NEW q \in Leaves(tree), p # q
  PROVE  IsLeftOf(p, q) \/ IsLeftOf(q, p)
<1>1. p \in Ways /\ q \in Ways /\ p \in DOMAIN tree /\ q \in DOMAIN tree
  BY DEF Shaped, Leaves
<1>2. Len(p) \in Nat /\ Len(q) \in Nat
  BY <1>1, Ways01
<1> DEFINE X == {i \in Nat : i >= 1 /\ i <= Len(p) /\ i <= Len(q) /\ p[i] # q[i]}
<1>3. CASE X = {}
  <2>1. \A i \in Nat : i >= 1 /\ i <= Len(p) /\ i <= Len(q) => p[i] = q[i]
    BY <1>3
  <2>2. Len(p) # Len(q)
    <3>1. Len(p) = Len(q) => \A i \in 1..Len(p) : p[i] = q[i]
      BY <1>2, <2>1
    <3> QED
      BY <1>1, <3>1, SeqEqual DEF Ways
  <2>3. CASE Len(p) < Len(q)
    <3>1. \A i \in 1..Len(p) : p[i] = q[i]
      BY <1>2, <2>1, <2>3
    <3> QED
      BY <1>1, <2>3, <3>1, LeafIsNoPrefix
  <2>4. CASE Len(q) < Len(p)
    <3>1. \A i \in 1..Len(q) : q[i] = p[i]
      BY <1>2, <2>1, <2>4
    <3> QED
      BY <1>1, <2>4, <3>1, LeafIsNoPrefix
  <2> QED
    BY <1>2, <2>2, <2>3, <2>4
<1>4. CASE X # {}
  <2>1. PICK i \in X : \A h \in X : i <= h
    <3>1. X \in SUBSET Nat
      OBVIOUS
    <3> HIDE DEF X
    <3> QED
      BY <1>4, <3>1, LeastNumber
  <2>2. i \in Nat /\ i >= 1 /\ i <= Len(p) /\ i <= Len(q) /\ p[i] # q[i]
    BY <2>1
  <2>3. \A h \in Nat : h >= 1 /\ h < i => p[h] = q[h] /\ q[h] = p[h]
    BY <1>2, <2>1
  <2>4. p[i] \in {0, 1} /\ q[i] \in {0, 1}
    BY <1>1, <2>2, Ways01
  <2>5. p[i] < q[i] \/ q[i] < p[i]
    BY <2>2, <2>4
  <2> QED
    BY <1>1, <2>2, <2>3, <2>5, LeftOfAt
<1> QED
  BY <1>3, <1>4

\* Of some leaves there is a leftmost one.
LEMMA LeftmostLeaf ==
  ASSUME NEW tree, Shaped(tree), NEW X \in SUBSET Leaves(tree), X # {}
  PROVE  \E p \in X : \A q \in X \ {p} : IsLeftOf(p, q)
<1> DEFINE before(p) == {q \in X : IsLeftOf(q, p)}
           G == {before(p) : p \in X}
<1>1. X \subseteq Ways /\ IsFiniteSet(X)
  <2>1. X \subseteq DOMAIN tree
    BY DEF Leaves
  <2> QED
    BY <2>1, FS_Subset DEF Shaped
<1>2. G \in SUBSET SUBSET X /\ G # {}
  OBVIOUS
<1>3. PICK Y \in G : \A Z \in G : Z \subseteq Y => Z = Y
  <2> HIDE DEF G
  <2> QED
    BY <1>1, <1>2, SmallestSet
<1>4. PICK p \in X : Y = before(p)
  BY <1>3
<1>5. ASSUME NEW q \in X \ {p}, ~IsLeftOf(p, q)
      PROVE  FALSE
  <2>1. IsLeftOf(q, p)
    BY <1>5, LeavesInOrder
  <2>2. before(q) \subseteq before(p)
    BY <1>1, <1>4, <2>1, LeftOfTransitive
  <2>3. q \in before(p) /\ q \notin before(q)
    BY <1>1, <2>1, NotLeftOfItself
  <2>4. before(q) \in G
    OBVIOUS
  <2> QED
    BY <1>3, <1>4, <2>2, <2>3, <2>4
<1> QED
  BY <1>5

\* findDivideNode finds a leaf that can be divided.
LEMMA DivideNodeType ==
  ASSUME NEW heap, NEW tree, Shaped(tree), Dividable(heap, tree) # {}
  PROVE  DivideNode(heap, tree) \in Dividable(heap, tree)
<1>1. Dividable(heap, tree) \in SUBSET Leaves(tree)
  BY DEF Dividable
<1>2. \E p \in Dividable(heap, tree) : \A q \in Dividable(heap, tree) \ {p} : IsLeftOf(p, q)
  BY <1>1, LeftmostLeaf
<1> QED
  BY <1>2 DEF DivideNode

\* Finitely many numbers have a largest one.
LEMMA LargestNumber ==
  ASSUME NEW X, X \subseteq Nat, IsFiniteSet(X), X # {}
  PROVE  \E x \in X : \A y \in X : x >= y
<1> DEFINE below(x) == {y \in X : y <= x}
           G == {below(x) : x \in X}
<1>1. G \in SUBSET SUBSET X /\ G # {}
  OBVIOUS
<1>2. PICK Y \in G : \A Z \in G : Y \subseteq Z => Z = Y
  <2>1. G \in SUBSET SUBSET X /\ G # {} /\ IsFiniteSet(X)
    BY <1>1
  <2> HIDE DEF G, below
  <2> QED
    BY ONLY <2>1, LargestSet
<1>3. PICK x \in X : Y = below(x)
  BY <1>2
<1>4. ASSUME NEW y \in X, ~(x >= y)
      PROVE  FALSE
  <2>1. x < y /\ x \in Nat /\ y \in Nat
    BY <1>4
  <2>2. below(x) \subseteq below(y) /\ y \in below(y) /\ y \notin below(x)
    <3>1. \A z \in X : z \in Nat /\ (z <= x => z <= y)
      BY <2>1
    <3>2. y <= y /\ ~(y <= x)
      BY <2>1
    <3> QED
      BY <3>1, <3>2
  <2>3. below(y) \in G
    OBVIOUS
  <2> QED
    BY <1>2, <1>3, <2>2, <2>3
<1> QED
  BY <1>4

\* The tree that searchSpaceGenerate makes: a leaf has got two children.
Grown(tree, node, a, b) == With(With(tree, Left(node), a), Right(node), b)

\* Its shape, its leaves and its objects.
IsGrown(down, tree, node, a, b) ==
  /\ node \in Ways /\ node \in DOMAIN tree
  /\ Left(node) \notin DOMAIN tree /\ Right(node) \notin DOMAIN tree
  /\ Left(node) # Right(node)
  /\ DOMAIN down = DOMAIN tree \cup {Left(node), Right(node)}
  /\ \A p \in DOMAIN tree : down[p] = tree[p]
  /\ down[Left(node)] = a /\ down[Right(node)] = b
  /\ Shaped(down)
  /\ Leaves(down) = (Leaves(tree) \ {node}) \cup {Left(node), Right(node)}

\* searchSpaceGenerate makes a tree again.
LEMMA GrownTree ==
  ASSUME NEW tree, Shaped(tree), NEW node \in Leaves(tree), NEW a, NEW b,
         NEW down, down = Grown(tree, node, a, b)
  PROVE  IsGrown(down, tree, node, a, b)
<1>1. node \in Ways /\ node \in DOMAIN tree /\ Left(node) \notin DOMAIN tree
  BY DEF Leaves, Shaped
<1>2. Right(node) \notin DOMAIN tree
  BY <1>1 DEF Shaped
<1> DEFINE l == Left(node)
           r == Right(node)
<1>3. l # r /\ l \in Ways /\ r \in Ways /\ l # <<>> /\ r # <<>>
  BY <1>1, ChildWays
<1>4. /\ down = [p \in DOMAIN down |-> down[p]]
      /\ DOMAIN down = DOMAIN tree \cup {l, r}
      /\ \A p \in DOMAIN tree : down[p] = tree[p]
      /\ down[l] = a /\ down[r] = b
  <2> HIDE DEF l, r
  <2> QED
    BY <1>1, <1>2, <1>3 DEF Grown, With, l, r
<1>5. \A p \in Ways : /\ Left(p) \in DOMAIN down <=> Left(p) \in DOMAIN tree \/ p = node
                      /\ Right(p) \in DOMAIN down <=> Right(p) \in DOMAIN tree \/ p = node
  <2> SUFFICES ASSUME NEW p \in Ways
               PROVE  /\ Left(p) \in DOMAIN down <=> Left(p) \in DOMAIN tree \/ p = node
                      /\ Right(p) \in DOMAIN down <=> Right(p) \in DOMAIN tree \/ p = node
    OBVIOUS
  <2>1. /\ Left(p) = l <=> p = node
        /\ Right(p) = r <=> p = node
        /\ Left(p) # r /\ Right(p) # l
    BY <1>1, ChildWays
  <2> HIDE DEF l, r
  <2> QED
    BY <1>4, <2>1
<1>6. Shaped(down)
  <2>1. DOMAIN down \subseteq Ways /\ <<>> \in DOMAIN down
    BY <1>3, <1>4 DEF Shaped
  <2>2. IsFiniteSet(DOMAIN down)
    <3> HIDE DEF l, r
    <3>1. IsFiniteSet(DOMAIN tree \cup {l})
      BY FS_AddElement DEF Shaped
    <3>2. IsFiniteSet((DOMAIN tree \cup {l}) \cup {r})
      BY <3>1, FS_AddElement
    <3>3. DOMAIN down = (DOMAIN tree \cup {l}) \cup {r}
      BY <1>4
    <3> QED
      BY <3>2, <3>3
  <2>3. \A p \in Ways : /\ Left(p) \in DOMAIN down => p \in DOMAIN down
                        /\ Left(p) \in DOMAIN down <=> Right(p) \in DOMAIN down
    BY <1>1, <1>4, <1>5 DEF Shaped
  <2> QED
    BY <1>4, <2>1, <2>2, <2>3 DEF Shaped
<1>7. Leaves(down) = (Leaves(tree) \ {node}) \cup {l, r}
  <2>1. Left(l) \notin DOMAIN down /\ Left(r) \notin DOMAIN down
    <3>1. l \notin DOMAIN tree /\ r \notin DOMAIN tree
      BY <1>1, <1>2
    <3>2. Left(l) \notin DOMAIN tree /\ Left(r) \notin DOMAIN tree
      BY <1>3, <3>1 DEF Shaped
    <3>3. l # node /\ r # node
      BY <1>1, <3>1
    <3> QED
      BY <1>3, <1>5, <3>2, <3>3
  <2>2. ASSUME NEW p \in DOMAIN tree
        PROVE  p \in Leaves(down) <=> p \in Leaves(tree) /\ p # node
    <3>1. p \in Ways
      BY DEF Shaped
    <3> QED
      BY <1>4, <1>5, <3>1 DEF Leaves
  <2>3. \A p : p \in Leaves(down) <=> p \in (Leaves(tree) \ {node}) \cup {l, r}
    <3>1. \A p \in Leaves(down) : p \in DOMAIN tree \cup {l, r}
      BY <1>4 DEF Leaves
    <3>2. \A p \in Leaves(tree) : p \in DOMAIN tree
      BY DEF Leaves
    <3>3. l \in Leaves(down) /\ r \in Leaves(down)
      BY <1>4, <2>1 DEF Leaves
    <3> HIDE DEF l, r
    <3> QED
      BY <2>2, <3>1, <3>2, <3>3
  <2> QED
    BY <2>3
<1> QED
  BY <1>1, <1>2, <1>3, <1>4, <1>6, <1>7 DEF IsGrown

\* The parent's tree has a fresh object at the node.
Replanted(tree, node, a) == [tree EXCEPT ![node] = a]
\* The same tree, with another object at one leaf.
IsReplanted(t, tree, node, a) ==
  /\ DOMAIN t = DOMAIN tree /\ Shaped(t) /\ Leaves(t) = Leaves(tree)
  /\ t[node] = a /\ \A p \in DOMAIN tree \ {node} : t[p] = tree[p]

\* The tree the divided space goes on with.
LEMMA ReplantedTree ==
  ASSUME NEW tree, Shaped(tree), NEW node \in Leaves(tree), NEW a
  PROVE  IsReplanted(Replanted(tree, node, a), tree, node, a)
BY DEF Shaped, Leaves, Replanted, IsReplanted

-----------------------------------------------------------------------------
(***************************************************************************)
(* The heap.                                                               *)
(***************************************************************************)

\* Functions of some of the inputs.
Parts == {f \in FunctionsOver(initBF.ins) : f.on \subseteq SUBSET f.ins}

\* The objects of the heap.
Objects == [fn : Parts, oper : Methods \cup {"none"}, currentDivide : Nat]

\* divide() with method m.
DivisionOf(f, m) == Divide(f, LeftPart(f.ins, m), f.ins \ LeftPart(f.ins, m), search.ignoreXor)

\* An object that was divided has the operation of its last division.
HeapOK(heap) ==
  /\ heap = [id \in DOMAIN heap |-> heap[id]]
  /\ DOMAIN heap \subseteq Nat /\ IsFiniteSet(DOMAIN heap)
  /\ \A id \in DOMAIN heap :
       /\ heap[id] \in Objects
       /\ heap[id].currentDivide # 0 =>
            heap[id].oper = DivisionOf(heap[id].fn, heap[id].currentDivide).oper

\* The new objects overwrite none and are three.
LEMMA FreePlaces ==
  ASSUME NEW heap, DOMAIN heap \subseteq Nat, IsFiniteSet(DOMAIN heap)
  PROVE  /\ Free(heap, 1) \in Nat /\ Free(heap, 1) \notin DOMAIN heap
         /\ Free(heap, 2) \in Nat /\ Free(heap, 2) \notin DOMAIN heap
         /\ Free(heap, 3) \in Nat /\ Free(heap, 3) \notin DOMAIN heap
         /\ Free(heap, 1) # Free(heap, 2) /\ Free(heap, 1) # Free(heap, 3)
         /\ Free(heap, 2) # Free(heap, 3)
<1> DEFINE X == {0} \cup DOMAIN heap
<1>1. IsFiniteSet(X) /\ X \subseteq Nat /\ X # {}
  <2>1. IsFiniteSet(DOMAIN heap \cup {0}) /\ X = DOMAIN heap \cup {0}
    BY FS_AddElement
  <2> QED
    BY <2>1
<1>2. \E x \in X : \A y \in X : x >= y
  BY <1>1, LargestNumber
<1>3. Max(X) \in X /\ \A y \in X : Max(X) >= y
  BY <1>2 DEF Max
<1>4. \A k \in {1, 2, 3} : Free(heap, k) = Max(X) + k
  BY DEF Free
<1>5. DOMAIN heap \subseteq X
  OBVIOUS
<1> HIDE DEF X
<1>6. \A y \in DOMAIN heap : y \in Nat /\ Max(X) >= y
  BY <1>1, <1>3, <1>5
<1>7. Max(X) \in Nat
  BY <1>1, <1>3
<1> QED
  BY <1>4, <1>6, <1>7

\* The search and the function are what the configuration allows.
Searching == search \in Searches /\ initBF \in InitFunctions

\* What is assumed of the function.
LEMMA InitialFunction ==
  ASSUME Searching
  PROVE  /\ initBF \in Parts
         /\ IsFiniteSet(initBF.ins) /\ initBF.ins \subseteq Nat /\ initBF.ins # {}
BY SearchAssumption DEF Searching, Parts, FunctionsOver

\* The parts of a function.
LEMMA DivisionParts ==
  ASSUME Searching, NEW f \in Parts, NEW m
  PROVE  LET part == LeftPart(f.ins, m)
             d    == DivisionOf(f, m)
         IN  /\ IsFiniteSet(f.ins) /\ part \subseteq f.ins
             /\ IsDivision(d, part, f.ins \ part)
             /\ d.left \in Parts /\ d.right \in Parts
             /\ d.left.ins \cup d.right.ins = f.ins
             /\ d.oper \in Methods
<1> DEFINE part == LeftPart(f.ins, m)
           d == DivisionOf(f, m)
<1>1. f.ins \subseteq initBF.ins /\ IsFiniteSet(f.ins)
  <2>1. f.ins \subseteq initBF.ins
    BY DEF FunctionsOver, Parts
  <2> QED
    BY <2>1, InitialFunction, FS_Subset
<1>2. part \subseteq f.ins
  BY DEF LeftPart
<1>3. IsFiniteSet(part) /\ IsFiniteSet(f.ins \ part)
  BY <1>1, <1>2, FS_Subset
<1>4. d = Divide(f, part, f.ins \ part, search.ignoreXor)
  BY DEF DivisionOf
<1> HIDE DEF part, d
<1>5. IsDivision(d, part, f.ins \ part)
  BY <1>3, <1>4, DivideType
<1>6. /\ d.left.ins = part /\ d.right.ins = f.ins \ part
      /\ d.left \in Parts /\ d.right \in Parts
  BY <1>1, <1>2, <1>5 DEF IsDivision, FunctionsOver, Parts
<1>7. d.oper \in Methods
  BY <1>5 DEF IsDivision
<1> QED
  BY <1>1, <1>2, <1>5, <1>6, <1>7 DEF part, d

\* The heap that searchSpaceGenerate leaves.
NewHeap(heap, id, method, res) ==
  With(With(With([heap EXCEPT ![id].oper = res.oper, ![id].currentDivide = method],
                 Free(heap, 1), NewOp(heap[id].fn)),
            Free(heap, 2), NewOp(res.left)),
       Free(heap, 3), NewOp(res.right))

\* What is at each place of it.
LEMMA NewHeapAt ==
  ASSUME NEW heap, HeapOK(heap), NEW id \in DOMAIN heap, NEW m, NEW d,
         NEW h, h = NewHeap(heap, id, m, d)
  PROVE  /\ h = [i \in DOMAIN h |-> h[i]]
         /\ DOMAIN h = DOMAIN heap \cup {Free(heap, 1), Free(heap, 2), Free(heap, 3)}
         /\ h[id] = [fn |-> heap[id].fn, oper |-> d.oper, currentDivide |-> m]
         /\ \A i \in DOMAIN heap \ {id} : h[i] = heap[i]
         /\ h[Free(heap, 1)] = NewOp(heap[id].fn)
         /\ h[Free(heap, 2)] = NewOp(d.left) /\ h[Free(heap, 3)] = NewOp(d.right)
<1> DEFINE old == [heap EXCEPT ![id].oper = d.oper, ![id].currentDivide = m]
           a == Free(heap, 1)
           b == Free(heap, 2)
           c == Free(heap, 3)
<1>1. /\ a \notin DOMAIN heap /\ b \notin DOMAIN heap /\ c \notin DOMAIN heap
      /\ a # b /\ a # c /\ b # c
  BY FreePlaces DEF HeapOK
<1>2. /\ DOMAIN old = DOMAIN heap
      /\ old[id] = [fn |-> heap[id].fn, oper |-> d.oper, currentDivide |-> m]
      /\ \A i \in DOMAIN heap \ {id} : old[i] = heap[i]
  BY DEF HeapOK, Objects
<1>3. h = With(With(With(old, a, NewOp(heap[id].fn)), b, NewOp(d.left)), c, NewOp(d.right))
  BY DEF NewHeap
<1> HIDE DEF old, a, b, c
<1>4. /\ h = [i \in DOMAIN h |-> h[i]]
      /\ DOMAIN h = DOMAIN old \cup {a, b, c}
      /\ \A i \in DOMAIN old : h[i] = old[i]
      /\ h[a] = NewOp(heap[id].fn) /\ h[b] = NewOp(d.left) /\ h[c] = NewOp(d.right)
  BY <1>1, <1>2, <1>3 DEF With
<1> QED
  BY <1>2, <1>4 DEF a, b, c

\* The objects keep their functions, and those that were divided their
\* operation.
Extended(heap, h) ==
  /\ DOMAIN heap \subseteq DOMAIN h
  /\ \A i \in DOMAIN heap :
       /\ h[i].fn = heap[i].fn
       /\ heap[i].currentDivide # 0 =>
            h[i].oper = heap[i].oper /\ h[i].currentDivide = heap[i].currentDivide

\* The only object that changes is the divided one; three are new.
DividedWith(heap, h, id, m) ==
  /\ h[id].currentDivide = m
  /\ \A i \in DOMAIN heap : i # id => h[i] = heap[i]
  /\ DOMAIN h = DOMAIN heap \cup {Free(heap, 1), Free(heap, 2), Free(heap, 3)}
  /\ h[Free(heap, 1)] = NewOp(heap[id].fn)
  /\ h[Free(heap, 2)] = NewOp(DivisionOf(heap[id].fn, m).left)
  /\ h[Free(heap, 3)] = NewOp(DivisionOf(heap[id].fn, m).right)

\* So they do if the object at id is divided as it was before.
LEMMA NewHeapOK ==
  ASSUME Searching, NEW heap, HeapOK(heap), NEW id \in DOMAIN heap, NEW m \in Nat \ {0},
         NEW h, h = NewHeap(heap, id, m, DivisionOf(heap[id].fn, m)),
         heap[id].currentDivide \in {0, m}
  PROVE  HeapOK(h) /\ Extended(heap, h) /\ DividedWith(heap, h, id, m)
<1> DEFINE f == heap[id].fn
           d == DivisionOf(f, m)
           a == Free(heap, 1)
           b == Free(heap, 2)
           c == Free(heap, 3)
<1>1. heap[id] \in Objects /\ f \in Parts
  BY DEF HeapOK, Objects
<1>2. /\ d.left \in Parts /\ d.right \in Parts
      /\ d.oper \in Methods
  BY <1>1, DivisionParts
<1>3. a \in Nat /\ b \in Nat /\ c \in Nat
  BY FreePlaces DEF HeapOK
<1>4. /\ h = [i \in DOMAIN h |-> h[i]]
      /\ DOMAIN h = DOMAIN heap \cup {a, b, c}
      /\ h[id] = [fn |-> f, oper |-> d.oper, currentDivide |-> m]
      /\ \A i \in DOMAIN heap \ {id} : h[i] = heap[i]
      /\ h[a] = NewOp(f) /\ h[b] = NewOp(d.left) /\ h[c] = NewOp(d.right)
  BY NewHeapAt
<1>5. IsFiniteSet(DOMAIN h)
  <2>1. IsFiniteSet(DOMAIN heap)
    BY DEF HeapOK
  <2> HIDE DEF a, b, c
  <2>2. IsFiniteSet(((DOMAIN heap \cup {a}) \cup {b}) \cup {c})
    BY <2>1, FS_AddElement
  <2>3. DOMAIN h = ((DOMAIN heap \cup {a}) \cup {b}) \cup {c}
    BY <1>4
  <2> QED
    BY <2>2, <2>3
<1>6. heap[id].currentDivide # 0 => heap[id].oper = d.oper /\ heap[id].currentDivide = m
  BY DEF HeapOK
<1> HIDE DEF f, d, a, b, c
<1>7. NewOp(f) \in Objects /\ NewOp(d.left) \in Objects /\ NewOp(d.right) \in Objects
  BY <1>1, <1>2 DEF NewOp, Objects
<1>8. [fn |-> f, oper |-> d.oper, currentDivide |-> m] \in Objects
  BY <1>1, <1>2 DEF Objects
<1>9. NewOp(f).currentDivide = 0 /\ NewOp(d.left).currentDivide = 0 /\ NewOp(d.right).currentDivide = 0
  BY DEF NewOp
<1>10. ASSUME NEW i \in DOMAIN h
       PROVE  /\ h[i] \in Objects
              /\ h[i].currentDivide # 0 => h[i].oper = DivisionOf(h[i].fn, h[i].currentDivide).oper
  <2>1. CASE i \in {a, b, c}
    BY <1>4, <1>7, <1>9, <2>1
  <2>2. CASE i = id
    <3>1. /\ h[id].fn = f /\ h[id].oper = d.oper /\ h[id].currentDivide = m
      BY <1>4
    <3> QED
      BY <1>4, <1>8, <2>2, <3>1 DEF d
  <2>3. CASE i \in DOMAIN heap \ {id}
    BY <1>4, <2>3 DEF HeapOK
  <2> QED
    BY <1>4, <2>1, <2>2, <2>3
<1>11. HeapOK(h)
  <2>1. DOMAIN h \subseteq Nat
    BY <1>3, <1>4 DEF HeapOK
  <2> QED
    BY <1>4, <1>5, <1>10, <2>1 DEF HeapOK
<1>12. ASSUME NEW i \in DOMAIN heap
       PROVE  /\ h[i].fn = heap[i].fn
              /\ heap[i].currentDivide # 0 =>
                   h[i].oper = heap[i].oper /\ h[i].currentDivide = heap[i].currentDivide
  <2>1. CASE i = id
    BY <1>4, <1>6, <2>1 DEF f
  <2>2. CASE i # id
    BY <1>4, <2>2
  <2> QED
    BY <2>1, <2>2
<1>13. DividedWith(heap, h, id, m)
  <2>1. h[id].currentDivide = m /\ \A i \in DOMAIN heap : i # id => h[i] = heap[i]
    BY <1>4
  <2> QED
    BY <1>4, <2>1 DEF DividedWith, f, d, a, b, c
<1>14. DOMAIN heap \subseteq DOMAIN h
  BY <1>4
<1> QED
  BY <1>11, <1>12, <1>13, <1>14 DEF Extended

-----------------------------------------------------------------------------
(***************************************************************************)
(* Spaces.                                                                 *)
(***************************************************************************)

\* A record with the fields of a space.
IsSpace(s) ==
  s = [tree |-> s.tree, currentDivide |-> s.currentDivide, divideRange |-> s.divideRange,
       totalError |-> s.totalError, isPreviouslyCalculated |-> s.isPreviouslyCalculated,
       children |-> s.children]

\* The divided nodes.
Inner(tree) == DOMAIN tree \ Leaves(tree)

\* The children of a node are the parts of the last division of its object.
DividedAt(heap, tree, p) ==
  LET o == heap[tree[p]]
      d == DivisionOf(o.fn, o.currentDivide)
  IN  /\ o.currentDivide \in 1..(2^Cardinality(o.fn.ins) - 2)
      /\ IsDividable(o.fn)
      /\ heap[tree[Left(p)]].fn = d.left /\ heap[tree[Right(p)]].fn = d.right

\* The number of divisions of the node that is divided next.
RangeOf(heap, tree) ==
  IF Dividable(heap, tree) # {}
  THEN 2^Cardinality(heap[tree[DivideNode(heap, tree)]].fn.ins) ELSE 0

\* The method a leaf will be divided with when it is divided for the first
\* time, by this space or by one below it.
NextMethod(heap, s, p) == IF p = DivideNode(heap, s.tree) THEN s.currentDivide ELSE 1

\* A space: its tree is made of divisions of initBF, its errors are those of the
\* tree, and no leaf was divided by another space with another method than the
\* one this space will use next.
SpaceOK(heap, s) ==
  /\ IsSpace(s) /\ Shaped(s.tree)
  /\ \A p \in DOMAIN s.tree : s.tree[p] \in DOMAIN heap
  /\ heap[s.tree[<<>>]].fn = initBF
  /\ s.currentDivide \in Nat \ {0}
  /\ s.divideRange = RangeOf(heap, s.tree)
  /\ s.totalError = BooleanCompare(initBF, Final(heap, s.tree))
  /\ \A p \in Inner(s.tree) : DividedAt(heap, s.tree, p)
  /\ \A p \in Dividable(heap, s.tree) :
       heap[s.tree[p]].currentDivide \in {0, NextMethod(heap, s, p)}

\* Two spaces that share a leaf will divide it with the same method.
Agree(heap, s, t) ==
  \A p \in Dividable(heap, s.tree), q \in Dividable(heap, t.tree) :
    s.tree[p] = t.tree[q] => NextMethod(heap, s, p) = NextMethod(heap, t, q)

\* The spaces that exist at the same time.
Good(heap, S) ==
  /\ HeapOK(heap)
  /\ \A s \in S : SpaceOK(heap, s)
  /\ \A s, t \in S : Agree(heap, s, t)

\* The function of a tree depends on the functions of its leaves and the
\* operations of its inner nodes only.
LEMMA FinalDependsOn ==
  ASSUME NEW h, NEW t, NEW k, NEW u, DOMAIN t = DOMAIN u,
         \A p \in Leaves(t) : h[t[p]].fn = k[u[p]].fn,
         \A p \in Inner(t) : h[t[p]].oper = k[u[p]].oper
  PROVE  Final(h, t) = Final(k, u)
<1> DEFINE A(v) == [p \in DOMAIN t |->
                      IF p \in Leaves(t) THEN h[t[p]].fn
                      ELSE Combine(v[Left(p)], v[Right(p)], h[t[p]].oper)]
           B(v) == [p \in DOMAIN u |->
                      IF p \in Leaves(u) THEN k[u[p]].fn
                      ELSE Combine(v[Left(p)], v[Right(p)], k[u[p]].oper)]
<1>1. Leaves(t) = Leaves(u)
  BY DEF Leaves
<1>2. ASSUME NEW v
      PROVE  A(v) = B(v)
  BY <1>1 DEF Inner
<1>3. Final(h, t) = (CHOOSE v : v = A(v))[<<>>]
  BY Zenon DEF Final
<1>4. Final(k, u) = (CHOOSE v : v = B(v))[<<>>]
  BY Zenon DEF Final
<1> HIDE DEF A, B
<1>5. (CHOOSE v : v = A(v)) = (CHOOSE v : v = B(v))
  BY <1>2, Zenon
<1> QED
  BY <1>3, <1>4, <1>5

\* The same, when the functions of all nodes stay what they are.
LEMMA SameFunctions ==
  ASSUME NEW h, NEW t, NEW k, NEW u, DOMAIN t = DOMAIN u,
         \A p \in DOMAIN t : h[t[p]].fn = k[u[p]].fn
  PROVE  /\ Leaves(t) = Leaves(u) /\ Inner(t) = Inner(u)
         /\ Dividable(h, t) = Dividable(k, u)
         /\ DivideNode(h, t) = DivideNode(k, u)
         /\ Shaped(u) => RangeOf(h, t) = RangeOf(k, u)
<1>1. Leaves(t) = Leaves(u) /\ Inner(t) = Inner(u)
  BY DEF Leaves, Inner
<1>2. Dividable(h, t) = Dividable(k, u)
  BY <1>1 DEF Dividable, Leaves
<1>3. DivideNode(h, t) = DivideNode(k, u)
  BY <1>2 DEF DivideNode
<1>4. ASSUME Shaped(u)
      PROVE  RangeOf(h, t) = RangeOf(k, u)
  <2>1. Dividable(k, u) # {} => DivideNode(k, u) \in DOMAIN t
    BY <1>4, DivideNodeType DEF Dividable, Leaves
  <2> QED
    BY <1>2, <1>3, <2>1 DEF RangeOf
<1> QED
  BY <1>1, <1>2, <1>3, <1>4

\* An inner node has both its children in the tree.
LEMMA InnerNode ==
  ASSUME NEW tree, Shaped(tree), NEW p \in Inner(tree)
  PROVE  p \in DOMAIN tree /\ p \in Ways /\ Left(p) \in DOMAIN tree /\ Right(p) \in DOMAIN tree
BY DEF Inner, Leaves, Shaped

\* What searchSpaceGenerate does to a space that shares objects with the
\* divided one: nothing it could notice.
LEMMA OldSpaceKept ==
  ASSUME NEW heap, NEW h, Extended(heap, h), NEW t, SpaceOK(heap, t),
         \A p \in Dividable(heap, t.tree) :
              h[t.tree[p]].currentDivide \in {0, NextMethod(heap, t, p)}
  PROVE  /\ SpaceOK(h, t)
         /\ Dividable(h, t.tree) = Dividable(heap, t.tree)
         /\ \A p : NextMethod(h, t, p) = NextMethod(heap, t, p)
<1> USE DEF Extended
<1> DEFINE tree == t.tree
<1>1. Shaped(tree) /\ \A p \in DOMAIN tree : tree[p] \in DOMAIN heap
  BY DEF SpaceOK
<1>2. \A p \in DOMAIN tree : h[tree[p]].fn = heap[tree[p]].fn
  BY <1>1
<1>3. /\ Dividable(h, tree) = Dividable(heap, tree)
      /\ DivideNode(h, tree) = DivideNode(heap, tree)
      /\ RangeOf(h, tree) = RangeOf(heap, tree)
  BY <1>1, <1>2, SameFunctions
<1>4. ASSUME NEW p \in Inner(tree)
      PROVE  /\ DividedAt(h, tree, p)
             /\ h[tree[p]].oper = heap[tree[p]].oper
  <2>1. p \in DOMAIN tree /\ Left(p) \in DOMAIN tree /\ Right(p) \in DOMAIN tree
    BY <1>1, <1>4, InnerNode
  <2>2. DividedAt(heap, tree, p)
    BY DEF SpaceOK
  <2>3. heap[tree[p]].currentDivide # 0
    BY <2>2 DEF DividedAt
  <2>4. /\ h[tree[p]].fn = heap[tree[p]].fn
        /\ h[tree[p]].oper = heap[tree[p]].oper
        /\ h[tree[p]].currentDivide = heap[tree[p]].currentDivide
        /\ h[tree[Left(p)]].fn = heap[tree[Left(p)]].fn
        /\ h[tree[Right(p)]].fn = heap[tree[Right(p)]].fn
    BY <1>1, <2>1, <2>3
  <2> QED
    BY <2>2, <2>4 DEF DividedAt
<1>5. Final(h, tree) = Final(heap, tree)
  <2>1. \A p \in Leaves(tree) : h[tree[p]].fn = heap[tree[p]].fn
    BY <1>2 DEF Leaves
  <2> QED
    BY <1>4, <2>1, FinalDependsOn
<1>6. h[tree[<<>>]].fn = initBF
  BY <1>1, <1>2 DEF SpaceOK, Shaped
<1>7. \A p : NextMethod(h, t, p) = NextMethod(heap, t, p)
  BY <1>3 DEF NextMethod
<1>8. \A p \in DOMAIN tree : tree[p] \in DOMAIN h
  BY <1>1
<1> QED
  BY <1>1, <1>3, <1>4, <1>5, <1>6, <1>7, <1>8 DEF SpaceOK

\* A space that is about to be divided with method m.
Dividing(heap, s, m) ==
  /\ HeapOK(heap) /\ SpaceOK(heap, s) /\ Agree(heap, s, s)
  /\ Dividable(heap, s.tree) # {}
  /\ m = s.currentDivide /\ m <= RangeOf(heap, s.tree) - 2

\* The object that is divided, and the heap when it has been.
DividedId(heap, s) == s.tree[DivideNode(heap, s.tree)]
HeapAfter(heap, s, m) ==
  NewHeap(heap, DividedId(heap, s), m, DivisionOf(heap[DividedId(heap, s)].fn, m))

\* The object that is divided was never divided, or with the same method.
LEMMA DividingFacts ==
  ASSUME Searching, NEW heap, NEW s, NEW m, Dividing(heap, s, m),
         NEW node, node = DivideNode(heap, s.tree), NEW id, id = DividedId(heap, s),
         NEW h, h = HeapAfter(heap, s, m)
  PROVE  /\ node \in Leaves(s.tree) /\ node \in Dividable(heap, s.tree) /\ id = s.tree[node]
         /\ id \in DOMAIN heap /\ heap[id].fn \in Parts
         /\ IsDividable(heap[id].fn)
         /\ m \in Nat \ {0} /\ m \in 1..(2^Cardinality(heap[id].fn.ins) - 2)
         /\ heap[id].currentDivide \in {0, m}
         /\ h = NewHeap(heap, id, m, DivisionOf(heap[id].fn, m))
         /\ \A p \in Dividable(heap, s.tree) \ {node} :
              /\ NextMethod(heap, s, p) = 1
              /\ h[s.tree[p]].currentDivide \in {0, 1}
<1>1. node \in Dividable(heap, s.tree) /\ node \in Leaves(s.tree) /\ node \in DOMAIN s.tree
  BY DivideNodeType DEF Dividing, SpaceOK, Dividable, Leaves
<1>2. id = s.tree[node] /\ id \in DOMAIN heap
  BY <1>1 DEF Dividing, SpaceOK, DividedId
<1>3. heap[id].fn \in Parts /\ IsDividable(heap[id].fn)
  BY <1>1, <1>2 DEF Dividing, HeapOK, Objects, Dividable
<1>4. m \in Nat \ {0}
  BY DEF Dividing, SpaceOK
<1>5. m \in 1..(2^Cardinality(heap[id].fn.ins) - 2)
  <2>1. RangeOf(heap, s.tree) = 2^Cardinality(heap[id].fn.ins)
    BY <1>2 DEF RangeOf, Dividing
  <2>2. m <= 2^Cardinality(heap[id].fn.ins) - 2
    BY <2>1 DEF Dividing
  <2>3. 2^Cardinality(heap[id].fn.ins) \in Nat
    <3>1. IsFiniteSet(heap[id].fn.ins)
      BY <1>3, DivisionParts
    <3> QED
      BY <3>1, FS_CardinalityType, PowerType
  <2> QED
    BY <1>4, <2>2, <2>3
<1>6. heap[id].currentDivide \in {0, m}
  BY <1>1, <1>2 DEF Dividing, SpaceOK, NextMethod
<1>7. h = NewHeap(heap, id, m, DivisionOf(heap[id].fn, m))
  BY DEF HeapAfter
<1>9. h[id].currentDivide = m /\ \A i \in DOMAIN heap : i # id => h[i] = heap[i]
  <2>1. HeapOK(heap)
    BY DEF Dividing
  <2>2. DividedWith(heap, h, id, m)
    BY <1>2, <1>4, <1>6, <1>7, <2>1, NewHeapOK
  <2> QED
    BY <2>2 DEF DividedWith
<1>8. ASSUME NEW p \in Dividable(heap, s.tree) \ {node}
      PROVE  /\ NextMethod(heap, s, p) = 1
             /\ h[s.tree[p]].currentDivide \in {0, 1}
  <2>1. NextMethod(heap, s, p) = 1 /\ NextMethod(heap, s, node) = m
    BY DEF NextMethod, Dividing
  <2>2. s.tree[p] \in DOMAIN heap /\ heap[s.tree[p]].currentDivide \in {0, 1}
    BY <2>1 DEF Dividing, SpaceOK, Dividable, Leaves
  <2>3. CASE s.tree[p] = id
    <3>1. m = 1
      BY <1>1, <1>2, <2>1, <2>3 DEF Dividing, Agree
    <3> QED
      BY <1>9, <2>1, <2>3, <3>1
  <2>4. CASE s.tree[p] # id
    <3>1. h[s.tree[p]] = heap[s.tree[p]]
      BY <1>9, <2>2, <2>4
    <3> QED
      BY <2>1, <2>2, <3>1
  <2> QED
    BY <2>3, <2>4
<1> QED
  BY <1>1, <1>2, <1>3, <1>4, <1>5, <1>6, <1>7, <1>8

\* The divided space goes on with a fresh object at its node.
GoesOn(heap, h, s, u, node) ==
  \A p \in Dividable(h, u.tree) :
    \/ p = node /\ u.tree[p] = Free(heap, 1)
    \/ /\ p \in Dividable(heap, s.tree) \ {node}
       /\ u.tree[p] = s.tree[p] /\ NextMethod(h, u, p) = 1

\* The divided space is as good with it as before.
LEMMA ParentKept ==
  ASSUME Searching, NEW heap, NEW s, NEW m, Dividing(heap, s, m),
         NEW node, node = DivideNode(heap, s.tree),
         NEW h, h = HeapAfter(heap, s, m),
         NEW u, IsSpace(u), u.tree = Replanted(s.tree, node, Free(heap, 1)),
         u.currentDivide \in Nat \ {0},
         u.divideRange = s.divideRange, u.totalError = s.totalError
  PROVE  SpaceOK(h, u) /\ GoesOn(heap, h, s, u, node)
<1> DEFINE id == DividedId(heap, s)
           a == Free(heap, 1)
<1>1. /\ node \in Leaves(s.tree) /\ node \in Dividable(heap, s.tree) /\ id = s.tree[node]
      /\ id \in DOMAIN heap /\ heap[id].fn \in Parts
      /\ m \in Nat \ {0} /\ heap[id].currentDivide \in {0, m}
      /\ h = NewHeap(heap, id, m, DivisionOf(heap[id].fn, m))
      /\ \A p \in Dividable(heap, s.tree) \ {node} :
              /\ NextMethod(heap, s, p) = 1
              /\ h[s.tree[p]].currentDivide \in {0, 1}
  BY DividingFacts
<1> HIDE DEF id, a
<1>2. /\ HeapOK(heap) /\ Shaped(s.tree)
      /\ \A p \in DOMAIN s.tree : s.tree[p] \in DOMAIN heap
  BY DEF Dividing, SpaceOK
<1>3. Extended(heap, h) /\ DividedWith(heap, h, id, m)
  BY <1>1, <1>2, NewHeapOK
<1>4. a \in DOMAIN h /\ h[a].fn = heap[id].fn /\ h[a].currentDivide = 0
  BY <1>3 DEF a, NewOp, DividedWith
<1> DEFINE t == s.tree
           v == u.tree
<1>5. /\ DOMAIN v = DOMAIN t /\ Shaped(v) /\ Leaves(v) = Leaves(t)
      /\ v[node] = a /\ \A p \in DOMAIN t \ {node} : v[p] = t[p]
  <2>1. v = Replanted(t, node, a) /\ Shaped(t) /\ node \in Leaves(t)
    BY <1>1, <1>2 DEF a, Replanted
  <2>2. IsReplanted(v, t, node, a)
    BY <2>1, ReplantedTree
  <2> QED
    BY <2>2 DEF IsReplanted
<1>6. \A p \in DOMAIN t : h[v[p]].fn = heap[t[p]].fn
  <2> SUFFICES ASSUME NEW p \in DOMAIN t
               PROVE  h[v[p]].fn = heap[t[p]].fn
    OBVIOUS
  <2>1. CASE p = node
    BY <1>1, <1>4, <1>5, <2>1
  <2>2. CASE p # node
    <3>1. v[p] = t[p] /\ t[p] \in DOMAIN heap
      BY <1>2, <1>5, <2>2
    <3> QED
      BY <1>3, <3>1 DEF Extended
  <2> QED
    BY <2>1, <2>2
<1>7. /\ Inner(v) = Inner(t)
      /\ Dividable(h, v) = Dividable(heap, t)
      /\ DivideNode(h, v) = node
      /\ RangeOf(h, v) = RangeOf(heap, t)
  <2>1. Shaped(t) /\ DivideNode(heap, t) = node
    BY <1>2
  <2> HIDE DEF t, v
  <2> QED
    BY ONLY <1>5, <1>6, <2>1, SameFunctions
<1>8. ASSUME NEW p \in Inner(t)
      PROVE  DividedAt(h, v, p) /\ h[v[p]].oper = heap[t[p]].oper
  <2>1. p \in DOMAIN t /\ Left(p) \in DOMAIN t /\ Right(p) \in DOMAIN t
    BY <1>2, InnerNode
  <2>2. p # node
    BY <1>1 DEF Inner
  <2>3. DividedAt(heap, t, p)
    BY DEF Dividing, SpaceOK
  <2>4. heap[t[p]].currentDivide # 0
    BY <2>3 DEF DividedAt
  <2>5. v[p] = t[p] /\ t[p] \in DOMAIN heap
    BY <1>2, <1>5, <2>1, <2>2
  <2>6. /\ h[v[p]].fn = heap[t[p]].fn
        /\ h[v[p]].oper = heap[t[p]].oper
        /\ h[v[p]].currentDivide = heap[t[p]].currentDivide
    BY <1>3, <2>4, <2>5 DEF Extended
  <2>7. /\ h[v[Left(p)]].fn = heap[t[Left(p)]].fn
        /\ h[v[Right(p)]].fn = heap[t[Right(p)]].fn
    BY <1>6, <2>1
  <2> QED
    BY <2>3, <2>6, <2>7 DEF DividedAt
<1>9. Final(h, v) = Final(heap, t)
  <2>1. \A p \in Leaves(v) : h[v[p]].fn = heap[t[p]].fn
    BY <1>5, <1>6 DEF Leaves
  <2>2. \A p \in Inner(v) : h[v[p]].oper = heap[t[p]].oper
    BY <1>7, <1>8
  <2> HIDE DEF t, v
  <2> QED
    BY ONLY <1>5, <2>1, <2>2, FinalDependsOn
<1>10. ASSUME NEW p \in Dividable(h, v)
       PROVE  /\ \/ p = node /\ v[p] = a
                 \/ /\ p \in Dividable(heap, t) \ {node}
                    /\ v[p] = t[p] /\ NextMethod(h, u, p) = 1
              /\ h[v[p]].currentDivide \in {0, NextMethod(h, u, p)}
  <2>1. CASE p = node
    BY <1>4, <1>5, <2>1
  <2>2. CASE p # node
    <3>1. p \in Dividable(heap, t) \ {node} /\ p \in DOMAIN t
      BY <1>7, <2>2 DEF Dividable, Leaves
    <3>2. v[p] = t[p] /\ NextMethod(h, u, p) = 1
      BY <1>5, <1>7, <2>2, <3>1 DEF NextMethod
    <3> QED
      BY <1>1, <3>1, <3>2
  <2> QED
    BY <2>1, <2>2
<1>11. h[v[<<>>]].fn = initBF /\ \A p \in DOMAIN v : v[p] \in DOMAIN h
  <2>1. <<>> \in DOMAIN t
    BY <1>2 DEF Shaped
  <2>2. heap[t[<<>>]].fn = initBF
    BY DEF Dividing, SpaceOK
  <2>3. \A p \in DOMAIN t : v[p] \in DOMAIN h
    BY <1>2, <1>3, <1>4, <1>5 DEF Extended
  <2> QED
    BY <1>5, <1>6, <2>1, <2>2, <2>3
<1>12. u.divideRange = RangeOf(h, v) /\ u.totalError = BooleanCompare(initBF, Final(h, v))
  BY <1>7, <1>9 DEF Dividing, SpaceOK
<1> QED
  <2>1. SpaceOK(h, u)
    BY <1>5, <1>7, <1>8, <1>10, <1>11, <1>12 DEF SpaceOK
  <2>2. GoesOn(heap, h, s, u, node)
    BY <1>10 DEF GoesOn, a
  <2> QED
    BY <2>1, <2>2

\* The dividable leaves of w have fresh objects, those of X, or leaves of s
\* that are yet to be divided for the first time.
Heir(heap, h, s, w, X) ==
  \A p \in Dividable(h, w.tree) :
    \/ w.tree[p] \in X
    \/ /\ NextMethod(h, w, p) = 1
       /\ \E q \in Dividable(heap, s.tree) : w.tree[p] = s.tree[q] /\ NextMethod(heap, s, q) = 1

\* The new space: one more node is divided.
LEMMA ChildKept ==
  ASSUME Searching, NEW heap, NEW s, NEW m, Dividing(heap, s, m),
         NEW node, node = DivideNode(heap, s.tree),
         NEW h, h = HeapAfter(heap, s, m),
         NEW down, down = Grown(s.tree, node, Free(heap, 2), Free(heap, 3)),
         NEW c, c = NewSpace(h, down)
  PROVE  /\ SpaceOK(h, c) /\ c.currentDivide = 1
         /\ Heir(heap, h, s, c, {Free(heap, 2), Free(heap, 3)})
<1> DEFINE id == DividedId(heap, s)
           f == heap[id].fn
           d == DivisionOf(f, m)
           t == s.tree
           a == Free(heap, 2)
           b == Free(heap, 3)
           l == Left(node)
           r == Right(node)
<1>1. /\ node \in Leaves(t) /\ node \in Dividable(heap, t) /\ id = t[node]
      /\ id \in DOMAIN heap /\ f \in Parts /\ IsDividable(f)
      /\ m \in Nat \ {0} /\ m \in 1..(2^Cardinality(f.ins) - 2)
      /\ heap[id].currentDivide \in {0, m}
      /\ h = NewHeap(heap, id, m, DivisionOf(heap[id].fn, m))
      /\ \A p \in Dividable(heap, t) \ {node} :
              /\ NextMethod(heap, s, p) = 1
              /\ h[t[p]].currentDivide \in {0, 1}
  BY DividingFacts
<1>2. /\ HeapOK(heap) /\ Shaped(t)
      /\ \A p \in DOMAIN t : t[p] \in DOMAIN heap
      /\ heap[t[<<>>]].fn = initBF
      /\ \A p \in Inner(t) : DividedAt(heap, t, p)
  BY DEF Dividing, SpaceOK
<1> HIDE DEF id
<1>3. Extended(heap, h) /\ DividedWith(heap, h, id, m)
  BY <1>1, <1>2, NewHeapOK
<1>4. /\ a \in DOMAIN h /\ h[a] = NewOp(d.left) /\ b \in DOMAIN h /\ h[b] = NewOp(d.right)
      /\ h[id].currentDivide = m /\ h[id].fn = f /\ DOMAIN heap \subseteq DOMAIN h
  BY <1>1, <1>3 DEF DividedWith, Extended
<1> HIDE DEF f, d, a, b
<1>5. /\ node \in Ways /\ node \in DOMAIN t
      /\ l \notin DOMAIN t /\ r \notin DOMAIN t /\ l # r
      /\ DOMAIN down = DOMAIN t \cup {l, r}
      /\ \A p \in DOMAIN t : down[p] = t[p]
      /\ down[l] = a /\ down[r] = b
      /\ Shaped(down)
      /\ Leaves(down) = (Leaves(t) \ {node}) \cup {l, r}
  <2>1. IsGrown(down, t, node, a, b)
    BY <1>1, <1>2, GrownTree DEF a, b
  <2> QED
    BY <2>1 DEF IsGrown
<1> HIDE DEF l, r, t
<1>6. ASSUME NEW p \in DOMAIN t
      PROVE  down[p] \in DOMAIN h /\ h[down[p]].fn = heap[t[p]].fn
  BY <1>2, <1>3, <1>5 DEF Extended
<1>7. \A p \in DOMAIN down : down[p] \in DOMAIN h
  BY <1>4, <1>5, <1>6
<1>8. h[down[<<>>]].fn = initBF
  BY <1>2, <1>6 DEF Shaped
<1>9. /\ IsSpace(c) /\ c.tree = down /\ c.currentDivide = 1
      /\ c.divideRange = RangeOf(h, down)
      /\ c.totalError = BooleanCompare(h[down[<<>>]].fn, Final(h, down))
  BY DEF NewSpace, IsSpace, RangeOf, FirstMethod
<1>10. ASSUME NEW p \in Inner(down)
       PROVE  DividedAt(h, down, p)
  <2>1. CASE p = node
    <3>1. h[a].fn = d.left /\ h[b].fn = d.right
      BY <1>4 DEF NewOp
    <3>2. down[p] = id /\ down[Left(p)] = a /\ down[Right(p)] = b
      BY <1>1, <1>5, <2>1 DEF l, r, t
    <3> QED
      BY <1>1, <1>4, <3>1, <3>2 DEF DividedAt, d
  <2>2. CASE p # node
    <3>1. p \in Inner(t)
      BY <1>5, <2>2 DEF Inner
    <3>2. p \in DOMAIN t /\ Left(p) \in DOMAIN t /\ Right(p) \in DOMAIN t
      BY <1>2, <3>1, InnerNode
    <3>3. DividedAt(heap, t, p)
      BY <1>2, <3>1
    <3>4. heap[t[p]].currentDivide # 0 /\ t[p] \in DOMAIN heap
      BY <1>2, <3>2, <3>3 DEF DividedAt
    <3>5. /\ h[down[p]].fn = heap[t[p]].fn
          /\ h[down[p]].currentDivide = heap[t[p]].currentDivide
          /\ h[down[Left(p)]].fn = heap[t[Left(p)]].fn
          /\ h[down[Right(p)]].fn = heap[t[Right(p)]].fn
      BY <1>3, <1>5, <1>6, <3>2, <3>4 DEF Extended
    <3> QED
      BY <3>3, <3>5 DEF DividedAt
  <2> QED
    BY <2>1, <2>2
<1>11. ASSUME NEW p \in Dividable(h, down)
       PROVE  /\ NextMethod(h, c, p) = 1
              /\ h[down[p]].currentDivide \in {0, 1}
              /\ \/ down[p] \in {a, b}
                 \/ /\ p \in Dividable(heap, t)
                    /\ down[p] = t[p] /\ NextMethod(heap, s, p) = 1
  <2>1. NextMethod(h, c, p) = 1
    BY <1>9 DEF NextMethod
  <2>2. CASE p \in {l, r}
    <3>1. h[a].currentDivide = 0 /\ h[b].currentDivide = 0
      BY <1>4 DEF NewOp
    <3> QED
      BY <1>5, <2>1, <2>2, <3>1
  <2>3. CASE p \notin {l, r}
    <3>1. p \in Leaves(t) \ {node} /\ p \in DOMAIN t /\ IsDividable(h[down[p]].fn)
      BY <1>5, <2>3 DEF Dividable, Leaves
    <3>2. down[p] = t[p] /\ h[down[p]].fn = heap[t[p]].fn
      BY <1>5, <1>6, <3>1
    <3>3. p \in Dividable(heap, t) \ {node}
      BY <3>1, <3>2 DEF Dividable
    <3> QED
      BY <1>1, <2>1, <3>2, <3>3 DEF t
  <2> QED
    BY <2>2, <2>3
<1>12. SpaceOK(h, c)
  <2>1. 1 \in Nat \ {0}
    OBVIOUS
  <2> QED
    BY <1>5, <1>7, <1>8, <1>9, <1>10, <1>11, <2>1 DEF SpaceOK
<1>13. Heir(heap, h, s, c, {a, b})
  BY <1>9, <1>11 DEF Heir, t
<1> QED
  BY <1>9, <1>12, <1>13 DEF a, b

\* A space that shares objects with the divided one agrees with its heirs.
LEMMA AgreeHeir ==
  ASSUME NEW heap, NEW h, NEW s, NEW w, NEW X, X \cap DOMAIN heap = {},
         Heir(heap, h, s, w, X), NEW t,
         \A p \in DOMAIN t.tree : t.tree[p] \in DOMAIN heap,
         Agree(heap, s, t), Dividable(h, t.tree) = Dividable(heap, t.tree),
         \A p : NextMethod(h, t, p) = NextMethod(heap, t, p)
  PROVE  Agree(h, w, t) /\ Agree(h, t, w)
<1>1. ASSUME NEW p \in Dividable(h, w.tree), NEW q \in Dividable(h, t.tree),
             w.tree[p] = t.tree[q]
      PROVE  NextMethod(h, w, p) = NextMethod(h, t, q)
  <2>1. t.tree[q] \in DOMAIN heap /\ q \in Dividable(heap, t.tree)
    BY DEF Dividable, Leaves
  <2>2. /\ NextMethod(h, w, p) = 1
        /\ \E x \in Dividable(heap, s.tree) : w.tree[p] = s.tree[x] /\ NextMethod(heap, s, x) = 1
    BY <1>1, <2>1 DEF Heir
  <2>3. NextMethod(heap, t, q) = 1
    BY <1>1, <2>1, <2>2 DEF Agree
  <2> QED
    BY <2>2, <2>3
<1> QED
  BY <1>1 DEF Agree

\* So do two heirs of it.
LEMMA AgreeHeirs ==
  ASSUME NEW heap, NEW h, NEW s, \A p \in DOMAIN s.tree : s.tree[p] \in DOMAIN heap,
         NEW v, NEW X, X \cap DOMAIN heap = {}, Heir(heap, h, s, v, X),
         NEW w, NEW Y, Y \cap DOMAIN heap = {}, Heir(heap, h, s, w, Y),
         X \cap Y = {}
  PROVE  Agree(h, v, w) /\ Agree(h, w, v)
<1>1. ASSUME NEW p \in Dividable(h, v.tree), NEW q \in Dividable(h, w.tree),
             v.tree[p] = w.tree[q]
      PROVE  NextMethod(h, v, p) = 1 /\ NextMethod(h, w, q) = 1
  <2>1. \A x \in Dividable(heap, s.tree) : s.tree[x] \in DOMAIN heap
    BY DEF Dividable, Leaves
  <2> QED
    BY <1>1, <2>1 DEF Heir
<1>2. ASSUME NEW p \in Dividable(h, w.tree), NEW q \in Dividable(h, v.tree),
             w.tree[p] = v.tree[q]
      PROVE  NextMethod(h, w, p) = NextMethod(h, v, q)
  BY <1>1, <1>2
<1> QED
  BY <1>1, <1>2 DEF Agree

\* A generated space and its parent, in place of the divided space or beside
\* it: two spaces that share a node still agree on how it is divided.
LEMMA GeneratedGood ==
  ASSUME Searching, NEW heap, NEW S, Good(heap, S), NEW s \in S,
         Dividable(heap, s.tree) # {}, NEW m, m = s.currentDivide, m <= s.divideRange - 2,
         NEW node, node = DivideNode(heap, s.tree),
         NEW h, h = HeapAfter(heap, s, m),
         NEW down, down = Grown(s.tree, node, Free(heap, 2), Free(heap, 3)),
         NEW c, c = NewSpace(h, down),
         NEW u, IsSpace(u), u.tree = Replanted(s.tree, node, Free(heap, 1)),
         u.currentDivide \in Nat \ {0},
         u.divideRange = s.divideRange, u.totalError = s.totalError
  PROVE  Good(h, S \cup {u, c}) /\ c.currentDivide = 1 /\ Extended(heap, h)
<1> DEFINE a == Free(heap, 1)
           X == {Free(heap, 1)}
           Y == {Free(heap, 2), Free(heap, 3)}
<1>1. Dividing(heap, s, m)
  BY DEF Good, Dividing, SpaceOK
<1>2. X \cap DOMAIN heap = {} /\ Y \cap DOMAIN heap = {} /\ X \cap Y = {}
  BY FreePlaces DEF Good, HeapOK
<1>3. HeapOK(h) /\ Extended(heap, h) /\ DividedWith(heap, h, DividedId(heap, s), m)
      /\ DividedId(heap, s) = s.tree[node] /\ node \in Dividable(heap, s.tree)
  <2> DEFINE id == DividedId(heap, s)
  <2>1. /\ id \in DOMAIN heap /\ m \in Nat \ {0} /\ heap[id].currentDivide \in {0, m}
        /\ h = NewHeap(heap, id, m, DivisionOf(heap[id].fn, m))
        /\ id = s.tree[node] /\ node \in Dividable(heap, s.tree)
    BY <1>1, DividingFacts
  <2> HIDE DEF id
  <2>2. HeapOK(h) /\ Extended(heap, h) /\ DividedWith(heap, h, id, m)
    BY <2>1, NewHeapOK DEF Good
  <2> QED
    BY <2>1, <2>2 DEF id
<1>4. SpaceOK(h, c) /\ c.currentDivide = 1 /\ Heir(heap, h, s, c, Y)
  BY <1>1, ChildKept
<1>5. /\ SpaceOK(h, u)
      /\ \A p \in Dividable(h, u.tree) :
              \/ p = node /\ u.tree[p] = a
              \/ /\ p \in Dividable(heap, s.tree) \ {node}
                 /\ u.tree[p] = s.tree[p] /\ NextMethod(h, u, p) = 1
  <2>1. SpaceOK(h, u) /\ GoesOn(heap, h, s, u, node)
    BY <1>1, ParentKept
  <2> QED
    BY <2>1 DEF GoesOn, a
<1>6. \A t \in S : /\ SpaceOK(heap, t) /\ Agree(heap, s, t) /\ Agree(heap, t, s)
                   /\ \A p \in DOMAIN t.tree : t.tree[p] \in DOMAIN heap
  BY DEF Good, SpaceOK
<1> HIDE DEF X, Y, a
<1>7. \A p \in Dividable(heap, s.tree) \ {node} : NextMethod(heap, s, p) = 1
  BY <1>1, DividingFacts
<1>8. Heir(heap, h, s, u, X) /\ Agree(h, u, u)
  <2>1. \A p \in Dividable(heap, s.tree) : s.tree[p] \in DOMAIN heap
    BY <1>6 DEF Dividable, Leaves
  <2>2. a \notin DOMAIN heap /\ a \in X
    BY <1>2 DEF X, a
  <2>3. Heir(heap, h, s, u, X)
    BY <1>5, <1>7, <2>2 DEF Heir
  <2>4. Agree(h, u, u)
    BY <1>5, <2>1, <2>2 DEF Agree
  <2> QED
    BY <2>3, <2>4
<1>9. ASSUME NEW t \in S
      PROVE  /\ SpaceOK(h, t)
             /\ Dividable(h, t.tree) = Dividable(heap, t.tree)
             /\ \A p : NextMethod(h, t, p) = NextMethod(heap, t, p)
  <2>1. ASSUME NEW p \in Dividable(heap, t.tree)
        PROVE  h[t.tree[p]].currentDivide \in {0, NextMethod(heap, t, p)}
    <3>1. t.tree[p] \in DOMAIN heap
      BY <1>6, <2>1 DEF Dividable, Leaves
    <3>2. CASE t.tree[p] = s.tree[node]
      <4>1. NextMethod(heap, s, node) = m
        BY DEF NextMethod
      <4>2. NextMethod(heap, t, p) = m
        BY <1>3, <1>6, <2>1, <3>2, <4>1 DEF Agree
      <4>3. h[t.tree[p]].currentDivide = m
        BY <1>3, <3>2 DEF DividedWith
      <4> QED
        BY <4>2, <4>3
    <3>3. CASE t.tree[p] # s.tree[node]
      <4>1. h[t.tree[p]] = heap[t.tree[p]]
        BY <1>3, <3>1, <3>3 DEF DividedWith
      <4>2. heap[t.tree[p]].currentDivide \in {0, NextMethod(heap, t, p)}
        BY <1>6, <2>1 DEF SpaceOK
      <4> QED
        BY <4>1, <4>2
    <3> QED
      BY <3>2, <3>3
  <2> QED
    BY <1>3, <1>6, <2>1, OldSpaceKept
<1>10. ASSUME NEW t \in S
       PROVE  Agree(h, u, t) /\ Agree(h, t, u) /\ Agree(h, c, t) /\ Agree(h, t, c)
  <2>1. Agree(h, u, t) /\ Agree(h, t, u)
    BY <1>2, <1>6, <1>8, <1>9, AgreeHeir
  <2>2. Agree(h, c, t) /\ Agree(h, t, c)
    BY <1>2, <1>4, <1>6, <1>9, AgreeHeir
  <2> QED
    BY <2>1, <2>2
<1>11. Agree(h, u, c) /\ Agree(h, c, u)
  BY <1>2, <1>4, <1>6, <1>8, AgreeHeirs
<1>12. Agree(h, c, c)
  BY <1>4 DEF Agree, NextMethod
<1>13. ASSUME NEW t \in S, NEW v \in S
       PROVE  Agree(h, t, v)
  <2>1. Agree(heap, t, v)
    BY DEF Good
  <2> QED
    BY <1>9, <2>1 DEF Agree
<1>14. \A t \in S \cup {u, c} : SpaceOK(h, t)
  BY <1>4, <1>5, <1>9
<1>15. \A t, v \in S \cup {u, c} : Agree(h, t, v)
  BY <1>8, <1>10, <1>11, <1>12, <1>13
<1> QED
  BY <1>3, <1>4, <1>14, <1>15 DEF Good

-----------------------------------------------------------------------------
(***************************************************************************)
(* The queue of the children, and sequences of spaces.                     *)
(***************************************************************************)

\* The sequence without its last element.
LEMMA FrontAndLast ==
  ASSUME NEW X, NEW s \in Seq(X), s # <<>>
  PROVE  /\ Front(s) \in Seq(X) /\ Len(Front(s)) = Len(s) - 1 /\ Len(s) \in Nat \ {0}
         /\ \A i \in 1..(Len(s) - 1) : Front(s)[i] = s[i]
         /\ Range(Front(s)) \subseteq Range(s)
         /\ Last(s) \in Range(s) /\ Last(s) \in X
<1>1. Len(s) \in Nat \ {0} /\ DOMAIN s = 1..Len(s) /\ \A i \in 1..Len(s) : s[i] \in X
  BY EmptySeq, LenProperties, ElementOfSeq
<1>2. /\ Front(s) \in Seq(X) /\ Len(Front(s)) = Len(s) - 1
      /\ \A i \in 1..(Len(s) - 1) : Front(s)[i] = s[i]
  <2> DEFINE n == Len(s) - 1
  <2>1. 1 \in Int /\ n \in Int /\ n >= 0 /\ \A i \in 1..n : s[i] \in X
    BY <1>1
  <2>2. Front(s) = SubSeq(s, 1, n)
    BY DEF Front
  <2> HIDE DEF n
  <2>3. /\ SubSeq(s, 1, n) \in Seq(X)
        /\ Len(SubSeq(s, 1, n)) = IF 1 <= n THEN n - 1 + 1 ELSE 0
        /\ \A i \in 1..(n - 1 + 1) : SubSeq(s, 1, n)[i] = s[1 + i - 1]
    BY <2>1, SubSeqProperties
  <2>4. Len(SubSeq(s, 1, n)) = n /\ \A i \in 1..n : SubSeq(s, 1, n)[i] = s[i]
    BY <2>1, <2>3
  <2> QED
    BY <2>2, <2>3, <2>4 DEF n
<1>3. DOMAIN Front(s) = 1..(Len(s) - 1)
  BY <1>2, LenProperties
<1>4. Range(Front(s)) \subseteq Range(s)
  BY <1>1, <1>2, <1>3 DEF Range
<1>5. Last(s) \in Range(s) /\ Last(s) \in X
  BY <1>1 DEF Range, Last
<1> QED
  BY <1>1, <1>2, <1>4, <1>5

\* The sequence backwards.
LEMMA ReversedSeq ==
  ASSUME NEW X, NEW s \in Seq(X)
  PROVE  Reverse(s) \in Seq(X) /\ Len(Reverse(s)) = Len(s) /\ Range(Reverse(s)) = Range(s)
<1>1. Len(s) \in Nat /\ DOMAIN s = 1..Len(s) /\ \A i \in 1..Len(s) : s[i] \in X
  BY LenProperties, ElementOfSeq
<1> DEFINE n == Len(s)
<1>2. Reverse(s) = [i \in 1..n |-> s[(n - i) + 1]]
  BY DEF Reverse
<1>3. \A i \in 1..n : (n - i) + 1 \in 1..n
  BY <1>1
<1>4. Reverse(s) \in Seq(X)
  BY <1>1, <1>2, <1>3
<1>5. Len(Reverse(s)) = n /\ DOMAIN Reverse(s) = 1..n
  BY <1>1, <1>2
<1>6. Range(Reverse(s)) \subseteq Range(s)
  BY <1>1, <1>2, <1>3, <1>5 DEF Range
<1>7. Range(s) \subseteq Range(Reverse(s))
  <2> SUFFICES ASSUME NEW i \in 1..n
               PROVE  s[i] \in Range(Reverse(s))
    BY <1>1 DEF Range
  <2> DEFINE j == (n - i) + 1
  <2>1. j \in 1..n /\ (n - j) + 1 = i
    BY <1>1
  <2>2. Reverse(s)[j] = s[i]
    BY <1>2, <2>1
  <2> QED
    BY <1>5, <2>1, <2>2 DEF Range
<1> QED
  BY <1>4, <1>5, <1>6, <1>7

\* OrderedQueue::push adds an element and loses none.
LEMMA PushedSeq ==
  ASSUME NEW X, NEW s \in Seq(X), NEW c \in X
  PROVE  /\ Push(s, c) \in Seq(X) /\ Len(Push(s, c)) = Len(s) + 1
         /\ Range(Push(s, c)) \subseteq Range(s) \cup {c}
<1> DEFINE I == {i \in 1..Len(s) : ~(s[i].totalError > c.totalError)}
           k == IF I # {} THEN Max(I) ELSE 0
           n == Len(s)
           head == SubSeq(s, 1, k)
           tail == SubSeq(s, k + 1, n)
<1>1. n \in Nat /\ DOMAIN s = 1..n /\ \A i \in 1..n : s[i] \in X
  BY LenProperties, ElementOfSeq
<1>2. k \in 0..n
  <2>1. CASE I # {}
    <3>1. I \subseteq 1..n
      OBVIOUS
    <3>2. IsFiniteSet(1..n)
      BY <1>1, FS_Interval
    <3>3. I \subseteq Nat /\ IsFiniteSet(I)
      BY <3>1, <3>2, FS_Subset
    <3> HIDE DEF I
    <3>4. \E x \in I : \A y \in I : x >= y
      BY <2>1, <3>3, LargestNumber
    <3>5. Max(I) \in I
      BY <3>4 DEF Max
    <3>6. k = Max(I)
      BY <2>1
    <3> HIDE DEF k
    <3>7. k \in 1..n
      BY <3>1, <3>5, <3>6
    <3> QED
      BY <1>1, <3>7
  <2>2. CASE I = {}
    <3>1. k = 0
      BY <2>2
    <3> QED
      BY <1>1, <3>1
  <2> QED
    BY <2>1, <2>2
<1>3. Push(s, c) = head \o <<c>> \o tail
  <2>1. SelectLastInSeq(s, LAMBDA x : ~(x.totalError > c.totalError)) = k
    BY DEF SelectLastInSeq
  <2>2. Push(s, c) = InsertAt(s, k + 1, c)
    BY <2>1 DEF Push
  <2>3. (k + 1) - 1 = k
    BY <1>2
  <2> HIDE DEF k
  <2> QED
    BY <2>2, <2>3 DEF InsertAt
<1> HIDE DEF k, I
<1>4. /\ head \in Seq(X) /\ Len(head) = k /\ \A i \in 1..k : head[i] = s[i]
  <2>1. 1 \in Int /\ k \in Int /\ \A i \in 1..k : s[i] \in X
    BY <1>1, <1>2
  <2>2. /\ head \in Seq(X) /\ Len(head) = IF 1 <= k THEN k - 1 + 1 ELSE 0
        /\ \A i \in 1..(k - 1 + 1) : head[i] = s[1 + i - 1]
    BY <2>1, SubSeqProperties
  <2> HIDE DEF head
  <2> QED
    BY <1>2, <2>2
<1>5. /\ tail \in Seq(X) /\ Len(tail) = n - k /\ \A i \in 1..(n - k) : tail[i] = s[k + i]
  <2>1. k + 1 \in Int /\ n \in Int /\ \A i \in (k + 1)..n : s[i] \in X
    BY <1>1, <1>2
  <2>2. /\ tail \in Seq(X) /\ Len(tail) = IF k + 1 <= n THEN n - (k + 1) + 1 ELSE 0
        /\ \A i \in 1..(n - (k + 1) + 1) : tail[i] = s[k + 1 + i - 1]
    BY <2>1, SubSeqProperties
  <2> HIDE DEF tail, n, k
  <2>3. n - (k + 1) + 1 = n - k /\ (k + 1 <= n \/ n - k = 0)
    BY <1>1, <1>2
  <2>4. \A i \in 1..(n - k) : k + 1 + i - 1 = k + i
    BY <1>1, <1>2
  <2> QED
    BY <2>2, <2>3, <2>4
<1>6. <<c>> \in Seq(X) /\ Len(<<c>>) = 1 /\ Range(<<c>>) = {c}
  BY DEF Range
<1>7. Range(head) \subseteq Range(s) /\ Range(tail) \subseteq Range(s)
  <2>1. DOMAIN head = 1..k /\ DOMAIN tail = 1..(n - k)
    BY <1>4, <1>5, LenProperties
  <2> HIDE DEF head, tail
  <2>2. \A i \in 1..k : i \in DOMAIN s /\ head[i] = s[i]
    BY <1>1, <1>2, <1>4
  <2>3. \A i \in 1..(n - k) : k + i \in DOMAIN s /\ tail[i] = s[k + i]
    BY <1>1, <1>2, <1>5
  <2>4. Range(head) \subseteq Range(s)
    BY <2>1, <2>2 DEF Range
  <2>5. Range(tail) \subseteq Range(s)
    BY <2>1, <2>3 DEF Range
  <2> QED
    BY <2>4, <2>5
<1> HIDE DEF head, tail
<1> DEFINE hc == head \o <<c>>
<1>8. hc \in Seq(X) /\ Len(hc) = k + 1 /\ Range(hc) = Range(head) \cup {c}
  <2>1. hc \in Seq(X) /\ Len(hc) = Len(head) + Len(<<c>>)
    BY <1>4, <1>6, ConcatProperties
  <2>2. Range(hc) = Range(head) \cup Range(<<c>>)
    BY <1>4, <1>6, RangeConcatenation
  <2> QED
    BY <1>4, <1>6, <2>1, <2>2
<1>9. hc \o tail \in Seq(X) /\ Len(hc \o tail) = k + 1 + (n - k)
      /\ Range(hc \o tail) = Range(hc) \cup Range(tail)
  <2> HIDE DEF hc
  <2>1. hc \o tail \in Seq(X) /\ Len(hc \o tail) = Len(hc) + Len(tail)
    BY <1>5, <1>8, ConcatProperties
  <2>2. Range(hc \o tail) = Range(hc) \cup Range(tail)
    BY <1>5, <1>8, RangeConcatenation
  <2> QED
    BY <1>5, <1>8, <2>1, <2>2
<1>10. k + 1 + (n - k) = n + 1
  <2> HIDE DEF n
  <2> QED
    BY <1>1, <1>2
<1>11. Push(s, c) = hc \o tail
  BY <1>3
<1>12. Range(hc) \cup Range(tail) \subseteq Range(s) \cup {c}
  BY <1>7, <1>8
<1> HIDE DEF hc
<1> QED
  BY <1>9, <1>10, <1>11, <1>12 DEF n

\* A full queue loses its last element.
LEMMA ShortenedSeq ==
  ASSUME NEW X, NEW s \in Seq(X), NEW w \in Nat \ {0}, Len(s) \in 1..(w + 1)
  PROVE  /\ Shortened(s, w) \in Seq(X) /\ Len(Shortened(s, w)) \in 1..w
         /\ Range(Shortened(s, w)) \subseteq Range(s)
<1>1. s # <<>>
  BY EmptySeq
<1> QED
  BY <1>1, FrontAndLast DEF Shortened

-----------------------------------------------------------------------------
(***************************************************************************)
(* The operations of the search.                                           *)
(***************************************************************************)

\* The same space but for its children, with the same objects.
Alike(heap, h, s, t) ==
  /\ t.tree = s.tree /\ t.currentDivide = s.currentDivide
  /\ t.divideRange = s.divideRange /\ t.totalError = s.totalError
  /\ \A p \in DOMAIN s.tree : s.tree[p] \in DOMAIN h /\ h[s.tree[p]] = heap[s.tree[p]]

\* A space that is alike is as good.
LEMMA AlikeSpace ==
  ASSUME NEW heap, NEW h, NEW s, SpaceOK(heap, s), NEW t, IsSpace(t), Alike(heap, h, s, t)
  PROVE  /\ SpaceOK(h, t)
         /\ Dividable(h, t.tree) = Dividable(heap, s.tree)
         /\ \A p : NextMethod(h, t, p) = NextMethod(heap, s, p)
<1> DEFINE tree == s.tree
<1>1. /\ Shaped(tree) /\ t.tree = tree
      /\ \A p \in DOMAIN tree : tree[p] \in DOMAIN h /\ h[tree[p]] = heap[tree[p]]
  BY DEF SpaceOK, Alike
<1>2. /\ Dividable(h, tree) = Dividable(heap, tree)
      /\ DivideNode(h, tree) = DivideNode(heap, tree)
      /\ RangeOf(h, tree) = RangeOf(heap, tree)
  <2>1. \A p \in DOMAIN tree : h[tree[p]].fn = heap[tree[p]].fn
    BY <1>1
  <2> QED
    BY <1>1, <2>1, SameFunctions
<1>3. Final(h, tree) = Final(heap, tree)
  <2>1. /\ \A p \in Leaves(tree) : h[tree[p]].fn = heap[tree[p]].fn
        /\ \A p \in Inner(tree) : h[tree[p]].oper = heap[tree[p]].oper
    BY <1>1 DEF Leaves, Inner
  <2> QED
    BY <2>1, FinalDependsOn
<1>4. \A p : NextMethod(h, t, p) = NextMethod(heap, s, p)
  BY <1>1, <1>2 DEF NextMethod, Alike
<1>5. ASSUME NEW p \in Inner(tree)
      PROVE  DividedAt(h, tree, p)
  <2>1. p \in DOMAIN tree /\ Left(p) \in DOMAIN tree /\ Right(p) \in DOMAIN tree
    BY <1>1, InnerNode
  <2>2. DividedAt(heap, tree, p)
    BY DEF SpaceOK
  <2> QED
    BY <1>1, <2>1, <2>2 DEF DividedAt
<1>6. ASSUME NEW p \in Dividable(h, tree)
      PROVE  h[tree[p]].currentDivide \in {0, NextMethod(h, t, p)}
  <2>1. p \in DOMAIN tree /\ p \in Dividable(heap, tree)
    BY <1>2 DEF Dividable, Leaves
  <2>2. heap[tree[p]].currentDivide \in {0, NextMethod(heap, s, p)}
    BY <2>1 DEF SpaceOK
  <2> QED
    BY <1>1, <1>4, <2>1, <2>2
<1>7. h[tree[<<>>]].fn = initBF
  BY <1>1 DEF SpaceOK, Shaped
<1>8. /\ t.currentDivide \in Nat \ {0} /\ t.divideRange = RangeOf(h, tree)
      /\ t.totalError = BooleanCompare(initBF, Final(h, tree))
  BY <1>2, <1>3 DEF SpaceOK, Alike
<1>9. SpaceOK(h, t)
  BY <1>1, <1>5, <1>6, <1>7, <1>8 DEF SpaceOK
<1> QED
  BY <1>1, <1>2, <1>4, <1>9

\* What is good remains good if spaces and objects go, or children change.
LEMMA GoodAlike ==
  ASSUME NEW heap, NEW S, Good(heap, S), NEW h, HeapOK(h), NEW T,
         \A t \in T : IsSpace(t) /\ \E s \in S : Alike(heap, h, s, t)
  PROVE  Good(h, T)
<1>1. \A s \in S : SpaceOK(heap, s)
  BY DEF Good
<1>2. ASSUME NEW t \in T
      PROVE  SpaceOK(h, t)
  BY <1>1, AlikeSpace
<1>3. ASSUME NEW t \in T, NEW v \in T
      PROVE  Agree(h, t, v)
  <2>1. PICK s \in S : Alike(heap, h, s, t)
    OBVIOUS
  <2>2. PICK x \in S : Alike(heap, h, x, v)
    OBVIOUS
  <2>3. /\ Dividable(h, t.tree) = Dividable(heap, s.tree)
        /\ \A p : NextMethod(h, t, p) = NextMethod(heap, s, p)
    BY <1>1, <2>1, AlikeSpace
  <2>4. /\ Dividable(h, v.tree) = Dividable(heap, x.tree)
        /\ \A p : NextMethod(h, v, p) = NextMethod(heap, x, p)
    BY <1>1, <2>2, AlikeSpace
  <2>5. Agree(heap, s, x)
    BY DEF Good
  <2>6. t.tree = s.tree /\ v.tree = x.tree
    BY <2>1, <2>2 DEF Alike
  <2> QED
    BY <2>3, <2>4, <2>5, <2>6 DEF Agree
<1> QED
  BY <1>2, <1>3 DEF Good

\* A space of an unchanged heap is like itself.
LEMMA AlikeItself ==
  ASSUME NEW heap, NEW s, SpaceOK(heap, s), NEW t,
         t.tree = s.tree, t.currentDivide = s.currentDivide,
         t.divideRange = s.divideRange, t.totalError = s.totalError
  PROVE  Alike(heap, heap, s, t)
BY DEF Alike, SpaceOK

\* Objects that no space points to may go.
LEMMA CollectGood ==
  ASSUME NEW heap, NEW S, Good(heap, S), NEW T \in SUBSET S,
         NEW h, h = Restrict(heap, Reachable(T))
  PROVE  Good(h, T) /\ DOMAIN h = Reachable(T)
<1>1. /\ HeapOK(heap)
      /\ \A s \in T : /\ IsSpace(s) /\ SpaceOK(heap, s)
                      /\ \A p \in DOMAIN s.tree : s.tree[p] \in DOMAIN heap
  BY DEF Good, SpaceOK
<1>2. \A s \in T : \A p \in DOMAIN s.tree : s.tree[p] \in Reachable(T)
  BY DEF Reachable, Range
<1>3. Reachable(T) \subseteq DOMAIN heap
  BY <1>1 DEF Reachable, Range
<1>4. /\ DOMAIN h = Reachable(T) /\ h = [i \in DOMAIN h |-> h[i]]
      /\ \A i \in DOMAIN h : h[i] = heap[i]
  BY DEF Restrict
<1>5. HeapOK(h)
  <2>1. IsFiniteSet(DOMAIN h) /\ DOMAIN h \subseteq Nat
    BY <1>1, <1>3, <1>4, FS_Subset DEF HeapOK
  <2>2. ASSUME NEW i \in DOMAIN h
        PROVE  /\ h[i] \in Objects
               /\ h[i].currentDivide # 0 => h[i].oper = DivisionOf(h[i].fn, h[i].currentDivide).oper
    BY <1>1, <1>3, <1>4 DEF HeapOK
  <2> QED
    BY <1>4, <2>1, <2>2 DEF HeapOK
<1>6. \A t \in T : IsSpace(t) /\ t \in S /\ Alike(heap, h, t, t)
  BY <1>1, <1>2, <1>4 DEF Alike
<1> QED
  BY <1>4, <1>5, <1>6, GoodAlike

\* What searchSpaceGenerate answers.  In a series it is called for a space
\* that keeps its currentDivide.
IsGenerated(heap, w, m, g) ==
  /\ g.heap = HeapAfter(heap, w, m)
  /\ g.child = NewSpace(g.heap, Grown(w.tree, DivideNode(heap, w.tree),
                                      Free(heap, 2), Free(heap, 3)))
  /\ g.space.tree = Replanted(w.tree, DivideNode(heap, w.tree), Free(heap, 1))
  /\ IsSpace(g.space) /\ g.space.currentDivide = w.currentDivide
  /\ g.space.divideRange = w.divideRange /\ g.space.totalError = w.totalError
  /\ g.space.children = w.children
  /\ g.space.isPreviouslyCalculated = w.isPreviouslyCalculated

\* It is a heap with one division more, a child and a parent.
LEMMA GenerateIs ==
  ASSUME NEW heap, NEW w, IsSpace(w), NEW m, NEW g, g = SearchSpaceGenerate(heap, w, m)
  PROVE  IsGenerated(heap, w, m, g)
<1> DEFINE node == DivideNode(heap, w.tree)
           f == heap[w.tree[node]].fn
           d == Divide(f, LeftPart(f.ins, m), f.ins \ LeftPart(f.ins, m), search.ignoreXor)
           space == [w EXCEPT !.tree[node] = Free(heap, 1)]
<1>1. g = Generated(heap, w, m, node, d)
  BY DEF SearchSpaceGenerate
<1> DEFINE h == NewHeap(heap, w.tree[node], m, d)
           c == NewSpace(h, Grown(w.tree, node, Free(heap, 2), Free(heap, 3)))
<1>0. g = [heap |-> h, space |-> space, child |-> c]
  <2> HIDE DEF node, d
  <2>1. Generated(heap, w, m, node, d) = [heap |-> h, space |-> space, child |-> c]
    BY Zenon DEF Generated, NewHeap, Grown
  <2> QED
    BY <1>1, <2>1
<1>2. g.heap = h /\ g.space = space /\ g.child = c
  <2> HIDE DEF h, space, c
  <2> QED
    BY <1>0
<1>3. g.heap = HeapAfter(heap, w, m)
  BY <1>2 DEF HeapAfter, DividedId, DivisionOf
<1>4. g.child = NewSpace(g.heap, Grown(w.tree, node, Free(heap, 2), Free(heap, 3)))
  BY <1>2
<1>5. g.space = space
  BY <1>2
<1>6. /\ space.tree = [w.tree EXCEPT ![node] = Free(heap, 1)]
      /\ IsSpace(space) /\ space.currentDivide = w.currentDivide
      /\ space.divideRange = w.divideRange /\ space.totalError = w.totalError
      /\ space.children = w.children
      /\ space.isPreviouslyCalculated = w.isPreviouslyCalculated
  <2> HIDE DEF node
  <2> QED
    BY DEF IsSpace
<1> QED
  BY <1>3, <1>4, <1>5, <1>6 DEF Replanted, IsGenerated

\* A space as the constructor leaves it.
Fresh(c) ==
  /\ IsSpace(c) /\ c.currentDivide = 1
  /\ c.isPreviouslyCalculated = FALSE /\ c.children = <<>>

\* A new space starts with the first method and has no children.
LEMMA NewSpaceFresh ==
  ASSUME NEW heap, NEW tree
  PROVE  Fresh(NewSpace(heap, tree)) /\ NewSpace(heap, tree).tree = tree
BY DEF Fresh, NewSpace, IsSpace, FirstMethod

\* A space that has a division left has a node to divide.
LEMMA GrowingSpace ==
  ASSUME NEW heap, NEW s, SpaceOK(heap, s), MayGrow(s)
  PROVE  Dividable(heap, s.tree) # {}
<1> SUFFICES ASSUME Dividable(heap, s.tree) = {}
             PROVE  FALSE
  OBVIOUS
<1>1. s.divideRange = 0 /\ s.currentDivide \in Nat \ {0}
  BY DEF SpaceOK, RangeOf
<1>2. s.currentDivide <= s.divideRange - 2
  BY DEF MayGrow
<1> QED
  BY <1>1, <1>2

\* Calls of searchSpaceGenerate for w, which stands where s does.
LEMMA GenerateGood ==
  ASSUME Searching, NEW heap, NEW S, Good(heap, S), NEW s \in S, MayGrow(s),
         NEW w, IsSpace(w), w.tree = s.tree,
         NEW g, g = SearchSpaceGenerate(heap, w, s.currentDivide),
         NEW u, IsSpace(u), u.tree = g.space.tree, u.currentDivide \in Nat \ {0},
         u.divideRange = s.divideRange, u.totalError = s.totalError
  PROVE  Good(g.heap, S \cup {u, g.child}) /\ Fresh(g.child) /\ Extended(heap, g.heap)
<1> DEFINE m == s.currentDivide
           node == DivideNode(heap, s.tree)
           h == g.heap
           down == Grown(s.tree, node, Free(heap, 2), Free(heap, 3))
<1>1. SpaceOK(heap, s)
  BY DEF Good
<1>2. Dividable(heap, s.tree) # {}
  BY <1>1, GrowingSpace
<1>3. m <= s.divideRange - 2
  BY DEF MayGrow
<1>4. /\ h = HeapAfter(heap, w, m)
      /\ g.child = NewSpace(h, Grown(w.tree, DivideNode(heap, w.tree),
                                             Free(heap, 2), Free(heap, 3)))
      /\ g.space.tree = Replanted(w.tree, DivideNode(heap, w.tree), Free(heap, 1))
  <2>1. IsGenerated(heap, w, m, g)
    BY GenerateIs
  <2> QED
    BY <2>1 DEF IsGenerated
<1>5. h = HeapAfter(heap, s, m)
  BY <1>4 DEF HeapAfter, DividedId
<1>6. g.child = NewSpace(h, down)
  BY <1>4
<1>7. u.tree = Replanted(s.tree, node, Free(heap, 1))
  BY <1>4
<1>8. Fresh(g.child)
  BY <1>6, NewSpaceFresh
<1> HIDE DEF m, node, h, down
<1>9. Good(h, S \cup {u, g.child}) /\ Extended(heap, h)
  BY <1>2, <1>3, <1>5, <1>6, <1>7, GeneratedGood DEF node, down, m
<1> QED
  BY <1>8, <1>9 DEF h

\* Some of the good spaces are good.
LEMMA GoodSubset ==
  ASSUME NEW heap, NEW S, Good(heap, S), NEW T, T \subseteq S
  PROVE  Good(heap, T)
BY DEF Good

-----------------------------------------------------------------------------
(***************************************************************************)
(* searchSpaceSeriesGenerate.                                              *)
(***************************************************************************)

\* The space, as if it had counted its divisions up to k.
Numbered(space, k) == [space EXCEPT !.currentDivide = k]

\* After k divisions of s, that others of S may share objects with: the
\* space, which counts from 1, is as good as if it counted on.
AfterDivisions(S, s, k, x) ==
  /\ IsSpace(x.space) /\ x.space.currentDivide = 1
  /\ x.space.divideRange = s.divideRange /\ x.space.totalError = s.totalError
  /\ x.space.tree = [p \in DOMAIN s.tree |-> x.space.tree[p]]
  /\ x.oq \in Seq(Range(x.oq)) /\ Len(x.oq) <= WIDTH_PRE_LEVEL /\ (k > 0 <=> x.oq # <<>>)
  /\ \A c \in Range(x.oq) : Fresh(c)
  /\ Good(x.heap, S \cup {x.space} \cup Range(x.oq))
  /\ Good(x.heap, S \cup {Numbered(x.space, k + 1)} \cup Range(x.oq))

\* One iteration of the loop.
LEMMA OneMoreDivision ==
  ASSUME Searching, NEW S, NEW s, NEW k \in Nat, k + 1 <= s.divideRange - 2,
         NEW x, AfterDivisions(S, s, k, x), NEW y, y = PushGenerated(x, k + 1)
  PROVE  AfterDivisions(S, s, k + 1, y)
<1> DEFINE g == SearchSpaceGenerate(x.heap, x.space, k + 1)
           v == Numbered(x.space, k + 1)
           u == Numbered(g.space, k + 2)
           q == Push(x.oq, g.child)
           o == Shortened(q, WIDTH_PRE_LEVEL)
           T == S \cup {v} \cup Range(x.oq)
<1>1. y = [heap |-> g.heap, space |-> g.space, oq |-> o]
  BY DEF PushGenerated, Pushed
<1>2. /\ IsSpace(x.space) /\ x.space.currentDivide = 1
      /\ x.space.divideRange = s.divideRange /\ x.space.totalError = s.totalError
      /\ x.oq \in Seq(Range(x.oq)) /\ Len(x.oq) <= WIDTH_PRE_LEVEL
      /\ \A c \in Range(x.oq) : Fresh(c)
      /\ Good(x.heap, T)
      /\ x.space.tree = [p \in DOMAIN s.tree |-> x.space.tree[p]]
  BY DEF AfterDivisions
<1>3. /\ IsSpace(v) /\ v.tree = x.space.tree /\ v.currentDivide = k + 1
      /\ v.divideRange = s.divideRange /\ v.totalError = s.totalError
  BY <1>2 DEF IsSpace, Numbered
<1>4. /\ IsSpace(g.space) /\ g.space.currentDivide = 1
      /\ g.space.divideRange = s.divideRange /\ g.space.totalError = s.totalError
      /\ g.space.tree = Replanted(x.space.tree, DivideNode(x.heap, x.space.tree), Free(x.heap, 1))
  <2> DEFINE w == x.space
             heap == x.heap
  <2>1. IsSpace(w) /\ g = SearchSpaceGenerate(heap, w, k + 1)
    BY <1>2
  <2> HIDE DEF w, heap, g
  <2>2. IsGenerated(heap, w, k + 1, g)
    BY <2>1, GenerateIs
  <2> QED
    BY <1>2, <2>2 DEF w, heap, IsGenerated
<1> HIDE DEF g
<1>5. /\ IsSpace(u) /\ u.tree = g.space.tree /\ u.currentDivide = k + 2
      /\ u.divideRange = s.divideRange /\ u.totalError = s.totalError
  BY <1>4 DEF IsSpace, Numbered
<1>6. v \in T
  OBVIOUS
<1> HIDE DEF v, u, T
<1>7. MayGrow(v)
  BY <1>3 DEF MayGrow
<1>8. g = SearchSpaceGenerate(x.heap, x.space, v.currentDivide)
  BY <1>3 DEF g
<1>9. Good(g.heap, T \cup {u, g.child}) /\ Fresh(g.child)
  <2>1. u.currentDivide \in Nat \ {0}
    BY <1>5
  <2> QED
    BY <1>2, <1>3, <1>5, <1>6, <1>7, <1>8, <2>1, GenerateGood
<1>10. Good(g.heap, T \cup {g.space, g.child})
  <2>1. g.space.currentDivide \in Nat \ {0}
    BY <1>4
  <2>2. g.space.tree = g.space.tree
    OBVIOUS
  <2> QED
    BY <1>2, <1>3, <1>4, <1>6, <1>7, <1>8, <2>1, <2>2, GenerateGood
<1>11. /\ o \in Seq(Range(o)) /\ Len(o) \in 1..WIDTH_PRE_LEVEL
       /\ Range(o) \subseteq Range(x.oq) \cup {g.child}
  <2> DEFINE X == Range(x.oq) \cup {g.child}
  <2>1. x.oq \in Seq(X) /\ g.child \in X
    BY <1>2, SeqMonotonic
  <2> HIDE DEF X
  <2>2. q \in Seq(X) /\ Len(q) = Len(x.oq) + 1 /\ Range(q) \subseteq Range(x.oq) \cup {g.child}
    BY <2>1, PushedSeq
  <2>3. Len(q) \in 1..(WIDTH_PRE_LEVEL + 1) /\ WIDTH_PRE_LEVEL \in Nat \ {0}
    BY <1>2, <2>1, <2>2, LenProperties, SearchAssumption
  <2> HIDE DEF q
  <2>4. o \in Seq(X) /\ Len(o) \in 1..WIDTH_PRE_LEVEL /\ Range(o) \subseteq Range(q)
    BY <2>2, <2>3, ShortenedSeq
  <2> HIDE DEF o
  <2> QED
    BY <2>2, <2>4, SeqOfRange
<1> HIDE DEF o, q
<1>12. \A c \in Range(o) : Fresh(c)
  BY <1>2, <1>9, <1>11
<1>13. Good(g.heap, S \cup {g.space} \cup Range(o))
  BY <1>10, <1>11, GoodSubset DEF T
<1>14. Good(g.heap, S \cup {u} \cup Range(o))
  BY <1>9, <1>11, GoodSubset DEF T
<1>15. o # <<>> /\ Len(o) <= WIDTH_PRE_LEVEL /\ k + 1 > 0
  <2>1. WIDTH_PRE_LEVEL \in Nat
    BY SearchAssumption
  <2> QED
    BY <1>11, <2>1
<1>16. /\ y.heap = g.heap /\ y.space = g.space /\ y.oq = o
       /\ u = Numbered(y.space, (k + 1) + 1)
  BY <1>1 DEF u
<1>17. g.space.tree = [p \in DOMAIN s.tree |-> g.space.tree[p]]
  BY <1>2, <1>4 DEF Replanted
<1> QED
  BY <1>4, <1>11, <1>12, <1>13, <1>14, <1>15, <1>16, <1>17 DEF AfterDivisions

\* Max is the largest number of a set.
LEMMA MaxOf ==
  ASSUME NEW X, X \subseteq Nat, IsFiniteSet(X), X # {}
  PROVE  Max(X) \in X /\ \A y \in X : Max(X) >= y
BY LargestNumber DEF Max

\* The fold of the series, as a function of the divisions that were made.
Iterates(v, base, k) ==
  v = [s \in SUBSET (1..k) |->
         IF s = {} THEN base ELSE PushGenerated(v[s \ {Max(s)}], Max(s))]

\* The same, of numbers up to k.
LEMMA UpTo ==
  ASSUME NEW k \in Nat, NEW s \in SUBSET (1..k), s # {}
  PROVE  Max(s) \in s /\ \A y \in s : Max(s) >= y
<1>1. 1..k \subseteq Nat /\ IsFiniteSet(1..k)
  BY FS_Interval
<1>2. s \subseteq Nat /\ IsFiniteSet(s)
  BY <1>1, FS_Subset
<1> QED
  BY <1>2, MaxOf

\* A fold over one element more.
LEMMA IterationGoesOn ==
  ASSUME NEW base, NEW k \in Nat, NEW v, Iterates(v, base, k)
  PROVE  \E w : Iterates(w, base, k + 1)
<1> DEFINE n == k + 1
           w == [s \in SUBSET (1..n) |->
                   IF n \in s THEN PushGenerated(v[s \ {n}], n) ELSE v[s]]
<1>1. n \in Nat /\ 1..k \subseteq 1..n /\ \A i \in 1..n : i = n \/ i \in 1..k
  OBVIOUS
<1>2. n \notin 1..k
  OBVIOUS
<1>3. \A s \in SUBSET (1..k) :
        v[s] = IF s = {} THEN base ELSE PushGenerated(v[s \ {Max(s)}], Max(s))
  BY DEF Iterates
<1>4. ASSUME NEW s \in SUBSET (1..n)
      PROVE  w[s] = IF s = {} THEN base ELSE PushGenerated(w[s \ {Max(s)}], Max(s))
  <2>1. CASE n \in s
    <3>1. Max(s) \in s /\ Max(s) >= n
      BY <1>1, <2>1, UpTo
    <3>2. Max(s) = n
      <4> DEFINE x == Max(s)
      <4>1. x \in 1..n /\ x >= n
        BY <3>1
      <4> HIDE DEF x
      <4>2. x = n
        BY <1>1, <4>1
      <4> QED
        BY <4>2 DEF x
    <3> DEFINE r == s \ {n}
    <3>3. r \in SUBSET (1..n) /\ n \notin r
      OBVIOUS
    <3> HIDE DEF n, r
    <3>4. w[r] = v[r]
      BY <3>3
    <3>5. w[s] = PushGenerated(v[r], n)
      BY <2>1 DEF r
    <3> QED
      BY <2>1, <3>2, <3>4, <3>5 DEF r
  <2>2. CASE n \notin s
    <3>1. s \in SUBSET (1..k)
      BY <1>1, <2>2
    <3>2. w[s] = v[s]
      BY <2>2
    <3>3. CASE s = {}
      BY <1>3, <3>1, <3>2, <3>3
    <3>4. CASE s # {}
      <4> DEFINE r == s \ {Max(s)}
      <4>1. r \in SUBSET (1..n) /\ n \notin r
        BY <2>2
      <4>2. w[r] = v[r]
        <5> HIDE DEF n, r
        <5> QED
          BY <4>1
      <4>3. v[s] = PushGenerated(v[r], Max(s))
        BY <1>3, <3>1, <3>4
      <4> HIDE DEF w, r
      <4> QED
        BY <3>2, <3>4, <4>2, <4>3 DEF r
    <3> QED
      BY <3>3, <3>4
  <2> QED
    BY <2>1, <2>2
<1>5. w = [s \in SUBSET (1..n) |-> w[s]]
  OBVIOUS
<1> HIDE DEF w
<1>6. Iterates(w, base, n)
  BY <1>4, <1>5 DEF Iterates
<1> QED
  BY <1>6

\* Folds are defined.
LEMMA IterationExists ==
  ASSUME NEW base, NEW n \in Nat
  PROVE  \E v : Iterates(v, base, n)
<1> DEFINE bad == {k \in Nat : ~\E v : Iterates(v, base, k)}
<1> SUFFICES ASSUME bad # {}
             PROVE  FALSE
  OBVIOUS
<1>1. PICK k \in bad : \A j \in bad : k <= j
  <2>1. bad \in SUBSET Nat /\ bad # {}
    OBVIOUS
  <2> HIDE DEF bad
  <2> QED
    BY <2>1, LeastNumber
<1>2. k # 0
  <2> SUFFICES \E v : Iterates(v, base, 0)
    BY <1>1
  <2> DEFINE v == [s \in SUBSET (1..0) |-> base]
  <2>1. 1..0 = {}
    OBVIOUS
  <2>2. v = [s \in SUBSET (1..0) |->
               IF s = {} THEN base ELSE PushGenerated(v[s \ {Max(s)}], Max(s))]
    BY <2>1
  <2>3. Iterates(v, base, 0)
    BY <2>2 DEF Iterates
  <2> QED
    BY <2>3
<1>3. k - 1 \in Nat /\ k - 1 \notin bad /\ (k - 1) + 1 = k
  BY <1>1, <1>2
<1>4. PICK v : Iterates(v, base, k - 1)
  BY <1>3
<1>5. \E w : Iterates(w, base, (k - 1) + 1)
  BY <1>3, <1>4, IterationGoesOn
<1> QED
  BY <1>1, <1>3, <1>5

\* The loop of searchSpaceSeriesGenerate, cut off after n iterations.
Series(base, n) == FoldLeft(PushGenerated, base, [m \in 1..n |-> m])

\* FoldLeft makes one iteration after the other.
LEMMA SeriesIteration ==
  ASSUME NEW base, NEW n \in Nat
  PROVE  \E v : Iterates(v, base, n) /\ Series(base, n) = v[1..n]
<1> DEFINE seq == [m \in 1..n |-> m]
           A(it) == [s \in SUBSET (DOMAIN seq) |->
                       IF s = {} THEN base ELSE PushGenerated(it[s \ {Max(s)}], seq[Max(s)])]
           B(it) == [s \in SUBSET (1..n) |->
                       IF s = {} THEN base ELSE PushGenerated(it[s \ {Max(s)}], Max(s))]
<1>1. Series(base, n) = (CHOOSE it : it = A(it))[DOMAIN seq]
  BY Zenon DEF Series, FoldLeft, MapThenFoldSet
<1>2. DOMAIN seq = 1..n
  OBVIOUS
<1>3. ASSUME NEW it
      PROVE  A(it) = B(it)
  <2>1. ASSUME NEW s \in SUBSET (1..n), s # {}
        PROVE  seq[Max(s)] = Max(s)
    BY <2>1, UpTo
  <2> HIDE DEF seq
  <2> QED
    BY <1>2, <2>1
<1> HIDE DEF A, B, seq
<1>4. (CHOOSE it : it = A(it)) = (CHOOSE it : it = B(it))
  BY <1>3, Zenon
<1>5. \E it : it = B(it)
  <2>1. PICK v : Iterates(v, base, n)
    BY IterationExists
  <2>2. v = B(v)
    BY <2>1 DEF Iterates, B
  <2> QED
    BY <2>2
<1> DEFINE v == CHOOSE it : it = B(it)
<1>6. v = B(v)
  BY <1>5
<1> HIDE DEF v
<1>7. Iterates(v, base, n)
  BY <1>6 DEF Iterates, B
<1>8. Series(base, n) = v[1..n]
  BY <1>1, <1>2, <1>4 DEF v
<1> QED
  BY <1>7, <1>8

\* The number of divisions is a number.
LEMMA RangeType ==
  ASSUME Searching, NEW heap, HeapOK(heap), NEW s, SpaceOK(heap, s)
  PROVE  s.divideRange \in Nat
<1>1. s.divideRange = RangeOf(heap, s.tree) /\ Shaped(s.tree)
      /\ \A p \in DOMAIN s.tree : s.tree[p] \in DOMAIN heap
  BY DEF SpaceOK
<1>2. CASE Dividable(heap, s.tree) = {}
  BY <1>1, <1>2 DEF RangeOf
<1>3. CASE Dividable(heap, s.tree) # {}
  <2> DEFINE f == heap[s.tree[DivideNode(heap, s.tree)]].fn
  <2>1. s.tree[DivideNode(heap, s.tree)] \in DOMAIN heap
    BY <1>1, <1>3, DivideNodeType DEF Dividable, Leaves
  <2>2. f \in Parts
    BY <2>1 DEF HeapOK, Objects
  <2>3. IsFiniteSet(f.ins)
    BY <2>2, DivisionParts
  <2>4. 2^Cardinality(f.ins) \in Nat
    BY <2>3, FS_CardinalityType, PowerType
  <2> QED
    BY <1>1, <1>3, <2>4 DEF RangeOf
<1> QED
  BY <1>2, <1>3

\* After n iterations, n divisions have been made.
LEMMA SeriesInvariant ==
  ASSUME Searching, NEW S, NEW s, NEW base, AfterDivisions(S, s, 0, base),
         NEW n \in Nat, n <= s.divideRange - 2 \/ n = 0, s.divideRange \in Nat
  PROVE  AfterDivisions(S, s, n, Series(base, n))
<1>1. PICK v : Iterates(v, base, n) /\ Series(base, n) = v[1..n]
  BY SeriesIteration
<1>2. \A r \in SUBSET (1..n) :
        v[r] = IF r = {} THEN base ELSE PushGenerated(v[r \ {Max(r)}], Max(r))
  BY <1>1 DEF Iterates
<1> DEFINE bad == {k \in 0..n : ~AfterDivisions(S, s, k, v[1..k])}
<1>3. bad = {}
  <2> SUFFICES ASSUME bad # {}
               PROVE  FALSE
    OBVIOUS
  <2>1. PICK k \in bad : \A j \in bad : k <= j
    <3>1. bad \in SUBSET Nat /\ bad # {}
      OBVIOUS
    <3> HIDE DEF bad
    <3> QED
      BY <3>1, LeastNumber
  <2>2. k # 0
    <3>1. 1..0 = {}
      OBVIOUS
    <3>2. v[1..0] = base
      BY <1>2, <3>1
    <3> QED
      BY <2>1, <3>2
  <2> DEFINE j == k - 1
  <2>3. j \in Nat /\ j \in 0..n /\ j \notin bad /\ k = j + 1 /\ k \in 1..n
    BY <2>1, <2>2
  <2>4. AfterDivisions(S, s, j, v[1..j])
    BY <2>3
  <2>5. v[1..k] = PushGenerated(v[1..j], k)
    <3> DEFINE r == 1..k
    <3>1. r \in SUBSET (1..n) /\ r # {} /\ k \in r
      BY <2>3
    <3>2. Max(r) \in r /\ Max(r) >= k
      BY <3>1, UpTo
    <3>3. Max(r) = k
      <4> DEFINE x == Max(r)
      <4>1. x \in 1..k /\ x >= k
        BY <3>2
      <4> HIDE DEF x
      <4>2. x = k
        BY <2>3, <4>1
      <4> QED
        BY <4>2 DEF x
    <3>4. r \ {k} = 1..j
      BY <2>3
    <3> HIDE DEF r
    <3>5. v[r] = PushGenerated(v[r \ {Max(r)}], Max(r))
      BY <1>2, <3>1
    <3> QED
      BY <3>3, <3>4, <3>5 DEF r
  <2>6. j + 1 <= s.divideRange - 2
    BY <2>3
  <2> HIDE DEF j, bad
  <2>7. AfterDivisions(S, s, j + 1, v[1..k])
    BY <2>3, <2>4, <2>5, <2>6, OneMoreDivision
  <2> QED
    BY <2>1, <2>3, <2>7 DEF bad
<1> QED
  BY <1>1, <1>3

\* A space that is good and has not begun to be divided gets its children.
Calculates(S, s, c) ==
  /\ Good(c.heap, S \cup {c.space} \cup Range(c.space.children))
  /\ IsSpace(c.space) /\ c.space.currentDivide = 1
  /\ c.space.isPreviouslyCalculated = TRUE
  /\ c.space.tree = [p \in DOMAIN s.tree |-> c.space.tree[p]]
  /\ c.space.divideRange = s.divideRange /\ c.space.totalError = s.totalError
  /\ c.space.children \in Seq(Range(c.space.children))
  /\ Len(c.space.children) <= WIDTH_PRE_LEVEL
  /\ \A x \in Range(c.space.children) : Fresh(x)
  /\ c.space.divideRange = 0 => c.space.children = <<>>

\* searchSpaceSeriesGenerate leaves good spaces.
LEMMA SeriesGood ==
  ASSUME Searching, NEW heap, NEW S, Good(heap, S), NEW s \in S, s.currentDivide = 1,
         NEW c, c = SearchSpaceSeriesGenerate(heap, s)
  PROVE  Calculates(S, s, c) /\ (MayGrow(s) => c.space.children # <<>>)
<1> DEFINE base == [heap |-> heap, space |-> s, oq |-> <<>>]
           n == IF s.divideRange < 2 THEN 0 ELSE s.divideRange - 2
           done == Series(base, n)
<1>1. SpaceOK(heap, s) /\ s.divideRange \in Nat /\ IsSpace(s) /\ Shaped(s.tree)
  BY RangeType DEF Good, SpaceOK
<1>2. n \in Nat /\ (n <= s.divideRange - 2 \/ n = 0)
  BY <1>1
<1>3. AfterDivisions(S, s, 0, base)
  <2>1. Numbered(s, 0 + 1) = s
    BY <1>1 DEF Numbered, IsSpace
  <2>2. <<>> \in Seq(Range(<<>>)) /\ Len(<<>>) = 0 /\ Range(<<>>) = {}
    BY EmptySeq DEF Range
  <2>3. 0 <= WIDTH_PRE_LEVEL
    BY SearchAssumption
  <2>4. S \cup {s} \cup {} = S
    OBVIOUS
  <2>5. s.tree = [p \in DOMAIN s.tree |-> s.tree[p]]
    BY <1>1 DEF Shaped
  <2>6. base.space = s /\ base.heap = heap /\ base.oq = <<>>
    OBVIOUS
  <2> HIDE DEF base
  <2>7. S \cup {base.space} \cup Range(base.oq) = S
    BY <2>2, <2>6
  <2>8. S \cup {Numbered(base.space, 0 + 1)} \cup Range(base.oq) = S
    BY <2>1, <2>2, <2>6
  <2>9. base.oq \in Seq(Range(base.oq)) /\ Len(base.oq) <= WIDTH_PRE_LEVEL
        /\ \A c1 \in Range(base.oq) : Fresh(c1)
    BY <2>2, <2>3, <2>6
  <2>10. /\ IsSpace(base.space) /\ base.space.currentDivide = 1
         /\ base.space.divideRange = s.divideRange /\ base.space.totalError = s.totalError
         /\ base.space.tree = [p \in DOMAIN s.tree |-> base.space.tree[p]]
    BY <1>1, <2>5, <2>6
  <2>11. Good(base.heap, S)
    BY <2>6
  <2>12. ~(0 > 0) /\ base.oq = <<>>
    BY <2>6
  <2> QED
    BY <2>7, <2>8, <2>9, <2>10, <2>11, <2>12 DEF AfterDivisions
<1>4. c = WithChildren(done)
  <2>1. 1..(s.divideRange - 2) = 1..n
    BY <1>1
  <2>2. c = WithChildren(FoldLeft(PushGenerated, base, [m \in 1..(s.divideRange - 2) |-> m]))
    BY Zenon DEF SearchSpaceSeriesGenerate
  <2> HIDE DEF base, n
  <2> QED
    BY <2>1, <2>2, Zenon DEF Series
<1> HIDE DEF base
<1>5. AfterDivisions(S, s, n, done)
  <2> HIDE DEF n
  <2> QED
    BY <1>1, <1>2, <1>3, SeriesInvariant
<1>6. (MayGrow(s) => n > 0) /\ (s.divideRange = 0 => ~(n > 0))
  BY <1>1 DEF MayGrow
<1> HIDE DEF n, done
<1>7. /\ IsSpace(done.space) /\ done.space.currentDivide = 1
      /\ done.space.divideRange = s.divideRange /\ done.space.totalError = s.totalError
      /\ done.space.tree = [p \in DOMAIN s.tree |-> done.space.tree[p]]
      /\ done.oq \in Seq(Range(done.oq)) /\ Len(done.oq) <= WIDTH_PRE_LEVEL
      /\ n > 0 <=> done.oq # <<>>
      /\ \A x \in Range(done.oq) : Fresh(x)
      /\ Good(done.heap, S \cup {done.space} \cup Range(done.oq))
  BY <1>5 DEF AfterDivisions
<1>8. /\ c.heap = done.heap
      /\ c.space.tree = done.space.tree /\ IsSpace(c.space)
      /\ c.space.currentDivide = 1
      /\ c.space.divideRange = s.divideRange /\ c.space.totalError = s.totalError
      /\ c.space.isPreviouslyCalculated = TRUE
      /\ c.space.children = Reverse(done.oq)
  <2> DEFINE w == done.space
             q == Reverse(done.oq)
             e == [w EXCEPT !.isPreviouslyCalculated = TRUE, !.children = q]
  <2>1. c = [heap |-> done.heap, space |-> e]
    BY <1>4 DEF WithChildren
  <2>2. c.heap = done.heap /\ c.space = e
    BY <2>1
  <2>3. IsSpace(w)
    BY <1>7
  <2> HIDE DEF w, q
  <2>4. /\ e.tree = w.tree /\ e.currentDivide = w.currentDivide
        /\ e.divideRange = w.divideRange /\ e.totalError = w.totalError
        /\ e.isPreviouslyCalculated = TRUE /\ e.children = q /\ IsSpace(e)
    <3>1. e = [tree |-> w.tree, currentDivide |-> w.currentDivide,
               divideRange |-> w.divideRange, totalError |-> w.totalError,
               isPreviouslyCalculated |-> TRUE, children |-> q]
      <4>1. w = [tree |-> w.tree, currentDivide |-> w.currentDivide,
                 divideRange |-> w.divideRange, totalError |-> w.totalError,
                 isPreviouslyCalculated |-> w.isPreviouslyCalculated, children |-> w.children]
        BY <2>3 DEF IsSpace
      <4>2. DOMAIN w = {"tree", "currentDivide", "divideRange", "totalError",
                        "isPreviouslyCalculated", "children"}
        BY <4>1
      <4>3. e = [x \in DOMAIN w |-> e[x]]
        OBVIOUS
      <4>4. /\ e.tree = w.tree /\ e.currentDivide = w.currentDivide
            /\ e.divideRange = w.divideRange /\ e.totalError = w.totalError
        BY <4>2
      <4>5. e.isPreviouslyCalculated = TRUE /\ e.children = q
        BY <4>2
      <4> HIDE DEF e
      <4> QED
        BY <4>2, <4>3, <4>4, <4>5
    <3> HIDE DEF e
    <3> QED
      BY <3>1 DEF IsSpace
  <2> HIDE DEF e
  <2> QED
    BY <1>7, <2>2, <2>4 DEF w, q
<1> DEFINE q == done.oq
           r == Reverse(q)
<1>9. r \in Seq(Range(r)) /\ Len(r) = Len(q) /\ Range(r) = Range(q)
  <2>1. q \in Seq(Range(q))
    BY <1>7
  <2> HIDE DEF q
  <2> QED
    BY <2>1, ReversedSeq
<1>10. q # <<>> <=> r # <<>>
  <2>1. q \in Seq(Range(q))
    BY <1>7
  <2> HIDE DEF q, r
  <2> QED
    BY <1>9, <2>1, EmptySeq
<1>11. Good(c.heap, S \cup {c.space} \cup Range(r))
  <2> DEFINE T == S \cup {done.space} \cup Range(q)
             U == S \cup {c.space} \cup Range(r)
  <2>1. Good(c.heap, T) /\ HeapOK(c.heap)
    BY <1>7, <1>8 DEF Good
  <2>2. \A x \in T : SpaceOK(c.heap, x)
    BY <2>1 DEF Good
  <2>3. ASSUME NEW t \in U
        PROVE  IsSpace(t) /\ \E x \in T : Alike(c.heap, c.heap, x, t)
    <3>1. CASE t = c.space
      <4>1. done.space \in T
        OBVIOUS
      <4> HIDE DEF T
      <4>2. Alike(c.heap, c.heap, done.space, t)
        BY <1>7, <1>8, <2>2, <3>1, <4>1, AlikeItself
      <4> QED
        BY <1>8, <3>1, <4>1, <4>2
    <3>2. CASE t # c.space
      <4>1. t \in T
        BY <1>9, <3>2
      <4> HIDE DEF T
      <4>2. SpaceOK(c.heap, t)
        BY <2>2, <4>1
      <4>3. Alike(c.heap, c.heap, t, t) /\ IsSpace(t)
        BY <4>2, AlikeItself DEF SpaceOK
      <4> QED
        BY <4>1, <4>3
    <3> QED
      BY <3>1, <3>2
  <2> HIDE DEF T, U
  <2>4. Good(c.heap, U)
    BY <2>1, <2>3, GoodAlike
  <2> QED
    BY <2>4 DEF U
<1>12. c.space.tree = [p \in DOMAIN s.tree |-> c.space.tree[p]]
  BY <1>7, <1>8
<1> HIDE DEF q, r
<1>13. c.space.children = r /\ q = done.oq
  BY <1>8 DEF q, r
<1> QED
  BY <1>6, <1>7, <1>8, <1>9, <1>10, <1>11, <1>12, <1>13 DEF Calculates

-----------------------------------------------------------------------------
(***************************************************************************)
(* The chain of spaces.                                                    *)
(***************************************************************************)

\* t is s with other spaces, those of the sequence e, in place of its last.
IsChanged(t, s, e) ==
  /\ t \in Seq(Range(t)) /\ Len(t) = Len(s) - 1 + Len(e) /\ t # <<>>
  /\ t[1] = IF Len(s) = 1 THEN e[1] ELSE s[1]
  /\ t[Len(t)] = e[Len(e)]
  /\ Range(t) \subseteq Range(s) \cup Range(e)

\* What the steps do to the chain.
LEMMA ChangedSeq ==
  ASSUME NEW s, s \in Seq(Range(s)), s # <<>>, NEW e, e \in Seq(Range(e)), e # <<>>
  PROVE  IsChanged(Front(s) \o e, s, e)
<1> DEFINE X == Range(s) \cup Range(e)
           f == Front(s)
           t == f \o e
           n == Len(s)
           k == Len(e)
<1>1. /\ f \in Seq(Range(s)) /\ Len(f) = n - 1 /\ n \in Nat \ {0}
      /\ \A i \in 1..(n - 1) : f[i] = s[i]
      /\ Range(f) \subseteq Range(s)
  BY FrontAndLast
<1>2. f \in Seq(X) /\ e \in Seq(X)
  BY <1>1, SeqMonotonic
<1>3. k \in Nat \ {0}
  BY EmptySeq
<1> HIDE DEF X, f, n, k
<1>4. /\ t \in Seq(X) /\ Len(t) = (n - 1) + k
      /\ \A i \in 1..((n - 1) + k) : t[i] = IF i <= n - 1 THEN f[i] ELSE e[i - (n - 1)]
  <2>1. /\ t \in Seq(X) /\ Len(t) = Len(f) + Len(e)
        /\ \A i \in 1..(Len(f) + Len(e)) : t[i] = IF i <= Len(f) THEN f[i] ELSE e[i - Len(f)]
    BY <1>2, ConcatProperties
  <2>2. Len(f) = n - 1 /\ Len(e) = k
    BY <1>1 DEF k
  <2> HIDE DEF t
  <2> QED
    BY <2>1, <2>2
<1>5. Range(t) = Range(f) \cup Range(e)
  BY <1>2, RangeConcatenation
<1> HIDE DEF t
<1>6. t[1] = IF n = 1 THEN e[1] ELSE s[1]
  <2>1. CASE n = 1
    BY <1>1, <1>3, <1>4, <2>1
  <2>2. CASE n # 1
    <3>1. 1 \in 1..((n - 1) + k) /\ 1 <= n - 1 /\ 1 \in 1..(n - 1)
      BY <1>1, <1>3, <2>2
    <3> QED
      BY <1>1, <1>4, <2>2, <3>1
  <2> QED
    BY <2>1, <2>2
<1>7. t[Len(t)] = e[k]
  <2> DEFINE i == (n - 1) + k
  <2>1. i \in 1..((n - 1) + k) /\ ~(i <= n - 1) /\ i - (n - 1) = k
    BY <1>1, <1>3
  <2> HIDE DEF i
  <2>2. t[i] = e[k]
    BY <1>4, <2>1
  <2> QED
    BY <1>4, <2>2 DEF i
<1>8. t \in Seq(Range(t)) /\ t # <<>>
  <2>1. Len(t) # 0
    BY <1>1, <1>3, <1>4
  <2> QED
    BY <1>4, <2>1, SeqOfRange, EmptySeq
<1> QED
  BY <1>1, <1>4, <1>5, <1>6, <1>7, <1>8 DEF IsChanged, t, f, n, k

\* Sequences of one element and of two.
LEMMA OneOrTwo ==
  ASSUME NEW x, NEW y
  PROVE  /\ <<x>> \in Seq(Range(<<x>>)) /\ <<x>> # <<>> /\ Len(<<x>>) = 1
         /\ Range(<<x>>) = {x}
         /\ <<x, y>> \in Seq(Range(<<x, y>>)) /\ <<x, y>> # <<>> /\ Len(<<x, y>>) = 2
         /\ Range(<<x, y>>) = {x, y}
<1>1. Range(<<x>>) = {x} /\ Range(<<x, y>>) = {x, y}
  BY DEF Range
<1>2. <<x>> \in Seq({x}) /\ <<x, y>> \in Seq({x, y})
  OBVIOUS
<1>3. Len(<<x>>) = 1 /\ Len(<<x, y>>) = 2 /\ <<x>> # <<>> /\ <<x, y>> # <<>>
  OBVIOUS
<1> QED
  BY <1>1, <1>2, <1>3

\* The spaces of a chain, their children and the record.
AllSpaces(ch, rec) ==
  Range(ch) \cup (UNION {Range(s.children) : s \in Range(ch)}) \cup Range(rec)

\* The spaces that are left of a good set, with the objects they point to.
LEMMA CollectedGood ==
  ASSUME NEW heap, NEW S, Good(heap, S), NEW ch, NEW rec, AllSpaces(ch, rec) \subseteq S,
         NEW h, h = Collect(heap, ch, rec)
  PROVE  Good(h, AllSpaces(ch, rec)) /\ DOMAIN h = Reachable(AllSpaces(ch, rec))
<1> DEFINE T == AllSpaces(ch, rec)
<1>1. h = Restrict(heap, Reachable(T))
  BY DEF Collect, AllSpaces
<1>2. T \in SUBSET S
  OBVIOUS
<1> HIDE DEF T
<1>3. Good(h, T) /\ DOMAIN h = Reachable(T)
  BY <1>1, <1>2, CollectGood
<1> QED
  BY <1>3 DEF T

\* A space whose divisions are counted, and its children, if it has been
\* divided in a series.
ParentOK(s) ==
  /\ s.children \in Seq(Range(s.children)) /\ Len(s.children) < WIDTH_PRE_LEVEL
  /\ \A c \in Range(s.children) : Fresh(c)
  /\ s.isPreviouslyCalculated \in BOOLEAN
  /\ s.isPreviouslyCalculated = FALSE => s.children = <<>>
  /\ s.divideRange = 0 => s.children = <<>>
  /\ search.method = "bfs" => s.currentDivide = 1

\* While there is no record, the search has only gone down.
ChainOK(ch, rec, p) ==
  /\ ch \in Seq(Range(ch)) /\ ch # <<>>
  /\ \A s \in Range(ch) : ParentOK(s)
  /\ \/ rec = <<>>
     \/ \E r : rec = <<r>> /\ r.children = <<>> /\ r.divideRange = 0
  /\ DOMAIN ch[1].tree = {<<>>}
  /\ Len(ch) # 1 => ch[1].divideRange # 0
  /\ p \in {"search", "done"}
  /\ p = "search" /\ rec # <<>> => ch[1].divideRange # 0
  /\ p = "search" /\ rec = <<>> =>
       /\ ch[Len(ch)].currentDivide = 1 /\ ch[Len(ch)].isPreviouslyCalculated = FALSE
       /\ search.method # "bfs" /\ Len(ch) # 1 => ch[Len(ch)].divideRange # 0
  /\ p = "done" => rec # <<>> \/ ch[1].divideRange = 0

\* The heap and the chain together.
HeapChainOK(heap, ch, rec, p) ==
  /\ Searching
  /\ Good(heap, AllSpaces(ch, rec)) /\ DOMAIN heap = Reachable(AllSpaces(ch, rec))
  /\ ChainOK(ch, rec, p)

\* The inductive invariant of the search.
Inv == HeapChainOK(op, chain, record, pc)

\* The invariant, of the values that the variables get.
LEMMA NextValues ==
  ASSUME NEW h, NEW ch, NEW rec, NEW p, HeapChainOK(h, ch, rec, p),
         op' = h, chain' = ch, record' = rec, pc' = p, UNCHANGED <<search, initBF>>
  PROVE  Inv'
<1>1. ASSUME NEW S, Good(h, S)
      PROVE  Good(h, S)'
  BY <1>1 DEF Good, HeapOK, SpaceOK, DividedAt, DivisionOf, Objects, Parts
<1> QED
  BY <1>1 DEF Inv, HeapChainOK, ChainOK, ParentOK, Searching

\* The first space.
LEMMA InitialSpace ==
  ASSUME Searching, NEW heap, heap = [id \in {1} |-> NewOp(initBF)],
         NEW c, c = NewSpace(heap, [p \in {<<>>} |-> 1])
  PROVE  HeapChainOK(heap, <<c>>, <<>>, "search")
<1> DEFINE t == [p \in {<<>>} |-> 1]
<1>1. DOMAIN t = {<<>>} /\ t[<<>>] = 1 /\ t = [p \in DOMAIN t |-> t[p]]
  OBVIOUS
<1>2. DOMAIN heap = {1} /\ heap[1] = NewOp(initBF) /\ heap = [i \in DOMAIN heap |-> heap[i]]
  OBVIOUS
<1> HIDE DEF t
<1>3. \A p \in Ways : Left(p) \notin DOMAIN t /\ Right(p) \notin DOMAIN t
  BY <1>1, ChildWays
<1>4. <<>> \in Ways
  BY EmptySeq DEF Ways
<1>5. Shaped(t) /\ Leaves(t) = {<<>>} /\ Inner(t) = {}
  <2>1. IsFiniteSet(DOMAIN t) /\ DOMAIN t \subseteq Ways
    BY <1>1, <1>4, FS_EmptySet, FS_Singleton
  <2>2. Shaped(t)
    BY <1>1, <1>3, <2>1 DEF Shaped
  <2>3. Leaves(t) = {<<>>}
    BY <1>1, <1>3, <1>4 DEF Leaves
  <2> QED
    BY <1>1, <2>2, <2>3 DEF Inner
<1>6. HeapOK(heap)
  <2>1. NewOp(initBF) \in Objects /\ NewOp(initBF).currentDivide = 0
    BY InitialFunction DEF NewOp, Objects
  <2>2. IsFiniteSet({1})
    BY FS_Singleton
  <2> QED
    BY <1>2, <2>1, <2>2 DEF HeapOK
<1>7. /\ IsSpace(c) /\ c.tree = t /\ c.currentDivide = 1 /\ Fresh(c)
      /\ c.divideRange = RangeOf(heap, t)
      /\ c.totalError = BooleanCompare(heap[t[<<>>]].fn, Final(heap, t))
  <2>1. c = NewSpace(heap, t)
    BY DEF t
  <2> QED
    BY <2>1, NewSpaceFresh DEF NewSpace, IsSpace, RangeOf, FirstMethod
<1>8. heap[t[<<>>]].fn = initBF /\ heap[t[<<>>]].currentDivide = 0 /\ t[<<>>] \in DOMAIN heap
  BY <1>1, <1>2 DEF NewOp
<1>9. SpaceOK(heap, c)
  <2>1. \A p \in Dividable(heap, t) : heap[t[p]].currentDivide = 0
    BY <1>5, <1>8 DEF Dividable
  <2>2. \A p \in DOMAIN t : t[p] \in DOMAIN heap
    BY <1>1, <1>8
  <2>3. 1 \in Nat \ {0}
    OBVIOUS
  <2> QED
    BY <1>5, <1>7, <1>8, <2>1, <2>2, <2>3 DEF SpaceOK
<1>10. Agree(heap, c, c)
  <2>1. \A p \in Dividable(heap, t) : p = <<>>
    BY <1>5 DEF Dividable
  <2> QED
    BY <1>7, <2>1 DEF Agree
<1>11. /\ <<c>> \in Seq(Range(<<c>>)) /\ <<c>> # <<>> /\ Len(<<c>>) = 1 /\ Range(<<c>>) = {c}
       /\ <<c>>[1] = c
  BY OneOrTwo
<1>12. Range(<<>>) = {} /\ <<>> \in Seq(Range(<<>>)) /\ Len(<<>>) = 0
  BY EmptySeq DEF Range
<1>13. ParentOK(c)
  <2>1. 0 < WIDTH_PRE_LEVEL
    BY SearchAssumption
  <2> QED
    BY <1>7, <1>12, <2>1 DEF ParentOK, Fresh
<1>14. AllSpaces(<<c>>, <<>>) = {c}
  <2>1. c.children = <<>>
    BY <1>7 DEF Fresh
  <2>2. UNION {Range(s.children) : s \in {c}} = {}
    BY <1>12, <2>1
  <2> QED
    BY <1>11, <1>12, <2>2 DEF AllSpaces
<1>15. Good(heap, {c})
  BY <1>6, <1>9, <1>10 DEF Good
<1>16. DOMAIN heap = Reachable({c})
  <2>1. Range(t) = {1}
    BY <1>1 DEF Range
  <2>2. Reachable({c}) = Range(c.tree)
    BY DEF Reachable
  <2> QED
    BY <1>2, <1>7, <2>1, <2>2
<1>17. ChainOK(<<c>>, <<>>, "search")
  <2> DEFINE ch == <<c>>
  <2>1. ch \in Seq(Range(ch)) /\ ch # <<>> /\ \A s \in Range(ch) : ParentOK(s)
    BY <1>11, <1>13
  <2>2. ch[1] = c /\ Len(ch) = 1
    BY <1>11
  <2> HIDE DEF ch
  <2>3. ChainOK(ch, <<>>, "search")
    BY <1>1, <1>7, <2>1, <2>2 DEF ChainOK, Fresh
  <2> QED
    BY <2>3 DEF ch
<1> QED
  BY <1>14, <1>15, <1>16, <1>17 DEF HeapChainOK

\* The numbers of divisions.
LEMMA RangeValues ==
  ASSUME Searching, NEW heap, HeapOK(heap), NEW s, SpaceOK(heap, s)
  PROVE  /\ s.divideRange = 0 <=> Dividable(heap, s.tree) = {}
         /\ s.divideRange # 0 =>
              \E n \in 2..Cardinality(initBF.ins) : s.divideRange = 2^n /\ 2^n >= 3
         /\ s.divideRange \in Nat
<1>1. s.divideRange = RangeOf(heap, s.tree) /\ Shaped(s.tree)
      /\ \A p \in DOMAIN s.tree : s.tree[p] \in DOMAIN heap
  BY DEF SpaceOK
<1>2. CASE Dividable(heap, s.tree) = {}
  BY <1>1, <1>2 DEF RangeOf
<1>3. CASE Dividable(heap, s.tree) # {}
  <2> DEFINE node == DivideNode(heap, s.tree)
             f == heap[s.tree[node]].fn
             n == Cardinality(f.ins)
  <2>1. s.tree[node] \in DOMAIN heap /\ IsDividable(f)
    BY <1>1, <1>3, DivideNodeType DEF Dividable, Leaves
  <2>2. f \in Parts
    BY <2>1 DEF HeapOK, Objects
  <2>3. s.divideRange = 2^n
    BY <1>1, <1>3 DEF RangeOf
  <2> HIDE DEF f, node
  <2>4. IsFiniteSet(f.ins) /\ f.ins \subseteq initBF.ins /\ f.on \subseteq SUBSET f.ins
        /\ IsFiniteSet(initBF.ins)
    BY <2>2, DivisionParts, InitialFunction DEF FunctionsOver, Parts
  <2>5. n \in Nat /\ n <= Cardinality(initBF.ins) /\ Cardinality(initBF.ins) \in Nat
    BY <2>4, FS_CardinalityType, FS_Subset
  <2>6. n # 1 /\ ~IsConstant(f)
    BY <2>1 DEF IsDividable
  <2>7. n # 0
    <3> SUFFICES ASSUME f.ins = {}
                 PROVE  FALSE
      BY <2>4, FS_EmptySet
    <3>1. f.on \subseteq {{}}
      BY <2>4
    <3> QED
      BY <2>6, <3>1 DEF IsConstant
  <2>8. 2^n \in Nat /\ 2^n >= 3
    <3>1. IsFiniteSet(SUBSET f.ins) /\ Cardinality(SUBSET f.ins) = 2^n
      BY <2>4, FS_SUBSET
    <3>2. \E a, b \in f.ins : a # b
      <4>1. PICK a \in f.ins : TRUE
        BY <2>4, <2>7, FS_EmptySet
      <4>2. f.ins # {a}
        BY <2>6, FS_Singleton
      <4> QED
        BY <4>1, <4>2
    <3>3. PICK a \in f.ins, b \in f.ins : a # b
      BY <3>2
    <3> DEFINE three == ({{}} \cup {{a}}) \cup {{b}}
    <3>4. three \subseteq SUBSET f.ins
      OBVIOUS
    <3>5. Cardinality({{}}) = 1 /\ IsFiniteSet({{}})
      BY FS_Singleton
    <3>6. {a} \notin {{}} /\ {b} \notin {{}} \cup {{a}}
      BY <3>3
    <3> DEFINE one == {{}}
               two == one \cup {{a}}
    <3>7. Cardinality(two) = 2 /\ IsFiniteSet(two)
      <4>1. IsFiniteSet(one) /\ {a} \notin one /\ Cardinality(one) = 1
        BY <3>5, <3>6
      <4> HIDE DEF one
      <4>2. IsFiniteSet(two) /\ Cardinality(two) = Cardinality(one) + 1
        BY <4>1, FS_AddElement
      <4> QED
        BY <4>1, <4>2
    <3>8. Cardinality(three) = 3
      <4>1. {b} \notin two /\ three = two \cup {{b}}
        BY <3>6
      <4> HIDE DEF one, two, three
      <4>2. Cardinality(two \cup {{b}}) = Cardinality(two) + 1
        BY <3>7, <4>1, FS_AddElement
      <4> QED
        BY <3>7, <4>1, <4>2
    <3> HIDE DEF three, two, one
    <3>9. Cardinality(three) <= 2^n
      BY <3>1, <3>4, FS_Subset
    <3>10. 2^n \in Nat
      BY <3>1, FS_CardinalityType
    <3> QED
      BY <3>8, <3>9, <3>10
  <2> HIDE DEF n
  <2>9. n \in 2..Cardinality(initBF.ins)
    BY <2>5, <2>6, <2>7
  <2> QED
    BY <1>3, <2>3, <2>8, <2>9
<1> QED
  BY <1>2, <1>3

\* A sequence of two elements.
LEMMA PairIs ==
  ASSUME NEW x, NEW y, NEW e, e = <<x, y>>
  PROVE  /\ e \in Seq(Range(e)) /\ e # <<>> /\ Range(e) = {x, y} /\ Len(e) = 2
         /\ e[1] = x /\ e[2] = y
<1>1. e[1] = x /\ e[2] = y
  OBVIOUS
<1> QED
  BY <1>1, OneOrTwo

\* A sequence of one element.
LEMMA SingleIs ==
  ASSUME NEW x, NEW e, e = <<x>>
  PROVE  /\ e \in Seq(Range(e)) /\ e # <<>> /\ Range(e) = {x} /\ Len(e) = 1
         /\ e[1] = x
<1>1. e[1] = x
  OBVIOUS
<1> QED
  BY <1>1, OneOrTwo

\* The parts of AllSpaces.
LEMMA SpacesOfChain ==
  ASSUME NEW ch, NEW rec
  PROVE  \A t \in Range(ch) : t \in AllSpaces(ch, rec) /\ Range(t.children) \subseteq AllSpaces(ch, rec)
BY DEF AllSpaces

\* The record is one of them.
LEMMA SpacesOfRecord ==
  ASSUME NEW ch, NEW rec
  PROVE  Range(rec) \subseteq AllSpaces(ch, rec)
<1> DEFINE U == UNION {Range(s.children) : s \in Range(ch)}
<1>1. AllSpaces(ch, rec) = Range(ch) \cup U \cup Range(rec)
  BY DEF AllSpaces
<1> HIDE DEF U
<1> QED
  BY <1>1

\* There are no others.
LEMMA SpacesWithin ==
  ASSUME NEW ch, NEW rec, NEW T, Range(rec) \subseteq T,
         \A t \in Range(ch) : t \in T /\ Range(t.children) \subseteq T
  PROVE  AllSpaces(ch, rec) \subseteq T
<1> DEFINE U == UNION {Range(s.children) : s \in Range(ch)}
<1>1. AllSpaces(ch, rec) = Range(ch) \cup U \cup Range(rec)
  BY DEF AllSpaces
<1>2. \A x \in U : \E t \in Range(ch) : x \in Range(t.children)
  OBVIOUS
<1> HIDE DEF U
<1>3. U \subseteq T
  BY <1>2
<1> QED
  BY <1>1, <1>3

\* The last space of the chain, and its place among the spaces.
LEMMA CurrentSpace ==
  ASSUME NEW heap, NEW ch, NEW rec, NEW p, HeapChainOK(heap, ch, rec, p),
         NEW s, s = ch[Len(ch)]
  PROVE  /\ s \in Range(ch) /\ s \in AllSpaces(ch, rec)
         /\ SpaceOK(heap, s) /\ ParentOK(s) /\ IsSpace(s) /\ s.currentDivide \in Nat \ {0}
         /\ Good(heap, AllSpaces(ch, rec)) /\ HeapOK(heap) /\ Searching
<1>1. ch \in Seq(Range(ch)) /\ ch # <<>>
  BY DEF HeapChainOK, ChainOK
<1>2. Last(ch) \in Range(ch)
  BY <1>1, FrontAndLast
<1>3. s \in Range(ch)
  BY <1>2 DEF Last
<1>4. s \in AllSpaces(ch, rec)
  BY <1>3 DEF AllSpaces
<1>5. Good(heap, AllSpaces(ch, rec)) /\ ParentOK(s) /\ Searching
  BY <1>3 DEF HeapChainOK, ChainOK
<1>6. SpaceOK(heap, s) /\ HeapOK(heap)
  BY <1>4, <1>5 DEF Good
<1> QED
  BY <1>3, <1>4, <1>5, <1>6 DEF SpaceOK

\* Generate.  The record is a child that cannot be divided any more, and the
\* first such child is recorded; no other child is left out before that.
LEMMA GenerateKeeps ==
  ASSUME NEW heap, NEW ch, NEW rec, HeapChainOK(heap, ch, rec, "search"),
         search.method # "bfs", NEW s, s = ch[Len(ch)], MayGrow(s),
         NEW g, g = SearchSpaceGenerate(heap, s, s.currentDivide),
         NEW u, u = [g.space EXCEPT !.currentDivide = @ + 1],
         NEW rec2, \/ rec2 = rec
                   \/ rec2 = <<g.child>> /\ IsAtLowestLevel(g.heap, g.child),
         rec2 = <<>> => ~IsAtLowestLevel(g.heap, g.child),
         NEW e, \/ e = <<u, g.child>>
                \/ e = <<u>> /\ rec2 # <<>>,
         NEW ch2, ch2 = Front(ch) \o e
  PROVE  HeapChainOK(Collect(g.heap, ch2, rec2), ch2, rec2, "search")
<1> DEFINE c == g.child
           S == AllSpaces(ch, rec)
           T == S \cup {u, c}
<1>1. /\ s \in Range(ch) /\ s \in S
      /\ SpaceOK(heap, s) /\ ParentOK(s) /\ IsSpace(s) /\ s.currentDivide \in Nat \ {0}
      /\ Good(heap, S) /\ HeapOK(heap) /\ Searching
  BY CurrentSpace
<1>2. ChainOK(ch, rec, "search")
  BY DEF HeapChainOK
<1>3. IsGenerated(heap, s, s.currentDivide, g)
  BY <1>1, GenerateIs
<1>4. /\ IsSpace(g.space) /\ g.space.currentDivide = s.currentDivide
      /\ g.space.divideRange = s.divideRange /\ g.space.totalError = s.totalError
      /\ g.space.children = s.children
      /\ g.space.isPreviouslyCalculated = s.isPreviouslyCalculated
      /\ g.space.tree = Replanted(s.tree, DivideNode(heap, s.tree), Free(heap, 1))
  BY <1>3 DEF IsGenerated
<1>5. /\ IsSpace(u) /\ u.tree = g.space.tree /\ u.currentDivide = s.currentDivide + 1
      /\ u.divideRange = s.divideRange /\ u.totalError = s.totalError
      /\ u.children = s.children /\ u.isPreviouslyCalculated = s.isPreviouslyCalculated
  BY <1>4 DEF IsSpace
<1>6. u.currentDivide \in Nat \ {0}
  BY <1>1, <1>5
<1> HIDE DEF c, S
<1>7. Good(g.heap, T) /\ Fresh(c)
  <2>1. u.divideRange = s.divideRange /\ u.totalError = s.totalError
    BY <1>5
  <2>2. Searching /\ Good(heap, S) /\ s \in S /\ MayGrow(s) /\ IsSpace(s) /\ s.tree = s.tree
    BY <1>1
  <2>3. g = SearchSpaceGenerate(heap, s, s.currentDivide)
    OBVIOUS
  <2>4. IsSpace(u) /\ u.tree = g.space.tree
    BY <1>5
  <2>5. Good(g.heap, S \cup {u, g.child}) /\ Fresh(g.child)
    BY ONLY <1>6, <2>1, <2>2, <2>3, <2>4, GenerateGood
  <2> QED
    BY <2>5 DEF c
<1>8. SpaceOK(g.heap, c) /\ HeapOK(g.heap)
  BY <1>7 DEF Good
<1>9. c.divideRange = 0 <=> IsAtLowestLevel(g.heap, c)
  BY <1>1, <1>8, RangeValues DEF IsAtLowestLevel
<1>10. s.divideRange # 0
  <2>1. s.divideRange = 0 => ~(s.currentDivide <= s.divideRange - 2)
    BY <1>1
  <2> QED
    BY <2>1 DEF MayGrow
<1>11. c.children = <<>> /\ Range(c.children) = {} /\ IsSpace(c)
       /\ c.currentDivide = 1 /\ c.isPreviouslyCalculated = FALSE
  BY <1>7 DEF Fresh, Range
<1>12. ParentOK(u)
  BY <1>1, <1>5 DEF ParentOK
<1>13. ParentOK(c)
  <2>1. <<>> \in Seq(Range(<<>>)) /\ Len(<<>>) = 0 /\ 0 < WIDTH_PRE_LEVEL
    BY EmptySeq, SearchAssumption DEF Range
  <2> QED
    BY <1>11, <2>1 DEF ParentOK
<1>14. /\ e \in Seq(Range(e)) /\ e # <<>> /\ Range(e) \subseteq {u, c} /\ e[1] = u
       /\ Len(e) \in {1, 2} /\ e[Len(e)] \in {u, c}
       /\ rec2 = <<>> => Len(e) = 2 /\ e[Len(e)] = c
  <2>1. CASE e = <<u, c>>
    <3>1. e \in Seq(Range(e)) /\ e # <<>> /\ Range(e) = {u, c} /\ Len(e) = 2
      BY ONLY <2>1, PairIs
    <3>2. e[1] = u /\ e[2] = c
      BY <2>1
    <3> QED
      BY <3>1, <3>2
  <2>2. CASE e = <<u>> /\ rec2 # <<>>
    <3>1. e \in Seq(Range(e)) /\ e # <<>> /\ Range(e) = {u} /\ Len(e) = 1
      BY <2>2, SingleIs
    <3>2. e[1] = u
      BY <2>2
    <3> QED
      BY <2>2, <3>1, <3>2
  <2> QED
    BY <2>1, <2>2 DEF c
<1>15. ch \in Seq(Range(ch)) /\ ch # <<>> /\ Len(ch) \in Nat \ {0}
  <2>1. ch \in Seq(Range(ch)) /\ ch # <<>>
    BY <1>2 DEF ChainOK
  <2> QED
    BY <2>1, FrontAndLast
<1>16. IsChanged(ch2, ch, e)
  BY <1>14, <1>15, ChangedSeq
<1>17. /\ ch2 \in Seq(Range(ch2)) /\ ch2 # <<>>
       /\ Len(ch2) = Len(ch) - 1 + Len(e)
       /\ ch2[1] = IF Len(ch) = 1 THEN u ELSE ch[1]
       /\ ch2[Len(ch2)] = e[Len(e)]
       /\ Range(ch2) \subseteq Range(ch) \cup {u, c}
  BY <1>14, <1>16 DEF IsChanged
<1>18. Range(rec2) \subseteq Range(rec) \cup {c}
  <2>1. Range(<<c>>) = {c}
    BY OneOrTwo
  <2> QED
    BY <2>1 DEF c
<1>19. AllSpaces(ch2, rec2) \subseteq T
  <2>1. \A t \in Range(ch2) : t \in T /\ Range(t.children) \subseteq T
    <3>1. \A t \in Range(ch) : t \in S /\ Range(t.children) \subseteq S
      BY SpacesOfChain DEF S
    <3>2. Range(u.children) \subseteq S
      BY <1>1, <1>5, <3>1
    <3> QED
      BY <1>11, <1>17, <3>1, <3>2
  <2>2. Range(rec2) \subseteq T
    <3>1. Range(rec) \subseteq S
      BY SpacesOfRecord DEF S
    <3> QED
      BY <1>18, <3>1
  <2> HIDE DEF T
  <2> QED
    BY <2>1, <2>2, SpacesWithin
<1>20. ch2[1].divideRange # 0 /\ DOMAIN ch2[1].tree = {<<>>}
  <2>1. CASE Len(ch) = 1
    <3>1. s = ch[1] /\ DOMAIN s.tree = {<<>>} /\ ch2[1] = u
      BY <1>2, <1>17, <2>1 DEF ChainOK
    <3>2. DOMAIN u.tree = DOMAIN s.tree
      BY <1>4, <1>5 DEF Replanted
    <3> QED
      BY <1>5, <1>10, <3>1, <3>2
  <2>2. CASE Len(ch) # 1
    BY <1>2, <1>17, <2>2 DEF ChainOK
  <2> QED
    BY <2>1, <2>2
<1>21. \/ rec2 = <<>>
       \/ \E r : rec2 = <<r>> /\ r.children = <<>> /\ r.divideRange = 0
  <2>1. CASE rec2 = rec
    BY <1>2, <2>1 DEF ChainOK
  <2>2. CASE rec2 = <<c>> /\ IsAtLowestLevel(g.heap, c)
    BY <1>9, <1>11, <2>2
  <2> QED
    BY <2>1, <2>2 DEF c
<1>22. rec2 = <<>> => /\ ch2[Len(ch2)] = c
                      /\ c.divideRange # 0
  BY <1>9, <1>14, <1>17 DEF c
<1>23. \A t \in Range(ch2) : ParentOK(t)
  BY <1>2, <1>12, <1>13, <1>17 DEF ChainOK
<1>24. ChainOK(ch2, rec2, "search")
  BY <1>11, <1>17, <1>20, <1>21, <1>22, <1>23 DEF ChainOK
<1> DEFINE h == Collect(g.heap, ch2, rec2)
<1>25. Good(h, AllSpaces(ch2, rec2)) /\ DOMAIN h = Reachable(AllSpaces(ch2, rec2))
  <2> HIDE DEF T
  <2> QED
    BY <1>7, <1>19, CollectedGood
<1> QED
  BY <1>1, <1>24, <1>25 DEF HeapChainOK

\* Backtrack and Leave: back to the parent, or to the end.
LEMMA ChopKeeps ==
  ASSUME NEW heap, NEW ch, NEW rec, HeapChainOK(heap, ch, rec, "search"),
         NEW s, s = ch[Len(ch)],
         NEW rec2, \/ rec2 = rec
                   \/ rec2 = <<s>> /\ s.children = <<>> /\ s.divideRange = 0,
         rec2 = <<>> => Len(ch) = 1 /\ s.divideRange = 0
  PROVE  /\ Len(ch) = 1 => HeapChainOK(heap, ch, rec2, "done")
         /\ Len(ch) # 1 => HeapChainOK(Collect(heap, Front(ch), rec2), Front(ch), rec2, "search")
<1> DEFINE S == AllSpaces(ch, rec)
<1>1. s \in Range(ch) /\ s \in S /\ Good(heap, S) /\ Searching
  BY CurrentSpace
<1>2. ChainOK(ch, rec, "search") /\ DOMAIN heap = Reachable(S)
  BY DEF HeapChainOK
<1>3. ch \in Seq(Range(ch)) /\ ch # <<>> /\ \A t \in Range(ch) : ParentOK(t)
  BY <1>2 DEF ChainOK
<1>4. \/ rec2 = <<>>
      \/ \E r : rec2 = <<r>> /\ r.children = <<>> /\ r.divideRange = 0
  BY <1>2 DEF ChainOK
<1>5. Range(<<s>>) = {s}
  BY OneOrTwo
<1>6. CASE Len(ch) = 1
  <2>1. s = ch[1]
    BY <1>6
  <2>2. rec2 # <<>> \/ ch[1].divideRange = 0
    BY <2>1
  <2>3. ChainOK(ch, rec2, "done")
    BY <1>2, <1>4, <1>6, <2>2 DEF ChainOK
  <2>4. rec2 = rec \/ rec = <<>>
    <3>1. rec # <<>> => s.divideRange # 0
      BY <1>2, <2>1 DEF ChainOK
    <3> QED
      BY <3>1
  <2>5. AllSpaces(ch, rec2) = S
    <3>1. CASE rec2 = rec
      BY <3>1
    <3>2. CASE rec2 = <<s>> /\ rec = <<>>
      <4>1. Range(rec2) = {s} /\ Range(rec) = {}
        BY <1>5, <3>2 DEF Range
      <4>2. Range(ch) \cup {s} = Range(ch) \cup {}
        BY <1>1
      <4> DEFINE U == UNION {Range(t.children) : t \in Range(ch)}
      <4>3. /\ AllSpaces(ch, rec2) = Range(ch) \cup U \cup Range(rec2)
            /\ S = Range(ch) \cup U \cup Range(rec)
        BY DEF AllSpaces
      <4> HIDE DEF U, S
      <4> QED
        BY <4>1, <4>2, <4>3
    <3> QED
      BY <2>4, <3>1, <3>2
  <2>6. Good(heap, AllSpaces(ch, rec2)) /\ DOMAIN heap = Reachable(AllSpaces(ch, rec2))
    BY <1>1, <1>2, <2>5
  <2> QED
    BY <1>1, <1>6, <2>3, <2>6 DEF HeapChainOK
<1>7. CASE Len(ch) # 1
  <2> DEFINE ch2 == Front(ch)
             h == Collect(heap, ch2, rec2)
  <2>1. /\ ch2 \in Seq(Range(ch)) /\ Len(ch2) = Len(ch) - 1 /\ Len(ch) \in Nat \ {0}
        /\ \A i \in 1..(Len(ch) - 1) : ch2[i] = ch[i]
        /\ Range(ch2) \subseteq Range(ch)
    BY <1>3, FrontAndLast
  <2>2. 1 \in 1..(Len(ch) - 1)
    BY <1>7, <2>1
  <2>3. ch2[1] = ch[1]
    BY <2>1, <2>2
  <2>4. ch2 \in Seq(Range(ch2)) /\ ch2 # <<>>
    <3>1. Len(ch2) # 0
      BY <1>7, <2>1
    <3> HIDE DEF ch2
    <3> QED
      BY <2>1, <3>1, SeqOfRange, EmptySeq
  <2>5. rec2 # <<>>
    BY <1>7
  <2>6. ch[1].divideRange # 0 /\ DOMAIN ch[1].tree = {<<>>}
    BY <1>2, <1>7 DEF ChainOK
  <2>7. \A t \in Range(ch2) : ParentOK(t)
    BY <1>3, <2>1
  <2>8. AllSpaces(ch2, rec2) \subseteq S
    <3>1. Range(rec2) \subseteq S
      BY <1>1, <1>5, SpacesOfRecord
    <3>2. \A t \in Range(ch2) : t \in S /\ Range(t.children) \subseteq S
      BY <2>1, SpacesOfChain
    <3> HIDE DEF ch2, S
    <3> QED
      BY <3>1, <3>2, SpacesWithin
  <2> HIDE DEF ch2, S
  <2>9. ChainOK(ch2, rec2, "search")
    BY <1>4, <2>3, <2>4, <2>5, <2>6, <2>7 DEF ChainOK
  <2>10. Good(h, AllSpaces(ch2, rec2)) /\ DOMAIN h = Reachable(AllSpaces(ch2, rec2))
    BY <1>1, <2>8, CollectedGood
  <2>11. HeapChainOK(h, ch2, rec2, "search")
    BY <1>1, <2>9, <2>10 DEF HeapChainOK
  <2> QED
    BY <1>7, <2>11 DEF ch2
<1> QED
  BY <1>6, <1>7

\* The children of a space, from a series that was calculated before or now.
LEMMA CalculatedIs ==
  ASSUME NEW heap, NEW ch, NEW rec, HeapChainOK(heap, ch, rec, "search"),
         search.method = "bfs", NEW s, s = ch[Len(ch)],
         NEW c, c = IF s.isPreviouslyCalculated THEN [heap |-> heap, space |-> s]
                    ELSE SearchSpaceSeriesGenerate(heap, s)
  PROVE  /\ Calculates(AllSpaces(ch, rec), s, c)
         /\ MayGrow(s) /\ s.isPreviouslyCalculated = FALSE => c.space.children # <<>>
<1> DEFINE S == AllSpaces(ch, rec)
<1>1. /\ s \in Range(ch) /\ s \in S
      /\ SpaceOK(heap, s) /\ ParentOK(s) /\ IsSpace(s)
      /\ Good(heap, S) /\ Searching
  BY CurrentSpace
<1>2. s.currentDivide = 1 /\ s.isPreviouslyCalculated \in BOOLEAN
  BY <1>1 DEF ParentOK
<1>3. CASE s.isPreviouslyCalculated = TRUE
  <2>1. c.heap = heap /\ c.space = s
    BY <1>3
  <2>2. Range(s.children) \subseteq S
    BY <1>1, SpacesOfChain
  <2>3. S \cup {c.space} \cup Range(c.space.children) = S
    BY <1>1, <2>1, <2>2
  <2>4. s.tree = [p \in DOMAIN s.tree |-> s.tree[p]]
    BY <1>1 DEF SpaceOK, Shaped
  <2>5. Len(s.children) < WIDTH_PRE_LEVEL /\ Len(s.children) \in Nat
    BY <1>1, LenProperties DEF ParentOK
  <2>6. Len(s.children) <= WIDTH_PRE_LEVEL
    BY <2>5, SearchAssumption
  <2> HIDE DEF S
  <2>7. Good(c.heap, S \cup {c.space} \cup Range(c.space.children))
    BY <1>1, <2>1, <2>3
  <2>8. /\ s.children \in Seq(Range(s.children))
        /\ \A x \in Range(s.children) : Fresh(x)
        /\ s.divideRange = 0 => s.children = <<>>
    BY <1>1 DEF ParentOK
  <2> QED
    BY <1>1, <1>2, <1>3, <2>1, <2>4, <2>6, <2>7, <2>8 DEF Calculates, S
<1>4. CASE s.isPreviouslyCalculated = FALSE
  <2>1. c = SearchSpaceSeriesGenerate(heap, s)
    BY <1>4
  <2> HIDE DEF S
  <2>2. Calculates(S, s, c) /\ (MayGrow(s) => c.space.children # <<>>)
    BY <1>1, <1>2, <2>1, SeriesGood
  <2> QED
    BY <2>2 DEF S
<1> QED
  BY <1>2, <1>3, <1>4

\* Descend: the last child of a space leaves it, and is the next.
WithoutLast(space) == [space EXCEPT !.children = Front(@)]
DescendsTo(ch, c) == Front(ch) \o <<WithoutLast(c.space), Last(c.space.children)>>

\* The chain remains good.
LEMMA DescendKeeps ==
  ASSUME NEW heap, NEW ch, NEW rec, HeapChainOK(heap, ch, rec, "search"),
         search.method = "bfs", NEW s, s = ch[Len(ch)],
         NEW c, Calculates(AllSpaces(ch, rec), s, c), c.space.children # <<>>,
         NEW ch2, ch2 = DescendsTo(ch, c)
  PROVE  HeapChainOK(Collect(c.heap, ch2, rec), ch2, rec, "search")
<1> DEFINE u == [c.space EXCEPT !.children = Front(@)]
           S == AllSpaces(ch, rec)
           q == c.space.children
           l == Last(q)
           T == S \cup {c.space} \cup Range(q)
           U == S \cup {u} \cup Range(q)
           e == <<u, l>>
<1>1. s \in Range(ch) /\ s \in S /\ ParentOK(s) /\ Searching
  BY CurrentSpace
<1>2. ChainOK(ch, rec, "search")
  BY DEF HeapChainOK
<1>3. /\ Good(c.heap, T) /\ IsSpace(c.space) /\ c.space.currentDivide = 1
      /\ c.space.isPreviouslyCalculated = TRUE
      /\ c.space.tree = [p \in DOMAIN s.tree |-> c.space.tree[p]]
      /\ q \in Seq(Range(q)) /\ Len(q) <= WIDTH_PRE_LEVEL
      /\ \A x \in Range(q) : Fresh(x)
      /\ c.space.divideRange # 0
  BY DEF Calculates
<1>4. /\ Front(q) \in Seq(Range(q)) /\ Len(Front(q)) = Len(q) - 1 /\ Len(q) \in Nat \ {0}
      /\ Range(Front(q)) \subseteq Range(q) /\ l \in Range(q)
  BY <1>3, FrontAndLast
<1>5. /\ IsSpace(u) /\ u.tree = c.space.tree /\ u.currentDivide = c.space.currentDivide
      /\ u.divideRange = c.space.divideRange /\ u.totalError = c.space.totalError
      /\ u.children = Front(q)
      /\ u.isPreviouslyCalculated = c.space.isPreviouslyCalculated
  BY <1>3 DEF IsSpace
<1>0. ch2 = Front(ch) \o <<u, l>>
  BY DEF DescendsTo, WithoutLast
<1> HIDE DEF S, q, l, u
<1>6. Good(c.heap, U)
  <2>1. HeapOK(c.heap) /\ \A x \in T : SpaceOK(c.heap, x)
    BY <1>3 DEF Good
  <2>2. ASSUME NEW t \in U
        PROVE  IsSpace(t) /\ \E x \in T : Alike(c.heap, c.heap, x, t)
    <3>1. CASE t = u
      <4>1. c.space \in T
        OBVIOUS
      <4>2. SpaceOK(c.heap, c.space)
        BY <2>1, <4>1
      <4>3. Alike(c.heap, c.heap, c.space, t)
        BY <1>5, <3>1, <4>2, AlikeItself
      <4> HIDE DEF T
      <4> QED
        BY <1>5, <3>1, <4>1, <4>3
    <3>2. CASE t # u
      <4>1. t \in T
        BY <3>2
      <4> HIDE DEF T
      <4>2. SpaceOK(c.heap, t)
        BY <2>1, <4>1
      <4>3. Alike(c.heap, c.heap, t, t) /\ IsSpace(t)
        BY <4>2, AlikeItself DEF SpaceOK
      <4> QED
        BY <4>1, <4>3
    <3> QED
      BY <3>1, <3>2
  <2> HIDE DEF T, U
  <2> QED
    BY <1>3, <2>1, <2>2, GoodAlike
<1>7. ParentOK(u)
  <2>1. u.children \in Seq(Range(u.children))
    BY <1>4, <1>5, SeqOfRange
  <2>2. Len(u.children) < WIDTH_PRE_LEVEL
    BY <1>3, <1>4, <1>5, SearchAssumption
  <2>3. \A x \in Range(u.children) : Fresh(x)
    BY <1>3, <1>4, <1>5
  <2>4. u.currentDivide = 1 /\ u.isPreviouslyCalculated = TRUE /\ u.divideRange # 0
    BY <1>3, <1>5
  <2> QED
    BY <2>1, <2>2, <2>3, <2>4 DEF ParentOK
<1>8. /\ Fresh(l) /\ l.children = <<>> /\ l.currentDivide = 1
      /\ l.isPreviouslyCalculated = FALSE /\ Range(l.children) = {}
  BY <1>3, <1>4 DEF Fresh, Range
<1>9. ParentOK(l)
  <2>1. <<>> \in Seq(Range(<<>>)) /\ Len(<<>>) = 0 /\ 0 < WIDTH_PRE_LEVEL
    BY EmptySeq, SearchAssumption DEF Range
  <2> QED
    BY <1>8, <2>1 DEF ParentOK
<1>10. ch \in Seq(Range(ch)) /\ ch # <<>> /\ \A t \in Range(ch) : ParentOK(t)
  BY <1>2 DEF ChainOK
<1>11. /\ e \in Seq(Range(e)) /\ e # <<>> /\ Range(e) = {u, l} /\ Len(e) = 2
       /\ e[1] = u /\ e[2] = l
  <2>1. e = <<u, l>>
    OBVIOUS
  <2> HIDE DEF e
  <2> QED
    BY ONLY <2>1, PairIs
<1>12. ch2 = Front(ch) \o e
  BY <1>0
<1> HIDE DEF e
<1>13. IsChanged(ch2, ch, e)
  <2>1. IsChanged(Front(ch) \o e, ch, e)
    BY <1>10, <1>11, ChangedSeq
  <2> QED
    BY <1>12, <2>1
<1>14. /\ ch2 \in Seq(Range(ch2)) /\ ch2 # <<>>
       /\ ch2[1] = IF Len(ch) = 1 THEN u ELSE ch[1]
       /\ ch2[Len(ch2)] = l
       /\ Range(ch2) \subseteq Range(ch) \cup {u, l}
  BY <1>11, <1>13 DEF IsChanged
<1>15. \A t \in Range(ch2) : ParentOK(t)
  BY <1>7, <1>9, <1>10, <1>14
<1>16. ch2[1].divideRange # 0 /\ DOMAIN ch2[1].tree = {<<>>}
  <2>1. CASE Len(ch) = 1
    <3>1. s = ch[1] /\ DOMAIN s.tree = {<<>>} /\ ch2[1] = u
      BY <1>2, <1>14, <2>1 DEF ChainOK
    <3>2. DOMAIN c.space.tree = DOMAIN s.tree
      BY <1>3
    <3>3. DOMAIN u.tree = DOMAIN s.tree /\ u.divideRange # 0
      BY <1>3, <1>5, <3>2
    <3> QED
      BY <3>1, <3>3
  <2>2. CASE Len(ch) # 1
    BY <1>2, <1>14, <2>2 DEF ChainOK
  <2> QED
    BY <2>1, <2>2
<1>17. ChainOK(ch2, rec, "search")
  <2>1. \/ rec = <<>>
        \/ \E r : rec = <<r>> /\ r.children = <<>> /\ r.divideRange = 0
    BY <1>2 DEF ChainOK
  <2> QED
    BY <1>8, <1>14, <1>15, <1>16, <2>1 DEF ChainOK
<1>18. AllSpaces(ch2, rec) \subseteq U
  <2>1. Range(rec) \subseteq U
    <3>1. Range(rec) \subseteq S
      BY SpacesOfRecord DEF S
    <3> QED
      BY <3>1
  <2>2. \A t \in Range(ch2) : t \in U /\ Range(t.children) \subseteq U
    <3>1. \A t \in Range(ch) : t \in S /\ Range(t.children) \subseteq S
      BY SpacesOfChain DEF S
    <3>2. Range(u.children) \subseteq Range(q)
      BY <1>4, <1>5
    <3> QED
      BY <1>4, <1>8, <1>14, <3>1, <3>2
  <2> HIDE DEF U
  <2> QED
    BY <2>1, <2>2, SpacesWithin
<1> DEFINE h == Collect(c.heap, ch2, rec)
<1>19. Good(h, AllSpaces(ch2, rec)) /\ DOMAIN h = Reachable(AllSpaces(ch2, rec))
  <2> HIDE DEF U, T
  <2>1. h = Collect(c.heap, ch2, rec)
    OBVIOUS
  <2> HIDE DEF h
  <2> QED
    BY ONLY <1>6, <1>18, <2>1, CollectedGood
<1> QED
  BY <1>1, <1>17, <1>19 DEF HeapChainOK

-----------------------------------------------------------------------------
(***************************************************************************)
(* The invariant.                                                          *)
(***************************************************************************)

\* The search begins with the invariant.
LEMMA InitInv == Init => Inv
<1> SUFFICES ASSUME Init
             PROVE  Inv
  OBVIOUS
<1>1. Searching
  BY DEF Init, Searching
<1>2. /\ op = [id \in {1} |-> NewOp(initBF)] /\ record = <<>> /\ pc = "search"
      /\ chain = << NewSpace(op, [p \in {<<>>} |-> 1]) >>
  BY DEF Init
<1> DEFINE c == NewSpace(op, [p \in {<<>>} |-> 1])
<1>3. c = NewSpace(op, [p \in {<<>>} |-> 1])
  OBVIOUS
<1>4. chain = <<c>>
  BY <1>2
<1> HIDE DEF c
<1>5. HeapChainOK(op, <<c>>, <<>>, "search")
  BY <1>1, <1>2, <1>3, InitialSpace
<1> QED
  BY <1>2, <1>4, <1>5 DEF Inv

\* The next division of the current space keeps it.
LEMMA GenerateInv == Inv /\ Generate => Inv'
<1> SUFFICES ASSUME Inv, Generate
             PROVE  Inv'
  OBVIOUS
<1> DEFINE s == chain[Len(chain)]
           g == SearchSpaceGenerate(op, s, s.currentDivide)
           u == [g.space EXCEPT !.currentDivide = @ + 1]
           better == Improves(g.heap, g.child)
           kept == \/ search.method = "full"
                   \/ better
                   \/ record = <<>>
                   \/ RecordError > g.child.totalError
           rec2 == IF better THEN <<g.child>> ELSE record
           e == IF kept THEN <<u, g.child>> ELSE <<u>>
           ch2 == Front(chain) \o e
<1>1. /\ pc = "search" /\ search.method # "bfs" /\ MayGrow(s)
      /\ record' = rec2 /\ chain' = ch2 /\ op' = Collect(g.heap, chain', record')
      /\ UNCHANGED <<search, initBF, pc>>
  BY DEF Generate, current
<1>2. HeapChainOK(op, chain, record, "search")
  BY <1>1 DEF Inv
<1>3. better => IsAtLowestLevel(g.heap, g.child)
  BY DEF Improves
<1>4. record = <<>> /\ IsAtLowestLevel(g.heap, g.child) => better
  BY DEF Improves
<1> HIDE DEF better
<1>5. \/ rec2 = record
      \/ rec2 = <<g.child>> /\ IsAtLowestLevel(g.heap, g.child)
  BY <1>3
<1>6. rec2 = <<>> => ~better /\ record = <<>>
  <2>1. <<g.child>> # <<>>
    BY OneOrTwo
  <2> QED
    BY <2>1
<1>7. rec2 = <<>> => ~IsAtLowestLevel(g.heap, g.child)
  BY <1>4, <1>6
<1>8. \/ e = <<u, g.child>>
      \/ e = <<u>> /\ rec2 # <<>>
  BY <1>6
<1> DEFINE h == Collect(g.heap, ch2, rec2)
<1>9. /\ s = chain[Len(chain)] /\ g = SearchSpaceGenerate(op, s, s.currentDivide)
      /\ u = [g.space EXCEPT !.currentDivide = @ + 1] /\ ch2 = Front(chain) \o e
      /\ h = Collect(g.heap, ch2, rec2)
  OBVIOUS
<1>10. op' = h
  BY <1>1
<1> HIDE DEF s, g, u, rec2, e, ch2, kept, h
<1>11. HeapChainOK(Collect(g.heap, ch2, rec2), ch2, rec2, "search")
  BY <1>1, <1>2, <1>5, <1>7, <1>8, <1>9, GenerateKeeps
<1>12. HeapChainOK(h, ch2, rec2, "search") /\ pc' = "search"
  BY <1>1, <1>9, <1>11
<1> QED
  BY <1>1, <1>10, <1>12, NextValues

\* So does leaving a space, if there is a record by then, or never will be.
LEMMA ChopInv ==
  ASSUME HeapChainOK(op, chain, record, "search"), pc = "search", Chop,
         UNCHANGED <<search, initBF>>, NEW s, s = chain[Len(chain)],
         \/ record' = record
         \/ record' = <<s>> /\ s.children = <<>> /\ s.divideRange = 0,
         record' = <<>> => Len(chain) = 1 /\ s.divideRange = 0
  PROVE  Inv'
<1> DEFINE rec2 == record'
<1>1. /\ Len(chain) = 1 => HeapChainOK(op, chain, rec2, "done")
      /\ Len(chain) # 1 =>
           HeapChainOK(Collect(op, Front(chain), rec2), Front(chain), rec2, "search")
  BY ChopKeeps
<1>2. CASE Len(chain) = 1
  <2>1. pc' = "done" /\ op' = op /\ chain' = chain
    BY <1>2 DEF Chop
  <2> QED
    BY <1>1, <1>2, <2>1, NextValues
<1>3. CASE Len(chain) # 1
  <2>1. pc' = "search" /\ chain' = Front(chain) /\ op' = Collect(op, Front(chain), rec2)
    BY <1>3 DEF Chop
  <2> DEFINE h == Collect(op, Front(chain), rec2)
             ch2 == Front(chain)
  <2>2. HeapChainOK(h, ch2, rec2, "search") /\ op' = h /\ chain' = ch2
    BY <1>1, <1>3, <2>1
  <2> HIDE DEF h, ch2
  <2> QED
    BY <2>1, <2>2, NextValues
<1> QED
  BY <1>2, <1>3

\* A space whose divisions are used up.
LEMMA BacktrackInv == Inv /\ Backtrack => Inv'
<1> SUFFICES ASSUME Inv, Backtrack
             PROVE  Inv'
  OBVIOUS
<1> DEFINE s == chain[Len(chain)]
<1>1. /\ pc = "search" /\ search.method # "bfs" /\ ~MayGrow(s)
      /\ record' = record /\ Chop /\ UNCHANGED <<search, initBF>>
  BY DEF Backtrack, current
<1>2. HeapChainOK(op, chain, record, "search")
  BY <1>1 DEF Inv
<1>3. s = chain[Len(chain)]
  OBVIOUS
<1> HIDE DEF s
<1>4. SpaceOK(op, s) /\ HeapOK(op) /\ Searching
  BY <1>2, <1>3, CurrentSpace
<1>5. /\ s.divideRange \in Nat
      /\ s.divideRange # 0 => \E n \in 2..Cardinality(initBF.ins) : s.divideRange = 2^n /\ 2^n >= 3
  BY <1>4, RangeValues
<1>6. s.divideRange # 0 => s.divideRange >= 3
  BY <1>5
<1>7. record = <<>> => Len(chain) = 1 /\ s.divideRange = 0
  <2> SUFFICES ASSUME record = <<>>
               PROVE  Len(chain) = 1 /\ s.divideRange = 0
    OBVIOUS
  <2>1. /\ s.currentDivide = 1
        /\ Len(chain) # 1 => s.divideRange # 0
    BY <1>1, <1>2, <1>3 DEF HeapChainOK, ChainOK
  <2>2. ~(s.divideRange >= 3)
    BY <1>1, <1>5, <2>1 DEF MayGrow
  <2> QED
    BY <1>6, <2>1, <2>2
<1> QED
  BY <1>1, <1>2, <1>3, <1>7, ChopInv

\* The next child in BFS.
LEMMA DescendInv == Inv /\ Descend => Inv'
<1> SUFFICES ASSUME Inv, Descend
             PROVE  Inv'
  OBVIOUS
<1>1. PICK c \in {Calculated} :
        /\ c.space.children # <<>>
        /\ chain' = Front(chain) \o << [c.space EXCEPT !.children = Front(@)],
                                       Last(c.space.children) >>
        /\ op' = Collect(c.heap, chain', record)
  BY Zenon DEF Descend
<1>2. /\ pc = "search" /\ search.method = "bfs"
      /\ UNCHANGED <<search, initBF, record, pc>>
  BY DEF Descend
<1>3. HeapChainOK(op, chain, record, "search")
  BY <1>2 DEF Inv
<1> DEFINE s == chain[Len(chain)]
           ch2 == DescendsTo(chain, c)
           h == Collect(c.heap, ch2, record)
<1>4. /\ s = chain[Len(chain)]
      /\ c = IF s.isPreviouslyCalculated THEN [heap |-> op, space |-> s]
             ELSE SearchSpaceSeriesGenerate(op, s)
  BY Zenon DEF Calculated, current
<1>5. ch2 = DescendsTo(chain, c) /\ h = Collect(c.heap, ch2, record)
  OBVIOUS
<1>6. chain' = ch2 /\ op' = h
  BY <1>1 DEF DescendsTo, WithoutLast
<1> HIDE DEF s, ch2, h
<1>7. Calculates(AllSpaces(chain, record), s, c)
  BY <1>2, <1>3, <1>4, CalculatedIs
<1>8. HeapChainOK(Collect(c.heap, ch2, record), ch2, record, "search")
  <2>1. c.space.children # <<>>
    BY <1>1
  <2>2. s = chain[Len(chain)] /\ search.method = "bfs"
    BY <1>2, <1>4
  <2> QED
    BY <1>3, <1>5, <1>7, <2>1, <2>2, DescendKeeps
<1>9. HeapChainOK(h, ch2, record, "search")
  BY <1>5, <1>8
<1> QED
  BY <1>2, <1>6, <1>9, NextValues

\* A space without children in BFS.
LEMMA LeaveInv == Inv /\ Leave => Inv'
<1> SUFFICES ASSUME Inv, Leave
             PROVE  Inv'
  OBVIOUS
<1> DEFINE s == chain[Len(chain)]
           c == IF s.isPreviouslyCalculated THEN [heap |-> op, space |-> s]
                ELSE SearchSpaceSeriesGenerate(op, s)
<1>1. /\ pc = "search" /\ search.method = "bfs" /\ c.space.children = <<>>
      /\ record' = IF Improves(op, s) THEN <<s>> ELSE record
      /\ Chop /\ UNCHANGED <<search, initBF>>
  BY DEF Leave, Calculated, current
<1>2. HeapChainOK(op, chain, record, "search")
  BY <1>1 DEF Inv
<1>3. s = chain[Len(chain)]
  OBVIOUS
<1>4. c = IF s.isPreviouslyCalculated THEN [heap |-> op, space |-> s]
          ELSE SearchSpaceSeriesGenerate(op, s)
  OBVIOUS
<1> HIDE DEF s, c
<1>5. MayGrow(s) /\ s.isPreviouslyCalculated = FALSE => c.space.children # <<>>
  BY <1>1, <1>2, <1>3, <1>4, CalculatedIs
<1>6. SpaceOK(op, s) /\ HeapOK(op) /\ Searching /\ ParentOK(s)
  BY <1>2, <1>3, CurrentSpace
<1>7. /\ s.divideRange = 0 <=> Dividable(op, s.tree) = {}
      /\ s.divideRange \in Nat
      /\ s.divideRange # 0 => \E n \in 2..Cardinality(initBF.ins) : s.divideRange = 2^n /\ 2^n >= 3
  BY <1>6, RangeValues
<1>8. s.divideRange # 0 => s.divideRange >= 3
  BY <1>7
<1>9. s.divideRange = 0 <=> IsAtLowestLevel(op, s)
  BY <1>7 DEF IsAtLowestLevel
<1>10. s.currentDivide = 1 /\ (s.divideRange = 0 => s.children = <<>>)
  BY <1>1, <1>6 DEF ParentOK
<1>11. record = <<>> => Improves(op, s)
  <2> SUFFICES ASSUME record = <<>>
               PROVE  Improves(op, s)
    OBVIOUS
  <2>1. s.isPreviouslyCalculated = FALSE
    BY <1>2, <1>3 DEF HeapChainOK, ChainOK
  <2>2. ~MayGrow(s)
    BY <1>1, <1>5, <2>1
  <2>3. ~(s.divideRange >= 3)
    BY <1>7, <1>10, <2>2 DEF MayGrow
  <2> QED
    BY <1>8, <1>9, <2>3 DEF Improves
<1>12. Improves(op, s) => s.children = <<>> /\ s.divideRange = 0
  BY <1>9, <1>10 DEF Improves
<1>13. record' # <<>>
  <2>1. <<s>> # <<>>
    BY OneOrTwo
  <2> QED
    BY <1>1, <1>11, <2>1
<1>14. \/ record' = record
       \/ record' = <<s>> /\ s.children = <<>> /\ s.divideRange = 0
  BY <1>1, <1>12
<1> QED
  BY <1>1, <1>2, <1>3, <1>13, <1>14, ChopInv

\* Nothing changes.
LEMMA StutterInv == Inv /\ UNCHANGED vars => Inv'
<1> SUFFICES ASSUME Inv, UNCHANGED vars
             PROVE  Inv'
  OBVIOUS
<1>1. /\ op' = op /\ chain' = chain /\ record' = record /\ pc' = pc
      /\ UNCHANGED <<search, initBF>>
  BY DEF vars
<1> QED
  BY <1>1, NextValues DEF Inv

\* The spaces and the objects they share are always good.
THEOREM SearchInv == Spec => []Inv
<1>1. Inv /\ [Next]_vars => Inv'
  <2> SUFFICES ASSUME Inv, [Next]_vars
               PROVE  Inv'
    OBVIOUS
  <2>1. CASE Generate
    BY <2>1, GenerateInv
  <2>2. CASE Backtrack
    BY <2>2, BacktrackInv
  <2>3. CASE Descend
    BY <2>3, DescendInv
  <2>4. CASE Leave
    BY <2>4, LeaveInv
  <2>5. CASE Done
    BY <2>5, StutterInv DEF Done
  <2>6. CASE UNCHANGED vars
    BY <2>6, StutterInv
  <2> QED
    BY <2>1, <2>2, <2>3, <2>4, <2>5, <2>6 DEF Next
<1> QED
  BY <1>1, InitInv, PTL DEF Spec

\* Every space computes the function whose errors were counted when it was made,
\* although its nodes are shared with spaces that write to them.
THEOREM SearchTreeFunctions == Spec => []SpacesKeepTheirFunctions
<1>1. Inv => SpacesKeepTheirFunctions
  <2> SUFFICES ASSUME Inv, NEW s \in Spaces
               PROVE  s.totalError = BooleanCompare(initBF, Final(op, s.tree))
    BY DEF SpacesKeepTheirFunctions
  <2>1. s \in AllSpaces(chain, record)
    BY DEF Spaces, AllSpaces
  <2>2. SpaceOK(op, s)
    BY <2>1 DEF Inv, HeapChainOK, Good
  <2> QED
    BY <2>2 DEF SpaceOK
<1> QED
  BY <1>1, SearchInv, PTL

-----------------------------------------------------------------------------
(***************************************************************************)
(* The functions of the trees.                                             *)
(***************************************************************************)

\* A set of nodes has one with no child in it.
LEMMA LowestNode ==
  ASSUME NEW tree, Shaped(tree), NEW X \in SUBSET DOMAIN tree, X # {}
  PROVE  \E p \in X : Left(p) \notin X /\ Right(p) \notin X
<1>1. X \subseteq Ways /\ IsFiniteSet(X)
  BY FS_Subset DEF Shaped
<1> DEFINE N == {Len(p) : p \in X}
           f == [p \in X |-> Len(p)]
<1>2. N \subseteq Nat /\ N # {}
  BY <1>1, Ways01
<1>3. IsFiniteSet(N)
  <2>1. f \in Surjection(X, N)
    BY DEF Surjection
  <2> HIDE DEF f, N
  <2> QED
    BY <1>1, <2>1, FS_Surjection
<1>4. PICK k \in N : \A n \in N : k >= n
  <2> HIDE DEF N
  <2> QED
    BY <1>2, <1>3, LargestNumber
<1>5. PICK p \in X : k = Len(p)
  OBVIOUS
<1>6. \A q \in X : Len(p) >= Len(q)
  BY <1>4, <1>5
<1>7. Len(Left(p)) = Len(p) + 1 /\ Len(Right(p)) = Len(p) + 1 /\ Len(p) \in Nat
  BY <1>1, ChildWays, Ways01
<1>8. ~(Len(p) >= Len(p) + 1)
  BY <1>7
<1> QED
  BY <1>6, <1>7, <1>8

\* What getFinalBooleanFuntion answers at p, from the answers at its children.
ValueAt(heap, tree, v, p) ==
  IF p \in Leaves(tree) THEN heap[tree[p]].fn
  ELSE Combine(v[Left(p)], v[Right(p)], heap[tree[p]].oper)

\* All the answers.
IsValue(heap, tree, v) == v = [p \in DOMAIN tree |-> ValueAt(heap, tree, v, p)]

\* The recursion of getFinalBooleanFuntion ends.
LEMMA ValueExists ==
  ASSUME NEW heap, NEW tree, Shaped(tree)
  PROVE  \E v : IsValue(heap, tree, v)
<1> DEFINE Closed(D) == \A p \in D \ Leaves(tree) : Left(p) \in D /\ Right(p) \in D
           Is(D, g) == g = [p \in D |-> ValueAt(heap, tree, g, p)]
           G == {D \in SUBSET DOMAIN tree : Closed(D) /\ \E g : Is(D, g)}
<1>1. IsFiniteSet(DOMAIN tree)
  BY DEF Shaped
<1>2. {} \in G
  <2> DEFINE g == [p \in {} |-> 0]
  <2>1. g = [p \in {} |-> ValueAt(heap, tree, g, p)]
    OBVIOUS
  <2> QED
    BY <2>1
<1>3. PICK D \in G : \A E \in G : D \subseteq E => E = D
  <2>1. G \in SUBSET SUBSET DOMAIN tree /\ G # {}
    BY <1>2
  <2> HIDE DEF G
  <2> QED
    BY <1>1, <2>1, LargestSet
<1>4. D \subseteq DOMAIN tree /\ Closed(D)
  OBVIOUS
<1>5. PICK g : Is(D, g)
  OBVIOUS
<1>6. CASE D = DOMAIN tree
  BY <1>5, <1>6 DEF IsValue
<1>7. ASSUME D # DOMAIN tree
      PROVE  FALSE
  <2> DEFINE X == DOMAIN tree \ D
  <2>1. PICK p \in X : Left(p) \notin X /\ Right(p) \notin X
    <3>1. X \in SUBSET DOMAIN tree /\ X # {}
      BY <1>4, <1>7
    <3> HIDE DEF X
    <3> QED
      BY <3>1, LowestNode
  <2>2. p \in DOMAIN tree /\ p \notin D
    OBVIOUS
  <2>3. p \notin Leaves(tree) => Left(p) \in D /\ Right(p) \in D
    <3>1. p \notin Leaves(tree) => Left(p) \in DOMAIN tree /\ Right(p) \in DOMAIN tree
      BY <2>2, InnerNode DEF Inner
    <3> QED
      BY <2>1, <3>1
  <2> DEFINE E == D \cup {p}
             k == [q \in E |-> IF q = p THEN ValueAt(heap, tree, g, p) ELSE g[q]]
  <2>4. Closed(E) /\ E \subseteq DOMAIN tree
    BY <1>4, <2>2, <2>3
  <2>5. \A q \in D : k[q] = g[q]
    BY <2>2
  <2>6. ASSUME NEW q \in E
        PROVE  k[q] = ValueAt(heap, tree, k, q)
    <3>1. q \notin Leaves(tree) => Left(q) \in D /\ Right(q) \in D
      BY <1>4, <2>3
    <3>2. ValueAt(heap, tree, k, q) = ValueAt(heap, tree, g, q)
      <4> HIDE DEF k
      <4> QED
        BY <2>5, <3>1 DEF ValueAt
    <3>3. q \in D => g[q] = ValueAt(heap, tree, g, q)
      BY <1>5
    <3> QED
      BY <3>2, <3>3
  <2>7. Is(E, k)
    <3>1. k = [q \in E |-> k[q]]
      OBVIOUS
    <3> HIDE DEF k
    <3> QED
      BY <2>6, <3>1
  <2>8. E \in G
    <3> HIDE DEF E, k
    <3> QED
      BY <2>4, <2>7
  <2> QED
    BY <1>3, <2>2, <2>8
<1> QED
  BY <1>6, <1>7

\* Final is what it answers at the root.
LEMMA FinalValue ==
  ASSUME NEW heap, NEW tree, Shaped(tree)
  PROVE  \E v : IsValue(heap, tree, v) /\ Final(heap, tree) = v[<<>>]
<1> DEFINE A(v) == [p \in DOMAIN tree |->
                      IF p \in Leaves(tree) THEN heap[tree[p]].fn
                      ELSE Combine(v[Left(p)], v[Right(p)], heap[tree[p]].oper)]
           w == CHOOSE v : v = A(v)
<1>1. \A v : IsValue(heap, tree, v) <=> v = A(v)
  BY DEF IsValue, ValueAt
<1>2. Final(heap, tree) = (CHOOSE v : v = A(v))[<<>>]
  BY Zenon DEF Final
<1> HIDE DEF A
<1>3. w = A(w)
  BY <1>1, ValueExists
<1>4. Final(heap, tree) = w[<<>>]
  BY <1>2
<1> QED
  BY <1>1, <1>3, <1>4

\* A tree of functions of some of the inputs has such a function.
LEMMA FinalType ==
  ASSUME NEW heap, NEW tree, Shaped(tree),
         \A p \in DOMAIN tree : heap[tree[p]].fn \in Parts
  PROVE  Final(heap, tree) \in Parts
<1>1. PICK v : IsValue(heap, tree, v) /\ Final(heap, tree) = v[<<>>]
  BY FinalValue
<1>2. \A p \in DOMAIN tree : v[p] = ValueAt(heap, tree, v, p)
  BY <1>1 DEF IsValue
<1> DEFINE bad == {p \in DOMAIN tree : v[p] \notin Parts}
<1>3. bad = {}
  <2> SUFFICES ASSUME bad # {}
               PROVE  FALSE
    OBVIOUS
  <2>1. PICK p \in bad : Left(p) \notin bad /\ Right(p) \notin bad
    <3>1. bad \in SUBSET DOMAIN tree
      OBVIOUS
    <3> HIDE DEF bad
    <3> QED
      BY <3>1, LowestNode
  <2>2. p \in DOMAIN tree /\ v[p] \notin Parts
    OBVIOUS
  <2>3. p \notin Leaves(tree)
    BY <1>2, <2>2 DEF ValueAt
  <2>4. Left(p) \in DOMAIN tree /\ Right(p) \in DOMAIN tree
    BY <2>2, <2>3, InnerNode DEF Inner
  <2>5. v[Left(p)] \in Parts /\ v[Right(p)] \in Parts
    BY <2>1, <2>4
  <2>6. v[p] = Combine(v[Left(p)], v[Right(p)], heap[tree[p]].oper)
    BY <1>2, <2>2, <2>3 DEF ValueAt
  <2>7. \A oper : \A f, g \in Parts : Combine(f, g, oper) \in Parts
    BY CombineType DEF Parts
  <2> QED
    BY <2>2, <2>5, <2>6, <2>7
<1>4. <<>> \in DOMAIN tree
  BY DEF Shaped
<1> QED
  BY <1>1, <1>3, <1>4

\* The objects and spaces stay in their ranges, and no pointer dangles.
THEOREM SearchTreeType == Spec => []TypeOK
<1>1. Inv => TypeOK
  <2> SUFFICES ASSUME Inv
               PROVE  TypeOK
    OBVIOUS
  <2>1. /\ Searching /\ Good(op, Spaces) /\ DOMAIN op = Reachable(Spaces)
        /\ ChainOK(chain, record, pc)
    <3>1. AllSpaces(chain, record) = Spaces
      BY DEF AllSpaces, Spaces
    <3> QED
      BY <3>1 DEF Inv, HeapChainOK
  <2>2. HeapOK(op)
    BY <2>1 DEF Good
  <2>3. ASSUME NEW id \in DOMAIN op
        PROVE  /\ op[id].fn \in FunctionsOver(initBF.ins)
               /\ op[id].oper \in {"none", "and", "or", "xor", "drop"}
    BY <2>2 DEF HeapOK, Objects, Parts, Methods
  <2>4. ASSUME NEW s \in Spaces
        PROVE  /\ s.totalError \in 0..2^Cardinality(initBF.ins)
               /\ s.divideRange \in {0} \cup {2^n : n \in 2..Cardinality(initBF.ins)}
               /\ Len(s.children) < WIDTH_PRE_LEVEL
    <3>1. SpaceOK(op, s)
      BY <2>1 DEF Good
    <3>2. s.divideRange \in {0} \cup {2^n : n \in 2..Cardinality(initBF.ins)}
      <4>1. s.divideRange # 0 =>
              \E n \in 2..Cardinality(initBF.ins) : s.divideRange = 2^n /\ 2^n >= 3
        BY <2>1, <2>2, <3>1, RangeValues
      <4> QED
        BY <4>1
    <3>3. s.totalError \in 0..2^Cardinality(initBF.ins)
      <4> DEFINE F == Final(op, s.tree)
                 S == SUBSET initBF.ins
                 n == Cardinality(initBF.ins)
      <4>1. s.totalError = Differing(initBF.on, F.on)
        BY <3>1 DEF SpaceOK, BooleanCompare
      <4>2. F \in Parts
        <5>1. Shaped(s.tree) /\ \A p \in DOMAIN s.tree : s.tree[p] \in DOMAIN op
          BY <3>1 DEF SpaceOK
        <5>2. \A p \in DOMAIN s.tree : op[s.tree[p]].fn \in Parts
          BY <2>2, <5>1 DEF HeapOK, Objects
        <5> QED
          BY <5>1, <5>2, FinalType
      <4>3. initBF \in Parts /\ IsFiniteSet(initBF.ins)
        BY <2>1, InitialFunction
      <4> HIDE DEF F
      <4>4. F.on \in SUBSET S /\ initBF.on \in SUBSET S
        BY <4>2, <4>3 DEF Parts, FunctionsOver
      <4>5. IsFiniteSet(S) /\ Cardinality(S) = 2^n
        BY <4>3, FS_SUBSET
      <4> HIDE DEF S
      <4>6. Differing(initBF.on, F.on) \in Nat /\ Differing(initBF.on, F.on) <= Cardinality(S)
        BY <4>4, <4>5, DifferingType
      <4>7. Cardinality(S) \in Nat
        BY <4>5, FS_CardinalityType
      <4> HIDE DEF n
      <4> QED
        BY <4>1, <4>5, <4>6, <4>7 DEF n
    <3>4. Len(s.children) < WIDTH_PRE_LEVEL
      <4>1. Len(<<>>) = 0 /\ 0 < WIDTH_PRE_LEVEL
        BY SearchAssumption
      <4>2. CASE \E t \in Range(chain) : s = t \/ s \in Range(t.children)
        BY <2>1, <4>1, <4>2 DEF ChainOK, ParentOK, Fresh
      <4>3. CASE s \in Range(record)
        <5>1. PICK r : record = <<r>> /\ r.children = <<>>
          <6>1. record # <<>>
            BY <4>3 DEF Range
          <6> QED
            BY <2>1, <6>1 DEF ChainOK
        <5>2. s = r
          BY <4>3, <5>1, SingleIs
        <5> QED
          BY <4>1, <5>1, <5>2
      <4> QED
        BY <4>2, <4>3 DEF Spaces
    <3> QED
      BY <3>2, <3>3, <3>4
  <2>5. pc \in {"search", "done"} /\ chain # <<>>
    BY <2>1 DEF ChainOK
  <2>6. Len(record) <= 1
    <3>1. CASE record = <<>>
      BY <3>1
    <3>2. CASE record # <<>>
      <4>1. PICK r : record = <<r>>
        BY <2>1, <3>2 DEF ChainOK
      <4>2. Len(record) = 1
        BY <4>1, SingleIs
      <4> QED
        BY <4>2
    <3> QED
      BY <3>1, <3>2
  <2> QED
    BY <2>1, <2>3, <2>4, <2>5, <2>6 DEF TypeOK
<1> QED
  BY <1>1, SearchInv, PTL

-----------------------------------------------------------------------------
(***************************************************************************)
(* The parts that divide() makes are neither empty nor the whole: every    *)
(* method from 1 to 2^n - 2 has a bit that is 1 and one that is 0.         *)
(***************************************************************************)

\* How many numbers there are up to k.
LEMMA CountUpTo ==
  ASSUME NEW k \in Nat
  PROVE  IsFiniteSet(1..k) /\ Cardinality(1..k) = k
<1>1. 1 \in Int /\ k \in Int
  OBVIOUS
<1>2. IsFiniteSet(1..k) /\ Cardinality(1..k) = IF 1 > k THEN 0 ELSE k - 1 + 1
  BY <1>1, FS_Interval, Zenon
<1>3. k = IF 1 > k THEN 0 ELSE k - 1 + 1
  OBVIOUS
<1> QED
  BY <1>2, <1>3

\* The method of a function without inputs would have no bits.
LEMMA PowerZero == 2^0 = 1
<1> DEFINE S == {}
<1>1. IsFiniteSet(S) /\ Cardinality(S) = 0
  BY FS_EmptySet
<1>2. SUBSET S = {{}}
  OBVIOUS
<1>3. Cardinality({{}}) = 1
  BY FS_Singleton
<1> HIDE DEF S
<1>4. Cardinality(SUBSET S) = 2^Cardinality(S)
  BY <1>1, FS_SUBSET
<1> QED
  BY <1>1, <1>2, <1>3, <1>4

\* One bit more: twice as many sets, those with and those without the new member.
LEMMA PowerDoubles ==
  ASSUME NEW k \in Nat
  PROVE  2^(k + 1) = 2 * 2^k
<1> DEFINE S == 1..k
           x == k + 1
           T == S \cup {x}
           A == SUBSET S
           B == {Y \cup {x} : Y \in A}
           f == [Y \in A |-> Y \cup {x}]
<1>1. x \notin S /\ IsFiniteSet(S) /\ Cardinality(S) = k
  BY CountUpTo
<1>2. SUBSET T = A \cup B
  <2> HIDE DEF S, x
  <2>1. ASSUME NEW Z \in SUBSET T
        PROVE  Z \in A \cup B
    <3>1. CASE x \in Z
      <4>1. Z \ {x} \in A /\ Z = (Z \ {x}) \cup {x}
        BY <3>1
      <4> QED
        BY <4>1
    <3>2. CASE x \notin Z
      BY <3>2
    <3> QED
      BY <3>1, <3>2
  <2> QED
    BY <2>1
<1>3. A \cap B = {}
  <2> HIDE DEF S, x
  <2> QED
    BY <1>1
<1>4. f \in Bijection(A, B)
  <2> HIDE DEF S, x
  <2>1. f \in [A -> B]
    OBVIOUS
  <2>2. \A Y, Z \in A : f[Y] = f[Z] => Y = Z
    <3> SUFFICES ASSUME NEW Y \in A, NEW Z \in A, Y \cup {x} = Z \cup {x}
                 PROVE  Y = Z
      OBVIOUS
    <3>1. x \notin Y /\ x \notin Z
      BY <1>1
    <3>2. \A y : y \in Y <=> y \in Z
      BY <3>1
    <3> QED
      BY <3>2
  <2>3. \A b \in B : \E Y \in A : f[Y] = b
    OBVIOUS
  <2> HIDE DEF f, A, B
  <2> QED
    BY <2>1, <2>2, <2>3 DEF Bijection, Injection, Surjection, IsInjective
<1> HIDE DEF S, x, T, A, B, f
<1>5. IsFiniteSet(T) /\ Cardinality(T) = k + 1
  <2>1. Cardinality(S \cup {x}) = Cardinality(S) + 1 /\ IsFiniteSet(S \cup {x})
    BY <1>1, FS_AddElement
  <2> QED
    BY <1>1, <2>1 DEF T
<1>6. Cardinality(SUBSET T) = 2^(k + 1)
  BY <1>5, FS_SUBSET
<1>7. IsFiniteSet(A) /\ Cardinality(A) = 2^k
  BY <1>1, FS_SUBSET DEF A
<1>8. IsFiniteSet(B) /\ Cardinality(B) = Cardinality(A)
  <2>1. ExistsBijection(A, B)
    BY <1>4 DEF ExistsBijection
  <2> QED
    BY <1>7, <2>1, FS_Bijection
<1>9. Cardinality(A \cup B) = Cardinality(A) + Cardinality(B) - Cardinality(A \cap B)
  BY <1>7, <1>8, FS_Union
<1>10. Cardinality(A \cap B) = 0 /\ 2^k \in Nat
  BY <1>3, FS_EmptySet, PowerType
<1> DEFINE y == 2^k
           z == 2^(k + 1)
<1>11. z = Cardinality(A \cup B) /\ Cardinality(A) = y /\ Cardinality(B) = y /\ y \in Nat
  BY <1>2, <1>6, <1>7, <1>8, <1>10
<1> HIDE DEF y, z
<1>12. z = y + y - 0
  BY <1>9, <1>10, <1>11
<1>13. z = 2 * y
  BY <1>11, <1>12
<1> QED
  BY <1>13 DEF y, z

\* A product is monotonic.
LEMMA Products ==
  ASSUME NEW c \in Nat, NEW a \in Int, NEW b \in Int, a <= b
  PROVE  c * a <= c * b
OBVIOUS

\* The quotient and what remains.
LEMMA Quotients ==
  ASSUME NEW m \in Nat, NEW c \in Nat \ {0}
  PROVE  m \div c \in Nat /\ c * (m \div c) <= m /\ m < c * (m \div c) + c
OBVIOUS

\* There is one quotient only.
LEMMA QuotientIs ==
  ASSUME NEW c \in Nat \ {0}, NEW r \in Nat, NEW e \in 0..(c - 1), NEW m, m = c * r + e
  PROVE  m \div c = r
<1> DEFINE q == m \div c
<1>1. c * r \in Nat /\ m \in Nat
  OBVIOUS
<1>2. q \in Nat /\ c * q <= m /\ m < c * q + c
  BY <1>1, Quotients
<1> HIDE DEF q
<1>3. CASE q <= r - 1
  <2>1. c * q <= c * (r - 1)
    BY <1>2, <1>3, Products
  <2>2. c * (r - 1) = c * r - c
    OBVIOUS
  <2>3. c * q \in Int
    BY <1>2
  <2> QED
    BY <1>1, <1>2, <2>1, <2>2, <2>3
<1>4. CASE r + 1 <= q
  <2>1. c * (r + 1) <= c * q
    BY <1>2, <1>4, Products
  <2>2. c * (r + 1) = c * r + c
    OBVIOUS
  <2>3. c * q \in Int
    BY <1>2
  <2> QED
    BY <1>1, <1>2, <2>1, <2>2, <2>3
<1>5. q = r
  BY <1>2, <1>3, <1>4
<1> QED
  BY <1>5 DEF q

\* Bit k of m.
BitAt(m, k) == (m \div 2^k) % 2

\* A bit is 0 or 1.
LEMMA BitType ==
  ASSUME NEW m \in Nat, NEW k \in Nat
  PROVE  BitAt(m, k) \in {0, 1}
<1> DEFINE c == 2^k
           r == m \div c
<1>1. c \in Nat \ {0}
  BY PowerType
<1> HIDE DEF c
<1>2. r \in Nat
  BY <1>1, Quotients
<1> HIDE DEF r
<1>3. r % 2 \in {0, 1}
  BY <1>2
<1> QED
  BY <1>3 DEF BitAt, r, c

\* A number of zeros is a multiple of 2^n, and so is one more than a number
\* of ones.
LEMMA EqualBits ==
  ASSUME NEW m \in Nat, NEW n \in Nat, NEW b \in {0, 1}, \A k \in 0..(n - 1) : BitAt(m, k) = b
  PROVE  \E r \in Nat : m + b = 2^n * r
<1> DEFINE Multiple(k) == \E r \in Nat : m + b = 2^k * r
           bad == {k \in 0..n : ~Multiple(k)}
<1>1. bad = {}
  <2> SUFFICES ASSUME bad # {}
               PROVE  FALSE
    OBVIOUS
  <2>1. PICK k \in bad : \A j \in bad : k <= j
    <3>1. bad \in SUBSET Nat /\ bad # {}
      OBVIOUS
    <3> HIDE DEF bad
    <3> QED
      BY <3>1, LeastNumber
  <2>2. Multiple(0)
    <3>1. m + b \in Nat /\ m + b = 1 * (m + b)
      OBVIOUS
    <3> QED
      BY <3>1, PowerZero
  <2>3. k # 0
    BY <2>1, <2>2
  <2> DEFINE j == k - 1
             c == 2^j
  <2>4. j \in Nat /\ j \in 0..(n - 1) /\ k = j + 1 /\ j \notin bad
    <3>1. k \in 0..n
      OBVIOUS
    <3> HIDE DEF bad
    <3>2. j \in Nat /\ j \in 0..(n - 1) /\ k = j + 1 /\ ~(k <= j)
      BY <2>3, <3>1
    <3> QED
      BY <2>1, <3>2
  <2>5. PICK r \in Nat : m + b = c * r
    BY <2>4
  <2>6. c \in Nat \ {0} /\ 2^k = 2 * c
    BY <2>4, PowerType, PowerDoubles
  <2>7. BitAt(m, j) = b
    BY <2>4
  <2> HIDE DEF j
  <2>8. (m \div c) % 2 = b
    BY <2>7 DEF BitAt
  <2> HIDE DEF c
  <2>9. \E s \in Nat : r = 2 * s
    <3>1. CASE b = 0
      <4>1. m = c * r + 0 /\ 0 \in 0..(c - 1)
        BY <2>5, <2>6, <3>1
      <4>2. m \div c = r
        BY <2>6, <4>1, QuotientIs
      <4>3. r % 2 = 0
        BY <2>8, <3>1, <4>2
      <4>4. r = 2 * (r \div 2) /\ r \div 2 \in Nat
        BY <4>3
      <4> QED
        BY <4>4
    <3>2. CASE b = 1
      <4>1. r # 0
        <5>1. c * 0 = 0
          BY <2>6
        <5> QED
          BY <2>5, <3>2, <5>1
      <4> DEFINE t == r - 1
                 e == c - 1
      <4>2. t \in Nat /\ e \in 0..(c - 1)
        BY <2>6, <4>1
      <4>3. m = c * t + e
        <5>1. c * t = c * r - c
          BY <2>6
        <5>2. c * r \in Int
          BY <2>6
        <5> QED
          BY <2>5, <2>6, <3>2, <5>1, <5>2
      <4>4. m \div c = t
        <5> HIDE DEF t, e
        <5> QED
          BY <2>6, <4>2, <4>3, QuotientIs
      <4>5. t % 2 = 1
        BY <2>8, <3>2, <4>4
      <4>6. r = 2 * (t \div 2 + 1) /\ t \div 2 + 1 \in Nat
        BY <4>2, <4>5
      <4> QED
        BY <4>6
    <3> QED
      BY <3>1, <3>2
  <2>10. PICK s \in Nat : r = 2 * s
    BY <2>9
  <2>11. m + b = 2^k * s
    <3>1. c * (2 * s) = (2 * c) * s
      BY <2>6
    <3> QED
      BY <2>5, <2>6, <2>10, <3>1
  <2> QED
    BY <2>1, <2>11
<1>2. n \in 0..n
  OBVIOUS
<1>3. n \notin bad
  BY <1>1
<1> QED
  BY <1>2, <1>3

\* So a method has both bits.
LEMMA BothBits ==
  ASSUME NEW n \in Nat, NEW m \in 1..(2^n - 2), NEW b \in {0, 1}
  PROVE  \E k \in 0..(n - 1) : BitAt(m, k) # b
<1> SUFFICES ASSUME \A k \in 0..(n - 1) : BitAt(m, k) = b
             PROVE  FALSE
  OBVIOUS
<1> DEFINE c == 2^n
<1>1. c \in Nat
  BY PowerType
<1>2. m \in Nat /\ 1 <= m /\ m <= c - 2
  BY <1>1
<1>3. PICK r \in Nat : m + b = c * r
  BY <1>2, EqualBits
<1> HIDE DEF c
<1>4. r # 0
  <2>1. c * 0 = 0
    BY <1>1
  <2> QED
    BY <1>2, <1>3, <2>1
<1>5. c * 1 <= c * r
  BY <1>1, <1>4, Products
<1>6. c * 1 = c
  BY <1>1
<1> QED
  BY <1>1, <1>2, <1>3, <1>5, <1>6

\* The bit that decides about input i.
Rank(ins, i) == Cardinality({j \in ins : j < i})

\* Every bit decides about an input.
LEMMA EveryRank ==
  ASSUME NEW ins \in SUBSET Nat, IsFiniteSet(ins), NEW k \in 0..(Cardinality(ins) - 1)
  PROVE  \E i \in ins : Rank(ins, i) = k
<1> DEFINE n == Cardinality(ins)
           below(i) == {j \in ins : j < i}
           f == [i \in ins |-> Rank(ins, i)]
           T == 0..(n - 1)
<1>1. n \in Nat
  BY FS_CardinalityType
<1>2. ASSUME NEW i \in ins
      PROVE  Rank(ins, i) \in T /\ IsFiniteSet(below(i))
  <2>1. IsFiniteSet(ins \ {i}) /\ Cardinality(ins \ {i}) = n - 1
    BY FS_RemoveElement
  <2>2. below(i) \subseteq ins \ {i}
    OBVIOUS
  <2> HIDE DEF n
  <2>3. IsFiniteSet(below(i)) /\ Cardinality(below(i)) <= n - 1
    BY <2>1, <2>2, FS_Subset
  <2>4. Cardinality(below(i)) \in Nat
    BY <2>3, FS_CardinalityType
  <2>5. Rank(ins, i) = Cardinality(below(i))
    BY DEF Rank
  <2> HIDE DEF below
  <2> QED
    BY <1>1, <2>3, <2>4, <2>5
<1>3. ASSUME NEW i \in ins, NEW j \in ins, i < j
      PROVE  Rank(ins, i) # Rank(ins, j)
  <2>1. i \notin below(i) /\ below(i) \cup {i} \subseteq below(j)
    <3>1. i \in Nat /\ j \in Nat /\ \A x \in ins : x \in Nat /\ (x < i => x < j)
      BY <1>3
    <3>2. ~(i < i)
      BY <3>1
    <3> QED
      BY <1>3, <3>1, <3>2
  <2>2. IsFiniteSet(below(i)) /\ IsFiniteSet(below(j))
    BY <1>2
  <2>3. Rank(ins, i) = Cardinality(below(i)) /\ Rank(ins, j) = Cardinality(below(j))
    BY DEF Rank
  <2> HIDE DEF below
  <2>4. Cardinality(below(i) \cup {i}) = Cardinality(below(i)) + 1
    BY <2>1, <2>2, FS_AddElement
  <2>5. Cardinality(below(i) \cup {i}) <= Cardinality(below(j))
    BY <2>1, <2>2, FS_Subset
  <2>6. Cardinality(below(i)) \in Nat /\ Cardinality(below(j)) \in Nat
    BY <2>2, FS_CardinalityType
  <2> QED
    BY <2>3, <2>4, <2>5, <2>6
<1>4. f \in Injection(ins, T)
  <2>1. f \in [ins -> T]
    BY <1>2
  <2>2. \A i, j \in ins : f[i] = f[j] => i = j
    <3> SUFFICES ASSUME NEW i \in ins, NEW j \in ins, i # j
                 PROVE  f[i] # f[j]
      OBVIOUS
    <3>1. i < j \/ j < i
      OBVIOUS
    <3> QED
      BY <1>3, <3>1
  <2> HIDE DEF f, T
  <2> QED
    BY <2>1, <2>2 DEF Injection, IsInjective
<1>5. IsFiniteSet(T) /\ Cardinality(T) = n
  <2>1. 0 \in Int /\ n - 1 \in Int
    BY <1>1
  <2>2. IsFiniteSet(T) /\ Cardinality(T) = IF 0 > n - 1 THEN 0 ELSE (n - 1) - 0 + 1
    BY <2>1, FS_Interval, Zenon
  <2> HIDE DEF n, T
  <2>3. n = IF 0 > n - 1 THEN 0 ELSE (n - 1) - 0 + 1
    BY <1>1
  <2> QED
    BY <2>2, <2>3
<1>6. f \in Surjection(ins, T)
  <2> HIDE DEF f, T
  <2> QED
    BY <1>4, <1>5, FS_Injection DEF n
<1> QED
  BY <1>6 DEF Surjection

\* Both parts of a division have inputs.
LEMMA ProperParts ==
  ASSUME NEW ins \in SUBSET Nat, IsFiniteSet(ins), NEW m \in 1..(2^Cardinality(ins) - 2)
  PROVE  LeftPart(ins, m) \subseteq ins /\ LeftPart(ins, m) # {} /\ LeftPart(ins, m) # ins
<1> DEFINE n == Cardinality(ins)
<1>1. n \in Nat
  BY FS_CardinalityType
<1>2. LeftPart(ins, m) = {i \in ins : BitAt(m, Rank(ins, i)) = 1}
  BY DEF LeftPart, BitAt, Rank
<1>3. m \in Nat
  BY <1>1, PowerType
<1>4. ASSUME NEW b \in {0, 1}
      PROVE  \E i \in ins : BitAt(m, Rank(ins, i)) # b
  <2>1. PICK k \in 0..(n - 1) : BitAt(m, k) # b
    BY <1>1, BothBits
  <2>2. PICK i \in ins : Rank(ins, i) = k
    BY EveryRank
  <2> QED
    BY <2>1, <2>2
<1>5. \E i \in ins : i \in LeftPart(ins, m)
  <2>1. PICK i \in ins : BitAt(m, Rank(ins, i)) # 0
    BY <1>4
  <2>2. Rank(ins, i) \in Nat
    <3>1. {j \in ins : j < i} \subseteq ins
      OBVIOUS
    <3> QED
      BY <3>1, FS_Subset, FS_CardinalityType DEF Rank
  <2>3. BitAt(m, Rank(ins, i)) \in {0, 1}
    BY <1>3, <2>2, BitType
  <2> QED
    BY <1>2, <2>1, <2>3
<1>6. \E i \in ins : i \notin LeftPart(ins, m)
  BY <1>2, <1>4
<1> QED
  BY <1>2, <1>5, <1>6

-----------------------------------------------------------------------------
(***************************************************************************)
(* The answer.                                                             *)
(***************************************************************************)

\* Functions of some of the inputs.
Ports == FunctionsOver(initBF.ins)

\* The left sides that divide() is called with.
PartsOf(g) == {LeftPart(g.ins, m) : m \in 1..(2^Cardinality(g.ins) - 2)}

\* The ways to approximate g from those of its two parts.
Combinations(v, g, part) ==
  LET d == Divide(g, part, g.ins \ part, search.ignoreXor)
  IN  {Combine(l, r, d.oper) : l \in v[d.left], r \in v[d.right]}

\* Approximations of g, from those of functions with fewer inputs.
ResultAt(v, g) ==
  IF ~IsDividable(g) THEN {g} ELSE UNION {Combinations(v, g, part) : part \in PartsOf(g)}

\* All of them.
IsResult(v) == v = [g \in Ports |-> ResultAt(v, g)]

\* The inputs of the two parts.
LEMMA DivisionIs ==
  ASSUME NEW P, NEW left \in SUBSET P, NEW right \in SUBSET P, NEW d, IsDivision(d, left, right)
  PROVE  /\ d.left.ins = left /\ d.right.ins = right
         /\ d.left \in FunctionsOver(P) /\ d.right \in FunctionsOver(P)
<1> DEFINE a == d.left.on
           b == d.right.on
<1>1. /\ d.left = [ins |-> left, on |-> a] /\ a \subseteq SUBSET left
      /\ d.right = [ins |-> right, on |-> b] /\ b \subseteq SUBSET right
  BY DEF IsDivision
<1> HIDE DEF a, b
<1> QED
  BY <1>1 DEF FunctionsOver

\* The parts of any function of some of the inputs have fewer inputs.
LEMMA SmallerParts ==
  ASSUME Searching, NEW g \in Ports, NEW part \in PartsOf(g),
         NEW d, d = Divide(g, part, g.ins \ part, search.ignoreXor)
  PROVE  /\ d.left \in Ports /\ d.left.ins \subseteq g.ins /\ d.left.ins # g.ins
         /\ d.right \in Ports /\ d.right.ins \subseteq g.ins /\ d.right.ins # g.ins
<1>1. /\ g.ins \subseteq initBF.ins /\ IsFiniteSet(g.ins) /\ g.ins \in SUBSET Nat
  <2>1. g.ins \subseteq initBF.ins
    BY DEF Ports, FunctionsOver
  <2> QED
    BY <2>1, InitialFunction, FS_Subset
<1>2. part \subseteq g.ins /\ part # {} /\ part # g.ins
  BY <1>1, ProperParts DEF PartsOf
<1>3. IsFiniteSet(part) /\ IsFiniteSet(g.ins \ part)
  BY <1>1, <1>2, FS_Subset
<1>4. IsDivision(d, part, g.ins \ part)
  BY <1>3, DivideType
<1>5. g.ins \ part # g.ins /\ part \subseteq initBF.ins /\ g.ins \ part \subseteq initBF.ins
  BY <1>1, <1>2
<1>6. /\ d.left.ins = part /\ d.right.ins = g.ins \ part
      /\ d.left \in FunctionsOver(initBF.ins) /\ d.right \in FunctionsOver(initBF.ins)
  <2> DEFINE rest == g.ins \ part
  <2>1. IsDivision(d, part, rest) /\ part \in SUBSET initBF.ins /\ rest \in SUBSET initBF.ins
    BY <1>4, <1>5
  <2> HIDE DEF rest
  <2>2. /\ d.left.ins = part /\ d.right.ins = rest
        /\ d.left \in FunctionsOver(initBF.ins) /\ d.right \in FunctionsOver(initBF.ins)
    BY ONLY <2>1, DivisionIs
  <2> QED
    BY <2>2 DEF rest
<1> QED
  BY <1>2, <1>5, <1>6 DEF Ports

\* Only functions with fewer inputs matter.
LEMMA ResultDependsOn ==
  ASSUME Searching, NEW g \in Ports, NEW v, NEW w,
         \A h \in Ports : h.ins \subseteq g.ins /\ h.ins # g.ins => v[h] = w[h]
  PROVE  ResultAt(v, g) = ResultAt(w, g)
<1>1. ASSUME NEW part \in PartsOf(g)
      PROVE  Combinations(v, g, part) = Combinations(w, g, part)
  <2> DEFINE d == Divide(g, part, g.ins \ part, search.ignoreXor)
  <2>1. d = Divide(g, part, g.ins \ part, search.ignoreXor)
    OBVIOUS
  <2>2. /\ Combinations(v, g, part) = {Combine(l, r, d.oper) : l \in v[d.left], r \in v[d.right]}
        /\ Combinations(w, g, part) = {Combine(l, r, d.oper) : l \in w[d.left], r \in w[d.right]}
    BY DEF Combinations
  <2> HIDE DEF d
  <2>3. v[d.left] = w[d.left] /\ v[d.right] = w[d.right]
    BY <2>1, SmallerParts
  <2> QED
    BY <2>2, <2>3
<1> QED
  BY <1>1 DEF ResultAt

\* The recursion of Approximations ends.
LEMMA ResultExists ==
  ASSUME Searching
  PROVE  \E v : IsResult(v)
<1> DEFINE I == initBF.ins
           At(D) == {g \in Ports : g.ins \in D}
           Down(D) == \A X \in D, Y \in SUBSET I : Y \subseteq X => Y \in D
           Is(D, v) == v = [g \in At(D) |-> ResultAt(v, g)]
           G == {D \in SUBSET SUBSET I : Down(D) /\ \E v : Is(D, v)}
<1>1. IsFiniteSet(I) /\ IsFiniteSet(SUBSET I)
  BY InitialFunction, FS_SUBSET
<1>2. {} \in G
  <2> DEFINE v == [g \in {} |-> 0]
  <2>1. At({}) = {}
    OBVIOUS
  <2>2. v = [g \in {} |-> ResultAt(v, g)]
    OBVIOUS
  <2> QED
    BY <2>1, <2>2
<1>3. PICK D \in G : \A E \in G : D \subseteq E => E = D
  <2>1. G \in SUBSET SUBSET SUBSET I /\ G # {}
    BY <1>2
  <2> HIDE DEF G, I
  <2> QED
    BY <1>1, <2>1, LargestSet
<1>4. D \in SUBSET SUBSET I /\ Down(D)
  OBVIOUS
<1>5. PICK v : Is(D, v)
  OBVIOUS
<1>6. CASE D = SUBSET I
  <2>1. At(D) = Ports
    BY <1>6 DEF Ports, FunctionsOver
  <2> QED
    BY <1>5, <2>1 DEF IsResult
<1>7. ASSUME D # SUBSET I
      PROVE  FALSE
  <2> DEFINE R == (SUBSET I) \ D
  <2>1. PICK X \in R : \A Z \in R : Z \subseteq X => Z = X
    <3>1. R \in SUBSET SUBSET I /\ R # {}
      BY <1>4, <1>7
    <3> HIDE DEF R, I
    <3> QED
      BY <1>1, <3>1, SmallestSet
  <2>2. X \in SUBSET I /\ X \notin D
    OBVIOUS
  <2>3. \A Z \in SUBSET I : Z \subseteq X /\ Z # X => Z \in D
    BY <2>1
  <2> DEFINE E == D \cup {X}
             w == [g \in At(E) |-> IF g.ins = X THEN ResultAt(v, g) ELSE v[g]]
  <2>4. Down(E) /\ E \in SUBSET SUBSET I
    BY <1>4, <2>2, <2>3
  <2>5. \A g \in Ports : g.ins \in D => w[g] = v[g]
    BY <2>2
  <2>6. ASSUME NEW g \in At(E)
        PROVE  w[g] = ResultAt(w, g)
    <3>1. g \in Ports /\ g.ins \in E /\ g.ins \in SUBSET I
      BY <2>4
    <3>2. ASSUME NEW h \in Ports, h.ins \subseteq g.ins, h.ins # g.ins
          PROVE  w[h] = v[h]
      <4>1. h.ins \in SUBSET I
        BY <3>1, <3>2
      <4>2. h.ins \in D
        <5> HIDE DEF w
        <5> QED
          BY <1>4, <2>3, <3>1, <3>2, <4>1
      <4> QED
        BY <2>5, <4>2
    <3>3. ResultAt(w, g) = ResultAt(v, g)
      <4> HIDE DEF w, E
      <4> QED
        BY <3>1, <3>2, ResultDependsOn
    <3>4. g.ins # X => v[g] = ResultAt(v, g)
      <4>1. g.ins # X => g \in At(D)
        BY <3>1
      <4> QED
        BY <1>5, <4>1
    <3>5. w[g] = IF g.ins = X THEN ResultAt(v, g) ELSE v[g]
      OBVIOUS
    <3> HIDE DEF w
    <3> QED
      BY <3>3, <3>4, <3>5
  <2>7. Is(E, w)
    <3>1. w = [g \in At(E) |-> w[g]]
      OBVIOUS
    <3> HIDE DEF w, At
    <3> QED
      BY <2>6, <3>1
  <2>8. E \in G
    <3> HIDE DEF E, w, At, Down
    <3> QED
      BY <2>4, <2>7
  <2> QED
    BY <1>3, <2>2, <2>8
<1> QED
  BY <1>6, <1>7

\* Approximations is what the recursion computes.
LEMMA ApproximationsAre ==
  ASSUME Searching
  PROVE  \E v : IsResult(v) /\ Approximations(initBF) = v[initBF]
<1> DEFINE A(v) ==
             [g \in FunctionsOver(initBF.ins) |->
                IF ~IsDividable(g) THEN {g}
                ELSE UNION {LET d == Divide(g, part, g.ins \ part, search.ignoreXor)
                            IN  {Combine(l, r, d.oper) : l \in v[d.left], r \in v[d.right]}
                              : part \in {LeftPart(g.ins, m) : m \in 1..(2^Cardinality(g.ins) - 2)}}]
           w == CHOOSE v : v = A(v)
<1>1. \A v : IsResult(v) <=> v = A(v)
  BY DEF IsResult, ResultAt, Combinations, PartsOf, Ports
<1>2. Approximations(initBF) = (CHOOSE v : v = A(v))[initBF]
  BY DEF Approximations
<1> HIDE DEF A
<1>3. w = A(w)
  BY <1>1, ResultExists
<1>4. Approximations(initBF) = w[initBF]
  BY <1>2
<1> QED
  BY <1>1, <1>3, <1>4

\* A space that cannot be divided any more has been divided all the way.
LEMMA LowestIsApproximation ==
  ASSUME Searching, NEW heap, HeapOK(heap), NEW s, SpaceOK(heap, s),
         Dividable(heap, s.tree) = {}
  PROVE  Final(heap, s.tree) \in Approximations(initBF)
<1> DEFINE tree == s.tree
           fn(p) == heap[tree[p]].fn
<1>1. /\ Shaped(tree) /\ \A p \in DOMAIN tree : tree[p] \in DOMAIN heap
      /\ heap[tree[<<>>]].fn = initBF
      /\ \A p \in Inner(tree) : DividedAt(heap, tree, p)
      /\ <<>> \in DOMAIN tree
  BY DEF SpaceOK, Shaped
<1>2. PICK v : IsResult(v) /\ Approximations(initBF) = v[initBF]
  BY ApproximationsAre
<1>3. PICK w : IsValue(heap, tree, w) /\ Final(heap, tree) = w[<<>>]
  BY <1>1, FinalValue
<1>4. \A p \in DOMAIN tree : w[p] = ValueAt(heap, tree, w, p)
  BY <1>3 DEF IsValue
<1>5. \A g \in Ports : v[g] = ResultAt(v, g)
  BY <1>2 DEF IsResult
<1> DEFINE bad == {p \in DOMAIN tree : w[p] \notin v[fn(p)]}
<1>6. bad = {}
  <2> SUFFICES ASSUME bad # {}
               PROVE  FALSE
    OBVIOUS
  <2>1. PICK p \in bad : Left(p) \notin bad /\ Right(p) \notin bad
    <3>1. bad \in SUBSET DOMAIN tree
      OBVIOUS
    <3> HIDE DEF bad, tree
    <3> QED
      BY <1>1, <3>1, LowestNode
  <2> DEFINE o == heap[tree[p]]
             f == o.fn
             m == o.currentDivide
             d == DivisionOf(f, m)
             part == LeftPart(f.ins, m)
  <2>2. p \in DOMAIN tree /\ w[p] \notin v[f]
    OBVIOUS
  <2>3. o \in Objects /\ f \in Ports
    BY <1>1, <2>2 DEF HeapOK, Objects, Parts, Ports
  <2>4. CASE p \in Leaves(tree)
    <3>1. ~IsDividable(f)
      BY <2>4 DEF Dividable
    <3>2. v[f] = {f}
      BY <1>5, <2>3, <3>1 DEF ResultAt
    <3>3. w[p] = f
      BY <1>4, <2>2, <2>4 DEF ValueAt
    <3> QED
      BY <2>2, <3>2, <3>3
  <2>5. CASE p \notin Leaves(tree)
    <3>1. p \in Inner(tree)
      BY <2>2, <2>5 DEF Inner
    <3>2. Left(p) \in DOMAIN tree /\ Right(p) \in DOMAIN tree
      BY <1>1, <3>1, InnerNode
    <3>3. DividedAt(heap, tree, p)
      BY <1>1, <3>1
    <3>4. /\ m \in 1..(2^Cardinality(f.ins) - 2) /\ IsDividable(f)
          /\ fn(Left(p)) = d.left /\ fn(Right(p)) = d.right
      BY <3>3 DEF DividedAt
    <3>5. o.oper = d.oper
      <4>1. m # 0
        BY <3>4
      <4> QED
        BY <1>1, <2>2, <4>1 DEF HeapOK
    <3>6. w[Left(p)] \in v[d.left] /\ w[Right(p)] \in v[d.right]
      BY <2>1, <3>2, <3>4
    <3>7. w[p] = Combine(w[Left(p)], w[Right(p)], d.oper)
      BY <1>4, <2>2, <2>5, <3>5 DEF ValueAt
    <3>8. part \in PartsOf(f)
      BY <3>4 DEF PartsOf
    <3>9. d = Divide(f, part, f.ins \ part, search.ignoreXor)
      BY DEF DivisionOf
    <3>10. IsDividable(f) /\ f \in Ports
      BY <2>3, <3>4
    <3> HIDE DEF o, f, m, d, part, tree, bad, fn
    <3>11. w[p] \in Combinations(v, f, part)
      BY <3>6, <3>7, <3>9 DEF Combinations
    <3>12. v[f] = UNION {Combinations(v, f, q) : q \in PartsOf(f)}
      BY <1>5, <3>10 DEF ResultAt
    <3>13. w[p] \in v[f]
      BY <3>8, <3>11, <3>12
    <3> QED
      BY <2>2, <3>13
  <2> QED
    BY <2>4, <2>5
<1>7. w[<<>>] \in v[initBF]
  BY <1>1, <1>6
<1> QED
  BY <1>2, <1>3, <1>7

\* The answer of every search is a complete way to take the function apart, and the
\* circuit it stands for is one of the approximations that are defined without it.
THEOREM SearchTreeAnswer == Spec => []AnswerIsDecomposition
<1>1. Inv => AnswerIsDecomposition
  <2> SUFFICES ASSUME Inv, pc = "done"
               PROVE  Final(op, BestSpace.tree) \in Approximations(initBF)
    BY DEF AnswerIsDecomposition
  <2> DEFINE s == BestSpace
  <2>1. /\ Searching /\ Good(op, AllSpaces(chain, record)) /\ ChainOK(chain, record, "done")
    BY DEF Inv, HeapChainOK
  <2>2. s \in AllSpaces(chain, record) /\ s.divideRange = 0
    <3>1. CASE record = <<>>
      <4>1. s = chain[1] /\ s.divideRange = 0
        BY <2>1, <3>1 DEF ChainOK, BestSpace
      <4>2. chain \in Seq(Range(chain)) /\ chain # <<>>
        BY <2>1 DEF ChainOK
      <4>3. chain[1] \in Range(chain)
        <5>1. Len(chain) \in Nat \ {0}
          BY <4>2, FrontAndLast
        <5>2. 1 \in 1..Len(chain)
          BY <5>1
        <5> QED
          BY <4>2, <5>2, ElementOfSeq
      <4> QED
        BY <4>1, <4>3, SpacesOfChain
    <3>2. CASE record # <<>>
      <4>1. PICK r : record = <<r>> /\ r.divideRange = 0
        BY <2>1, <3>2 DEF ChainOK
      <4>2. record[1] = r /\ Range(record) = {r}
        BY <4>1, SingleIs
      <4>3. s = r
        BY <3>2, <4>2 DEF BestSpace
      <4>4. Range(record) \subseteq AllSpaces(chain, record)
        BY SpacesOfRecord
      <4> QED
        BY <4>1, <4>2, <4>3, <4>4
    <3> QED
      BY <3>1, <3>2
  <2> HIDE DEF s
  <2>3. SpaceOK(op, s) /\ HeapOK(op)
    BY <2>1, <2>2 DEF Good
  <2>4. Dividable(op, s.tree) = {}
    BY <2>1, <2>2, <2>3, RangeValues
  <2>5. Final(op, s.tree) \in Approximations(initBF)
    BY <2>1, <2>3, <2>4, LowestIsApproximation
  <2> QED
    BY <2>5 DEF s
<1> QED
  BY <1>1, SearchInv, PTL

-----------------------------------------------------------------------------
(***************************************************************************)
(* The full search.                                                        *)
(***************************************************************************)

\* The approximations that a space may still make of its leaf p.
StillMade(heap, s, v, p) ==
  LET f == heap[s.tree[p]].fn
  IN  IF p \in Dividable(heap, s.tree) /\ p = DivideNode(heap, s.tree)
      THEN UNION {Combinations(v, f, LeftPart(f.ins, m)) :
                    m \in {k \in 1..(2^Cardinality(f.ins) - 2) : k >= s.currentDivide}}
      ELSE v[f]

\* w says what the search makes of each node, when it goes on from s.
GoesOnWith(heap, s, v, w) ==
  \A p \in DOMAIN s.tree :
    IF p \in Leaves(s.tree) THEN w[p] \in StillMade(heap, s, v, p)
    ELSE w[p] = Combine(w[Left(p)], w[Right(p)], heap[s.tree[p]].oper)

\* The search comes to the approximation x if it goes on from s.
ComesTo(heap, s, v, x) == \E w : GoesOnWith(heap, s, v, w) /\ w[<<>>] = x

\* No approximation is better than the record, except those that the search
\* has yet to come to.
NotOverlooked(heap, ch, rec, v, x) ==
  \/ /\ rec # <<>> /\ BooleanCompare(initBF, x) \in Nat
     /\ rec[1].totalError <= BooleanCompare(initBF, x)
  \/ \E s \in Range(ch) : ComesTo(heap, s, v, x)

\* A space that cannot be divided has been compared with the record.
LowestCompared(ch, rec) ==
  \A s \in Range(ch) :
    s.divideRange = 0 =>
      IF rec = <<>> THEN Len(ch) = 1 ELSE rec[1].totalError <= s.totalError

\* What the full search keeps.
FullOK(heap, ch, rec, p) ==
  /\ \A v : IsResult(v) => \A x \in v[initBF] : NotOverlooked(heap, ch, rec, v, x)
  /\ LowestCompared(ch, rec)
  /\ p = "done" => Len(ch) = 1 /\ ~MayGrow(ch[1])

\* The inductive invariant of the full search.
FullInv == Inv /\ (search.method = "full" => FullOK(op, chain, record, pc))

\* The errors of a space are a number.
LEMMA TotalErrorType ==
  ASSUME Searching, NEW heap, HeapOK(heap), NEW s, SpaceOK(heap, s)
  PROVE  s.totalError \in Nat
<1> DEFINE F == Final(heap, s.tree)
<1>1. s.totalError = Differing(initBF.on, F.on)
  BY DEF SpaceOK, BooleanCompare
<1>2. F \in Parts
  <2>1. Shaped(s.tree) /\ \A p \in DOMAIN s.tree : s.tree[p] \in DOMAIN heap
    BY DEF SpaceOK
  <2>2. \A p \in DOMAIN s.tree : heap[s.tree[p]].fn \in Parts
    BY <2>1 DEF HeapOK, Objects
  <2> QED
    BY <2>1, <2>2, FinalType
<1>3. initBF \in Parts /\ IsFiniteSet(initBF.ins)
  BY InitialFunction
<1> HIDE DEF F
<1>4. F.on \in SUBSET (SUBSET initBF.ins) /\ initBF.on \in SUBSET (SUBSET initBF.ins)
  BY <1>2, <1>3 DEF Parts, FunctionsOver
<1>5. IsFiniteSet(SUBSET initBF.ins)
  BY <1>3, FS_SUBSET
<1> QED
  BY <1>1, <1>4, <1>5, DifferingType

\* The function of a node.
LEMMA NodeFunction ==
  ASSUME NEW heap, HeapOK(heap), NEW s, SpaceOK(heap, s), NEW p \in DOMAIN s.tree
  PROVE  heap[s.tree[p]].fn \in Parts /\ heap[s.tree[p]].fn \in Ports
BY DEF SpaceOK, HeapOK, Objects, Parts, Ports

\* A leaf whose divisions have not begun may still become anything.
LEMMA AllStillMade ==
  ASSUME NEW v, IsResult(v), NEW heap, NEW s, NEW p, heap[s.tree[p]].fn \in Ports,
         s.currentDivide = 1 \/ p # DivideNode(heap, s.tree)
  PROVE  StillMade(heap, s, v, p) = v[heap[s.tree[p]].fn]
<1> DEFINE f == heap[s.tree[p]].fn
           ms == 1..(2^Cardinality(f.ins) - 2)
           C(part) == Combinations(v, f, part)
<1>1. CASE p \in Dividable(heap, s.tree) /\ p = DivideNode(heap, s.tree)
  <2>1. IsDividable(f) /\ s.currentDivide = 1
    BY <1>1 DEF Dividable
  <2>2. {k \in ms : k >= s.currentDivide} = ms
    BY <2>1
  <2>3. StillMade(heap, s, v, p) = UNION {C(LeftPart(f.ins, m)) : m \in ms}
    <3> HIDE DEF C
    <3>1. StillMade(heap, s, v, p) = UNION {C(LeftPart(f.ins, m)) : m \in {k \in ms : k >= s.currentDivide}}
      BY <1>1 DEF StillMade, C
    <3> HIDE DEF ms, f
    <3> QED
      BY <2>2, <3>1
  <2>4. v[f] = UNION {C(part) : part \in PartsOf(f)}
    BY <2>1 DEF IsResult, ResultAt
  <2>5. PartsOf(f) = {LeftPart(f.ins, m) : m \in ms}
    BY DEF PartsOf
  <2> HIDE DEF f, ms, C
  <2>6. UNION {C(part) : part \in PartsOf(f)} = UNION {C(LeftPart(f.ins, m)) : m \in ms}
    BY <2>5
  <2> QED
    BY <2>3, <2>4, <2>6 DEF f
<1>2. CASE ~(p \in Dividable(heap, s.tree) /\ p = DivideNode(heap, s.tree))
  BY <1>2 DEF StillMade
<1> QED
  BY <1>1, <1>2

\* Where the search comes to depends on the functions, on the operations of
\* divided nodes and on the next method only.
LEMMA ComesToDependsOn ==
  ASSUME NEW heap, NEW s, NEW h, NEW t, DOMAIN t.tree = DOMAIN s.tree,
         t.currentDivide = s.currentDivide,
         \A p \in DOMAIN s.tree : h[t.tree[p]].fn = heap[s.tree[p]].fn,
         \A p \in Inner(s.tree) : h[t.tree[p]].oper = heap[s.tree[p]].oper,
         NEW v, NEW x, ComesTo(heap, s, v, x)
  PROVE  ComesTo(h, t, v, x)
<1>1. /\ Leaves(t.tree) = Leaves(s.tree) /\ Dividable(h, t.tree) = Dividable(heap, s.tree)
      /\ DivideNode(h, t.tree) = DivideNode(heap, s.tree)
  <2> DEFINE a == t.tree
             b == s.tree
  <2>1. DOMAIN a = DOMAIN b /\ \A p \in DOMAIN a : h[a[p]].fn = heap[b[p]].fn
    OBVIOUS
  <2> HIDE DEF a, b
  <2>2. /\ Leaves(a) = Leaves(b) /\ Dividable(h, a) = Dividable(heap, b)
        /\ DivideNode(h, a) = DivideNode(heap, b)
    BY ONLY <2>1, SameFunctions
  <2> QED
    BY <2>2 DEF a, b
<1>2. PICK w : GoesOnWith(heap, s, v, w) /\ w[<<>>] = x
  BY DEF ComesTo
<1>3. ASSUME NEW p \in DOMAIN s.tree
      PROVE  StillMade(h, t, v, p) = StillMade(heap, s, v, p)
  BY <1>1, <1>3 DEF StillMade
<1>4. \A p \in DOMAIN s.tree \ Leaves(s.tree) : h[t.tree[p]].oper = heap[s.tree[p]].oper
  BY DEF Inner
<1>5. GoesOnWith(h, t, v, w)
  BY <1>1, <1>2, <1>3, <1>4 DEF GoesOnWith
<1> QED
  BY <1>2, <1>5 DEF ComesTo

\* Divisions of other spaces change nothing about it.
LEMMA OthersComeTo ==
  ASSUME NEW heap, HeapOK(heap), NEW h, Extended(heap, h), NEW t, SpaceOK(heap, t),
         NEW v, NEW x, ComesTo(heap, t, v, x)
  PROVE  ComesTo(h, t, v, x)
<1>1. \A p \in DOMAIN t.tree : t.tree[p] \in DOMAIN heap
  BY DEF SpaceOK
<1>2. \A p \in DOMAIN t.tree : h[t.tree[p]].fn = heap[t.tree[p]].fn
  BY <1>1 DEF Extended
<1>3. \A p \in Inner(t.tree) : h[t.tree[p]].oper = heap[t.tree[p]].oper
  <2> SUFFICES ASSUME NEW p \in Inner(t.tree)
               PROVE  h[t.tree[p]].oper = heap[t.tree[p]].oper
    OBVIOUS
  <2>1. t.tree[p] \in DOMAIN heap
    BY <1>1 DEF Inner
  <2>2. DividedAt(heap, t.tree, p)
    BY DEF SpaceOK
  <2>3. heap[t.tree[p]].currentDivide # 0
    BY <2>2 DEF DividedAt
  <2> QED
    BY <2>1, <2>3 DEF Extended
<1> QED
  BY <1>2, <1>3, ComesToDependsOn

\* Nor does it matter that objects go which no space points to.
LEMMA CollectedComesTo ==
  ASSUME NEW heap, NEW ch, NEW rec, NEW t \in Range(ch), SpaceOK(heap, t),
         NEW v, NEW x, ComesTo(heap, t, v, x)
  PROVE  ComesTo(Collect(heap, ch, rec), t, v, x)
<1> DEFINE h == Collect(heap, ch, rec)
           R == Reachable(AllSpaces(ch, rec))
<1>1. h = Restrict(heap, R)
  BY DEF Collect, AllSpaces
<1>2. \A p \in DOMAIN t.tree : t.tree[p] \in R
  <2>1. t \in AllSpaces(ch, rec)
    BY SpacesOfChain
  <2> QED
    BY <2>1 DEF Reachable, Range
<1>3. \A i \in R : h[i] = heap[i]
  <2> HIDE DEF h, R
  <2> QED
    BY <1>1 DEF Restrict
<1>4. /\ \A p \in DOMAIN t.tree : h[t.tree[p]] = heap[t.tree[p]]
      /\ \A p \in Inner(t.tree) : h[t.tree[p]] = heap[t.tree[p]]
  <2> HIDE DEF h, R
  <2> QED
    BY <1>2, <1>3 DEF Inner
<1> HIDE DEF h
<1>5. ComesTo(h, t, v, x)
  BY <1>4, ComesToDependsOn
<1> QED
  BY <1>5 DEF h

\* A space that cannot be divided comes to its own function only.
LEMMA LowestComesTo ==
  ASSUME NEW heap, HeapOK(heap), NEW s, SpaceOK(heap, s), Dividable(heap, s.tree) = {},
         NEW v, IsResult(v), NEW x, ComesTo(heap, s, v, x)
  PROVE  x = Final(heap, s.tree)
<1> DEFINE tree == s.tree
<1>1. Shaped(tree) /\ <<>> \in DOMAIN tree
  BY DEF SpaceOK, Shaped
<1>2. PICK w : GoesOnWith(heap, s, v, w) /\ w[<<>>] = x
  BY DEF ComesTo
<1>3. PICK z : IsValue(heap, tree, z) /\ Final(heap, tree) = z[<<>>]
  BY <1>1, FinalValue
<1>4. \A p \in DOMAIN tree : z[p] = ValueAt(heap, tree, z, p)
  BY <1>3 DEF IsValue
<1> DEFINE bad == {p \in DOMAIN tree : w[p] # z[p]}
<1>5. bad = {}
  <2> SUFFICES ASSUME bad # {}
               PROVE  FALSE
    OBVIOUS
  <2>1. PICK p \in bad : Left(p) \notin bad /\ Right(p) \notin bad
    <3>1. bad \in SUBSET DOMAIN tree
      OBVIOUS
    <3> HIDE DEF bad, tree
    <3> QED
      BY <1>1, <3>1, LowestNode
  <2> DEFINE f == heap[tree[p]].fn
  <2>2. p \in DOMAIN tree /\ w[p] # z[p]
    OBVIOUS
  <2>3. CASE p \in Leaves(tree)
    <3>1. ~IsDividable(f)
      BY <2>3 DEF Dividable
    <3>2. f \in Ports
      BY <2>2, NodeFunction
    <3>3. v[f] = {f}
      BY <3>1, <3>2 DEF IsResult, ResultAt
    <3>4. StillMade(heap, s, v, p) = v[f]
      BY DEF StillMade
    <3>5. w[p] \in StillMade(heap, s, v, p)
      BY <1>2, <2>2, <2>3 DEF GoesOnWith
    <3>6. z[p] = f
      BY <1>4, <2>2, <2>3 DEF ValueAt
    <3> QED
      BY <2>2, <3>3, <3>4, <3>5, <3>6
  <2>4. CASE p \notin Leaves(tree)
    <3>1. Left(p) \in DOMAIN tree /\ Right(p) \in DOMAIN tree
      BY <1>1, <2>2, <2>4, InnerNode DEF Inner
    <3>2. w[Left(p)] = z[Left(p)] /\ w[Right(p)] = z[Right(p)]
      BY <2>1, <3>1
    <3>3. w[p] = Combine(w[Left(p)], w[Right(p)], heap[tree[p]].oper)
      BY <1>2, <2>2, <2>4 DEF GoesOnWith
    <3>4. z[p] = Combine(z[Left(p)], z[Right(p)], heap[tree[p]].oper)
      BY <1>4, <2>2, <2>4 DEF ValueAt
    <3> QED
      BY <2>2, <3>2, <3>3, <3>4
  <2> QED
    BY <2>3, <2>4
<1> QED
  BY <1>1, <1>2, <1>3, <1>5

\* A space whose divisions are used up comes to nothing more.
LEMMA UsedUp ==
  ASSUME Searching, NEW heap, HeapOK(heap), NEW s, SpaceOK(heap, s),
         s.divideRange # 0, ~MayGrow(s), NEW v, NEW x
  PROVE  ~ComesTo(heap, s, v, x)
<1> SUFFICES ASSUME NEW w, GoesOnWith(heap, s, v, w)
             PROVE  FALSE
  BY DEF ComesTo
<1> DEFINE node == DivideNode(heap, s.tree)
           f == heap[s.tree[node]].fn
<1>1. Dividable(heap, s.tree) # {} /\ Shaped(s.tree) /\ s.currentDivide \in Nat
  BY RangeValues DEF SpaceOK
<1>2. node \in Dividable(heap, s.tree)
  BY <1>1, DivideNodeType
<1>3. node \in Leaves(s.tree) /\ node \in DOMAIN s.tree
  BY <1>2 DEF Dividable, Leaves
<1>4. s.divideRange = 2^Cardinality(f.ins)
  BY <1>1 DEF SpaceOK, RangeOf
<1>5. {k \in 1..(2^Cardinality(f.ins) - 2) : k >= s.currentDivide} = {}
  <2>1. s.divideRange \in Nat
    BY RangeType
  <2>2. ~(s.currentDivide <= 2^Cardinality(f.ins) - 2)
    BY <1>4 DEF MayGrow
  <2> HIDE DEF f
  <2> QED
    BY <1>1, <1>4, <2>1, <2>2
<1>6. StillMade(heap, s, v, node) = {}
  BY <1>2, <1>5 DEF StillMade
<1> QED
  BY <1>3, <1>6 DEF GoesOnWith

\* The root, before its first division, comes to all approximations.
LEMMA RootComesTo ==
  ASSUME NEW v, IsResult(v), NEW heap, HeapOK(heap), NEW s, SpaceOK(heap, s),
         DOMAIN s.tree = {<<>>}, s.currentDivide = 1, NEW x \in v[initBF]
  PROVE  ComesTo(heap, s, v, x)
<1> DEFINE w == [p \in {<<>>} |-> x]
<1>1. heap[s.tree[<<>>]].fn = initBF /\ <<>> \in DOMAIN s.tree
  BY DEF SpaceOK
<1>2. heap[s.tree[<<>>]].fn \in Ports
  BY <1>1, NodeFunction
<1>3. StillMade(heap, s, v, <<>>) = v[initBF]
  BY <1>1, <1>2, AllStillMade
<1>4. <<>> \in Leaves(s.tree)
  <2>1. <<>> \in Ways
    BY EmptySeq DEF Ways
  <2>2. Left(<<>>) # <<>>
    BY <2>1, ChildWays, Ways01
  <2> QED
    BY <2>2 DEF Leaves
<1>5. GoesOnWith(heap, s, v, w)
  BY <1>3, <1>4 DEF GoesOnWith
<1> QED
  BY <1>5 DEF ComesTo

\* A division: what the space may come to is what the new space may come to,
\* or the space by a later division.
LEMMA DividedComesTo ==
  ASSUME Searching, NEW v, IsResult(v), NEW heap, NEW s, NEW m, Dividing(heap, s, m),
         NEW node, node = DivideNode(heap, s.tree),
         NEW h, h = HeapAfter(heap, s, m), Extended(heap, h), HeapOK(h),
         NEW down, down = Grown(s.tree, node, Free(heap, 2), Free(heap, 3)),
         NEW c, c.tree = down, c.currentDivide = 1, SpaceOK(h, c),
         NEW u, u.tree = Replanted(s.tree, node, Free(heap, 1)), u.currentDivide = m + 1,
         NEW x, ComesTo(heap, s, v, x)
  PROVE  ComesTo(h, u, v, x) \/ ComesTo(h, c, v, x)
<1> DEFINE id == DividedId(heap, s)
           f == heap[id].fn
           tree == s.tree
           top == 2^Cardinality(f.ins) - 2
<1>1. HeapOK(heap) /\ SpaceOK(heap, s) /\ m = s.currentDivide
  BY DEF Dividing
<1>2. /\ node \in Leaves(tree) /\ node \in Dividable(heap, tree) /\ id = tree[node]
      /\ id \in DOMAIN heap /\ f \in Parts /\ m \in Nat \ {0} /\ m \in 1..top
      /\ h = NewHeap(heap, id, m, DivisionOf(f, m))
  BY DividingFacts
<1> DEFINE d == DivisionOf(f, m)
           part(k) == LeftPart(f.ins, k)
           ms(n) == {k \in 1..top : k >= n}
<1>3. /\ h[id].oper = d.oper /\ h[id].fn = f
      /\ h[Free(heap, 1)] = NewOp(f)
      /\ h[Free(heap, 2)].fn = d.left /\ h[Free(heap, 3)].fn = d.right
  <2>1. heap[id].currentDivide \in {0, m} /\ h = NewHeap(heap, id, m, DivisionOf(heap[id].fn, m))
    BY DividingFacts
  <2> HIDE DEF id
  <2>2. DividedWith(heap, h, id, m)
    BY <1>1, <1>2, <2>1, NewHeapOK
  <2>3. /\ h[id].currentDivide = m /\ h[Free(heap, 1)] = NewOp(f)
        /\ h[Free(heap, 2)] = NewOp(d.left) /\ h[Free(heap, 3)] = NewOp(d.right)
    BY <2>2 DEF DividedWith
  <2>4. id \in DOMAIN h /\ h[id].fn = f
    BY <1>2 DEF Extended
  <2>5. h[id].oper = DivisionOf(h[id].fn, h[id].currentDivide).oper
    BY <1>2, <2>3, <2>4 DEF HeapOK
  <2>6. h[id].oper = d.oper
    BY <2>3, <2>4, <2>5
  <2> QED
    BY <2>3, <2>4, <2>6 DEF NewOp
<1>4. /\ Shaped(tree) /\ \A p \in DOMAIN tree : tree[p] \in DOMAIN heap
      /\ \A p \in Inner(tree) : DividedAt(heap, tree, p)
  BY <1>1 DEF SpaceOK
<1>5. \A p \in DOMAIN tree : h[tree[p]].fn = heap[tree[p]].fn
  BY <1>4 DEF Extended
<1>6. \A p \in Inner(tree) : h[tree[p]].oper = heap[tree[p]].oper
  <2> SUFFICES ASSUME NEW p \in Inner(tree)
               PROVE  h[tree[p]].oper = heap[tree[p]].oper
    OBVIOUS
  <2>1. tree[p] \in DOMAIN heap
    BY <1>4 DEF Inner
  <2>2. heap[tree[p]].currentDivide # 0
    BY <1>4 DEF DividedAt
  <2> QED
    BY <2>1, <2>2 DEF Extended
<1>7. PICK w : GoesOnWith(heap, s, v, w) /\ w[<<>>] = x
  BY DEF ComesTo
<1>8. w[node] \in UNION {Combinations(v, f, part(k)) : k \in ms(m)}
  <2>1. w[node] \in StillMade(heap, s, v, node)
    BY <1>2, <1>7 DEF GoesOnWith, Leaves
  <2>2. StillMade(heap, s, v, node) = UNION {Combinations(v, f, part(k)) : k \in ms(m)}
    BY <1>1, <1>2 DEF StillMade
  <2> QED
    BY <2>1, <2>2
<1>9. PICK k \in ms(m) : w[node] \in Combinations(v, f, part(k))
  BY <1>8
<1> HIDE DEF id, f, tree, d
<1>10. CASE k = m
  <2>1. PICK l \in v[d.left], r \in v[d.right] : w[node] = Combine(l, r, d.oper)
    <3>1. d = Divide(f, part(m), f.ins \ part(m), search.ignoreXor)
      BY DEF d, DivisionOf
    <3>2. w[node] \in Combinations(v, f, part(m))
      BY <1>9, <1>10
    <3> DEFINE C(q) == {Combine(l, r, q.oper) : l \in v[q.left], r \in v[q.right]}
    <3>3. Combinations(v, f, part(m)) = C(Divide(f, part(m), f.ins \ part(m), search.ignoreXor))
      BY DEF Combinations
    <3> HIDE DEF part, C
    <3>4. w[node] \in C(d)
      BY <3>1, <3>2, <3>3
    <3> QED
      BY <3>4 DEF C
  <2>2. IsGrown(down, tree, node, Free(heap, 2), Free(heap, 3))
    BY <1>2, <1>4, GrownTree DEF tree
  <2> DEFINE L == Left(node)
             R == Right(node)
             z == [p \in DOMAIN down |-> IF p = L THEN l ELSE IF p = R THEN r ELSE w[p]]
  <2>3. ASSUME NEW p \in DOMAIN down
        PROVE  IF p \in Leaves(down) THEN z[p] \in StillMade(h, c, v, p)
               ELSE z[p] = Combine(z[Left(p)], z[Right(p)], h[down[p]].oper)
    <3>1. h[down[p]].fn \in Ports
      BY NodeFunction
    <3>2. StillMade(h, c, v, p) = v[h[down[p]].fn]
      BY <3>1, AllStillMade
    <3>3. CASE p = L \/ p = R
      <4>1. z[p] \in v[h[down[p]].fn]
        BY <1>3, <2>1, <2>2, <3>3 DEF IsGrown
      <4>2. p \in Leaves(down)
        BY <2>2, <3>3 DEF IsGrown
      <4> QED
        BY <3>2, <4>1, <4>2
    <3>4. CASE p # L /\ p # R
      <4>1. p \in DOMAIN tree /\ z[p] = w[p] /\ down[p] = tree[p]
        BY <2>2, <3>4 DEF IsGrown
      <4>2. CASE p \in Leaves(down)
        <5>1. p \in Leaves(tree) /\ p # node
          BY <2>2, <3>4, <4>2 DEF IsGrown
        <5>2. w[p] \in StillMade(heap, s, v, p)
          BY <1>7, <4>1, <5>1 DEF GoesOnWith, tree
        <5>3. StillMade(heap, s, v, p) = v[heap[tree[p]].fn]
          BY <5>1 DEF StillMade, tree
        <5> QED
          BY <1>5, <3>2, <4>1, <4>2, <5>2, <5>3
      <4>3. CASE p = node
        <5>1. z[L] = l /\ z[R] = r /\ L # R
          BY <2>2 DEF IsGrown
        <5>2. p \notin Leaves(down)
          BY <2>2, <4>3 DEF IsGrown
        <5>3. h[down[p]].oper = d.oper
          BY <1>2, <1>3, <4>1, <4>3
        <5> QED
          BY <2>1, <4>1, <4>3, <5>1, <5>2, <5>3
      <4>4. CASE p \notin Leaves(down) /\ p # node
        <5>1. p \notin Leaves(tree) /\ p \in Inner(tree)
          BY <2>2, <4>1, <4>4 DEF IsGrown, Inner
        <5>2. w[p] = Combine(w[Left(p)], w[Right(p)], heap[tree[p]].oper)
          BY <1>7, <4>1, <5>1 DEF GoesOnWith, tree
        <5>3. Left(p) \in DOMAIN tree /\ Right(p) \in DOMAIN tree
          BY <1>4, <5>1, InnerNode
        <5>4. z[Left(p)] = w[Left(p)] /\ z[Right(p)] = w[Right(p)]
          BY <2>2, <5>3 DEF IsGrown
        <5> QED
          BY <1>6, <4>1, <4>4, <5>1, <5>2, <5>4
      <4> QED
        BY <4>2, <4>3, <4>4
    <3> QED
      BY <3>3, <3>4
  <2> HIDE DEF z
  <2>4. GoesOnWith(h, c, v, z)
    BY <2>3 DEF GoesOnWith
  <2>5. z[<<>>] = x
    <3>1. <<>> \in DOMAIN tree
      BY <1>4 DEF Shaped
    <3> QED
      BY <1>7, <2>2, <3>1 DEF IsGrown, z
  <2> QED
    BY <2>4, <2>5 DEF ComesTo
<1>11. CASE k # m
  <2>1. k \in ms(m + 1)
    BY <1>2, <1>11
  <2>2. IsReplanted(u.tree, tree, node, Free(heap, 1))
    BY <1>2, <1>4, ReplantedTree DEF tree
  <2>3. \A p \in DOMAIN tree : h[u.tree[p]].fn = heap[tree[p]].fn
    <3>1. h[Free(heap, 1)].fn = f /\ f = heap[tree[node]].fn
      BY <1>2, <1>3 DEF NewOp, f
    <3>2. u.tree[node] = Free(heap, 1) /\ \A p \in DOMAIN tree \ {node} : u.tree[p] = tree[p]
      BY <2>2 DEF IsReplanted
    <3> QED
      BY <1>5, <3>1, <3>2
  <2>4. /\ Leaves(u.tree) = Leaves(tree) /\ Dividable(h, u.tree) = Dividable(heap, tree)
        /\ DivideNode(h, u.tree) = node /\ DOMAIN u.tree = DOMAIN tree
    <3> DEFINE t == u.tree
    <3>1. DOMAIN t = DOMAIN tree /\ \A p \in DOMAIN t : h[t[p]].fn = heap[tree[p]].fn
      BY <2>2, <2>3 DEF IsReplanted
    <3> HIDE DEF t
    <3>2. /\ Leaves(t) = Leaves(tree) /\ Dividable(h, t) = Dividable(heap, tree)
          /\ DivideNode(h, t) = DivideNode(heap, tree)
      BY <3>1, SameFunctions
    <3> QED
      BY <3>1, <3>2 DEF t, tree
  <2>5. ASSUME NEW p \in DOMAIN tree
        PROVE  IF p \in Leaves(tree) THEN w[p] \in StillMade(h, u, v, p)
               ELSE w[p] = Combine(w[Left(p)], w[Right(p)], h[u.tree[p]].oper)
    <3>1. CASE p = node
      <4>1. h[u.tree[p]].fn = f
        BY <1>2, <2>3, <3>1 DEF f
      <4>2. StillMade(h, u, v, p) = UNION {Combinations(v, f, part(j)) : j \in ms(m + 1)}
        BY <1>2, <2>4, <3>1, <4>1 DEF StillMade, tree
      <4>3. w[p] \in StillMade(h, u, v, p)
        <5> HIDE DEF part, ms
        <5> QED
          BY <1>9, <2>1, <3>1, <4>2
      <4> QED
        BY <1>2, <3>1, <4>3
    <3>2. CASE p \in Leaves(tree) /\ p # node
      <4>1. w[p] \in StillMade(heap, s, v, p)
        BY <1>7, <3>2 DEF GoesOnWith, tree
      <4>2. StillMade(heap, s, v, p) = v[heap[tree[p]].fn]
        BY <3>2 DEF StillMade, tree
      <4>3. StillMade(h, u, v, p) = v[h[u.tree[p]].fn]
        BY <2>4, <3>2 DEF StillMade
      <4> QED
        BY <2>3, <3>2, <4>1, <4>2, <4>3
    <3>3. CASE p \notin Leaves(tree)
      <4>1. w[p] = Combine(w[Left(p)], w[Right(p)], heap[tree[p]].oper)
        BY <1>7, <3>3 DEF GoesOnWith, tree
      <4>2. u.tree[p] = tree[p] /\ p \in Inner(tree)
        BY <1>2, <2>2, <3>3 DEF IsReplanted, Inner
      <4> QED
        BY <1>6, <3>3, <4>1, <4>2
    <3> QED
      BY <3>1, <3>2, <3>3
  <2>6. GoesOnWith(h, u, v, w)
    BY <2>4, <2>5 DEF GoesOnWith
  <2> QED
    BY <1>7, <2>6 DEF ComesTo
<1> QED
  BY <1>10, <1>11

\* The same for the spaces that searchSpaceGenerate leaves.
LEMMA GeneratedComesTo ==
  ASSUME Searching, NEW v, IsResult(v), NEW heap, NEW S, Good(heap, S), NEW s \in S, MayGrow(s),
         NEW g, g = SearchSpaceGenerate(heap, s, s.currentDivide),
         NEW u, u.tree = g.space.tree, u.currentDivide = s.currentDivide + 1,
         Good(g.heap, S \cup {u, g.child}), Extended(heap, g.heap),
         NEW x, ComesTo(heap, s, v, x)
  PROVE  ComesTo(g.heap, u, v, x) \/ ComesTo(g.heap, g.child, v, x)
<1> DEFINE m == s.currentDivide
           node == DivideNode(heap, s.tree)
           down == Grown(s.tree, node, Free(heap, 2), Free(heap, 3))
           h == g.heap
           c == g.child
<1>1. HeapOK(heap) /\ SpaceOK(heap, s) /\ Agree(heap, s, s) /\ IsSpace(s)
  BY DEF Good, SpaceOK
<1>2. Dividing(heap, s, m)
  <2>1. Dividable(heap, s.tree) # {}
    BY <1>1, GrowingSpace
  <2>2. m <= RangeOf(heap, s.tree) - 2
    BY <1>1 DEF SpaceOK, MayGrow
  <2> QED
    BY <1>1, <2>1, <2>2 DEF Dividing
<1>3. IsGenerated(heap, s, m, g)
  BY <1>1, GenerateIs
<1>4. h = HeapAfter(heap, s, m) /\ c = NewSpace(h, down)
  BY <1>3 DEF IsGenerated
<1>5. u.tree = Replanted(s.tree, node, Free(heap, 1)) /\ u.currentDivide = m + 1
  BY <1>3 DEF IsGenerated
<1>6. c.tree = down /\ c.currentDivide = 1
  <2> HIDE DEF c, h, down
  <2>1. Fresh(c) /\ c.tree = down
    BY <1>4, NewSpaceFresh
  <2> QED
    BY <2>1 DEF Fresh
<1>7. HeapOK(h) /\ SpaceOK(h, c)
  BY DEF Good
<1>8. Extended(heap, h) /\ node = DivideNode(heap, s.tree)
      /\ down = Grown(s.tree, node, Free(heap, 2), Free(heap, 3))
  OBVIOUS
<1>10. Searching /\ IsResult(v) /\ ComesTo(heap, s, v, x)
  OBVIOUS
<1> HIDE DEF m, node, down, h, c
<1>9. ComesTo(h, u, v, x) \/ ComesTo(h, c, v, x)
  BY ONLY <1>2, <1>4, <1>5, <1>6, <1>7, <1>8, <1>10, DividedComesTo
<1> QED
  BY <1>9 DEF h, c

\* A chain whose last space is taken away.
LEMMA RestOfChain ==
  ASSUME NEW ch, ch \in Seq(Range(ch)), ch # <<>>
  PROVE  /\ Range(Front(ch)) \subseteq Range(ch)
         /\ \A t \in Range(ch) : t = ch[Len(ch)] \/ t \in Range(Front(ch))
         /\ Front(ch) \in Seq(Range(ch)) /\ Len(ch) \in Nat \ {0}
<1>1. /\ Front(ch) \in Seq(Range(ch)) /\ Len(Front(ch)) = Len(ch) - 1 /\ Len(ch) \in Nat \ {0}
      /\ \A i \in 1..(Len(ch) - 1) : Front(ch)[i] = ch[i]
      /\ Range(Front(ch)) \subseteq Range(ch)
  BY FrontAndLast
<1>2. DOMAIN ch = 1..Len(ch) /\ DOMAIN Front(ch) = 1..(Len(ch) - 1)
  BY <1>1, LenProperties
<1>3. ASSUME NEW i \in 1..Len(ch)
      PROVE  ch[i] = ch[Len(ch)] \/ ch[i] \in Range(Front(ch))
  <2>1. i = Len(ch) \/ i \in 1..(Len(ch) - 1)
    BY <1>1
  <2> QED
    BY <1>1, <1>2, <2>1 DEF Range
<1> QED
  BY <1>1, <1>2, <1>3 DEF Range

\* The full search divides the current space once more.
LEMMA GenerateKeepsAll ==
  ASSUME NEW heap, NEW ch, NEW rec, HeapChainOK(heap, ch, rec, "search"),
         FullOK(heap, ch, rec, "search"), NEW s, s = ch[Len(ch)], MayGrow(s),
         NEW g, g = SearchSpaceGenerate(heap, s, s.currentDivide),
         NEW u, u = [g.space EXCEPT !.currentDivide = @ + 1],
         NEW rec2,
         rec2 = IF /\ IsAtLowestLevel(g.heap, g.child)
                   /\ rec = <<>> \/ g.child.totalError < rec[1].totalError
                THEN <<g.child>> ELSE rec,
         NEW ch2, ch2 = Front(ch) \o <<u, g.child>>
  PROVE  FullOK(Collect(g.heap, ch2, rec2), ch2, rec2, "search")
<1> DEFINE c == g.child
           S == AllSpaces(ch, rec)
           h == Collect(g.heap, ch2, rec2)
<1>1. /\ s \in Range(ch) /\ s \in S
      /\ SpaceOK(heap, s) /\ ParentOK(s) /\ IsSpace(s) /\ s.currentDivide \in Nat \ {0}
      /\ Good(heap, S) /\ HeapOK(heap) /\ Searching
  BY CurrentSpace
<1>2. ChainOK(ch, rec, "search")
  BY DEF HeapChainOK
<1>3. IsGenerated(heap, s, s.currentDivide, g)
  BY <1>1, GenerateIs
<1>4. /\ IsSpace(u) /\ u.tree = g.space.tree /\ u.currentDivide = s.currentDivide + 1
      /\ u.divideRange = s.divideRange /\ u.totalError = s.totalError
  BY <1>3 DEF IsGenerated, IsSpace
<1>5. Good(g.heap, S \cup {u, c}) /\ Extended(heap, g.heap)
  <2>1. u.currentDivide \in Nat \ {0}
    BY <1>1, <1>4
  <2>2. Searching /\ Good(heap, S) /\ s \in S /\ MayGrow(s) /\ IsSpace(s) /\ s.tree = s.tree
    BY <1>1
  <2>3. g = SearchSpaceGenerate(heap, s, s.currentDivide)
    OBVIOUS
  <2> HIDE DEF S
  <2>4. Good(g.heap, S \cup {u, g.child}) /\ Extended(heap, g.heap)
    BY ONLY <1>4, <2>1, <2>2, <2>3, GenerateGood
  <2> QED
    BY <2>4
<1>6. /\ \A t \in Range(ch) : t = s \/ t \in Range(ch2)
      /\ u \in Range(ch2) /\ c \in Range(ch2)
      /\ Range(ch2) \subseteq Range(ch) \cup {u, c}
  <2> DEFINE e == <<u, c>>
             X == Range(ch) \cup {u, c}
  <2>1. ch \in Seq(Range(ch)) /\ ch # <<>>
    BY <1>2 DEF ChainOK
  <2>2. /\ Range(Front(ch)) \subseteq Range(ch) /\ Front(ch) \in Seq(Range(ch))
        /\ \A t \in Range(ch) : t = s \/ t \in Range(Front(ch))
    BY <2>1, RestOfChain
  <2>3. Range(e) = {u, c} /\ e \in Seq(Range(e))
    <3>1. e = <<u, c>>
      OBVIOUS
    <3> HIDE DEF e, c
    <3> QED
      BY ONLY <3>1, PairIs
  <2>4. Front(ch) \in Seq(X) /\ e \in Seq(X)
    <3>1. Range(ch) \subseteq X /\ Range(e) \subseteq X
      BY <2>3
    <3> HIDE DEF X, e
    <3> QED
      BY <2>2, <2>3, <3>1, SeqMonotonic
  <2>5. ch2 = Front(ch) \o e
    OBVIOUS
  <2> HIDE DEF X, e, c
  <2>6. Range(ch2) = Range(Front(ch)) \cup Range(e)
    <3> DEFINE f == Front(ch)
    <3>1. f \in Seq(X) /\ e \in Seq(X)
      BY <2>4
    <3> HIDE DEF f
    <3>2. Range(f \o e) = Range(f) \cup Range(e)
      BY ONLY <3>1, RangeConcatenation
    <3> QED
      BY <2>5, <3>2 DEF f
  <2> QED
    BY <2>2, <2>3, <2>6 DEF c
<1>7. s.divideRange # 0
  <2>1. s.divideRange = 0 => ~(s.currentDivide <= s.divideRange - 2)
    BY <1>1
  <2> QED
    BY <2>1 DEF MayGrow
<1>8. \A t \in S : SpaceOK(heap, t) /\ SpaceOK(g.heap, t) /\ t.totalError \in Nat
  <2>1. \A t \in S : SpaceOK(heap, t) /\ SpaceOK(g.heap, t)
    BY <1>1, <1>5 DEF Good
  <2> HIDE DEF S
  <2> QED
    BY <1>1, <2>1, TotalErrorType
<1>9. /\ HeapOK(g.heap) /\ SpaceOK(g.heap, u) /\ SpaceOK(g.heap, c)
      /\ c.totalError \in Nat
  <2>1. HeapOK(g.heap) /\ SpaceOK(g.heap, u) /\ SpaceOK(g.heap, c)
    BY <1>5 DEF Good
  <2> HIDE DEF c
  <2> QED
    BY <1>1, <2>1, TotalErrorType
<1>10. Range(ch) \subseteq S
  BY SpacesOfChain
<1>11. rec # <<>> => /\ rec[1].totalError \in Nat /\ rec2 # <<>>
                     /\ rec2[1].totalError \in Nat
                     /\ rec2[1].totalError <= rec[1].totalError
  <2> SUFFICES ASSUME rec # <<>>
               PROVE  /\ rec[1].totalError \in Nat /\ rec2 # <<>>
                      /\ rec2[1].totalError \in Nat
                      /\ rec2[1].totalError <= rec[1].totalError
    OBVIOUS
  <2>1. PICK r : rec = <<r>>
    BY <1>2 DEF ChainOK
  <2>2. Range(rec) = {r} /\ rec[1] = r
    BY <2>1, SingleIs
  <2>3. r \in S
    BY <2>2, SpacesOfRecord
  <2>4. rec[1].totalError \in Nat
    BY <1>8, <2>2, <2>3
  <2>5. CASE rec2 = rec
    BY <2>4, <2>5
  <2>6. CASE rec2 # rec
    <3>1. rec2 = <<c>> /\ c.totalError < rec[1].totalError
      BY <2>6
    <3> HIDE DEF c
    <3>2. rec2[1] = c /\ rec2 # <<>>
      BY <3>1, SingleIs
    <3> QED
      BY <1>9, <2>4, <3>1, <3>2
  <2> QED
    BY <2>5, <2>6
<1>12. ASSUME NEW v, IsResult(v), NEW x \in v[initBF]
       PROVE  NotOverlooked(h, ch2, rec2, v, x)
  <2>1. NotOverlooked(heap, ch, rec, v, x)
    BY <1>12 DEF FullOK
  <2>2. CASE /\ rec # <<>> /\ BooleanCompare(initBF, x) \in Nat
             /\ rec[1].totalError <= BooleanCompare(initBF, x)
    <3>1. rec2 # <<>> /\ rec2[1].totalError <= BooleanCompare(initBF, x)
      BY <1>11, <2>2
    <3> QED
      BY <2>2, <3>1 DEF NotOverlooked
  <2>3. CASE \E t \in Range(ch) : ComesTo(heap, t, v, x)
    <3>1. PICK t \in Range(ch) : ComesTo(heap, t, v, x)
      BY <2>3
    <3>2. \E q \in Range(ch2) : SpaceOK(g.heap, q) /\ ComesTo(g.heap, q, v, x)
      <4>1. CASE t = s
        <5>1. ComesTo(g.heap, u, v, x) \/ ComesTo(g.heap, c, v, x)
          <6>1. /\ Searching /\ IsResult(v) /\ Good(heap, S) /\ s \in S /\ MayGrow(s)
                /\ g = SearchSpaceGenerate(heap, s, s.currentDivide)
                /\ u.tree = g.space.tree /\ u.currentDivide = s.currentDivide + 1
                /\ Good(g.heap, S \cup {u, g.child}) /\ Extended(heap, g.heap)
                /\ ComesTo(heap, s, v, x)
            BY <1>1, <1>4, <1>5, <1>12, <3>1, <4>1
          <6> HIDE DEF S
          <6>2. ComesTo(g.heap, u, v, x) \/ ComesTo(g.heap, g.child, v, x)
            BY ONLY <6>1, GeneratedComesTo
          <6> QED
            BY <6>2
        <5> QED
          BY <1>6, <1>9, <5>1
      <4>2. CASE t # s
        <5>1. t \in Range(ch2) /\ SpaceOK(heap, t) /\ SpaceOK(g.heap, t)
          BY <1>6, <1>8, <1>10, <4>2
        <5>2. ComesTo(g.heap, t, v, x)
          BY <1>1, <1>5, <3>1, <5>1, OthersComeTo
        <5> QED
          BY <5>1, <5>2
      <4> QED
        BY <4>1, <4>2
    <3>3. PICK q \in Range(ch2) : SpaceOK(g.heap, q) /\ ComesTo(g.heap, q, v, x)
      BY <3>2
    <3>4. ComesTo(h, q, v, x)
      BY <3>3, CollectedComesTo
    <3> QED
      BY <3>4 DEF NotOverlooked
  <2> QED
    BY <2>1, <2>2, <2>3 DEF NotOverlooked
<1>13. ASSUME NEW t \in Range(ch2), t.divideRange = 0
       PROVE  rec2 # <<>> /\ rec2[1].totalError <= t.totalError
  <2>1. CASE t = c
    <3>1. IsAtLowestLevel(g.heap, c)
      BY <1>1, <1>9, <1>13, <2>1, RangeValues DEF IsAtLowestLevel
    <3>2. CASE rec = <<>> \/ c.totalError < rec[1].totalError
      <4>1. rec2 = <<c>>
        BY <3>1, <3>2
      <4> HIDE DEF c
      <4>2. rec2[1] = c /\ rec2 # <<>>
        BY <4>1, SingleIs
      <4> QED
        BY <1>9, <2>1, <4>2
    <3>3. CASE rec # <<>> /\ ~(c.totalError < rec[1].totalError)
      <4>1. rec2 = rec
        BY <3>3
      <4> HIDE DEF c
      <4> QED
        BY <1>9, <1>11, <2>1, <3>3, <4>1
    <3> QED
      BY <3>2, <3>3
  <2>2. CASE t # c
    <3>1. t \in Range(ch) /\ t # s
      BY <1>4, <1>6, <1>7, <1>13, <2>2
    <3>2. IF rec = <<>> THEN Len(ch) = 1 ELSE rec[1].totalError <= t.totalError
      BY <1>13, <3>1 DEF FullOK, LowestCompared
    <3>3. rec # <<>>
      <4> SUFFICES ASSUME rec = <<>>
                   PROVE  FALSE
        OBVIOUS
      <4>1. Len(ch) = 1 /\ ch \in Seq(Range(ch)) /\ ch # <<>>
        BY <1>2, <3>2 DEF ChainOK
      <4>2. DOMAIN ch = {1}
        <5>1. DOMAIN ch = 1..Len(ch)
          BY <4>1, LenProperties
        <5> QED
          BY <4>1, <5>1
      <4>3. t = ch[1]
        BY <3>1, <4>2 DEF Range
      <4> QED
        BY <3>1, <4>1, <4>3
    <3>4. t.totalError \in Nat
      BY <1>8, <1>10, <3>1
    <3> QED
      BY <1>11, <3>2, <3>3, <3>4
  <2> QED
    BY <2>1, <2>2
<1>14. LowestCompared(ch2, rec2)
  BY <1>13 DEF LowestCompared
<1> QED
  BY <1>12, <1>14 DEF FullOK

\* The full search leaves a space whose divisions are used up.
LEMMA ChopKeepsAll ==
  ASSUME NEW heap, NEW ch, NEW rec, HeapChainOK(heap, ch, rec, "search"),
         FullOK(heap, ch, rec, "search"), NEW s, s = ch[Len(ch)], ~MayGrow(s)
  PROVE  /\ Len(ch) = 1 => FullOK(heap, ch, rec, "done")
         /\ Len(ch) # 1 => FullOK(Collect(heap, Front(ch), rec), Front(ch), rec, "search")
<1>1. CASE Len(ch) = 1
  BY <1>1 DEF FullOK
<1>2. CASE Len(ch) # 1
  <2> DEFINE S == AllSpaces(ch, rec)
             f == Front(ch)
             h == Collect(heap, f, rec)
  <2>1. /\ s \in Range(ch) /\ SpaceOK(heap, s) /\ Good(heap, S) /\ HeapOK(heap) /\ Searching
    BY CurrentSpace
  <2>2. ch \in Seq(Range(ch)) /\ ch # <<>>
    BY DEF HeapChainOK, ChainOK
  <2>3. Range(f) \subseteq Range(ch) /\ \A t \in Range(ch) : t = s \/ t \in Range(f)
    BY <2>2, RestOfChain
  <2>4. \A t \in Range(ch) : SpaceOK(heap, t)
    BY <2>1, SpacesOfChain DEF Good
  <2>5. \A t \in Range(ch) : t.divideRange = 0 => rec # <<>> /\ rec[1].totalError <= t.totalError
    BY <1>2 DEF FullOK, LowestCompared
  <2>6. LowestCompared(f, rec)
    <3> HIDE DEF f
    <3> QED
      BY <2>3, <2>5 DEF LowestCompared
  <2>7. ASSUME NEW v, IsResult(v), NEW x \in v[initBF]
        PROVE  NotOverlooked(h, f, rec, v, x)
    <3>1. NotOverlooked(heap, ch, rec, v, x)
      BY <2>7 DEF FullOK
    <3>2. CASE \E t \in Range(ch) : ComesTo(heap, t, v, x)
      <4>1. PICK t \in Range(ch) : ComesTo(heap, t, v, x)
        BY <3>2
      <4>2. CASE t \in Range(f)
        <5> HIDE DEF f
        <5>1. ComesTo(h, t, v, x)
          BY <2>4, <4>1, <4>2, CollectedComesTo
        <5> QED
          BY <4>2, <5>1 DEF NotOverlooked
      <4>3. CASE t \notin Range(f)
        <5>1. t = s
          BY <2>3, <4>3
        <5>2. s.divideRange = 0
          BY <2>1, <4>1, <5>1, UsedUp
        <5>3. Dividable(heap, s.tree) = {}
          BY <2>1, <5>2, RangeValues
        <5>4. x = Final(heap, s.tree)
          BY <2>1, <2>7, <4>1, <5>1, <5>3, LowestComesTo
        <5>5. BooleanCompare(initBF, x) = s.totalError
          BY <2>1, <5>4 DEF SpaceOK
        <5>6. s.totalError \in Nat
          BY <2>1, TotalErrorType
        <5> QED
          BY <2>1, <2>5, <5>2, <5>5, <5>6 DEF NotOverlooked
      <4> QED
        BY <4>2, <4>3
    <3> QED
      BY <3>1, <3>2 DEF NotOverlooked
  <2> HIDE DEF h, f
  <2>8. FullOK(h, f, rec, "search")
    BY <2>6, <2>7 DEF FullOK
  <2> QED
    BY <1>2, <2>8 DEF h, f
<1> QED
  BY <1>1, <1>2

\* The invariant, of the values that the variables get.
LEMMA NextFullValues ==
  ASSUME NEW h, NEW ch, NEW rec, NEW p, FullOK(h, ch, rec, p),
         op' = h, chain' = ch, record' = rec, pc' = p, UNCHANGED <<search, initBF>>
  PROVE  FullOK(op, chain, record, pc)'
<1>1. ASSUME NEW v
      PROVE  IsResult(v)' <=> IsResult(v)
  BY DEF IsResult, ResultAt, Combinations, PartsOf, Ports
<1>2. ASSUME NEW v, NEW x
      PROVE  NotOverlooked(h, ch, rec, v, x)' <=> NotOverlooked(h, ch, rec, v, x)
  BY DEF NotOverlooked, ComesTo, GoesOnWith, StillMade, Combinations
<1> QED
  BY <1>1, <1>2 DEF FullOK

\* At the beginning everything is to come.
LEMMA InitFull == Init => FullInv
<1> SUFFICES ASSUME Init
             PROVE  FullInv
  OBVIOUS
<1>1. Inv /\ HeapChainOK(op, chain, record, "search")
  BY InitInv DEF Init, Inv
<1>2. record = <<>> /\ pc = "search" /\ \E c : chain = <<c>>
  BY DEF Init
<1>3. PICK c : chain = <<c>>
  BY <1>2
<1>4. Range(chain) = {c} /\ Len(chain) = 1 /\ chain[1] = c
  BY <1>3, SingleIs
<1>5. SpaceOK(op, c) /\ HeapOK(op)
  BY <1>1, <1>4, CurrentSpace
<1>6. DOMAIN c.tree = {<<>>} /\ c.currentDivide = 1
  BY <1>1, <1>2, <1>4 DEF HeapChainOK, ChainOK
<1>7. ASSUME NEW v, IsResult(v), NEW x \in v[initBF]
      PROVE  NotOverlooked(op, chain, record, v, x)
  BY <1>4, <1>5, <1>6, <1>7, RootComesTo DEF NotOverlooked
<1>8. LowestCompared(chain, record)
  BY <1>2, <1>4 DEF LowestCompared
<1> QED
  BY <1>1, <1>2, <1>7, <1>8 DEF FullInv, FullOK

\* The next division comes to part of it.
LEMMA GenerateFull ==
  ASSUME FullInv, Generate, search.method = "full"
  PROVE  FullOK(op, chain, record, pc)'
<1> DEFINE s == chain[Len(chain)]
           g == SearchSpaceGenerate(op, s, s.currentDivide)
           u == [g.space EXCEPT !.currentDivide = @ + 1]
           better == Improves(g.heap, g.child)
           rec2 == IF better THEN <<g.child>> ELSE record
           ch2 == Front(chain) \o <<u, g.child>>
           h == Collect(g.heap, ch2, rec2)
<1>1. /\ pc = "search" /\ MayGrow(s) /\ UNCHANGED <<search, initBF, pc>>
      /\ record' = rec2 /\ chain' = ch2 /\ op' = h
  BY DEF Generate, current
<1>2. HeapChainOK(op, chain, record, "search") /\ FullOK(op, chain, record, "search")
  BY <1>1 DEF FullInv, Inv
<1>3. better <=> /\ IsAtLowestLevel(g.heap, g.child)
                 /\ record = <<>> \/ g.child.totalError < record[1].totalError
  BY DEF Improves, RecordError
<1> HIDE DEF better
<1>4. /\ s = chain[Len(chain)] /\ g = SearchSpaceGenerate(op, s, s.currentDivide)
      /\ u = [g.space EXCEPT !.currentDivide = @ + 1]
      /\ ch2 = Front(chain) \o <<u, g.child>> /\ h = Collect(g.heap, ch2, rec2)
      /\ IF better THEN rec2 = <<g.child>> ELSE rec2 = record
  OBVIOUS
<1> HIDE DEF s, g, u, rec2, ch2, h
<1>5. rec2 = IF /\ IsAtLowestLevel(g.heap, g.child)
                /\ record = <<>> \/ g.child.totalError < record[1].totalError
             THEN <<g.child>> ELSE record
  BY <1>3, <1>4
<1>6. FullOK(Collect(g.heap, ch2, rec2), ch2, rec2, "search")
  <2>1. MayGrow(s)
    BY <1>1
  <2> QED
    BY ONLY <1>2, <1>4, <1>5, <2>1, GenerateKeepsAll
<1>7. FullOK(h, ch2, rec2, "search") /\ pc' = "search"
  BY <1>1, <1>4, <1>6
<1> QED
  BY <1>1, <1>7, NextFullValues

\* A space is only left when nothing of it is to come.
LEMMA BacktrackFull ==
  ASSUME FullInv, Backtrack, search.method = "full"
  PROVE  FullOK(op, chain, record, pc)'
<1> DEFINE s == chain[Len(chain)]
<1>1. /\ pc = "search" /\ ~MayGrow(s) /\ record' = record /\ Chop
      /\ UNCHANGED <<search, initBF>>
  BY DEF Backtrack, current
<1>2. HeapChainOK(op, chain, record, "search") /\ FullOK(op, chain, record, "search")
  BY <1>1 DEF FullInv, Inv
<1>3. /\ Len(chain) = 1 => FullOK(op, chain, record, "done")
      /\ Len(chain) # 1 => FullOK(Collect(op, Front(chain), record), Front(chain), record, "search")
  BY <1>1, <1>2, ChopKeepsAll
<1>4. CASE Len(chain) = 1
  <2>1. pc' = "done" /\ op' = op /\ chain' = chain
    BY <1>1, <1>4 DEF Chop
  <2> QED
    BY <1>1, <1>3, <1>4, <2>1, NextFullValues
<1>5. CASE Len(chain) # 1
  <2> DEFINE h == Collect(op, Front(chain), record)
             ch2 == Front(chain)
  <2>1. pc' = "search" /\ chain' = ch2 /\ op' = h
    BY <1>1, <1>5 DEF Chop
  <2>2. FullOK(h, ch2, record, "search")
    BY <1>3, <1>5
  <2> HIDE DEF h, ch2
  <2> QED
    BY <1>1, <2>1, <2>2, NextFullValues
<1> QED
  BY <1>4, <1>5

\* At every moment of a full search, no approximation is better than the record
\* but those that the spaces of the chain have yet to come to.
THEOREM FullSearchInv == Spec => []FullInv
<1>1. FullInv /\ [Next]_vars => FullInv'
  <2> SUFFICES ASSUME FullInv, [Next]_vars
               PROVE  FullInv'
    OBVIOUS
  <2>1. Inv'
    <3>1. Inv
      BY DEF FullInv
    <3>2. CASE Generate
      BY <3>1, <3>2, GenerateInv
    <3>3. CASE Backtrack
      BY <3>1, <3>3, BacktrackInv
    <3>4. CASE Descend
      BY <3>1, <3>4, DescendInv
    <3>5. CASE Leave
      BY <3>1, <3>5, LeaveInv
    <3>6. CASE Done
      BY <3>1, <3>6, StutterInv DEF Done
    <3>7. CASE UNCHANGED vars
      BY <3>1, <3>7, StutterInv
    <3> QED
      BY <3>2, <3>3, <3>4, <3>5, <3>6, <3>7 DEF Next
  <2>2. search' = search
    BY DEF Next, Generate, Backtrack, Descend, Leave, Done, vars
  <2>3. ASSUME search.method = "full"
        PROVE  FullOK(op, chain, record, pc)'
    <3>1. CASE Generate
      BY <2>3, <3>1, GenerateFull
    <3>2. CASE Backtrack
      BY <2>3, <3>2, BacktrackFull
    <3>3. CASE Descend \/ Leave
      BY <2>3, <3>3 DEF Descend, Leave
    <3>4. CASE Done \/ UNCHANGED vars
      <4>1. /\ op' = op /\ chain' = chain /\ record' = record /\ pc' = pc
            /\ UNCHANGED <<search, initBF>>
        BY <3>4 DEF Done, vars
      <4>2. FullOK(op, chain, record, pc)
        BY <2>3 DEF FullInv
      <4> QED
        BY <4>1, <4>2, NextFullValues
    <3> QED
      BY <3>1, <3>2, <3>3, <3>4 DEF Next
  <2> QED
    BY <2>1, <2>2, <2>3 DEF FullInv
<1> QED
  BY <1>1, InitFull, PTL DEF Spec

\* The full search answers an approximation with the fewest errors there are.
THEOREM FullSearchMinimum == Spec => []FullFindsMinimum
<1>1. FullInv => FullFindsMinimum
  <2> SUFFICES ASSUME FullInv, pc = "done", search.method = "full", NEW x \in Approximations(initBF)
               PROVE  BestSpace.totalError <= BooleanCompare(initBF, x)
    BY DEF FullFindsMinimum
  <2>1. HeapChainOK(op, chain, record, "done") /\ FullOK(op, chain, record, "done")
    BY DEF FullInv, Inv
  <2> DEFINE s == chain[1]
  <2>2. Len(chain) = 1 /\ ~MayGrow(s)
    BY <2>1 DEF FullOK
  <2>3. s \in Range(chain) /\ SpaceOK(op, s) /\ HeapOK(op) /\ Searching
    BY <2>1, <2>2, CurrentSpace
  <2>4. Range(chain) = {s}
    <3>1. chain \in Seq(Range(chain))
      BY <2>1 DEF HeapChainOK, ChainOK
    <3>2. DOMAIN chain = 1..Len(chain)
      BY <3>1, LenProperties
    <3>3. DOMAIN chain = {1}
      BY <2>2, <3>2
    <3> QED
      BY <3>3 DEF Range
  <2>5. PICK v : IsResult(v) /\ Approximations(initBF) = v[initBF]
    BY <2>3, ApproximationsAre
  <2>6. NotOverlooked(op, chain, record, v, x)
    BY <2>1, <2>5 DEF FullOK
  <2>7. CASE record # <<>> /\ record[1].totalError <= BooleanCompare(initBF, x)
    BY <2>7 DEF BestSpace
  <2>8. CASE ComesTo(op, s, v, x)
    <3> HIDE DEF s
    <3>1. s.divideRange = 0
      BY <2>2, <2>3, <2>8, UsedUp
    <3>2. Dividable(op, s.tree) = {}
      BY <2>3, <3>1, RangeValues
    <3>3. x = Final(op, s.tree)
      BY <2>3, <2>5, <2>8, <3>2, LowestComesTo
    <3>4. BooleanCompare(initBF, x) = s.totalError /\ s.totalError \in Nat
      BY <2>3, <3>3, TotalErrorType DEF SpaceOK
    <3>5. record # <<>> => record[1].totalError <= s.totalError
      BY <2>1, <2>3, <3>1 DEF FullOK, LowestCompared
    <3> QED
      BY <3>4, <3>5 DEF BestSpace, s
  <2> QED
    BY <2>4, <2>6, <2>7, <2>8 DEF NotOverlooked
<1> QED
  BY <1>1, FullSearchInv, PTL
====
