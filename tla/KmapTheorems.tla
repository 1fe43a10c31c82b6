----------------------------- MODULE KmapTheorems -----------------------------
(***************************************************************************)
(* What Kmap::divide of module Kmap promises, for maps of every size.      *)
(*                                                                         *)
(*   - The simplified method of a result combines its functions as the     *)
(*     operation would, and uses no constant (invariant CasesInv).         *)
(*   - A change of a pattern lowers the errors, and a result could not be  *)
(*     improved on one side (DivideInv).  The errors are sums over a map,  *)
(*     which the model writes with SumFunction: a section on finite sums   *)
(*     says what that operator computes and that the errors of a map may   *)
(*     be added up by rows or by columns.                                  *)
(*   - A function that an operation can make exactly is found (ExactInv).  *)
(***************************************************************************)
EXTENDS Kmap, CommonTheorems

-----------------------------------------------------------------------------
\* The four operations are four different tables, in the order of the cases.
LEMMA Operations ==
  /\ DOMAIN Operation = 1..4
  /\ Operation[1] = LEFT_RELA_TABLE /\ Operation[2] = AND_TABLE
  /\ Operation[3] = OR_TABLE /\ Operation[4] = XOR_TABLE
  /\ Len(Operation) = 4
BY DEF Operation

LeftFunctions == [Rows -> BOOLEAN]
RightFunctions == [Columns -> BOOLEAN]

\* The method of a result is found by the branch for its operation.
LEMMA MethodOfOperation ==
  ASSUME NEW left, NEW right
  PROVE  LET c == Constancy(left, right)
         IN  /\ Method(LEFT_RELA_TABLE, left, right) = MethodLeft(c)
             /\ Method(AND_TABLE, left, right) = MethodAnd(c)
             /\ Method(OR_TABLE, left, right) = MethodOr(c)
             /\ Method(XOR_TABLE, left, right) = MethodXor(c)
<1>1. /\ {3} # {1, 2} /\ {3} # {1, 2, 3} /\ {3} # {1, 3}
      /\ {1, 2} # {1, 2, 3} /\ {1, 2} # {1, 3} /\ {1, 2, 3} # {1, 3}
  OBVIOUS
<1> QED
  BY <1>1, Tables DEF Method

\* A simplified method gives the same value as the operation, for each pair
\* of values that the two functions take.
LEMMA MethodAgrees ==
  ASSUME NEW k \in 1..4, NEW left \in LeftFunctions, NEW right \in RightFunctions,
         NEW i \in Rows, NEW j \in Columns
  PROVE  (Index(left[i], right[j]) \in Method(Operation[k], left, right))
           <=> (Index(left[i], right[j]) \in Operation[k])
<1> DEFINE c == Constancy(left, right)
           t == Index(left[i], right[j])
<1>1. /\ left[i] \in BOOLEAN /\ right[j] \in BOOLEAN
      /\ c.left0 => left[i] = FALSE
      /\ c.left1 => left[i] = TRUE
      /\ c.right0 => right[j] = FALSE
      /\ c.right1 => right[j] = TRUE
  BY DEF Constancy, Zeros, Ones, LeftFunctions, RightFunctions
<1>2. \/ left[i] = FALSE /\ right[j] = FALSE /\ t = 0
      \/ left[i] = TRUE /\ right[j] = FALSE /\ t = 1
      \/ left[i] = FALSE /\ right[j] = TRUE /\ t = 2
      \/ left[i] = TRUE /\ right[j] = TRUE /\ t = 3
  BY <1>1, Indices
<1> HIDE DEF c, t
<1>3. (t \in MethodLeft(c)) <=> (t \in LEFT_RELA_TABLE)
  BY <1>1, <1>2, Tables DEF MethodLeft
<1>4. (t \in MethodAnd(c)) <=> (t \in AND_TABLE)
  BY <1>1, <1>2, Tables DEF MethodAnd
<1>5. (t \in MethodOr(c)) <=> (t \in OR_TABLE)
  BY <1>1, <1>2, Tables DEF MethodOr
<1>6. (t \in MethodXor(c)) <=> (t \in XOR_TABLE)
  BY <1>1, <1>2, Tables DEF MethodXor
<1>7. k = 1 \/ k = 2 \/ k = 3 \/ k = 4
  OBVIOUS
<1> QED
  BY <1>3, <1>4, <1>5, <1>6, <1>7, MethodOfOperation, Operations DEF c, t

\* A method that looks at a side is never kept when that side is constant.
LEMMA MethodUsesNoConstant ==
  ASSUME NEW k \in 1..4, NEW left \in LeftFunctions, NEW right \in RightFunctions,
         NEW m, m = Method(Operation[k], left, right), m \notin ConstTables
  PROVE  /\ m \notin RightTables => left \notin {Zeros(Rows), Ones(Rows)}
         /\ m \notin LeftTables => right \notin {Zeros(Columns), Ones(Columns)}
<1> DEFINE c == Constancy(left, right)
<1>1. /\ c.left0 <=> left = Zeros(Rows)
      /\ c.left1 <=> left = Ones(Rows)
      /\ c.right0 <=> right = Zeros(Columns)
      /\ c.right1 <=> right = Ones(Columns)
  BY DEF Constancy
<1>2. /\ ALL_IRR_TABLE_0 \in ConstTables /\ ALL_IRR_TABLE_1 \in ConstTables
      /\ RIGHT_RELA_TABLE \in RightTables /\ Not(RIGHT_RELA_TABLE) \in RightTables
      /\ LEFT_RELA_TABLE \in LeftTables /\ Not(LEFT_RELA_TABLE) \in LeftTables
  BY DEF ConstTables, RightTables, LeftTables
<1> HIDE DEF c
<1>3. ASSUME m = MethodLeft(c)
      PROVE  ~c.left0 /\ ~c.left1 /\ m \in LeftTables
  BY <1>2, <1>3 DEF MethodLeft
<1>4. ASSUME m = MethodAnd(c) \/ m = MethodOr(c) \/ m = MethodXor(c)
      PROVE  /\ m \notin RightTables => ~c.left0 /\ ~c.left1
             /\ m \notin LeftTables => ~c.right0 /\ ~c.right1
  BY <1>2, <1>4 DEF MethodAnd, MethodOr, MethodXor
<1>5. k = 1 \/ k = 2 \/ k = 3 \/ k = 4
  OBVIOUS
<1>6. CASE k = 1
  BY <1>1, <1>3, <1>6, MethodOfOperation, Operations DEF c
<1>7. CASE k # 1
  <2>1. m = MethodAnd(c) \/ m = MethodOr(c) \/ m = MethodXor(c)
    BY <1>5, <1>7, MethodOfOperation, Operations DEF c
  <2> QED
    BY <2>1, <1>1, <1>4
<1> QED
  BY <1>6, <1>7

-----------------------------------------------------------------------------
\* The result of a case whose operation is the k-th.
IsResult(c, k) ==
  /\ c.leftFunc \in LeftFunctions /\ c.rightFunc \in RightFunctions
  /\ c.method = Method(Operation[k], c.leftFunc, c.rightFunc)

\* The inductive invariant: the patterns are functions, and the results so
\* far belong to the first of the four operations, in their order.
CasesInv ==
  /\ columnPattern \in LeftFunctions /\ rowPattern \in RightFunctions
  /\ map \in Maps
  /\ \E S : cases \in Seq(S)
  /\ Len(cases) <= 4
  /\ pc \in {"start", "columns", "rows"} => Len(cases) < 4
  /\ \A k \in DOMAIN cases : IsResult(cases[k], k)

\* An improved pattern is a pattern, whatever the errors are.
LEMMA BetterType == \A old \in BOOLEAN : \A err0, err1 : Better(old, err0, err1) \in BOOLEAN
BY DEF Better

\* So getColumnPattern and getRowPattern return functions.
LEMMA PatternTypes ==
  ASSUME NEW column \in LeftFunctions, NEW row \in RightFunctions, NEW op
  PROVE  /\ GetColumnPattern(column, row, op) \in LeftFunctions
         /\ GetRowPattern(column, row, op) \in RightFunctions
<1>1. \A i \in Rows : column[i] \in BOOLEAN
  BY DEF LeftFunctions
<1>2. \A j \in Columns : row[j] \in BOOLEAN
  BY DEF RightFunctions
<1>3. GetColumnPattern(column, row, op) \in LeftFunctions
  BY <1>1, BetterType DEF GetColumnPattern, LeftFunctions
<1>4. GetRowPattern(column, row, op) \in RightFunctions
  BY <1>2, BetterType DEF GetRowPattern, RightFunctions
<1> QED
  BY <1>3, <1>4

\* Appending to a sequence of any elements.
LEMMA AppendResult ==
  ASSUME NEW S, NEW s \in Seq(S), NEW e
  PROVE  /\ Append(s, e) \in Seq(S \cup {e})
         /\ Len(Append(s, e)) = Len(s) + 1
         /\ DOMAIN Append(s, e) = 1..(Len(s) + 1)
         /\ \A k \in DOMAIN s : k \in 1..Len(s) /\ Append(s, e)[k] = s[k]
         /\ Append(s, e)[Len(s) + 1] = e
         /\ Len(s) \in Nat /\ DOMAIN s = 1..Len(s)
<1>1. s \in Seq(S \cup {e}) /\ e \in S \cup {e}
  OBVIOUS
<1> QED
  BY <1>1

\* The invariant holds at the call of divide.
LEMMA CasesInit == Init => CasesInv
<1> SUFFICES ASSUME Init PROVE CasesInv
  OBVIOUS
<1>1. cases \in Seq({}) /\ Len(cases) = 0 /\ DOMAIN cases = {}
  BY DEF Init
<1>2. columnPattern \in LeftFunctions /\ rowPattern \in RightFunctions
  BY DEF Init, Zeros, LeftFunctions, RightFunctions
<1>3. map \in Maps /\ Len(cases) < 4
  BY <1>1 DEF Init
<1> QED
  BY <1>1, <1>2, <1>3 DEF CasesInv

\* Every step keeps it.
LEMMA CasesStep == CasesInv /\ [Next]_vars => CasesInv'
<1> SUFFICES ASSUME CasesInv, [Next]_vars PROVE CasesInv'
  OBVIOUS
<1>1. CASE StartCase
  <2>1. columnPattern' \in LeftFunctions
    BY <1>1 DEF StartCase, LeftFunctions
  <2>2. rowPattern' \in RightFunctions
    <3>1. Zeros(Columns) \in RightFunctions
      BY DEF Zeros, RightFunctions
    <3>2. \A i \in Unskipped : map.kmap[i] \in RightFunctions
      BY KmapAssumption DEF CasesInv, Unskipped, RightFunctions
    <3> QED
      BY <1>1, <3>1, <3>2 DEF StartCase, RightFunctions
  <2> QED
    BY <1>1, <2>1, <2>2 DEF StartCase, CasesInv
<1>2. CASE ImproveColumns
  <2>1. columnPattern' \in LeftFunctions
    BY <1>2, PatternTypes DEF ImproveColumns, CasesInv
  <2> QED
    BY <1>2, <2>1 DEF ImproveColumns, CasesInv
<1>3. CASE ImproveRows
  <2>1. rowPattern' \in RightFunctions /\ columnPattern' \in LeftFunctions
    BY <1>3, PatternTypes DEF ImproveRows, CasesInv
  <2>2. CASE cases' = cases /\ pc' = "columns"
    BY <1>3, <2>1, <2>2 DEF ImproveRows, CasesInv
  <2>3. CASE /\ cases' = Append(cases, BestApprox(columnPattern, rowPattern', Op))
             /\ pc' = IF Len(cases) + 1 < Len(Operation) THEN "start" ELSE "conclude"
    <3> DEFINE new == BestApprox(columnPattern, rowPattern', Op)
    <3>1. PICK S : cases \in Seq(S)
      BY DEF CasesInv
    <3>2. /\ cases' \in Seq(S \cup {new})
          /\ Len(cases') = Len(cases) + 1
          /\ DOMAIN cases' = 1..(Len(cases) + 1)
          /\ \A k \in DOMAIN cases : cases'[k] = cases[k]
          /\ cases'[Len(cases) + 1] = new
          /\ Len(cases) \in Nat /\ DOMAIN cases = 1..Len(cases)
      BY <2>3, <3>1, AppendResult
    <3>3. Len(cases) < 4
      BY <1>3 DEF ImproveRows, CasesInv
    <3>4. IsResult(new, Len(cases) + 1)
      BY <2>1 DEF IsResult, BestApprox, CasesInv, Op
    <3> HIDE DEF new
    <3>5. \A k \in DOMAIN cases' : IsResult(cases'[k], k)
      <4>1. \A k \in DOMAIN cases : IsResult(cases'[k], k)
        BY <3>2 DEF CasesInv
      <4>2. \A k \in DOMAIN cases' : k \in DOMAIN cases \/ k = Len(cases) + 1
        BY <3>2
      <4> QED
        BY <4>1, <4>2, <3>2, <3>4
    <3>6. pc' \in {"start", "columns", "rows"} => Len(cases') < 4
      BY <2>3, <3>2, Operations
    <3>7. map' \in Maps
      BY <1>3 DEF ImproveRows, CasesInv
    <3> QED
      BY <2>1, <3>2, <3>3, <3>5, <3>6, <3>7 DEF CasesInv
  <2> QED
    BY <1>3, <2>2, <2>3 DEF ImproveRows
<1>4. CASE Return
  <2>1. cases' \in Seq({}) /\ Len(cases') = 0 /\ DOMAIN cases' = {}
    BY <1>4 DEF Return
  <2> QED
    BY <1>4, <2>1 DEF Return, CasesInv
<1>5. CASE UNCHANGED vars
  BY <1>5 DEF vars, CasesInv
<1> QED
  BY <1>1, <1>2, <1>3, <1>4, <1>5 DEF Next

\* In every state of divide the patterns are functions, and the results
\* are those of the first operations.
THEOREM PatternsAreFunctions == Spec => []CasesInv
<1>1. Init => CasesInv
  BY CasesInit
<1>2. CasesInv /\ [Next]_vars => CasesInv'
  BY CasesStep
<1> QED
  BY <1>1, <1>2, PTL DEF Spec

\* divideCore replaces the operation of a result by a simpler table only
\* where both give the same function, for every map and every pattern.
THEOREM SimplifyingKeepsTheFunction == Spec => []MethodKeepsFunction
<1>1. CasesInv => MethodKeepsFunction
  <2> SUFFICES ASSUME CasesInv, NEW k \in DOMAIN cases, NEW i \in Rows, NEW j \in Columns
               PROVE  LET term == Index(cases[k].leftFunc[i], cases[k].rightFunc[j])
                      IN  (term \in cases[k].method) = (term \in Operation[k])
    BY DEF MethodKeepsFunction
  <2>1. k \in 1..4 /\ IsResult(cases[k], k)
    BY DEF CasesInv
  <2> QED
    BY <2>1, MethodAgrees DEF IsResult
<1> QED
  BY <1>1, PatternsAreFunctions, PTL

\* The method of a result never looks at a side whose function is constant,
\* so that the assertions of combineBilfBuilder on its operands hold.
THEOREM ConstantsAreIgnored == Spec => []NoConstantUsed
<1>1. CasesInv => NoConstantUsed
  <2> SUFFICES ASSUME CasesInv, NEW k \in DOMAIN cases
               PROVE  LET m == cases[k].method
                      IN  /\ m \notin RightTables \cup ConstTables =>
                               cases[k].leftFunc \notin {Zeros(Rows), Ones(Rows)}
                          /\ m \notin LeftTables \cup ConstTables =>
                               cases[k].rightFunc \notin {Zeros(Columns), Ones(Columns)}
    BY DEF NoConstantUsed
  <2>1. k \in 1..4 /\ IsResult(cases[k], k)
    BY DEF CasesInv
  <2> QED
    BY <2>1, MethodUsesNoConstant DEF IsResult
<1> QED
  BY <1>1, PatternsAreFunctions, PTL

-----------------------------------------------------------------------------
(***************************************************************************)
(* The errors of a pair of functions.                                      *)
(***************************************************************************)

\* The errors of row i when its value is v, and of column j.
RowErrors(i, v, row, op) == SumOf([j \in Columns |-> ErrorCount(i, j, v, row[j], op)], Columns)
ColumnErrors(j, v, column, op) == SumOf([i \in Rows |-> ErrorCount(i, j, column[i], v, op)], Rows)

LEMMA FiniteMap ==
  IsFiniteSet(Rows) /\ IsFiniteSet(Columns)
<1>1. 0 \in Int /\ Height - 1 \in Int /\ Width - 1 \in Int
  BY KmapAssumption
<1> QED
  BY <1>1, FS_Interval DEF Rows, Columns

\* Each term has a number of errors.
LEMMA ErrorType ==
  ASSUME map \in Maps, NEW i \in Rows, NEW j \in Columns, NEW a, NEW b, NEW op
  PROVE  ErrorCount(i, j, a, b, op) \in Nat
<1>1. map.count[i][j] \in Nat
  BY KmapAssumption
<1> QED
  BY <1>1 DEF ErrorCount

LEMMA RowErrorsType ==
  ASSUME map \in Maps, NEW i \in Rows, NEW v, NEW row, NEW op
  PROVE  RowErrors(i, v, row, op) \in Nat
<1> DEFINE f == [j \in Columns |-> ErrorCount(i, j, v, row[j], op)]
<1>1. \A j \in Columns : f[j] \in Nat
  BY ErrorType
<1> HIDE DEF f
<1>2. SumOf(f, Columns) \in Nat
  BY <1>1, FiniteMap, SumType
<1> QED
  BY <1>2 DEF RowErrors, f

LEMMA ColumnErrorsType ==
  ASSUME map \in Maps, NEW j \in Columns, NEW v, NEW column, NEW op
  PROVE  ColumnErrors(j, v, column, op) \in Nat
<1> DEFINE f == [i \in Rows |-> ErrorCount(i, j, column[i], v, op)]
<1>1. \A i \in Rows : f[i] \in Nat
  BY ErrorType
<1> HIDE DEF f
<1>2. SumOf(f, Rows) \in Nat
  BY <1>1, FiniteMap, SumType
<1> QED
  BY <1>2 DEF ColumnErrors, f

\* errorCountWhole adds up the rows.
LEMMA WholeByRows ==
  ASSUME NEW column, NEW row, NEW op
  PROVE  ErrorCountWhole(column, row, op)
           = SumOf([i \in Rows |-> RowErrors(i, column[i], row, op)], Rows)
<1> DEFINE inner(i) == [j \in Columns |-> ErrorCount(i, j, column[i], row[j], op)]
           outer == [i \in Rows |-> SumFunction(inner(i))]
           rows == [i \in Rows |-> RowErrors(i, column[i], row, op)]
<1>1. ErrorCountWhole(column, row, op) = SumFunction(outer)
  BY DEF ErrorCountWhole
<1>2. ASSUME NEW i \in Rows
      PROVE  SumFunction(inner(i)) = RowErrors(i, column[i], row, op)
  <2>1. SumFunction(inner(i)) = SumOf(inner(i), DOMAIN inner(i))
    BY SumFunctionValue
  <2>2. DOMAIN inner(i) = Columns
    OBVIOUS
  <2> QED
    BY <2>1, <2>2 DEF RowErrors
<1> HIDE DEF inner
<1>3. outer = rows
  BY <1>2
<1>4. SumFunction(rows) = SumOf(rows, DOMAIN rows)
  BY SumFunctionValue
<1>5. DOMAIN rows = Rows
  OBVIOUS
<1> HIDE DEF outer, rows
<1> QED
  BY <1>1, <1>3, <1>4, <1>5 DEF rows

\* It could as well add up the columns.
LEMMA WholeByColumns ==
  ASSUME map \in Maps, NEW column, NEW row, NEW op
  PROVE  ErrorCountWhole(column, row, op)
           = SumOf([j \in Columns |-> ColumnErrors(j, row[j], column, op)], Columns)
<1> DEFINE e(i, j) == ErrorCount(i, j, column[i], row[j], op)
           part(s) == [j \in Columns |-> SumOf([i \in Rows |-> e(i, j)], s)]
           rows == [i \in Rows |-> RowErrors(i, column[i], row, op)]
           bad == {s \in SUBSET Rows : SumOf(rows, s) # SumOf(part(s), Columns)}
<1>1. bad = {}
  <2> SUFFICES ASSUME bad # {} PROVE FALSE
    OBVIOUS
  <2>1. PICK s \in bad : \A t \in bad : t \subseteq s => t = s
    <3>1. bad \in SUBSET SUBSET Rows
      OBVIOUS
    <3> HIDE DEF bad
    <3> QED
      BY <3>1, FiniteMap, SmallestSet
  <2>2. s \in SUBSET Rows /\ IsFiniteSet(s) /\ SumOf(rows, s) # SumOf(part(s), Columns)
    BY <2>1, FiniteMap, FS_Subset
  <2>3. s # {}
    <3>1. part({}) = [j \in Columns |-> 0]
      BY SumOfEmpty
    <3>2. \A j \in Columns : part({})[j] = 0
      BY <3>1
    <3> HIDE DEF part
    <3>3. SumOf(part({}), Columns) = 0
      BY <3>2, FiniteMap, SumOfZeros
    <3>4. SumOf(rows, {}) = 0
      BY SumOfEmpty
    <3> QED
      BY <2>2, <3>3, <3>4
  <2> DEFINE c == First(s)
             r == s \ {c}
             f == [j \in Columns |-> e(c, j)]
  <2>4. r \subseteq s /\ r # s /\ c \in Rows /\ r \in SUBSET Rows /\ IsFiniteSet(r)
    BY <2>2, <2>3, FirstIsMember, FS_Subset
  <2>5. SumOf(rows, r) = SumOf(part(r), Columns)
    BY <2>1, <2>4
  <2>6. SumOf(rows, s) = rows[c] + SumOf(rows, r)
    BY <2>2, <2>3, SumOfSet
  <2>7. rows[c] = SumOf(f, Columns)
    BY <2>4 DEF RowErrors
  <2>8. ASSUME NEW j \in Columns
        PROVE  /\ f[j] \in Nat /\ part(r)[j] \in Nat
               /\ part(s)[j] = f[j] + part(r)[j]
    <3> DEFINE g == [i \in Rows |-> e(i, j)]
    <3>1. \A i \in Rows : g[i] \in Nat
      BY ErrorType
    <3>2. f[j] = g[c]
      BY <2>4
    <3>3. part(r)[j] = SumOf(g, r) /\ part(s)[j] = SumOf(g, s)
      OBVIOUS
    <3> HIDE DEF g, part, f, e
    <3>4. SumOf(g, s) = g[c] + SumOf(g, r)
      BY <2>2, <2>3, SumOfSet
    <3>5. SumOf(g, r) \in Nat
      BY <2>4, <3>1, SumType
    <3> QED
      BY <2>4, <3>1, <3>2, <3>3, <3>4, <3>5
  <2> HIDE DEF part, rows, f, bad, e
  <2>9. SumOf(part(s), Columns) = SumOf(f, Columns) + SumOf(part(r), Columns)
    BY <2>8, FiniteMap, SumOfSums
  <2> QED
    BY <2>2, <2>5, <2>6, <2>7, <2>9
<1>2. SumOf(rows, Rows) = SumOf(part(Rows), Columns)
  BY <1>1
<1>3. part(Rows) = [j \in Columns |-> ColumnErrors(j, row[j], column, op)]
  BY DEF ColumnErrors
<1>4. ErrorCountWhole(column, row, op) = SumOf(rows, Rows)
  BY WholeByRows
<1> QED
  BY <1>2, <1>3, <1>4

\* A number of errors is a number.
LEMMA WholeType ==
  ASSUME map \in Maps, NEW column, NEW row, NEW op
  PROVE  ErrorCountWhole(column, row, op) \in Nat
<1> DEFINE rows == [i \in Rows |-> RowErrors(i, column[i], row, op)]
<1>1. \A i \in Rows : rows[i] \in Nat
  BY RowErrorsType
<1>2. ErrorCountWhole(column, row, op) = SumOf(rows, Rows)
  BY WholeByRows
<1> HIDE DEF rows
<1> QED
  BY <1>1, <1>2, FiniteMap, SumType

\* Better takes a value with the fewest errors, and another than the old one
\* only when it has fewer.
LEMMA BetterIsBest ==
  ASSUME NEW e \in [BOOLEAN -> Nat], NEW old \in BOOLEAN,
         NEW new, new = Better(old, e[FALSE], e[TRUE])
  PROVE  /\ new \in BOOLEAN /\ \A v \in BOOLEAN : e[new] <= e[v]
         /\ new # old => e[new] < e[old]
<1> DEFINE p == e[FALSE]
           q == e[TRUE]
<1>1. p \in Nat /\ q \in Nat
  OBVIOUS
<1>2. \A v \in BOOLEAN : e[v] = p \/ e[v] = q
  <2>1. \A v \in BOOLEAN : v = TRUE \/ v = FALSE
    OBVIOUS
  <2> QED
    BY <2>1, Zenon
<1> HIDE DEF p, q
<1>3. \/ new = old /\ p = q
      \/ new = FALSE /\ p < q
      \/ new = TRUE /\ q < p
  <2>1. new = IF p = q THEN old ELSE IF p < q THEN FALSE ELSE TRUE
    BY Zenon DEF Better, p, q
  <2>2. /\ p = q \/ p < q \/ q < p
        /\ p < q => p # q
        /\ q < p => p # q /\ ~(p < q)
    BY <1>1
  <2> QED
    BY <2>1, <2>2, Zenon
<1>4. CASE new = old /\ p = q
  <2>1. e[new] = p \/ e[new] = q
    BY <1>2, <1>4
  <2> QED
    BY <1>1, <1>2, <1>4, <2>1
<1>5. CASE new = FALSE /\ p < q
  <2>1. e[new] = p
    BY <1>5, Zenon DEF p
  <2>2. new # old => e[old] = q
    BY <1>5, Zenon DEF q
  <2>3. new \in BOOLEAN
    BY <1>5, Zenon
  <2>4. p <= p /\ p <= q /\ p < q
    BY <1>1, <1>5
  <2> QED
    BY <1>2, <2>1, <2>2, <2>3, <2>4, Zenon
<1>6. CASE new = TRUE /\ q < p
  <2>1. e[new] = q
    BY <1>6, Zenon DEF q
  <2>2. new # old => e[old] = p
    BY <1>6, Zenon DEF p
  <2>3. new \in BOOLEAN
    BY <1>6, Zenon
  <2>4. q <= q /\ q <= p /\ q < p
    BY <1>1, <1>6
  <2> QED
    BY <1>2, <2>1, <2>2, <2>3, <2>4, Zenon
<1> QED
  BY <1>3, <1>4, <1>5, <1>6

\* The values that getColumnPattern takes.
LEMMA ColumnsAreBest ==
  ASSUME map \in Maps, NEW column \in LeftFunctions, NEW row, NEW op, NEW i \in Rows
  PROVE  LET new == GetColumnPattern(column, row, op)[i]
         IN  /\ \A v \in BOOLEAN : RowErrors(i, new, row, op) <= RowErrors(i, v, row, op)
             /\ new # column[i] =>
                  RowErrors(i, new, row, op) < RowErrors(i, column[i], row, op)
<1> DEFINE f(v) == [j \in Columns |-> ErrorCount(i, j, v, row[j], op)]
           new == GetColumnPattern(column, row, op)[i]
           e == [v \in BOOLEAN |-> RowErrors(i, v, row, op)]
<1>1. ASSUME NEW v \in BOOLEAN
      PROVE  SumFunction(f(v)) = e[v]
  <2>1. SumFunction(f(v)) = SumOf(f(v), DOMAIN f(v))
    BY SumFunctionValue
  <2>2. DOMAIN f(v) = Columns
    OBVIOUS
  <2>3. e[v] = SumOf(f(v), Columns)
    BY DEF RowErrors
  <2> HIDE DEF f, e
  <2> QED
    BY <2>1, <2>2, <2>3
<1>2. new = Better(column[i], SumFunction(f(FALSE)), SumFunction(f(TRUE)))
  BY DEF GetColumnPattern
<1>3. e \in [BOOLEAN -> Nat] /\ column[i] \in BOOLEAN
  BY RowErrorsType DEF LeftFunctions
<1>4. \A v \in BOOLEAN : e[v] = RowErrors(i, v, row, op)
  OBVIOUS
<1> HIDE DEF f, new, e
<1>5. TRUE \in BOOLEAN /\ FALSE \in BOOLEAN
  OBVIOUS
<1>6. SumFunction(f(FALSE)) = e[FALSE]
  BY <1>1, <1>5, Zenon
<1>7. SumFunction(f(TRUE)) = e[TRUE]
  BY <1>1, <1>5, Zenon
<1>8. new = Better(column[i], e[FALSE], e[TRUE])
  BY <1>2, <1>6, <1>7
<1>9. /\ new \in BOOLEAN /\ \A v \in BOOLEAN : e[new] <= e[v]
      /\ new # column[i] => e[new] < e[column[i]]
  BY <1>3, <1>8, BetterIsBest, Zenon
<1>10. e[new] = RowErrors(i, new, row, op) /\ e[column[i]] = RowErrors(i, column[i], row, op)
  BY <1>3, <1>4, <1>9, Zenon
<1> QED
  BY <1>4, <1>9, <1>10 DEF new

\* The values that getRowPattern takes.
LEMMA RowsAreBest ==
  ASSUME map \in Maps, NEW column, NEW row \in RightFunctions, NEW op, NEW j \in Columns
  PROVE  LET new == GetRowPattern(column, row, op)[j]
         IN  /\ \A v \in BOOLEAN : ColumnErrors(j, new, column, op) <= ColumnErrors(j, v, column, op)
             /\ new # row[j] =>
                  ColumnErrors(j, new, column, op) < ColumnErrors(j, row[j], column, op)
<1> DEFINE f(v) == [i \in Rows |-> ErrorCount(i, j, column[i], v, op)]
           new == GetRowPattern(column, row, op)[j]
           e == [v \in BOOLEAN |-> ColumnErrors(j, v, column, op)]
<1>1. ASSUME NEW v \in BOOLEAN
      PROVE  SumFunction(f(v)) = e[v]
  <2>1. SumFunction(f(v)) = SumOf(f(v), DOMAIN f(v))
    BY SumFunctionValue
  <2>2. DOMAIN f(v) = Rows
    OBVIOUS
  <2>3. e[v] = SumOf(f(v), Rows)
    BY DEF ColumnErrors
  <2> HIDE DEF f, e
  <2> QED
    BY <2>1, <2>2, <2>3
<1>2. new = Better(row[j], SumFunction(f(FALSE)), SumFunction(f(TRUE)))
  BY DEF GetRowPattern
<1>3. e \in [BOOLEAN -> Nat] /\ row[j] \in BOOLEAN
  BY ColumnErrorsType DEF RightFunctions
<1>4. \A v \in BOOLEAN : e[v] = ColumnErrors(j, v, column, op)
  OBVIOUS
<1> HIDE DEF f, new, e
<1>5. TRUE \in BOOLEAN /\ FALSE \in BOOLEAN
  OBVIOUS
<1>6. SumFunction(f(FALSE)) = e[FALSE]
  BY <1>1, <1>5, Zenon
<1>7. SumFunction(f(TRUE)) = e[TRUE]
  BY <1>1, <1>5, Zenon
<1>8. new = Better(row[j], e[FALSE], e[TRUE])
  BY <1>2, <1>6, <1>7
<1>9. /\ new \in BOOLEAN /\ \A v \in BOOLEAN : e[new] <= e[v]
      /\ new # row[j] => e[new] < e[row[j]]
  BY <1>3, <1>8, BetterIsBest, Zenon
<1>10. e[new] = ColumnErrors(j, new, column, op) /\ e[row[j]] = ColumnErrors(j, row[j], column, op)
  BY <1>3, <1>4, <1>9, Zenon
<1> QED
  BY <1>4, <1>9, <1>10 DEF new

\* getColumnPattern returns the best left function for the right one, and
\* another one only when it is better.
LEMMA ColumnPatternIsBest ==
  ASSUME map \in Maps, NEW column \in LeftFunctions, NEW row, NEW op,
         NEW new, new = GetColumnPattern(column, row, op)
  PROVE  /\ \A left \in LeftFunctions :
              ErrorCountWhole(new, row, op) <= ErrorCountWhole(left, row, op)
         /\ new # column => ErrorCountWhole(new, row, op) < ErrorCountWhole(column, row, op)
<1> DEFINE rows(left) == [i \in Rows |-> RowErrors(i, left[i], row, op)]
<1>1. \A left : \A i \in Rows : rows(left)[i] \in Nat
  BY RowErrorsType
<1>2. \A left : ErrorCountWhole(left, row, op) = SumOf(rows(left), Rows)
  BY WholeByRows
<1>3. ASSUME NEW left \in LeftFunctions
      PROVE  SumOf(rows(new), Rows) <= SumOf(rows(left), Rows)
  <2>1. \A i \in Rows : rows(new)[i] <= rows(left)[i]
    BY ColumnsAreBest DEF LeftFunctions
  <2> HIDE DEF rows
  <2> QED
    BY <1>1, <2>1, FiniteMap, SumGrows
<1>4. ASSUME new # column
      PROVE  SumOf(rows(new), Rows) < SumOf(rows(column), Rows)
  <2>1. \A i \in Rows : rows(new)[i] <= rows(column)[i]
    BY ColumnsAreBest DEF LeftFunctions
  <2>2. PICK i \in Rows : new[i] # column[i]
    BY <1>4 DEF GetColumnPattern, LeftFunctions
  <2>3. rows(new)[i] < rows(column)[i]
    BY <2>2, ColumnsAreBest
  <2> HIDE DEF rows
  <2> QED
    BY <1>1, <2>1, <2>3, FiniteMap, SumGrows
<1> HIDE DEF rows
<1> QED
  BY <1>2, <1>3, <1>4

\* getRowPattern, the same with the sides exchanged.
LEMMA RowPatternIsBest ==
  ASSUME map \in Maps, NEW column, NEW row \in RightFunctions, NEW op,
         NEW new, new = GetRowPattern(column, row, op)
  PROVE  /\ \A right \in RightFunctions :
              ErrorCountWhole(column, new, op) <= ErrorCountWhole(column, right, op)
         /\ new # row => ErrorCountWhole(column, new, op) < ErrorCountWhole(column, row, op)
<1> DEFINE cols(right) == [j \in Columns |-> ColumnErrors(j, right[j], column, op)]
<1>1. \A right : \A j \in Columns : cols(right)[j] \in Nat
  BY ColumnErrorsType
<1>2. \A right : ErrorCountWhole(column, right, op) = SumOf(cols(right), Columns)
  BY WholeByColumns
<1>3. ASSUME NEW right \in RightFunctions
      PROVE  SumOf(cols(new), Columns) <= SumOf(cols(right), Columns)
  <2>1. \A j \in Columns : cols(new)[j] <= cols(right)[j]
    BY RowsAreBest DEF RightFunctions
  <2> HIDE DEF cols
  <2> QED
    BY <1>1, <2>1, FiniteMap, SumGrows
<1>4. ASSUME new # row
      PROVE  SumOf(cols(new), Columns) < SumOf(cols(row), Columns)
  <2>1. \A j \in Columns : cols(new)[j] <= cols(row)[j]
    BY RowsAreBest DEF RightFunctions
  <2>2. PICK j \in Columns : new[j] # row[j]
    BY <1>4 DEF GetRowPattern, RightFunctions
  <2>3. cols(new)[j] < cols(row)[j]
    BY <2>2, RowsAreBest
  <2> HIDE DEF cols
  <2> QED
    BY <1>1, <2>1, <2>3, FiniteMap, SumGrows
<1> HIDE DEF cols
<1> QED
  BY <1>2, <1>3, <1>4

\* Two functions that combine to the map have no errors.
LEMMA NoErrors ==
  ASSUME NEW column, NEW row, NEW op,
         \A i \in Rows, j \in Columns : map.kmap[i][j] = (Index(column[i], row[j]) \in op)
  PROVE  ErrorCountWhole(column, row, op) = 0
<1>1. ASSUME NEW i \in Rows
      PROVE  RowErrors(i, column[i], row, op) = 0
  <2> DEFINE f == [j \in Columns |-> ErrorCount(i, j, column[i], row[j], op)]
  <2>1. \A j \in Columns : f[j] = 0
    BY DEF ErrorCount
  <2> HIDE DEF f
  <2>2. SumOf(f, Columns) = 0
    BY <2>1, FiniteMap, SumOfZeros
  <2> QED
    BY <2>2 DEF RowErrors, f
<1> DEFINE rows == [i \in Rows |-> RowErrors(i, column[i], row, op)]
<1>2. \A i \in Rows : rows[i] = 0
  BY <1>1
<1>3. ErrorCountWhole(column, row, op) = SumOf(rows, Rows)
  BY WholeByRows
<1> HIDE DEF rows
<1> QED
  BY <1>2, <1>3, FiniteMap, SumOfZeros

-----------------------------------------------------------------------------
(***************************************************************************)
(* divide: an invariant that ties its results to their errors.             *)
(***************************************************************************)

\* Neither function of a result could be exchanged for a better one.
IsOptimal(c, k) ==
  /\ c.errorCount = ErrorCountWhole(c.leftFunc, c.rightFunc, Operation[k])
  /\ \A left \in LeftFunctions :
       c.errorCount <= ErrorCountWhole(left, c.rightFunc, Operation[k])
  /\ \A right \in RightFunctions :
       c.errorCount <= ErrorCountWhole(c.leftFunc, right, Operation[k])

\* In the second half of an iteration the left function is the best one.
OptimalInv ==
  /\ \A k \in DOMAIN cases : IsOptimal(cases[k], k)
  /\ pc = "rows" =>
       /\ rowPattern = recordRowPattern
       /\ \A left \in LeftFunctions :
            ErrorCountWhole(columnPattern, rowPattern, Op) <= ErrorCountWhole(left, rowPattern, Op)

\* A result that divide can return.
IsSound(c) == c.method \subseteq 0..3 /\ c.errorCount \in Nat

ControlInv ==
  /\ pc \in {"start", "columns", "rows", "conclude", "returned"}
  /\ pc = "conclude" <=> Len(cases) = 4
  /\ recordColumnPattern \in LeftFunctions /\ recordRowPattern \in RightFunctions
  /\ round \in 0..(DIVIDE_ROUND + 1)
  /\ pc # "returned" => round <= DIVIDE_ROUND
  /\ IF round = 0 THEN record = <<>> ELSE \E c : record = <<c>> /\ IsSound(c)

DivideInv == CasesInv /\ OptimalInv /\ ControlInv

\* Steps that leave the map alone leave the errors alone.
LEMMA ErrorsKept ==
  ASSUME map' = map
  PROVE  /\ \A a, b, op : ErrorCountWhole(a, b, op)' = ErrorCountWhole(a, b, op)
         /\ \A c, k : IsOptimal(c, k)' <=> IsOptimal(c, k)
<1>1. \A a, b, op : ErrorCountWhole(a, b, op)' = ErrorCountWhole(a, b, op)
  BY DEF ErrorCountWhole, ErrorCount
<1>2. \A c, k : IsOptimal(c, k)' <=> IsOptimal(c, k)
  BY <1>1 DEF IsOptimal, LeftFunctions, RightFunctions
<1> QED
  BY <1>1, <1>2

\* A method is a table of two inputs.
LEMMA MethodType ==
  ASSUME NEW k \in 1..4, NEW left, NEW right
  PROVE  Method(Operation[k], left, right) \subseteq 0..3
<1> DEFINE c == Constancy(left, right)
<1>1. /\ ALL_IRR_TABLE_0 \subseteq 0..3 /\ ALL_IRR_TABLE_1 \subseteq 0..3
      /\ RIGHT_RELA_TABLE \subseteq 0..3 /\ LEFT_RELA_TABLE \subseteq 0..3
      /\ AND_TABLE \subseteq 0..3 /\ OR_TABLE \subseteq 0..3 /\ XOR_TABLE \subseteq 0..3
  BY Tables
<1>2. Not(LEFT_RELA_TABLE) \subseteq 0..3 /\ Not(RIGHT_RELA_TABLE) \subseteq 0..3
  BY Tables
<1> HIDE DEF c
<1>3. /\ MethodLeft(c) \subseteq 0..3 /\ MethodAnd(c) \subseteq 0..3
      /\ MethodOr(c) \subseteq 0..3
  BY <1>1 DEF MethodLeft, MethodAnd, MethodOr
<1>4. MethodXor(c) \subseteq 0..3
  BY <1>1, <1>2 DEF MethodXor
<1>5. k = 1 \/ k = 2 \/ k = 3 \/ k = 4
  OBVIOUS
<1> QED
  BY <1>3, <1>4, <1>5, MethodOfOperation, Operations DEF c

\* The results so far are sound.
LEMMA ResultsSound ==
  ASSUME DivideInv, NEW k \in DOMAIN cases
  PROVE  k \in 1..4 /\ IsSound(cases[k])
<1>1. k \in 1..4 /\ IsResult(cases[k], k) /\ map \in Maps /\ IsOptimal(cases[k], k)
  BY DEF DivideInv, CasesInv, OptimalInv
<1>2. cases[k].method \subseteq 0..3
  BY <1>1, MethodType DEF IsResult
<1>3. cases[k].errorCount \in Nat
  BY <1>1, WholeType DEF IsOptimal
<1> QED
  BY <1>1, <1>2, <1>3 DEF IsSound

\* The conclusion of divideCore is one of the results with the fewest errors.
LEMMA ConclusionIsBest ==
  ASSUME DivideInv, pc = "conclude"
  PROVE  /\ DOMAIN cases = 1..4 /\ IsSound(Conclusion)
         /\ \A k \in DOMAIN cases : Conclusion.errorCount <= cases[k].errorCount
<1> DEFINE best == {i \in DOMAIN cases :
                      \A j \in DOMAIN cases : cases[i].errorCount <= cases[j].errorCount}
<1>1. DOMAIN cases = 1..4
  <2>1. PICK S : cases \in Seq(S)
    BY DEF DivideInv, CasesInv
  <2>2. Len(cases) = 4
    BY DEF DivideInv, ControlInv
  <2> QED
    BY <2>1, <2>2
<1>2. \E i \in best : \A j \in best : i <= j
  <2> DEFINE counts == {cases[k].errorCount : k \in DOMAIN cases}
  <2>1. counts \in SUBSET Nat
    BY ResultsSound DEF IsSound
  <2>2. cases[1].errorCount \in counts
    BY <1>1
  <2>3. \E e \in counts : \A d \in counts : e <= d
    <3> HIDE DEF counts
    <3> QED
      BY <2>1, <2>2, LeastNumber
  <2>4. best # {}
    BY <2>3
  <2>5. best \in SUBSET Nat
    BY <1>1
  <2> HIDE DEF best
  <2> QED
    BY <2>4, <2>5, LeastNumber
<1>3. Min(best) \in best
  <2> HIDE DEF best
  <2> QED
    BY <1>2 DEF Min
<1>4. Conclusion = cases[Min(best)]
  BY DEF Conclusion
<1>5. /\ Min(best) \in DOMAIN cases
      /\ \A j \in DOMAIN cases : cases[Min(best)].errorCount <= cases[j].errorCount
  <2> DEFINE i == Min(best)
  <2>1. i \in best
    BY <1>3
  <2> HIDE DEF i
  <2>2. i \in DOMAIN cases /\ \A j \in DOMAIN cases : cases[i].errorCount <= cases[j].errorCount
    BY <2>1
  <2> QED
    BY <2>2 DEF i
<1> HIDE DEF best
<1> QED
  BY <1>1, <1>4, <1>5, ResultsSound

LEMMA DivideInit == Init => DivideInv
<1> SUFFICES ASSUME Init PROVE DivideInv
  OBVIOUS
<1>1. CasesInv
  BY CasesInit
<1>2. DOMAIN cases = {} /\ Len(cases) = 0
  BY DEF Init
<1>3. OptimalInv
  BY <1>2 DEF Init, OptimalInv
<1>4. recordColumnPattern \in LeftFunctions /\ recordRowPattern \in RightFunctions
  BY DEF Init, Zeros, LeftFunctions, RightFunctions
<1>5. ControlInv
  BY <1>2, <1>4, KmapAssumption DEF Init, ControlInv
<1> QED
  BY <1>1, <1>3, <1>5 DEF DivideInv

\* A case begins.
LEMMA StartCaseKeeps ==
  ASSUME DivideInv, StartCase
  PROVE  OptimalInv' /\ ControlInv'
<1>1. /\ pc = "start" /\ pc' = "columns"
      /\ UNCHANGED <<map, recordColumnPattern, recordRowPattern, cases, record, round>>
  BY DEF StartCase
<1>2. OptimalInv'
  BY <1>1, ErrorsKept DEF DivideInv, OptimalInv
<1>3. ControlInv'
  BY <1>1 DEF DivideInv, ControlInv, LeftFunctions, RightFunctions, IsSound
<1> QED
  BY <1>2, <1>3

\* The first half of an iteration.
LEMMA ImproveColumnsKeeps ==
  ASSUME DivideInv, ImproveColumns
  PROVE  OptimalInv' /\ ControlInv'
<1>1. /\ pc = "columns" /\ pc' = "rows"
      /\ recordColumnPattern' = columnPattern /\ recordRowPattern' = rowPattern
      /\ columnPattern' = GetColumnPattern(columnPattern, rowPattern, Op)
      /\ UNCHANGED <<map, rowPattern, cases, record, round>>
  BY DEF ImproveColumns
<1>2. map \in Maps /\ columnPattern \in LeftFunctions /\ rowPattern \in RightFunctions
  BY DEF DivideInv, CasesInv
<1>3. \A left \in LeftFunctions :
        ErrorCountWhole(columnPattern', rowPattern, Op) <= ErrorCountWhole(left, rowPattern, Op)
  BY <1>1, <1>2, ColumnPatternIsBest
<1>4. Op' = Op
  BY <1>1 DEF Op
<1>5. \A left \in LeftFunctions :
        ErrorCountWhole(columnPattern, rowPattern, Op)' <= ErrorCountWhole(left, rowPattern, Op)'
  BY <1>1, <1>3, <1>4, ErrorsKept
<1>6. OptimalInv'
  BY <1>1, <1>5, ErrorsKept DEF DivideInv, OptimalInv, LeftFunctions
<1>7. ControlInv'
  BY <1>1, <1>2 DEF DivideInv, ControlInv, LeftFunctions, RightFunctions, IsSound
<1> QED
  BY <1>6, <1>7

\* The second half: a case that ends has got an optimal result.
LEMMA ImproveRowsKeeps ==
  ASSUME DivideInv, ImproveRows
  PROVE  OptimalInv' /\ ControlInv'
<1> DEFINE new == BestApprox(columnPattern, rowPattern', Op)
<1>1. /\ pc = "rows" /\ rowPattern' = GetRowPattern(columnPattern, rowPattern, Op)
      /\ UNCHANGED <<map, columnPattern, recordColumnPattern, recordRowPattern, record, round>>
  BY DEF ImproveRows
<1>2. /\ map \in Maps /\ columnPattern \in LeftFunctions /\ rowPattern \in RightFunctions
      /\ Len(cases) < 4
  BY <1>1 DEF DivideInv, CasesInv
<1>3. rowPattern' \in RightFunctions
  BY <1>1, <1>2, PatternTypes
<1>4. CASE cases' = cases /\ pc' = "columns"
  <2>1. OptimalInv'
    BY <1>1, <1>4, ErrorsKept DEF DivideInv, OptimalInv
  <2>2. ControlInv'
    BY <1>1, <1>2, <1>4 DEF DivideInv, ControlInv, LeftFunctions, RightFunctions, IsSound
  <2> QED
    BY <2>1, <2>2
<1>5. CASE /\ recordRowPattern = rowPattern' /\ recordColumnPattern = columnPattern
           /\ cases' = Append(cases, new)
           /\ pc' = IF Len(cases) + 1 < Len(Operation) THEN "start" ELSE "conclude"
  <2>1. PICK S : cases \in Seq(S)
    BY DEF DivideInv, CasesInv
  <2>2. /\ Len(cases') = Len(cases) + 1
        /\ DOMAIN cases' = 1..(Len(cases) + 1)
        /\ \A k \in DOMAIN cases : cases'[k] = cases[k]
        /\ cases'[Len(cases) + 1] = new
        /\ Len(cases) \in Nat /\ DOMAIN cases = 1..Len(cases)
    BY <1>5, <2>1, AppendResult
  <2>3. rowPattern' = rowPattern
    BY <1>1, <1>5 DEF DivideInv, OptimalInv
  <2>4. /\ new.errorCount = ErrorCountWhole(columnPattern, rowPattern, Op)
        /\ new.leftFunc = columnPattern /\ new.rightFunc = rowPattern
    BY <2>3 DEF BestApprox
  <2>5. \A left \in LeftFunctions :
          ErrorCountWhole(columnPattern, rowPattern, Op) <= ErrorCountWhole(left, rowPattern, Op)
    BY <1>1 DEF DivideInv, OptimalInv
  <2>6. \A right \in RightFunctions :
          ErrorCountWhole(columnPattern, rowPattern, Op) <= ErrorCountWhole(columnPattern, right, Op)
    BY <1>1, <1>2, <2>3, RowPatternIsBest
  <2>7. IsOptimal(new, Len(cases) + 1)
    BY <2>4, <2>5, <2>6 DEF IsOptimal, Op
  <2> HIDE DEF new
  <2>8. \A k \in DOMAIN cases' : IsOptimal(cases'[k], k)
    <3>1. \A k \in DOMAIN cases : IsOptimal(cases'[k], k)
      BY <2>2 DEF DivideInv, OptimalInv
    <3>2. \A k \in DOMAIN cases' : k \in DOMAIN cases \/ k = Len(cases) + 1
      BY <2>2
    <3> QED
      BY <2>2, <2>7, <3>1, <3>2
  <2>9. pc' # "rows"
    BY <1>5
  <2>10. OptimalInv'
    BY <1>1, <2>8, <2>9, ErrorsKept DEF OptimalInv
  <2>11. /\ pc' \in {"start", "columns", "rows", "conclude", "returned"}
         /\ pc' = "conclude" <=> Len(cases') = 4
    BY <1>2, <1>5, <2>2, Operations
  <2>12. pc' # "returned" /\ pc # "returned"
    BY <1>1, <1>5
  <2>13. ControlInv'
    BY <1>1, <2>11, <2>12 DEF DivideInv, ControlInv, LeftFunctions, RightFunctions, IsSound
  <2> QED
    BY <2>10, <2>13
<1> QED
  BY <1>4, <1>5 DEF ImproveRows

\* divideCore returns.
LEMMA ReturnKeeps ==
  ASSUME DivideInv, Return
  PROVE  OptimalInv' /\ ControlInv'
<1>1. /\ pc = "conclude" /\ round' = round + 1 /\ cases' = <<>>
      /\ record' = IF record = <<>> \/ Conclusion.errorCount < record[1].errorCount
                   THEN <<Conclusion>> ELSE record
      /\ pc' = IF round < DIVIDE_ROUND THEN "start" ELSE "returned"
      /\ UNCHANGED <<map, columnPattern, rowPattern, recordColumnPattern, recordRowPattern>>
  BY DEF Return
<1>2. DOMAIN cases' = {} /\ Len(cases') = 0
  BY <1>1
<1>3. OptimalInv'
  BY <1>1, <1>2 DEF OptimalInv
<1>4. IsSound(Conclusion)
  BY <1>1, ConclusionIsBest
<1>5. \E c : record' = <<c>> /\ IsSound(c)
  <2>1. CASE record' = <<Conclusion>>
    BY <1>4, <2>1
  <2>2. CASE record' = record /\ record # <<>>
    BY <2>2 DEF DivideInv, ControlInv
  <2> QED
    BY <1>1, <2>1, <2>2
<1>6. round \in Nat /\ round <= DIVIDE_ROUND /\ DIVIDE_ROUND \in Nat
  BY <1>1, KmapAssumption DEF DivideInv, ControlInv
<1>7. /\ round' \in 0..(DIVIDE_ROUND + 1) /\ round' # 0
      /\ pc' # "returned" => round' <= DIVIDE_ROUND
  BY <1>1, <1>6
<1>8. recordColumnPattern' \in LeftFunctions /\ recordRowPattern' \in RightFunctions
  BY <1>1 DEF DivideInv, ControlInv
<1>9. /\ pc' \in {"start", "columns", "rows", "conclude", "returned"}
      /\ pc' = "conclude" <=> Len(cases') = 4
  BY <1>1, <1>2
<1>10. \E c : record' = <<c>> /\ IsSound(c)'
  BY <1>5 DEF IsSound
<1>11. ControlInv'
  BY <1>7, <1>8, <1>9, <1>10 DEF ControlInv, LeftFunctions, RightFunctions
<1> QED
  BY <1>3, <1>11

LEMMA DivideStep == DivideInv /\ [Next]_vars => DivideInv'
<1> SUFFICES ASSUME DivideInv, [Next]_vars PROVE DivideInv'
  OBVIOUS
<1>1. CasesInv'
  BY CasesStep DEF DivideInv
<1>2. OptimalInv' /\ ControlInv'
  <2>1. CASE StartCase BY <2>1, StartCaseKeeps
  <2>2. CASE ImproveColumns BY <2>2, ImproveColumnsKeeps
  <2>3. CASE ImproveRows BY <2>3, ImproveRowsKeeps
  <2>4. CASE Return BY <2>4, ReturnKeeps
  <2>5. CASE UNCHANGED vars
    <3>1. /\ map' = map /\ pc' = pc /\ cases' = cases /\ columnPattern' = columnPattern
          /\ rowPattern' = rowPattern /\ recordColumnPattern' = recordColumnPattern
          /\ recordRowPattern' = recordRowPattern /\ record' = record /\ round' = round
      BY <2>5 DEF vars
    <3>2. Op' = Op
      BY <3>1 DEF Op
    <3>3. OptimalInv'
      BY <3>1, <3>2, ErrorsKept DEF DivideInv, OptimalInv, LeftFunctions
    <3>4. ControlInv'
      BY <3>1 DEF DivideInv, ControlInv, LeftFunctions, RightFunctions, IsSound
    <3> QED
      BY <3>3, <3>4
  <2> QED
    BY <2>1, <2>2, <2>3, <2>4, <2>5 DEF Next
<1> QED
  BY <1>1, <1>2 DEF DivideInv

\* In every state of divide its results are optimal for their operations,
\* and its record is one of the results it saw.
THEOREM DivideKeepsInvariant == Spec => []DivideInv
<1>1. Init => DivideInv
  BY DivideInit
<1>2. DivideInv /\ [Next]_vars => DivideInv'
  BY DivideStep
<1> QED
  BY <1>1, <1>2, PTL DEF Spec

\* The patterns, the results and the record of divide stay in their ranges:
\* divideCore returns with the results of all four cases.
THEOREM TypeCorrect == Spec => []TypeOK
<1>1. ASSUME DivideInv PROVE TypeOK
  <2>1. /\ pc \in {"start", "columns", "rows", "conclude", "returned"}
        /\ columnPattern \in [Rows -> BOOLEAN] /\ recordColumnPattern \in [Rows -> BOOLEAN]
        /\ rowPattern \in [Columns -> BOOLEAN] /\ recordRowPattern \in [Columns -> BOOLEAN]
        /\ round \in 0..(DIVIDE_ROUND + 1)
    BY <1>1 DEF DivideInv, CasesInv, ControlInv, LeftFunctions, RightFunctions
  <2>2. Len(cases) <= Len(Operation)
    BY <1>1, Operations DEF DivideInv, CasesInv
  <2>3. (pc = "conclude") = (Len(cases) = Len(Operation))
    <3>1. (pc = "conclude") <=> (Len(cases) = Len(Operation))
      BY <1>1, Operations DEF DivideInv, ControlInv
    <3> QED
      BY <3>1
  <2>4. \A c \in Range(cases) : IsSound(c)
    BY <1>1, ResultsSound DEF Range
  <2>5. Len(record) = (IF round = 0 THEN 0 ELSE 1) /\ \A c \in Range(record) : IsSound(c)
    <3>1. CASE round = 0
      BY <1>1, <3>1 DEF DivideInv, ControlInv, Range
    <3>2. CASE round # 0
      <4>1. PICK c : record = <<c>> /\ IsSound(c)
        BY <1>1, <3>2 DEF DivideInv, ControlInv
      <4> QED
        BY <3>2, <4>1 DEF Range
    <3> QED
      BY <3>1, <3>2
  <2> QED
    BY <2>1, <2>2, <2>3, <2>4, <2>5 DEF TypeOK, IsSound
<1> QED
  BY <1>1, DivideKeepsInvariant, PTL

\* A case ends in a local optimum, whatever the random patterns it started
\* from: each function is the best one for the other.
THEOREM CasesAreOptimal == Spec => []LocallyOptimal
<1>1. ASSUME DivideInv PROVE LocallyOptimal
  <2>1. \A k \in DOMAIN cases : IsOptimal(cases[k], k)
    BY <1>1 DEF DivideInv, OptimalInv
  <2> QED
    BY <2>1 DEF LocallyOptimal, IsOptimal, LeftFunctions, RightFunctions
<1> QED
  BY <1>1, DivideKeepsInvariant, PTL

\* An iteration that changes a pattern has fewer errors afterwards, so that
\* no loop of divideCore comes back to a pair of patterns.
THEOREM ChangesLowerErrors == Spec => ErrorsDecrease
<1>1. ASSUME DivideInv, [Next]_vars, patterns' # patterns, pc \in {"columns", "rows"}
      PROVE  Errors(patterns', Op) < Errors(patterns, Op)
  <2>1. /\ map \in Maps /\ columnPattern \in LeftFunctions /\ rowPattern \in RightFunctions
    BY <1>1 DEF DivideInv, CasesInv
  <2>2. /\ Errors(patterns', Op) = ErrorCountWhole(columnPattern', rowPattern', Op)
        /\ Errors(patterns, Op) = ErrorCountWhole(columnPattern, rowPattern, Op)
    BY DEF Errors, patterns
  <2>3. CASE ImproveColumns
    <3>1. /\ columnPattern' = GetColumnPattern(columnPattern, rowPattern, Op)
          /\ rowPattern' = rowPattern
      BY <2>3 DEF ImproveColumns
    <3>2. columnPattern' # columnPattern
      BY <1>1, <3>1 DEF patterns
    <3> QED
      BY <2>1, <2>2, <3>1, <3>2, ColumnPatternIsBest
  <2>4. CASE ImproveRows
    <3>1. /\ rowPattern' = GetRowPattern(columnPattern, rowPattern, Op)
          /\ columnPattern' = columnPattern
      BY <2>4 DEF ImproveRows
    <3>2. rowPattern' # rowPattern
      BY <1>1, <3>1 DEF patterns
    <3> QED
      BY <2>1, <2>2, <3>1, <3>2, RowPatternIsBest
  <2>5. ~StartCase /\ ~Return /\ ~UNCHANGED vars
    BY <1>1 DEF StartCase, Return, vars, patterns
  <2> QED
    BY <1>1, <2>3, <2>4, <2>5 DEF Next
<1>2. DivideInv /\ [Next]_vars =>
        [patterns' # patterns /\ pc \in {"columns", "rows"} =>
           Errors(patterns', Op) < Errors(patterns, Op)]_vars
  BY <1>1
<1> QED
  BY <1>2, DivideKeepsInvariant, PTL DEF Spec, ErrorsDecrease

\* divide never trades its record for a worse result.
THEOREM RecordIsBest == Spec => BestKept
<1>1. ASSUME DivideInv, [Next]_vars, vars' # vars, pc = "conclude"
      PROVE  /\ \A k \in DOMAIN cases : record'[1].errorCount <= cases[k].errorCount
             /\ record # <<>> => record'[1].errorCount <= record[1].errorCount
  <2>1. record' = IF record = <<>> \/ Conclusion.errorCount < record[1].errorCount
                  THEN <<Conclusion>> ELSE record
    BY <1>1 DEF Next, StartCase, ImproveColumns, ImproveRows, Return
  <2>2. /\ IsSound(Conclusion)
        /\ \A k \in DOMAIN cases : Conclusion.errorCount <= cases[k].errorCount
    BY <1>1, ConclusionIsBest
  <2>3. \A k \in DOMAIN cases : cases[k].errorCount \in Nat
    BY <1>1, ResultsSound DEF IsSound
  <2>4. CASE record = <<>>
    BY <2>1, <2>2, <2>4
  <2>5. CASE record # <<>>
    <3>1. PICK c : record = <<c>> /\ IsSound(c)
      BY <1>1, <2>5 DEF DivideInv, ControlInv
    <3>2. record[1] = c /\ c.errorCount \in Nat /\ Conclusion.errorCount \in Nat
      BY <2>2, <3>1 DEF IsSound
    <3>3. CASE Conclusion.errorCount < c.errorCount
      BY <2>1, <2>2, <3>2, <3>3
    <3>4. CASE ~(Conclusion.errorCount < c.errorCount)
      <4>1. record'[1] = c
        BY <2>1, <2>5, <3>2, <3>4
      <4>2. c.errorCount <= Conclusion.errorCount
        BY <3>2, <3>4
      <4> QED
        BY <2>2, <2>3, <3>2, <4>1, <4>2
    <3> QED
      BY <3>3, <3>4
  <2> QED
    BY <2>4, <2>5
<1>2. DivideInv /\ [Next]_vars =>
        [pc = "conclude" =>
           /\ \A k \in DOMAIN cases : record'[1].errorCount <= cases[k].errorCount
           /\ record # <<>> => record'[1].errorCount <= record[1].errorCount]_vars
  BY <1>1
<1> QED
  BY <1>2, DivideKeepsInvariant, PTL DEF Spec, BestKept

-----------------------------------------------------------------------------
(***************************************************************************)
(* Functions that one of the operations makes exactly.                     *)
(***************************************************************************)

\* The row that a case starts from, when it tells the right function.
StartRow(i) ==
  /\ i \in Unskipped /\ \A h \in Unskipped : i <= h
  /\ map.kmap[i] # Ones(Columns)

\* Some left function makes the map with row i as the right function.
Fits(k, i) ==
  \E left \in LeftFunctions :
    \A r \in Rows, j \in Columns :
      map.kmap[r][j] = (Index(left[r], map.kmap[i][j]) \in Operation[k])

\* Case k, which starts from row i, has found such a function or will.
Finds(k, i) ==
  /\ k \in DOMAIN cases => cases[k].errorCount = 0
  /\ k = Len(cases) + 1 /\ pc = "columns" =>
       \/ rowPattern = map.kmap[i]
       \/ ErrorCountWhole(columnPattern, rowPattern, Op) = 0
  /\ k = Len(cases) + 1 /\ pc = "rows" => ErrorCountWhole(columnPattern, rowPattern, Op) = 0

ExactInv == \A i \in Rows, k \in 2..4 : StartRow(i) /\ Fits(k, i) => Finds(k, i)

\* What the map fits does not change.
LEMMA FitsKept ==
  ASSUME map' = map
  PROVE  /\ \A i : StartRow(i)' <=> StartRow(i)
         /\ \A k, i : Fits(k, i)' <=> Fits(k, i)
BY DEF StartRow, Fits, Unskipped, LeftFunctions

LEMMA ExactInit == Init => ExactInv
<1> SUFFICES ASSUME Init PROVE ExactInv
  OBVIOUS
<1>1. DOMAIN cases = {} /\ pc = "start"
  BY DEF Init
<1> QED
  BY <1>1 DEF ExactInv, Finds

LEMMA ExactStartCase ==
  ASSUME DivideInv, ExactInv, StartCase
  PROVE  ExactInv'
<1>1. pc' = "columns" /\ map' = map /\ cases' = cases
  BY DEF StartCase
<1> SUFFICES ASSUME NEW i \in Rows', NEW k \in 2..4, StartRow(i), Fits(k, i)
             PROVE  Finds(k, i)'
  BY <1>1, FitsKept DEF ExactInv
<1>2. Finds(k, i)
  BY DEF ExactInv
<1>3. ASSUME k = Len(cases) + 1
      PROVE  rowPattern' = map.kmap[i]
  <2>1. Op = Operation[k]
    BY <1>3 DEF Op
  <2>2. Op # LEFT_RELA_TABLE
    <3>1. {1, 3} # {3} /\ {1, 3} # {1, 2, 3} /\ {1, 3} # {1, 2}
      OBVIOUS
    <3>2. k = 2 \/ k = 3 \/ k = 4
      OBVIOUS
    <3> QED
      BY <2>1, <3>1, <3>2, Operations, Tables
  <2>3. i \in Unskipped /\ \A h \in Unskipped : i <= h
    BY DEF StartRow
  <2>4. PICK u \in Unskipped : (\A h \in Unskipped : u <= h) /\ rowPattern' = map.kmap[u]
    BY <2>2, <2>3 DEF StartCase
  <2>5. u <= i /\ i <= u /\ u \in Int /\ i \in Int
    BY <2>3, <2>4 DEF Unskipped, Rows
  <2>6. u = i
    BY <2>5
  <2> QED
    BY <2>4, <2>6
<1> QED
  BY <1>1, <1>2, <1>3 DEF Finds

LEMMA ExactImproveColumns ==
  ASSUME DivideInv, ExactInv, ImproveColumns
  PROVE  ExactInv'
<1>1. /\ pc = "columns" /\ pc' = "rows" /\ map' = map /\ cases' = cases
      /\ rowPattern' = rowPattern
      /\ columnPattern' = GetColumnPattern(columnPattern, rowPattern, Op)
  BY DEF ImproveColumns
<1>2. map \in Maps /\ columnPattern \in LeftFunctions /\ rowPattern \in RightFunctions
  BY DEF DivideInv, CasesInv
<1> SUFFICES ASSUME NEW i \in Rows', NEW k \in 2..4, StartRow(i), Fits(k, i)
             PROVE  Finds(k, i)'
  BY <1>1, FitsKept DEF ExactInv
<1>3. Finds(k, i)
  BY DEF ExactInv
<1>4. ASSUME k = Len(cases) + 1
      PROVE  ErrorCountWhole(columnPattern, rowPattern, Op)' = 0
  <2>1. \A left \in LeftFunctions :
          ErrorCountWhole(columnPattern', rowPattern, Op) <= ErrorCountWhole(left, rowPattern, Op)
    BY <1>1, <1>2, ColumnPatternIsBest
  <2>2. \E left \in LeftFunctions : ErrorCountWhole(left, rowPattern, Op) = 0
    <3>1. CASE ErrorCountWhole(columnPattern, rowPattern, Op) = 0
      BY <1>2, <3>1
    <3>2. CASE rowPattern = map.kmap[i]
      <4>1. PICK left \in LeftFunctions :
              \A r \in Rows, j \in Columns :
                map.kmap[r][j] = (Index(left[r], map.kmap[i][j]) \in Operation[k])
        BY DEF Fits
      <4>2. ErrorCountWhole(left, rowPattern, Op) = 0
        BY <1>4, <3>2, <4>1, NoErrors DEF Op
      <4> QED
        BY <4>2
    <3> QED
      BY <1>1, <1>3, <1>4, <3>1, <3>2 DEF Finds
  <2>3. ErrorCountWhole(columnPattern', rowPattern, Op) \in Nat
    BY <1>2, WholeType
  <2>4. ErrorCountWhole(columnPattern', rowPattern, Op) = 0
    BY <2>1, <2>2, <2>3
  <2>5. Op' = Op
    BY <1>1 DEF Op
  <2> QED
    BY <1>1, <2>4, <2>5, ErrorsKept
<1> QED
  BY <1>1, <1>3, <1>4 DEF Finds

LEMMA ExactImproveRows ==
  ASSUME DivideInv, ExactInv, ImproveRows
  PROVE  ExactInv'
<1> DEFINE new == BestApprox(columnPattern, rowPattern', Op)
<1>1. /\ pc = "rows" /\ map' = map /\ columnPattern' = columnPattern
      /\ rowPattern' = GetRowPattern(columnPattern, rowPattern, Op)
  BY DEF ImproveRows
<1>2. map \in Maps /\ columnPattern \in LeftFunctions /\ rowPattern \in RightFunctions
  BY DEF DivideInv, CasesInv
<1> SUFFICES ASSUME NEW i \in Rows', NEW k \in 2..4, StartRow(i), Fits(k, i)
             PROVE  Finds(k, i)'
  BY <1>1, FitsKept DEF ExactInv
<1>3. Finds(k, i)
  BY DEF ExactInv
<1>4. ASSUME k = Len(cases) + 1
      PROVE  ErrorCountWhole(columnPattern, rowPattern', Op) = 0
  <2>1. ErrorCountWhole(columnPattern, rowPattern, Op) = 0
    BY <1>1, <1>3, <1>4 DEF Finds
  <2>2. ErrorCountWhole(columnPattern, rowPattern', Op) <= ErrorCountWhole(columnPattern, rowPattern, Op)
    BY <1>1, <1>2, RowPatternIsBest
  <2>3. ErrorCountWhole(columnPattern, rowPattern', Op) \in Nat
    BY <1>2, WholeType
  <2> QED
    BY <2>1, <2>2, <2>3
<1>5. CASE cases' = cases /\ pc' = "columns"
  <2>1. Op' = Op
    BY <1>5 DEF Op
  <2>2. k = Len(cases) + 1 => ErrorCountWhole(columnPattern, rowPattern, Op)' = 0
    BY <1>1, <1>4, <2>1, ErrorsKept
  <2> QED
    BY <1>3, <1>5, <2>2 DEF Finds
<1>6. CASE cases' = Append(cases, new) /\ pc' \in {"start", "conclude"}
  <2>1. PICK S : cases \in Seq(S)
    BY DEF DivideInv, CasesInv
  <2>2. /\ DOMAIN cases' = 1..(Len(cases) + 1)
        /\ \A h \in DOMAIN cases : cases'[h] = cases[h]
        /\ cases'[Len(cases) + 1] = new
        /\ Len(cases) \in Nat /\ DOMAIN cases = 1..Len(cases)
    BY <1>6, <2>1, AppendResult
  <2>3. k = Len(cases) + 1 => new.errorCount = 0
    BY <1>4 DEF BestApprox
  <2> HIDE DEF new
  <2>4. k \in DOMAIN cases' => cases'[k].errorCount = 0
    <3>1. CASE k \in DOMAIN cases
      BY <1>3, <2>2, <3>1 DEF Finds
    <3>2. CASE k = Len(cases) + 1
      BY <2>2, <2>3, <3>2
    <3> QED
      BY <2>2, <3>1, <3>2
  <2> QED
    BY <1>6, <2>4 DEF Finds
<1>7. \/ cases' = cases /\ pc' = "columns"
      \/ cases' = Append(cases, new) /\ pc' \in {"start", "conclude"}
  <2> HIDE DEF new
  <2> QED
    BY DEF ImproveRows, new
<1> QED
  BY <1>5, <1>6, <1>7

LEMMA ExactStep == DivideInv /\ ExactInv /\ [Next]_vars => ExactInv'
<1> SUFFICES ASSUME DivideInv, ExactInv, [Next]_vars PROVE ExactInv'
  OBVIOUS
<1>1. CASE StartCase BY <1>1, ExactStartCase
<1>2. CASE ImproveColumns BY <1>2, ExactImproveColumns
<1>3. CASE ImproveRows BY <1>3, ExactImproveRows
<1>4. CASE Return
  <2>1. DOMAIN cases' = {} /\ pc' \in {"start", "returned"} /\ map' = map
    BY <1>4 DEF Return
  <2> QED
    BY <2>1 DEF ExactInv, Finds
<1>5. CASE UNCHANGED vars
  <2>1. /\ map' = map /\ pc' = pc /\ cases' = cases
        /\ columnPattern' = columnPattern /\ rowPattern' = rowPattern
    BY <1>5 DEF vars
  <2>2. Op' = Op
    BY <2>1 DEF Op
  <2>3. ErrorCountWhole(columnPattern, rowPattern, Op)' = ErrorCountWhole(columnPattern, rowPattern, Op)
    BY <2>1, <2>2, ErrorsKept
  <2>4. \A k, i : Finds(k, i)' <=> Finds(k, i)
    BY <2>1, <2>3 DEF Finds
  <2> QED
    BY <2>1, <2>4, FitsKept DEF ExactInv
<1> QED
  BY <1>1, <1>2, <1>3, <1>4, <1>5 DEF Next

\* A function made of two by one of the operations is made by one of the last
\* three of a row that is not constant.
LEMMA DecomposableFits ==
  ASSUME map \in Maps, Decomposable, NEW i \in Rows, StartRow(i)
  PROVE  \E k \in 2..4 : Fits(k, i)
<1> DEFINE m == map.kmap
<1>1. m \in [Rows -> [Columns -> BOOLEAN]]
  BY KmapAssumption
<1>2. PICK k \in 1..4, left \in LeftFunctions, right \in RightFunctions :
        m = [r \in Rows |-> [j \in Columns |-> Index(left[r], right[j]) \in Operation[k]]]
  BY Operations DEF Decomposable, LeftFunctions, RightFunctions
<1>3. ASSUME NEW r \in Rows, NEW j \in Columns
      PROVE  /\ m[r][j] <=> Index(left[r], right[j]) \in Operation[k]
             /\ m[r][j] \in BOOLEAN
             /\ left[r] \in BOOLEAN /\ right[j] \in BOOLEAN
  <2>1. m[r][j] \in BOOLEAN /\ left[r] \in BOOLEAN /\ right[j] \in BOOLEAN
    BY <1>1 DEF LeftFunctions, RightFunctions
  <2>2. m[r][j] = (Index(left[r], right[j]) \in Operation[k])
    <3> HIDE DEF m
    <3> QED
      BY <1>2
  <2> HIDE DEF m
  <2> QED
    BY <2>1, <2>2
<1>4. (\E j \in Columns : m[i][j]) /\ (\E j \in Columns : ~m[i][j])
  <2>1. m[i] # Zeros(Columns) /\ m[i] # Ones(Columns) /\ m[i] \in [Columns -> BOOLEAN]
    BY <1>1 DEF StartRow, Unskipped
  <2> HIDE DEF m
  <2>2. ASSUME \A j \in Columns : ~m[i][j] PROVE m[i] = Zeros(Columns)
    BY <2>1, <2>2 DEF Zeros
  <2>3. ASSUME \A j \in Columns : m[i][j] PROVE m[i] = Ones(Columns)
    BY <2>1, <2>3 DEF Ones
  <2> QED
    BY <2>1, <2>2, <2>3
<1> HIDE DEF m
<1>5. \A a, b \in BOOLEAN :
        /\ Index(a, b) \in LEFT_RELA_TABLE <=> a
        /\ Index(a, b) \in AND_TABLE <=> a /\ b
        /\ Index(a, b) \in OR_TABLE <=> a \/ b
        /\ Index(a, b) \in XOR_TABLE <=> ~(a <=> b)
  <2>1. /\ 0 \notin {1, 3} /\ 1 \in {1, 3} /\ 2 \notin {1, 3} /\ 3 \in {1, 3}
        /\ 0 \notin {3} /\ 1 \notin {3} /\ 2 \notin {3} /\ 3 \in {3}
        /\ 0 \notin {1, 2, 3} /\ 1 \in {1, 2, 3} /\ 2 \in {1, 2, 3} /\ 3 \in {1, 2, 3}
        /\ 0 \notin {1, 2} /\ 1 \in {1, 2} /\ 2 \in {1, 2} /\ 3 \notin {1, 2}
    OBVIOUS
  <2>2. \A a \in BOOLEAN : a = TRUE \/ a = FALSE
    OBVIOUS
  <2> QED
    BY <2>1, <2>2, Indices, Tables, Zenon
<1>6. CASE k = 1
  <2>1. \A j \in Columns : m[i][j] <=> left[i]
    BY <1>3, <1>5, <1>6, Operations
  <2> QED
    BY <1>4, <2>1
<1>7. CASE k = 2
  <2>1. \A r \in Rows, j \in Columns : m[r][j] <=> left[r] /\ right[j]
    BY <1>3, <1>5, <1>7, Operations
  <2>2. \A j \in Columns : m[i][j] <=> right[j]
    BY <1>4, <2>1
  <2>3. \A r \in Rows, j \in Columns : m[r][j] <=> Index(left[r], m[i][j]) \in Operation[2]
    BY <1>3, <1>5, <2>1, <2>2, Operations
  <2> QED
    BY <1>3, <2>3 DEF Fits, m
<1>8. CASE k = 3
  <2>1. \A r \in Rows, j \in Columns : m[r][j] <=> left[r] \/ right[j]
    BY <1>3, <1>5, <1>8, Operations
  <2>2. \A j \in Columns : m[i][j] <=> right[j]
    BY <1>4, <2>1
  <2>3. \A r \in Rows, j \in Columns : m[r][j] <=> Index(left[r], m[i][j]) \in Operation[3]
    BY <1>3, <1>5, <2>1, <2>2, Operations
  <2> QED
    BY <1>3, <2>3 DEF Fits, m
<1>9. CASE k = 4
  <2> DEFINE l == [r \in Rows |-> ~(left[r] <=> left[i])]
  <2>1. \A r \in Rows, j \in Columns : m[r][j] <=> ~(left[r] <=> right[j])
    BY <1>3, <1>5, <1>9, Operations
  <2>2. \A r \in Rows, j \in Columns : m[r][j] <=> ~(~(left[r] <=> left[i]) <=> m[i][j])
    BY <1>3, <2>1
  <2>3. \A r \in Rows : l[r] \in BOOLEAN /\ (l[r] <=> ~(left[r] <=> left[i]))
    OBVIOUS
  <2>4. l \in LeftFunctions
    BY DEF LeftFunctions
  <2> HIDE DEF l
  <2>5. \A r \in Rows, j \in Columns : m[r][j] <=> Index(l[r], m[i][j]) \in Operation[4]
    BY <1>3, <1>5, <2>2, <2>3, Operations
  <2> QED
    BY <1>3, <2>4, <2>5 DEF Fits, m
<1> QED
  BY <1>6, <1>7, <1>8, <1>9

\* divideCore makes a function without an error when one of its operations
\* can, whatever the random patterns, provided that the row it starts from
\* is not constant.
THEOREM ExactDivisionIsFound == Spec => []ExactIsFound
<1>1. Init => DivideInv /\ ExactInv
  BY DivideInit, ExactInit
<1>2. DivideInv /\ ExactInv /\ [Next]_vars => (DivideInv /\ ExactInv)'
  BY DivideStep, ExactStep
<1>3. DivideInv /\ ExactInv => ExactIsFound
  <2> SUFFICES ASSUME DivideInv, ExactInv, pc = "conclude", Decomposable,
                      NEW i \in Unskipped, map.kmap[i] # Ones(Columns),
                      \A h \in Unskipped : i <= h
               PROVE  Conclusion.errorCount = 0
    BY DEF ExactIsFound
  <2>1. i \in Rows /\ StartRow(i) /\ map \in Maps
    BY DEF Unskipped, StartRow, DivideInv, CasesInv
  <2>2. PICK k \in 2..4 : Fits(k, i)
    BY <2>1, DecomposableFits
  <2>3. /\ DOMAIN cases = 1..4 /\ IsSound(Conclusion)
        /\ \A h \in DOMAIN cases : Conclusion.errorCount <= cases[h].errorCount
    BY ConclusionIsBest
  <2>4. k \in DOMAIN cases /\ cases[k].errorCount = 0
    BY <2>1, <2>2, <2>3 DEF ExactInv, Finds
  <2>5. Conclusion.errorCount \in Nat /\ Conclusion.errorCount <= 0
    BY <2>3, <2>4 DEF IsSound
  <2> QED
    BY <2>5
<1> QED
  BY <1>1, <1>2, <1>3, PTL DEF Spec
=============================================================================
