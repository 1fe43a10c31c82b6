--------------------------------- MODULE Kmap ---------------------------------
(***************************************************************************)
(* Kmap::divide of newApprox/src/kmap.cpp: a function given as a map of    *)
(* rows (the values of the left inputs) and columns (the right inputs) is  *)
(* approximated by op(left, right), for each of four operations.  Starting *)
(* from random patterns, the left pattern is improved for the right one    *)
(* and the right one for the left one until neither changes; the method of *)
(* a result one side of which is constant is then simplified; the best of  *)
(* the four cases, over several rounds, is the answer.                     *)
(***************************************************************************)
EXTENDS TTable, Sequences, Functions, FiniteSetsExt

CONSTANTS
  RightInputs,    \* widthName.size()
  Height, Width,  \* the numbers of rows and columns
  Maps,           \* [kmap, count]: the functions, and how often a term occurs
  DIVIDE_ROUND    \* how often divide repeats divideCore

Rows == 0..(Height - 1)
Columns == 0..(Width - 1)

ASSUME KmapAssumption ==
  /\ RightInputs \in Nat \ {0}
  /\ Height \in Nat \ {0} /\ Width \in Nat /\ Width = 2^RightInputs
  /\ Maps \subseteq [kmap : [Rows -> [Columns -> BOOLEAN]],
                     count : [Rows -> [Columns -> Nat]]]
  /\ DIVIDE_ROUND \in Nat

VARIABLES
  pc,                  \* where divide() is
  map,                 \* kmap, and the counts of focusSim
  columnPattern,       \* the left function: a value for each row
  rowPattern,          \* the right function: a value for each column
  recordColumnPattern, \* the patterns at the start of the iteration
  recordRowPattern,
  cases,               \* the results case1, case2, ... of this divideCore
  record,              \* the best result of divide so far: none or one
  round                \* how many calls of divideCore have returned

vars == <<pc, map, columnPattern, rowPattern, recordColumnPattern,
          recordRowPattern, cases, record, round>>

patterns == <<columnPattern, rowPattern>>

Zeros(S) == [x \in S |-> FALSE]
Ones(S) == [x \in S |-> TRUE]

\* The operations of the four cases.
Operation == <<LEFT_RELA_TABLE, AND_TABLE, OR_TABLE, XOR_TABLE>>
Op == Operation[Len(cases) + 1]

-----------------------------------------------------------------------------
\* errorCountRowColumnPattern, times the count of the term.
ErrorCount(i, j, columnVal, rowVal, op) ==
  IF (Index(columnVal, rowVal) \in op) = map.kmap[i][j] THEN 0 ELSE map.count[i][j]

\* The value with fewer errors; the old one when there is no difference.
Better(old, err0, err1) ==
  IF err0 = err1 THEN old ELSE IF err0 < err1 THEN FALSE ELSE TRUE

GetColumnPattern(column, row, op) ==
  [i \in Rows |->
     LET err(v) == SumFunction([j \in Columns |-> ErrorCount(i, j, v, row[j], op)])
     IN  Better(column[i], err(FALSE), err(TRUE))]

\* Mutant of GetRowPattern: a tie takes the other value.
GetRowPatternFlippingTies(column, row, op) ==
  [j \in Columns |->
     LET err(v) == SumFunction([i \in Rows |-> ErrorCount(i, j, column[i], v, op)])
     IN  Better(~row[j], err(FALSE), err(TRUE))]

\* Mutant of GetRowPattern: the columns as they were before this iteration.
GetRowPatternStale(column, row, op) ==
  [j \in Columns |->
     LET err(v) == SumFunction([i \in Rows |-> ErrorCount(i, j, recordColumnPattern[i], v, op)])
     IN  Better(row[j], err(FALSE), err(TRUE))]

GetRowPattern(column, row, op) ==
  [j \in Columns |->
     LET err(v) == SumFunction([i \in Rows |-> ErrorCount(i, j, column[i], v, op)])
     IN  Better(row[j], err(FALSE), err(TRUE))]

\* The sum of errorCountWhole.
ErrorCountWhole(column, row, op) ==
  SumFunction([i \in Rows |->
    SumFunction([j \in Columns |-> ErrorCount(i, j, column[i], row[j], op)])])

\* Whether the left and the right function are constant 0 and constant 1.
Constancy(left, right) ==
  [left0 |-> left = Zeros(Rows), left1 |-> left = Ones(Rows),
   right0 |-> right = Zeros(Columns), right1 |-> right = Ones(Columns)]

\* Mutant of MethodOr: OR is simplified where AND could be.
MethodOrLikeAnd(c) ==
  IF c.left1 /\ c.right1 THEN ALL_IRR_TABLE_1
  ELSE IF c.left0 /\ c.right0 THEN ALL_IRR_TABLE_0
  ELSE IF c.left0 THEN RIGHT_RELA_TABLE
  ELSE IF c.right0 THEN LEFT_RELA_TABLE ELSE OR_TABLE

MethodOr(c) ==
  IF c.left1 \/ c.right1 THEN ALL_IRR_TABLE_1
  ELSE IF c.left0 /\ c.right0 THEN ALL_IRR_TABLE_0
  ELSE IF c.left0 THEN RIGHT_RELA_TABLE
  ELSE IF c.right0 THEN LEFT_RELA_TABLE ELSE OR_TABLE

MethodAnd(c) ==
  IF c.left1 /\ c.right1 THEN ALL_IRR_TABLE_1
  ELSE IF c.left0 \/ c.right0 THEN ALL_IRR_TABLE_0
  ELSE IF c.left1 THEN RIGHT_RELA_TABLE
  ELSE IF c.right1 THEN LEFT_RELA_TABLE ELSE AND_TABLE

\* Mutant of MethodXor: a constant 1 is taken for a constant 0.
MethodXorUncomplemented(c) ==
  IF (c.left0 /\ c.right1) \/ (c.left1 /\ c.right0) THEN ALL_IRR_TABLE_1
  ELSE IF (c.left0 /\ c.right0) \/ (c.left1 /\ c.right1) THEN ALL_IRR_TABLE_0
  ELSE IF c.left1 \/ c.left0 THEN RIGHT_RELA_TABLE
  ELSE IF c.right1 \/ c.right0 THEN LEFT_RELA_TABLE ELSE XOR_TABLE

MethodXor(c) ==
  IF (c.left0 /\ c.right1) \/ (c.left1 /\ c.right0) THEN ALL_IRR_TABLE_1
  ELSE IF (c.left0 /\ c.right0) \/ (c.left1 /\ c.right1) THEN ALL_IRR_TABLE_0
  ELSE IF c.left1 THEN Not(RIGHT_RELA_TABLE)
  ELSE IF c.left0 THEN RIGHT_RELA_TABLE
  ELSE IF c.right1 THEN Not(LEFT_RELA_TABLE)
  ELSE IF c.right0 THEN LEFT_RELA_TABLE ELSE XOR_TABLE

MethodLeft(c) ==
  IF c.left1 THEN ALL_IRR_TABLE_1
  ELSE IF c.left0 THEN ALL_IRR_TABLE_0 ELSE LEFT_RELA_TABLE

\* The method of the result of a case: its operation, simplified when one of
\* the functions is constant.
Method(op, left, right) ==
  LET c == Constancy(left, right)
  IN  CASE op = LEFT_RELA_TABLE -> MethodLeft(c)
        [] op = AND_TABLE       -> MethodAnd(c)
        [] op = OR_TABLE        -> MethodOr(c)
        [] op = XOR_TABLE       -> MethodXor(c)

BestApprox(column, row, op) ==
  [leftFunc |-> column, rightFunc |-> row,
   errorCount |-> ErrorCountWhole(column, row, op), method |-> Method(op, column, row)]

-----------------------------------------------------------------------------
Init ==
  /\ pc = "start"
  /\ map \in Maps
  /\ columnPattern = Zeros(Rows) /\ recordColumnPattern = Zeros(Rows)
  /\ rowPattern = Zeros(Columns) /\ recordRowPattern = Zeros(Columns)
  /\ cases = <<>>
  /\ record = <<>>
  /\ round = 0

\* The table TTable((1 << widthName.size()) - 1, widthName.size()), with a 1
\* for each input.  A table with a 1 for each column takes (1 << width) - 1.
OnePerInput == [j \in Columns |-> j < RightInputs]

\* The rows that lines 187 and 188 let be a start of the right function.
Unskipped == {i \in Rows : map.kmap[i] \notin {Zeros(Columns), OnePerInput}}

\* Mutant of StartCase: no row is skipped.
StartCaseAtFirstRow ==
  /\ pc = "start"
  /\ columnPattern' \in [Rows -> BOOLEAN]
  /\ \/ Op = LEFT_RELA_TABLE /\ rowPattern' = Zeros(Columns)
     \/ Op # LEFT_RELA_TABLE /\ rowPattern' = map.kmap[0]
  /\ pc' = "columns"
  /\ UNCHANGED <<map, recordColumnPattern, recordRowPattern, cases, record, round>>

\* Case 1 starts from zeros, the other cases from a row of the map, the
\* first that is not skipped, or at random when all of them are.
StartCase ==
  /\ pc = "start"
  /\ columnPattern' \in [Rows -> BOOLEAN]
  /\ \/ Op = LEFT_RELA_TABLE /\ rowPattern' = Zeros(Columns)
     \/ /\ Op # LEFT_RELA_TABLE
        /\ \E i \in Unskipped : (\A h \in Unskipped : i <= h) /\ rowPattern' = map.kmap[i]
     \/ /\ Op # LEFT_RELA_TABLE /\ Unskipped = {}
        /\ rowPattern' \in [Columns -> BOOLEAN]
  /\ pc' = "columns"
  /\ UNCHANGED <<map, recordColumnPattern, recordRowPattern, cases, record, round>>

ImproveColumns ==
  /\ pc = "columns"
  /\ recordColumnPattern' = columnPattern
  /\ recordRowPattern' = rowPattern
  /\ columnPattern' = GetColumnPattern(columnPattern, rowPattern, Op)
  /\ pc' = "rows"
  /\ UNCHANGED <<map, rowPattern, cases, record, round>>

\* Mutant of ImproveRows: the loop ends when one of the patterns is kept.
ImproveRowsStoppingEarly ==
  /\ pc = "rows"
  /\ rowPattern' = GetRowPattern(columnPattern, rowPattern, Op)
  /\ IF recordRowPattern = rowPattern' \/ recordColumnPattern = columnPattern
     THEN /\ cases' = Append(cases, BestApprox(columnPattern, rowPattern', Op))
          /\ pc' = IF Len(cases) + 1 < Len(Operation) THEN "start" ELSE "conclude"
     ELSE /\ pc' = "columns"
          /\ UNCHANGED cases
  /\ UNCHANGED <<map, columnPattern, recordColumnPattern, recordRowPattern, record, round>>

\* The second half of an iteration.  When nothing has changed, the case has
\* its result, and the next one begins.
ImproveRows ==
  /\ pc = "rows"
  /\ rowPattern' = GetRowPattern(columnPattern, rowPattern, Op)
  /\ IF recordRowPattern = rowPattern' /\ recordColumnPattern = columnPattern
     THEN /\ cases' = Append(cases, BestApprox(columnPattern, rowPattern', Op))
          /\ pc' = IF Len(cases) + 1 < Len(Operation) THEN "start" ELSE "conclude"
     ELSE /\ pc' = "columns"
          /\ UNCHANGED cases
  /\ UNCHANGED <<map, columnPattern, recordColumnPattern, recordRowPattern, record, round>>

\* The first of the cases whose errors are the fewest.
Conclusion ==
  cases[Min({i \in DOMAIN cases :
               \A j \in DOMAIN cases : cases[i].errorCount <= cases[j].errorCount})]

\* Mutant of Return: divide keeps the result of the last round.
ReturnLast ==
  /\ pc = "conclude"
  /\ record' = <<Conclusion>>
  /\ round' = round + 1
  /\ cases' = <<>>
  /\ pc' = IF round < DIVIDE_ROUND THEN "start" ELSE "returned"
  /\ UNCHANGED <<map, columnPattern, rowPattern, recordColumnPattern, recordRowPattern>>

\* Mutant of Return: the cases of the last round are still there.
ReturnWithoutReset ==
  /\ pc = "conclude"
  /\ record' = IF record = <<>> \/ Conclusion.errorCount < record[1].errorCount
               THEN <<Conclusion>> ELSE record
  /\ round' = round + 1
  /\ pc' = IF round < DIVIDE_ROUND THEN "start" ELSE "returned"
  /\ UNCHANGED <<map, columnPattern, rowPattern, recordColumnPattern, recordRowPattern, cases>>

\* divideCore returns to divide, which keeps the better result.
Return ==
  /\ pc = "conclude"
  /\ record' = IF record = <<>> \/ Conclusion.errorCount < record[1].errorCount
               THEN <<Conclusion>> ELSE record
  /\ round' = round + 1
  /\ cases' = <<>>
  /\ pc' = IF round < DIVIDE_ROUND THEN "start" ELSE "returned"
  /\ UNCHANGED <<map, columnPattern, rowPattern, recordColumnPattern, recordRowPattern>>

Next == StartCase \/ ImproveColumns \/ ImproveRows \/ Return

\* A call in one thread.
Spec == Init /\ [][Next]_vars /\ WF_vars(Next)

-----------------------------------------------------------------------------
\* The variables of divide and divideCore stay in their ranges.
TypeOK ==
  /\ pc \in {"start", "columns", "rows", "conclude", "returned"}
  /\ columnPattern \in [Rows -> BOOLEAN] /\ recordColumnPattern \in [Rows -> BOOLEAN]
  /\ rowPattern \in [Columns -> BOOLEAN] /\ recordRowPattern \in [Columns -> BOOLEAN]
  /\ Len(cases) <= Len(Operation)
  /\ \A c \in Range(cases) \cup Range(record) : c.method \subseteq 0..3 /\ c.errorCount \in Nat
  /\ (pc = "conclude") = (Len(cases) = Len(Operation))
  /\ Len(record) = (IF round = 0 THEN 0 ELSE 1)
  /\ round \in 0..(DIVIDE_ROUND + 1)

Errors(p, op) == ErrorCountWhole(p[1], p[2], op)

\* A pattern changes only when that lowers the number of errors: no value
\* flips on a tie, and each half of an iteration looks at the latest state
\* of the other half.  This is why the loops `while (true)' end.
ErrorsDecrease ==
  [][patterns' # patterns /\ pc \in {"columns", "rows"} =>
       Errors(patterns', Op) < Errors(patterns, Op)]_vars

\* A case ends with two functions neither of which could be exchanged for a
\* better one while the other stays.
LocallyOptimal ==
  pc = "conclude" =>
    \A k \in DOMAIN cases :
      LET c == cases[k]
      IN  /\ \A left \in [Rows -> BOOLEAN] :
               c.errorCount <= ErrorCountWhole(left, c.rightFunc, Operation[k])
          /\ \A right \in [Columns -> BOOLEAN] :
               c.errorCount <= ErrorCountWhole(c.leftFunc, right, Operation[k])

\* The simplified method combines the two functions to the same function as
\* the operation whose errors were counted.
MethodKeepsFunction ==
  pc = "conclude" =>
    \A k \in DOMAIN cases :
      \A i \in Rows, j \in Columns :
        LET term == Index(cases[k].leftFunc[i], cases[k].rightFunc[j])
        IN  (term \in cases[k].method) = (term \in Operation[k])

\* A method never uses a constant function: searchPrcoe leaves the builder
\* of a constant of one input INVALID, and combineBilfBuilder asserts that
\* it does not meet one (lines 84 and 85 of blif_builder.cpp).
NoConstantUsed ==
  pc = "conclude" =>
    \A k \in DOMAIN cases :
      LET m == cases[k].method
      IN  /\ m \notin RightTables \cup ConstTables =>
               cases[k].leftFunc \notin {Zeros(Rows), Ones(Rows)}
          /\ m \notin LeftTables \cup ConstTables =>
               cases[k].rightFunc \notin {Zeros(Columns), Ones(Columns)}

Decomposable ==
  \E op \in {Operation[k] : k \in DOMAIN Operation} :
    \E left \in [Rows -> BOOLEAN], right \in [Columns -> BOOLEAN] :
      map.kmap = [i \in Rows |-> [j \in Columns |-> Index(left[i], right[j]) \in op]]

\* A function that is op(left, right) exactly is found without an error,
\* whatever the random patterns, when the row that lines 186-191 start from
\* is not constant: such a row tells the right function.
ExactIsFound ==
  pc = "conclude" /\ Decomposable
    /\ (\E i \in Unskipped : map.kmap[i] # Ones(Columns) /\ \A h \in Unskipped : i <= h)
    => Conclusion.errorCount = 0

\* The maps that the comments of lines 123-133 describe, where MajorRow is
\* not a constant: "MajorRow + 0s" for AND, "1s + MajorRow" for OR, and
\* "MajorRow + ~MajorRow" for XOR.
MadeOf(op) ==
  \E major \in Range(map.kmap) \ {Zeros(Columns), Ones(Columns)} :
    LET other == CASE op = AND_TABLE -> Zeros(Columns)
                   [] op = OR_TABLE  -> Ones(Columns)
                   [] op = XOR_TABLE -> [j \in Columns |-> ~major[j]]
    IN  Range(map.kmap) \subseteq {major, other}

\* divideCore divides each of these maps without an error.
CasesFitTheirMaps ==
  pc = "conclude" /\ (\E op \in {AND_TABLE, OR_TABLE, XOR_TABLE} : MadeOf(op))
    => Conclusion.errorCount = 0

\* divide returns a result at least as good as any that it saw.
BestKept ==
  [][pc = "conclude" =>
       /\ \A k \in DOMAIN cases : record'[1].errorCount <= cases[k].errorCount
       /\ record # <<>> => record'[1].errorCount <= record[1].errorCount]_vars

\* The improvement loops end, and with them divide.
Returns == <>(pc = "returned")
=============================================================================
