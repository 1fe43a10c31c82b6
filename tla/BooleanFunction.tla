--------------------------- MODULE BooleanFunction ---------------------------
(***************************************************************************)
(* The functions of approxiamate/src/boolean_function.cpp and how they are *)
(* divided.  A function is the set of its inputs (the ports i whose        *)
(* portName[i] is 1) and the set of the assignments it is true for; an     *)
(* assignment is the set of the inputs that are 1.  A KMap has a row for   *)
(* each assignment of the left inputs and a column for each of the right.  *)
(***************************************************************************)
EXTENDS Naturals, Sequences, FiniteSets, FiniteSetsExt

CONSTANT DONTCAREBOND  \* how many undecided columns findBestMajorRow tries

ASSUME DontCareAssumption == DONTCAREBOND \in Nat

FunctionsOver(ports) == [ins : SUBSET ports, on : SUBSET SUBSET ports]

IsConstant(f) == f.on \in {{}, SUBSET f.ins}

Differing(A, B) == Cardinality((A \ B) \cup (B \ A))

\* booleanCompare, of functions of the same inputs.
BooleanCompare(f, g) == Differing(f.on, g.on)

Apply(oper, a, b) ==
  CASE oper = "and"  -> a /\ b
    [] oper = "or"   -> a \/ b
    [] oper = "xor"  -> a # b
    [] oper = "drop" -> a
    [] OTHER         -> FALSE

Combine(f, g, oper) ==
  [ins |-> f.ins \cup g.ins,
   on  |-> {a \in SUBSET (f.ins \cup g.ins) :
              Apply(oper, a \cap f.ins \in f.on, a \cap g.ins \in g.on)}]

-----------------------------------------------------------------------------
\* The columns of row r in which the map is 1.
Row(f, right, r) == {c \in SUBSET right : r \cup c \in f.on}

\* getKMap counts the last port as the lowest bit of the column.
Column(right, c) == MapThenSumSet(LAMBDA i : 2^Cardinality({j \in right : j > i}), c)

\* The two patterns a row may be given, for a major row M.
Mode0(oper, M) == IF oper \in {"and", "drop"} THEN {} ELSE M
Mode1(oper, right, M) ==
  CASE oper = "and" -> M
    [] oper = "xor" -> (SUBSET right) \ M
    [] OTHER        -> SUBSET right

\* findDifference: the errors of the better pattern, and whether it is the
\* second one.
TakesMode1(oper, right, M, row) ==
  Differing(Mode1(oper, right, M), row) < Differing(Mode0(oper, M), row)

RowError(oper, right, M, row) ==
  IF TakesMode1(oper, right, M, row)
  THEN Differing(Mode1(oper, right, M), row) ELSE Differing(Mode0(oper, M), row)

ErrorOf(f, left, right, oper, M) ==
  MapThenSumSet(LAMBDA r : RowError(oper, right, M, Row(f, right, r)), SUBSET left)

\* The rows findMajorRow counts: for AND no row of 0s, for OR no row of 1s.
Counted(f, left, right, oper) ==
  {r \in SUBSET left : /\ oper = "and" => Row(f, right, r) # {}
                       /\ oper = "or" => Row(f, right, r) # SUBSET right}

\* Of the undecided columns, the last DONTCAREBOND are tried both ways.
Tried(right, notSure) ==
  {c \in notSure :
     Cardinality({d \in notSure : Column(right, d) > Column(right, c)}) < DONTCAREBOND}

\* findBestMajorRow: counting upwards, the first choice of columns that has
\* the fewest errors when it is added to the decided ones.
BestChoice(f, left, right, oper, decided, tried) ==
  LET err     == [X \in SUBSET tried |-> ErrorOf(f, left, right, oper, decided \cup X)]
      turn(X) == MapThenSumSet(LAMBDA c : 2^Column(right, c), X)
      best    == {X \in SUBSET tried : \A Y \in SUBSET tried : err[X] <= err[Y]}
  IN  CHOOSE X \in best : \A Y \in best : turn(X) <= turn(Y)

\* findMajorRow: the columns that most rows are 1 in are decided; those that
\* half of the rows are 1 in are not sure.
MajorRow(f, left, right, oper) ==
  LET rows    == Counted(f, left, right, oper)
      ones(c) == Cardinality({r \in rows : r \cup c \in f.on})
      decided == {c \in SUBSET right : 2 * ones(c) > Cardinality(rows)}
      notSure == {c \in SUBSET right : 2 * ones(c) = Cardinality(rows)}
  IN  decided \cup BestChoice(f, left, right, oper, decided, Tried(right, notSure))

\* The parts for the major row M.
Approximation(f, left, right, oper, M) ==
  [left  |-> [ins |-> left,
              on  |-> {r \in SUBSET left : TakesMode1(oper, right, M, Row(f, right, r))}],
   right |-> [ins |-> right, on |-> M],
   error |-> ErrorOf(f, left, right, oper, M),
   oper  |-> oper]

\* findMinError1 to findMinError4.
FindMinError(f, left, right, oper) ==
  Approximation(f, left, right, oper,
                IF oper = "drop" THEN {} ELSE MajorRow(f, left, right, oper))

FirstLeast(results) ==
  results[Min({k \in DOMAIN results :
                 \A j \in DOMAIN results : results[k].error <= results[j].error})]

\* divide: the method with the fewest errors, the earlier one of a tie.
Divide(f, left, right, ignoreXor) ==
  LET result(oper) == FindMinError(f, left, right, oper)
  IN  FirstLeast(<< result("drop"), result("and"), result("or") >>
                   \o IF ignoreXor THEN <<>> ELSE << result("xor") >>)
=============================================================================
