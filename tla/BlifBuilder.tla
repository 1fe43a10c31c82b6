----------------------------- MODULE BlifBuilder -----------------------------
(***************************************************************************)
(* common/blif_builder.cpp: the BLIF body that replaces a cone is put      *)
(* together bottom up, the way AlgorithmDecompose::searchPrcoe and         *)
(* AlgorithmDecomposeSmall::buildFromMatch do it: a leaf for each input,   *)
(* then two results at a time are combined by a two-input truth table.     *)
(* Beside each builder the decomposers keep the Boolean function they      *)
(* believe it has (ResultType::fun); the model does the same.              *)
(*                                                                         *)
(* A signal is a number: the inputs come first, a generated name is the    *)
(* next free number.  A Boolean function is the set of the assignments it  *)
(* holds for, an assignment the set of the inputs that are 1.              *)
(***************************************************************************)
EXTENDS TTable, FiniteSets, Sequences

CONSTANT NumInputs

ASSUME NumInputsAssumption == NumInputs \in Nat \ {0}

VARIABLES
  stack,   \* the results of the calls that have returned and are not combined
  leaves,  \* how many inputs have got their leaf
  nextName \* the next name of the generator

vars == <<stack, leaves, nextName>>

Inputs == 1..NumInputs
Assignments == SUBSET Inputs

-----------------------------------------------------------------------------
\* combineTruthTable, on functions of the same assignments.
CombineTruthTable(f1, f2, table) == {a \in Assignments : Index(a \in f1, a \in f2) \in table}

-----------------------------------------------------------------------------
Builder(type, node) ==
  [type |-> type, node |-> node, data |-> {}, wire |-> {},
   input |-> IF type \in {"INPUT", "REVERSE_INPUT"} THEN {node} ELSE {},
   constant0 |-> IF type = "CONST_0" THEN {node} ELSE {},
   constant1 |-> IF type = "CONST_1" THEN {node} ELSE {}]

\* A name that is not a signal: the empty string.
NoName == 0

BuildConst(node, value) ==
  Builder(IF node = NoName THEN "INVALID" ELSE IF value THEN "CONST_1" ELSE "CONST_0", node)

BuildInput(node, value) == Builder(IF value THEN "REVERSE_INPUT" ELSE "INPUT", node)

\* The branches of the four tables that only look at one operand: ret is a
\* copy of it, and a wire leads from its node to the new output.
Connect(d, negate, newOutput) ==
  [type |-> "NET", node |-> newOutput, data |-> d.data,
   wire |-> d.wire \cup {[in |-> d.node, out |-> newOutput, negate |-> negate]},
   input |-> d.input, constant0 |-> d.constant0, constant1 |-> d.constant1]

\* Mutant of CombineGate: the operands are taken as they stand.
CombineGateUnflipped(d1, d2, table, newOutput) ==
  [type |-> "NET", node |-> newOutput,
   data |-> d1.data \cup d2.data \cup
             {[in1 |-> d1.node, in2 |-> d2.node, out |-> newOutput, method |-> table]},
   wire |-> d1.wire \cup d2.wire,
   input |-> d1.input \cup d2.input,
   constant0 |-> d1.constant0 \cup d2.constant0,
   constant1 |-> d1.constant1 \cup d2.constant1]

\* Mutant of CombineGate: the constants of the right operand are forgotten.
CombineGateLeftConstants(d1, d2, table, newOutput) ==
  [type |-> "NET", node |-> newOutput,
   data |-> d1.data \cup d2.data \cup
             {[in1 |-> d1.node, in2 |-> d2.node, out |-> newOutput, method |-> table]},
   wire |-> d1.wire \cup d2.wire,
   input |-> d1.input \cup d2.input,
   constant0 |-> d1.constant0,
   constant1 |-> d1.constant1]

\* The general case: a gate reads the nodes of both operands, through a
\* table that makes up for complemented inputs.
CombineGate(d1, d2, table, newOutput) ==
  LET method == FlipBinaryTTableInput(table, d1.type = "REVERSE_INPUT",
                                             d2.type = "REVERSE_INPUT")
  IN  [type |-> "NET", node |-> newOutput,
       data |-> d1.data \cup d2.data \cup
                 {[in1 |-> d1.node, in2 |-> d2.node, out |-> newOutput, method |-> method]},
       wire |-> d1.wire \cup d2.wire,
       input |-> d1.input \cup d2.input,
       constant0 |-> d1.constant0 \cup d2.constant0,
       constant1 |-> d1.constant1 \cup d2.constant1]

\* The branches for RIGHT_RELA look at the type of d1, not of d2.
CombineBlifBuilder(d1, d2, table, newOutput) ==
  CASE table \in ConstTables -> BuildConst(newOutput, table = ALL_IRR_TABLE_1)
    [] table \in LeftTables  ->
         Connect(d1, (table = Not(LEFT_RELA_TABLE)) # (d1.type = "REVERSE_INPUT"), newOutput)
    [] table \in RightTables ->
         Connect(d2, (table = Not(RIGHT_RELA_TABLE)) # (d1.type = "REVERSE_INPUT"), newOutput)
    [] OTHER -> CombineGate(d1, d2, table, newOutput)

-----------------------------------------------------------------------------
Init ==
  /\ stack = <<>>
  /\ leaves = 0
  /\ nextName = NumInputs + 1

Push(builder, fun) ==
  /\ stack' = Append(stack, [deInfo |-> builder, fun |-> fun, mixed |-> FALSE])
  /\ leaves' = leaves + 1
  /\ UNCHANGED nextName

\* A function of one input that is the input or its complement.
PushInput ==
  /\ leaves < NumInputs
  /\ \E negated \in BOOLEAN :
       LET i == leaves + 1
       IN  Push(BuildInput(i, negated), {a \in Assignments : (i \in a) # negated})

\* A function of one input that is a constant: deInfo stays as constructed.
PushConstant ==
  /\ leaves < NumInputs
  /\ \E value \in BOOLEAN :
       Push(BuildConst(NoName, TRUE), IF value THEN Assignments ELSE {})

\* The result of a call with the results d1 and d2 of its two subfunctions.
\* Its output gets a name of its own.
Combined(d1, d2, table) ==
  [deInfo |-> CombineBlifBuilder(d1.deInfo, d2.deInfo, table, nextName),
   fun    |-> CombineTruthTable(d1.fun, d2.fun, table),
   mixed  |-> \/ d1.mixed \/ d2.mixed
              \/ /\ table \in RightTables
                 /\ (d1.deInfo.type = "REVERSE_INPUT") # (d2.deInfo.type = "REVERSE_INPUT")]

\* The two results that a call combines, the left one below the right one.
Left == stack[Len(stack) - 1]
Right == stack[Len(stack)]

\* Mutant of Return: the generator returns the same name again.
ReturnReusingName(table) ==
  /\ stack' = Append(SubSeq(stack, 1, Len(stack) - 2), Combined(Left, Right, table))
  /\ UNCHANGED <<leaves, nextName>>

Return(table) ==
  /\ stack' = Append(SubSeq(stack, 1, Len(stack) - 2), Combined(Left, Right, table))
  /\ nextName' = nextName + 1
  /\ UNCHANGED leaves

IsLeaf(d) == d.deInfo.type \in {"INPUT", "REVERSE_INPUT", "INVALID"}
IsInvalid(d) == d.deInfo.type = "INVALID"

\* searchPrcoe: the table is the method of a division by Kmap::divide, which
\* only ignores an operand whose function is constant.
CombineDivision ==
  /\ Len(stack) >= 2
  /\ \/ \E table \in ConstTables : Return(table)
     \/ \E table \in LeftTables :
          /\ Right.fun = Assignments \/ (Right.fun = {} /\ table = LEFT_RELA_TABLE)
          /\ ~IsInvalid(Left) /\ Return(table)
     \/ \E table \in RightTables :
          /\ Left.fun = Assignments \/ (Left.fun = {} /\ table = RIGHT_RELA_TABLE)
          /\ ~IsInvalid(Right) /\ Return(table)
     \/ \E table \in {AND_TABLE, OR_TABLE, XOR_TABLE} :
          ~IsInvalid(Left) /\ ~IsInvalid(Right) /\ Return(table)

\* buildFromMatch: the table is the combine of an entry of the database.
\* No part of an entry is a constant, and its right part is not a leaf.
CombineMatch ==
  /\ Len(stack) >= 2
  /\ ~IsInvalid(Left) /\ ~IsLeaf(Right)
  /\ \E table \in {LEFT_RELA_TABLE, RIGHT_RELA_TABLE, AND_TABLE, Not(AND_TABLE),
                   XOR_TABLE, Not(XOR_TABLE)} : Return(table)

\* buildFromMatch: a part with two inputs is any table of the two.
CombineTwoInputs ==
  /\ Len(stack) >= 2
  /\ Left.deInfo.type = "INPUT" /\ Right.deInfo.type = "INPUT"
  /\ \E table \in SUBSET (0..3) : Return(table)

Next == PushInput \/ PushConstant \/ CombineDivision \/ CombineMatch \/ CombineTwoInputs

Spec == Init /\ [][Next]_vars

-----------------------------------------------------------------------------
Outs(b) == {w.out : w \in b.wire} \cup {c.out : c \in b.data}

\* The drivers that printBody writes for signal s.
Drivers(b, s) ==
  Cardinality({w \in b.wire : w.out = s}) + Cardinality({c \in b.data : c.out = s})
    + Cardinality({s} \cap b.constant0) + Cardinality({s} \cap b.constant1)

\* The function of each signal of the written body.  A line reads signals
\* with smaller numbers than the one it drives.
Values(b) ==
  LET value[s \in 1..(nextName - 1)] ==
        IF s \in b.constant0 THEN {}
        ELSE IF s \in b.constant1 THEN Assignments
        ELSE IF \E w \in b.wire : w.out = s
        THEN LET w == CHOOSE w \in b.wire : w.out = s
             IN  IF w.negate THEN Assignments \ value[w.in] ELSE value[w.in]
        ELSE IF \E c \in b.data : c.out = s
        THEN LET c == CHOOSE c \in b.data : c.out = s
             IN  CombineTruthTable(value[c.in1], value[c.in2], c.method)
        ELSE {a \in Assignments : s \in a}
  IN  value

\* What a builder stands for: its node, or the complement of its node.
Denotes(b) ==
  IF b.type = "REVERSE_INPUT" THEN Assignments \ Values(b)[b.node] ELSE Values(b)[b.node]

\* Types, names and functions stay in their ranges, and a builder has at
\* most one gate for every pair of operands that was combined.
TypeOK ==
  /\ leaves \in 0..NumInputs
  /\ Len(stack) <= leaves
  /\ nextName \in (NumInputs + 1)..(2 * NumInputs + 1)
  /\ nextName = NumInputs + 1 + leaves - Len(stack)
  /\ \A i \in DOMAIN stack :
       LET b == stack[i].deInfo
       IN  /\ b.type \in {"INVALID", "INPUT", "REVERSE_INPUT", "CONST_0", "CONST_1", "NET"}
           /\ b.node \in 0..(nextName - 1)
           /\ b.input \subseteq Inputs
           /\ Cardinality(b.data) < NumInputs
           /\ stack[i].fun \subseteq Assignments

\* The body of a builder drives each of its signals once, and reads only
\* signals that it drives or that are among its inputs: the lists that
\* combineBilfBuilder concatenates belong together.
BodyClosed ==
  \A i \in DOMAIN stack :
    LET b == stack[i].deInfo
        driven == Outs(b) \cup b.constant0 \cup b.constant1
        read == {w.in : w \in b.wire} \cup UNION {{c.in1, c.in2} : c \in b.data}
    IN  b.type # "INVALID" =>
          /\ \A s \in driven : Drivers(b, s) = 1
          /\ driven \cap b.input = {}
          /\ read \cup {b.node} \subseteq driven \cup b.input

\* A builder has the function the decomposer keeps beside it, the one whose
\* errors it counted (line 198 of driver/mffc.cpp asserts it of the result).
DenotesFunction ==
  \A i \in DOMAIN stack :
    stack[i].deInfo.type # "INVALID" => Denotes(stack[i].deInfo) = stack[i].fun

\* The same, as long as no RIGHT_RELA table was used with operands of which
\* only one is a complemented input: lines 65 and 77 of blif_builder.cpp
\* then look at the wrong one of the two, and nothing else goes wrong.
DenotesFunctionUnlessMixed ==
  \A i \in DOMAIN stack :
    stack[i].deInfo.type # "INVALID" /\ ~stack[i].mixed
      => Denotes(stack[i].deInfo) = stack[i].fun
=============================================================================
