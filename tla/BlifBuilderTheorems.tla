------------------------- MODULE BlifBuilderTheorems -------------------------
(***************************************************************************)
(* What combineBilfBuilder keeps true of the bodies it puts together, for  *)
(* any number of inputs: every builder on the stack drives its signals     *)
(* once and reads nothing else (BodyClosed).  The reason is that the names *)
(* a builder drives are all generated ones, that no two builders on the    *)
(* stack drive the same name, and that the next name is still free.        *)
(* For the same reasons a line keeps its meaning in a larger body, and a   *)
(* builder has the function that is kept beside it (the second invariant,  *)
(* FunInv), except where combineBilfBuilder looks at the wrong operand.    *)
(***************************************************************************)
EXTENDS BlifBuilder, CommonTheorems, FiniteSetTheorems

Types == {"INVALID", "INPUT", "REVERSE_INPUT", "CONST_0", "CONST_1", "NET"}

Wires == [in : Nat, out : Nat, negate : BOOLEAN]
Gates == [in1 : Nat, in2 : Nat, out : Nat, method : SUBSET (0..3)]

Builders ==
  [type : Types, node : Nat, data : SUBSET Gates, wire : SUBSET Wires,
   input : SUBSET Inputs, constant0 : SUBSET Nat, constant1 : SUBSET Nat]

Driven(b) == Outs(b) \cup b.constant0 \cup b.constant1
Read(b) == {w.in : w \in b.wire} \cup UNION {{c.in1, c.in2} : c \in b.data}

\* The names that have been generated before the name next.
Generated(next) == (NumInputs + 1)..(next - 1)

\* What is true of a builder when next is the next name.
WellFormed(b, next) ==
  /\ b \in Builders
  /\ IsFiniteSet(b.data) /\ IsFiniteSet(b.wire)
  /\ Driven(b) \subseteq Generated(next)
  /\ \A s \in Driven(b) : Drivers(b, s) = 1
  /\ IF b.type = "INVALID" THEN b.node = NoName
     ELSE Read(b) \cup {b.node} \subseteq Driven(b) \cup b.input

Results == [deInfo : Builders, fun : SUBSET Assignments, mixed : BOOLEAN]

\* The inductive invariant.
BInv ==
  /\ stack \in Seq(Results)
  /\ leaves \in 0..NumInputs
  /\ Len(stack) <= leaves
  /\ nextName = NumInputs + 1 + leaves - Len(stack)
  /\ \A i \in DOMAIN stack : WellFormed(stack[i].deInfo, nextName)
  /\ \A i, j \in DOMAIN stack :
       i # j => Driven(stack[i].deInfo) \cap Driven(stack[j].deInfo) = {}

-----------------------------------------------------------------------------
(***************************************************************************)
(* Builders.                                                               *)
(***************************************************************************)

\* A new builder has the fields of the constructor.
LEMMA BuilderFields ==
  ASSUME NEW type \in Types, NEW node \in Nat,
         type \in {"INPUT", "REVERSE_INPUT"} => node \in Inputs
  PROVE  LET b == Builder(type, node)
         IN  /\ b \in Builders
             /\ b.type = type /\ b.node = node /\ b.data = {} /\ b.wire = {}
             /\ b.input = IF type \in {"INPUT", "REVERSE_INPUT"} THEN {node} ELSE {}
             /\ b.constant0 = IF type = "CONST_0" THEN {node} ELSE {}
             /\ b.constant1 = IF type = "CONST_1" THEN {node} ELSE {}
BY DEF Builder, Builders, Types

\* A leaf drives nothing; its node is its input.
LEMMA LeafWellFormed ==
  ASSUME NEW i \in Inputs, NEW value \in BOOLEAN, NEW next
  PROVE  /\ WellFormed(BuildInput(i, value), next)
         /\ Driven(BuildInput(i, value)) = {}
<1> DEFINE b == BuildInput(i, value)
<1>1. /\ b \in Builders /\ b.type \in {"INPUT", "REVERSE_INPUT"} /\ b.node = i
      /\ b.data = {} /\ b.wire = {} /\ b.input = {i} /\ b.constant0 = {} /\ b.constant1 = {}
  BY BuilderFields DEF BuildInput, Types, Inputs
<1>2. Driven(b) = {} /\ Read(b) = {}
  BY <1>1 DEF Driven, Read, Outs
<1> QED
  BY <1>1, <1>2, FS_EmptySet DEF WellFormed

\* The builder that a constant function of one input leaves.
LEMMA InvalidWellFormed ==
  ASSUME NEW next
  PROVE  /\ WellFormed(BuildConst(NoName, TRUE), next)
         /\ Driven(BuildConst(NoName, TRUE)) = {}
<1> DEFINE b == BuildConst(NoName, TRUE)
<1>1. /\ b \in Builders /\ b.type = "INVALID" /\ b.node = NoName
      /\ b.data = {} /\ b.wire = {} /\ b.input = {} /\ b.constant0 = {} /\ b.constant1 = {}
  BY BuilderFields DEF BuildConst, Types, NoName
<1>2. Driven(b) = {}
  BY <1>1 DEF Driven, Outs
<1> QED
  BY <1>1, <1>2, FS_EmptySet DEF WellFormed

\* A builder stays well formed when a further name is generated.
LEMMA WellFormedLater ==
  ASSUME NEW next \in Nat, NEW b, WellFormed(b, next)
  PROVE  WellFormed(b, next + 1)
<1>1. Generated(next) \subseteq Generated(next + 1)
  BY NumInputsAssumption DEF Generated
<1> QED
  BY <1>1 DEF WellFormed

\* A signal has one driver when one of the four lists drives it, once.
LEMMA OneDriver ==
  ASSUME NEW b, NEW s, NEW x,
         \/ /\ {w \in b.wire : w.out = s} = {x} /\ {c \in b.data : c.out = s} = {}
            /\ {s} \cap b.constant0 = {} /\ {s} \cap b.constant1 = {}
         \/ /\ {w \in b.wire : w.out = s} = {} /\ {c \in b.data : c.out = s} = {x}
            /\ {s} \cap b.constant0 = {} /\ {s} \cap b.constant1 = {}
         \/ /\ {w \in b.wire : w.out = s} = {} /\ {c \in b.data : c.out = s} = {}
            /\ {s} \cap b.constant0 = {x} /\ {s} \cap b.constant1 = {}
         \/ /\ {w \in b.wire : w.out = s} = {} /\ {c \in b.data : c.out = s} = {}
            /\ {s} \cap b.constant0 = {} /\ {s} \cap b.constant1 = {x}
  PROVE  Drivers(b, s) = 1
<1> DEFINE W == Cardinality({w \in b.wire : w.out = s})
           C == Cardinality({c \in b.data : c.out = s})
           Zero == Cardinality({s} \cap b.constant0)
           One == Cardinality({s} \cap b.constant1)
<1>1. Cardinality({}) = 0 /\ Cardinality({x}) = 1
  BY FS_EmptySet, FS_Singleton
<1>2. \/ W = 1 /\ C = 0 /\ Zero = 0 /\ One = 0
      \/ W = 0 /\ C = 1 /\ Zero = 0 /\ One = 0
      \/ W = 0 /\ C = 0 /\ Zero = 1 /\ One = 0
      \/ W = 0 /\ C = 0 /\ Zero = 0 /\ One = 1
  BY <1>1, Zenon
<1>3. Drivers(b, s) = W + C + Zero + One
  BY DEF Drivers
<1> HIDE DEF W, C, Zero, One
<1> QED
  BY <1>2, <1>3

\* A constant drives its node.
LEMMA ConstWellFormed ==
  ASSUME NEW next \in Nat, next > NumInputs, NEW value \in BOOLEAN
  PROVE  /\ WellFormed(BuildConst(next, value), next + 1)
         /\ Driven(BuildConst(next, value)) = {next}
<1> DEFINE b == BuildConst(next, value)
<1> USE NumInputsAssumption
<1>1. next # NoName
  BY DEF NoName
<1>2. /\ b \in Builders /\ b.type \in {"CONST_0", "CONST_1"} /\ b.node = next
      /\ b.data = {} /\ b.wire = {} /\ b.input = {}
      /\ \/ b.constant0 = {next} /\ b.constant1 = {}
         \/ b.constant0 = {} /\ b.constant1 = {next}
  BY <1>1, BuilderFields DEF BuildConst, Types
<1>3. Driven(b) = {next} /\ Read(b) = {}
  BY <1>2 DEF Driven, Read, Outs
<1>4. Drivers(b, next) = 1
  <2>1. {w \in b.wire : w.out = next} = {} /\ {c \in b.data : c.out = next} = {}
    BY <1>2
  <2>2. \/ {next} \cap b.constant0 = {next} /\ {next} \cap b.constant1 = {}
        \/ {next} \cap b.constant0 = {} /\ {next} \cap b.constant1 = {next}
    BY <1>2
  <2> QED
    BY <2>1, <2>2, OneDriver
<1>5. next \in Generated(next + 1)
  BY DEF Generated
<1> QED
  BY <1>2, <1>3, <1>4, <1>5, FS_EmptySet DEF WellFormed

\* A new name is no generated one, and comes after all others.
LEMMA NewName ==
  ASSUME NEW next \in Nat, next > NumInputs
  PROVE  /\ next \notin Generated(next)
         /\ Generated(next) \cup {next} \subseteq Generated(next + 1)
BY NumInputsAssumption DEF Generated

\* The drivers of a signal depend on the lines that drive it, and no others.
LEMMA SameDrivers ==
  ASSUME NEW b, NEW d, NEW s,
         {w \in b.wire : w.out = s} = {w \in d.wire : w.out = s},
         {c \in b.data : c.out = s} = {c \in d.data : c.out = s},
         {s} \cap b.constant0 = {s} \cap d.constant0,
         {s} \cap b.constant1 = {s} \cap d.constant1
  PROVE  Drivers(b, s) = Drivers(d, s)
BY DEF Drivers

\* The tables that look at one operand: the wire drives the new name, and
\* everything else is driven as before.
LEMMA ConnectWellFormed ==
  ASSUME NEW next \in Nat, next > NumInputs, NEW negate \in BOOLEAN,
         NEW d, WellFormed(d, next), d.type # "INVALID"
  PROVE  /\ WellFormed(Connect(d, negate, next), next + 1)
         /\ Driven(Connect(d, negate, next)) = Driven(d) \cup {next}
<1> DEFINE b == Connect(d, negate, next)
           wire == [in |-> d.node, out |-> next, negate |-> negate]
<1>1. d \in Builders
  BY DEF WellFormed
<1>2. /\ b.type = "NET" /\ b.node = next /\ b.data = d.data
      /\ b.wire = d.wire \cup {wire} /\ b.input = d.input
      /\ b.constant0 = d.constant0 /\ b.constant1 = d.constant1
  BY DEF Connect
<1>3. wire \in Wires
  BY <1>1 DEF Wires, Builders
<1>4. b \in Builders
  BY <1>1, <1>3 DEF Connect, Builders, Types
<1>13. wire.in = d.node /\ wire.out = next
  OBVIOUS
<1> HIDE DEF b, wire
<1>5. Driven(b) = Driven(d) \cup {next}
  BY <1>2, <1>13 DEF Driven, Outs
<1>6. next \notin Driven(d)
  BY NewName DEF WellFormed
<1>7. ASSUME NEW s \in Driven(b)
      PROVE  Drivers(b, s) = 1
  <2>1. CASE s = next
    <3>1. {w \in b.wire : w.out = s} = {wire} /\ {c \in b.data : c.out = s} = {}
      BY <1>2, <1>6, <1>13, <2>1 DEF Driven, Outs
    <3>2. {s} \cap b.constant0 = {} /\ {s} \cap b.constant1 = {}
      BY <1>2, <1>6, <2>1 DEF Driven
    <3> QED
      BY <3>1, <3>2, OneDriver
  <2>2. CASE s # next
    <3>1. {w \in b.wire : w.out = s} = {w \in d.wire : w.out = s}
      BY <1>2, <1>13, <2>2
    <3>2. Drivers(b, s) = Drivers(d, s)
      BY <1>2, <3>1, SameDrivers
    <3> QED
      BY <1>5, <2>2, <3>2 DEF WellFormed
  <2> QED
    BY <2>1, <2>2
<1>8. Read(b) = Read(d) \cup {d.node}
  BY <1>2, <1>13 DEF Read
<1>9. IsFiniteSet(b.wire) /\ IsFiniteSet(b.data)
  <2>1. IsFiniteSet(d.wire) /\ IsFiniteSet(d.data)
    BY DEF WellFormed
  <2> QED
    BY <1>2, <2>1, FS_AddElement
<1>10. Driven(b) \subseteq Generated(next + 1)
  BY <1>5, NewName DEF WellFormed
<1>11. Read(b) \cup {b.node} \subseteq Driven(b) \cup b.input
  BY <1>2, <1>5, <1>8 DEF WellFormed
<1>12. WellFormed(b, next + 1)
  BY <1>2, <1>4, <1>7, <1>9, <1>10, <1>11 DEF WellFormed
<1> QED
  BY <1>5, <1>12 DEF b

\* A gate drives the new name; as the operands drive different names, each
\* of these is driven as before.
LEMMA GateWellFormed ==
  ASSUME NEW next \in Nat, next > NumInputs, NEW table,
         NEW d1, WellFormed(d1, next), d1.type # "INVALID",
         NEW d2, WellFormed(d2, next), d2.type # "INVALID",
         Driven(d1) \cap Driven(d2) = {}
  PROVE  /\ WellFormed(CombineGate(d1, d2, table, next), next + 1)
         /\ Driven(CombineGate(d1, d2, table, next)) = Driven(d1) \cup Driven(d2) \cup {next}
<1> DEFINE b == CombineGate(d1, d2, table, next)
           method == FlipBinaryTTableInput(table, d1.type = "REVERSE_INPUT",
                                                  d2.type = "REVERSE_INPUT")
           gate == [in1 |-> d1.node, in2 |-> d2.node, out |-> next, method |-> method]
<1>1. d1 \in Builders /\ d2 \in Builders
  BY DEF WellFormed
<1>3. /\ b.type = "NET" /\ b.node = next /\ b.data = d1.data \cup d2.data \cup {gate}
      /\ b.wire = d1.wire \cup d2.wire /\ b.input = d1.input \cup d2.input
      /\ b.constant0 = d1.constant0 \cup d2.constant0
      /\ b.constant1 = d1.constant1 \cup d2.constant1
  BY DEF CombineGate
<1>4. gate \in Gates
  <2>1. method \in SUBSET (0..3)
    BY FlippedIsTable
  <2> HIDE DEF method
  <2> QED
    BY <1>1, <2>1 DEF Gates, Builders
<1>5. b \in Builders
  <2>1. /\ b.data \in SUBSET Gates /\ b.wire \in SUBSET Wires /\ b.input \in SUBSET Inputs
        /\ b.constant0 \in SUBSET Nat /\ b.constant1 \in SUBSET Nat
    <3> HIDE DEF b, gate
    <3> QED
      BY <1>1, <1>3, <1>4 DEF Builders
  <2> QED
    BY <2>1, <1>3 DEF CombineGate, Builders, Types
<1>14. gate.in1 = d1.node /\ gate.in2 = d2.node /\ gate.out = next
  OBVIOUS
<1> HIDE DEF b, gate, method
<1>6. Driven(b) = Driven(d1) \cup Driven(d2) \cup {next}
  BY <1>3, <1>14 DEF Driven, Outs
<1>7. next \notin Driven(d1) /\ next \notin Driven(d2)
  BY NewName DEF WellFormed
<1>8. ASSUME NEW s \in Driven(b)
      PROVE  Drivers(b, s) = 1
  <2>1. CASE s = next
    <3>1. {w \in b.wire : w.out = s} = {} /\ {c \in b.data : c.out = s} = {gate}
      BY <1>3, <1>7, <1>14, <2>1 DEF Driven, Outs
    <3>2. {s} \cap b.constant0 = {} /\ {s} \cap b.constant1 = {}
      BY <1>3, <1>7, <2>1 DEF Driven
    <3> QED
      BY <3>1, <3>2, OneDriver
  <2>2. CASE s \in Driven(d1)
    <3>1. s \notin Driven(d2) /\ s # next
      BY <1>7, <2>2
    <3>2. /\ {w \in b.wire : w.out = s} = {w \in d1.wire : w.out = s}
          /\ {c \in b.data : c.out = s} = {c \in d1.data : c.out = s}
      BY <1>3, <1>14, <3>1 DEF Driven, Outs
    <3>3. /\ {s} \cap b.constant0 = {s} \cap d1.constant0
          /\ {s} \cap b.constant1 = {s} \cap d1.constant1
      BY <1>3, <3>1 DEF Driven
    <3>4. Drivers(b, s) = Drivers(d1, s)
      BY <3>2, <3>3, SameDrivers
    <3> QED
      BY <2>2, <3>4 DEF WellFormed
  <2>3. CASE s \in Driven(d2)
    <3>1. s \notin Driven(d1) /\ s # next
      BY <1>7, <2>3
    <3>2. /\ {w \in b.wire : w.out = s} = {w \in d2.wire : w.out = s}
          /\ {c \in b.data : c.out = s} = {c \in d2.data : c.out = s}
      BY <1>3, <1>14, <3>1 DEF Driven, Outs
    <3>3. /\ {s} \cap b.constant0 = {s} \cap d2.constant0
          /\ {s} \cap b.constant1 = {s} \cap d2.constant1
      BY <1>3, <3>1 DEF Driven
    <3>4. Drivers(b, s) = Drivers(d2, s)
      BY <3>2, <3>3, SameDrivers
    <3> QED
      BY <2>3, <3>4 DEF WellFormed
  <2> QED
    BY <1>6, <2>1, <2>2, <2>3
<1>9. Read(b) = Read(d1) \cup Read(d2) \cup {d1.node, d2.node}
  BY <1>3, <1>14 DEF Read
<1>10. IsFiniteSet(b.wire) /\ IsFiniteSet(b.data)
  <2>1. IsFiniteSet(d1.data \cup d2.data) /\ IsFiniteSet(d1.wire \cup d2.wire)
    BY FS_Union DEF WellFormed
  <2>2. IsFiniteSet((d1.data \cup d2.data) \cup {gate})
    BY <2>1, FS_AddElement
  <2> QED
    BY <1>3, <2>1, <2>2
<1>11. Driven(b) \subseteq Generated(next + 1)
  BY <1>6, NewName DEF WellFormed
<1>12. Read(b) \cup {b.node} \subseteq Driven(b) \cup b.input
  BY <1>3, <1>6, <1>9 DEF WellFormed
<1>13. WellFormed(b, next + 1)
  BY <1>3, <1>5, <1>8, <1>10, <1>11, <1>12 DEF WellFormed
<1> QED
  BY <1>6, <1>13 DEF b

\* The operands that combineBilfBuilder reads were built.
Combinable(d1, d2, table) ==
  \/ table \in ConstTables
  \/ table \in LeftTables /\ d1.type # "INVALID"
  \/ table \in RightTables /\ d2.type # "INVALID"
  \/ d1.type # "INVALID" /\ d2.type # "INVALID"

\* The branches of combineBilfBuilder: which one depends on the table.
LEMMA Branches ==
  ASSUME NEW d1, NEW d2, NEW table, NEW next
  PROVE  LET b == CombineBlifBuilder(d1, d2, table, next)
             rev == d1.type = "REVERSE_INPUT"
         IN  /\ table \in ConstTables => b = BuildConst(next, table = ALL_IRR_TABLE_1)
             /\ table \in LeftTables => b = Connect(d1, (table = Not(LEFT_RELA_TABLE)) # rev, next)
             /\ table \in RightTables => b = Connect(d2, (table = Not(RIGHT_RELA_TABLE)) # rev, next)
             /\ table \notin ConstTables \cup LeftTables \cup RightTables =>
                  b = CombineGate(d1, d2, table, next)
<1> DEFINE b == CombineBlifBuilder(d1, d2, table, next)
<1>1. CASE table \in ConstTables
  <2>1. table \notin LeftTables /\ table \notin RightTables
    BY <1>1, TablesDiffer
  <2>2. b = BuildConst(next, table = ALL_IRR_TABLE_1)
    BY <1>1, <2>1 DEF CombineBlifBuilder
  <2> QED
    BY <1>1, <2>1, <2>2
<1>2. CASE table \in LeftTables
  <2>1. table \notin ConstTables /\ table \notin RightTables
    BY <1>2, TablesDiffer
  <2>2. b = Connect(d1, (table = Not(LEFT_RELA_TABLE)) # (d1.type = "REVERSE_INPUT"), next)
    BY <1>2, <2>1 DEF CombineBlifBuilder
  <2> QED
    BY <1>2, <2>1, <2>2
<1>3. CASE table \in RightTables
  <2>1. table \notin ConstTables /\ table \notin LeftTables
    BY <1>3, TablesDiffer
  <2>2. b = Connect(d2, (table = Not(RIGHT_RELA_TABLE)) # (d1.type = "REVERSE_INPUT"), next)
    BY <1>3, <2>1 DEF CombineBlifBuilder
  <2> QED
    BY <1>3, <2>1, <2>2
<1>4. CASE table \notin ConstTables \cup LeftTables \cup RightTables
  <2>1. b = CombineGate(d1, d2, table, next)
    BY <1>4 DEF CombineBlifBuilder
  <2> QED
    BY <1>4, <2>1
<1> QED
  BY <1>1, <1>2, <1>3, <1>4

\* Whatever branch combineBilfBuilder takes, the new builder drives the new
\* name and names of its operands, and no more.
LEMMA CombinedWellFormed ==
  ASSUME NEW next \in Nat, next > NumInputs, NEW table,
         NEW d1, WellFormed(d1, next), NEW d2, WellFormed(d2, next),
         Driven(d1) \cap Driven(d2) = {}, Combinable(d1, d2, table)
  PROVE  LET b == CombineBlifBuilder(d1, d2, table, next)
         IN  /\ WellFormed(b, next + 1)
             /\ Driven(b) \subseteq Driven(d1) \cup Driven(d2) \cup {next}
<1> DEFINE b == CombineBlifBuilder(d1, d2, table, next)
           negateLeft == (table = Not(LEFT_RELA_TABLE)) # (d1.type = "REVERSE_INPUT")
           negateRight == (table = Not(RIGHT_RELA_TABLE)) # (d1.type = "REVERSE_INPUT")
<1>1. CASE table \in ConstTables
  <2>1. b = BuildConst(next, table = ALL_IRR_TABLE_1)
    BY <1>1, Branches
  <2> QED
    BY <2>1, ConstWellFormed
<1>2. CASE table \in LeftTables
  <2>1. table \notin ConstTables /\ table \notin RightTables
    BY <1>2, TablesDiffer
  <2>2. b = Connect(d1, negateLeft, next)
    BY <1>2, Branches
  <2>3. d1.type # "INVALID" /\ negateLeft \in BOOLEAN
    BY <2>1 DEF Combinable
  <2> HIDE DEF b, negateLeft
  <2> QED
    BY <2>2, <2>3, ConnectWellFormed DEF b
<1>3. CASE table \in RightTables
  <2>1. table \notin ConstTables /\ table \notin LeftTables
    BY <1>3, TablesDiffer
  <2>2. b = Connect(d2, negateRight, next)
    BY <1>3, Branches
  <2>3. d2.type # "INVALID" /\ negateRight \in BOOLEAN
    BY <2>1 DEF Combinable
  <2> HIDE DEF b, negateRight
  <2> QED
    BY <2>2, <2>3, ConnectWellFormed DEF b
<1>4. CASE table \notin ConstTables \cup LeftTables \cup RightTables
  <2>1. b = CombineGate(d1, d2, table, next)
    BY <1>4, Branches
  <2>2. d1.type # "INVALID" /\ d2.type # "INVALID"
    BY <1>4 DEF Combinable
  <2> QED
    BY <2>1, <2>2, GateWellFormed
<1> QED
  BY <1>1, <1>2, <1>3, <1>4

-----------------------------------------------------------------------------
(***************************************************************************)
(* The stack.                                                              *)
(***************************************************************************)

\* Nothing is on the stack at first.
LEMMA InitKeeps == Init => BInv
BY NumInputsAssumption DEF Init, BInv

\* The next name follows the inputs.
LEMMA NextNameIsNew == BInv => nextName \in Nat /\ nextName > NumInputs
BY NumInputsAssumption DEF BInv

\* A leaf, or a builder that was not built, joins the stack.
LEMMA PushKeeps ==
  ASSUME BInv, leaves < NumInputs, NEW b, WellFormed(b, nextName), Driven(b) = {},
         NEW fun \in SUBSET Assignments, Push(b, fun)
  PROVE  BInv'
<1> DEFINE result == [deInfo |-> b, fun |-> fun, mixed |-> FALSE]
<1>1. stack' = Append(stack, result) /\ leaves' = leaves + 1 /\ nextName' = nextName
  BY DEF Push
<1>2. result \in Results /\ result.deInfo = b
  BY DEF Results, WellFormed
<1> HIDE DEF result
<1>3. stack \in Seq(Results) /\ Len(stack) \in Nat /\ DOMAIN stack = 1..Len(stack)
  BY DEF BInv
<1>4. /\ stack' \in Seq(Results) /\ Len(stack') = Len(stack) + 1
      /\ DOMAIN stack' = 1..(Len(stack) + 1)
      /\ \A i \in 1..Len(stack) : stack'[i] = stack[i]
      /\ stack'[Len(stack) + 1] = result
  BY <1>1, <1>2, <1>3
<1>5. /\ leaves' \in 0..NumInputs /\ Len(stack') <= leaves'
      /\ nextName' = NumInputs + 1 + leaves' - Len(stack')
  BY <1>1, <1>3, <1>4, NumInputsAssumption DEF BInv
<1>6. ASSUME NEW i \in DOMAIN stack'
      PROVE  WellFormed(stack'[i].deInfo, nextName')
  <2>1. CASE i \in DOMAIN stack
    BY <1>1, <1>3, <1>4, <2>1 DEF BInv
  <2>2. CASE i = Len(stack) + 1
    BY <1>1, <1>2, <1>4, <2>2
  <2> QED
    BY <1>3, <1>4, <2>1, <2>2
<1>7. ASSUME NEW i \in DOMAIN stack', NEW j \in DOMAIN stack', i # j
      PROVE  Driven(stack'[i].deInfo) \cap Driven(stack'[j].deInfo) = {}
  <2>1. CASE i \in DOMAIN stack /\ j \in DOMAIN stack
    BY <1>3, <1>4, <1>7, <2>1 DEF BInv
  <2>2. CASE i = Len(stack) + 1 \/ j = Len(stack) + 1
    BY <1>2, <1>4, <2>2
  <2> QED
    BY <1>3, <1>4, <2>1, <2>2
<1> QED
  BY <1>4, <1>5, <1>6, <1>7 DEF BInv

\* Two results leave the stack, and what they are combined to joins it.
LEMMA ReturnKeeps ==
  ASSUME BInv, Len(stack) >= 2, NEW table, Combinable(Left.deInfo, Right.deInfo, table),
         Return(table)
  PROVE  BInv'
<1> DEFINE n == Len(stack)
           result == Combined(Left, Right, table)
           rest == SubSeq(stack, 1, n - 2)
           d1 == Left.deInfo
           d2 == Right.deInfo
<1>1. stack' = Append(rest, result) /\ leaves' = leaves /\ nextName' = nextName + 1
  BY DEF Return
<1>2. stack \in Seq(Results) /\ n \in Nat /\ n >= 2 /\ DOMAIN stack = 1..n
  BY DEF BInv
<1>3. nextName \in Nat /\ nextName > NumInputs
  BY NextNameIsNew
<1>4. /\ Left = stack[n - 1] /\ Right = stack[n] /\ n - 1 \in DOMAIN stack /\ n \in DOMAIN stack
      /\ n - 1 # n
  <2>1. Left = stack[n - 1] /\ Right = stack[n]
    BY DEF Left, Right
  <2> HIDE DEF n
  <2> QED
    BY <1>2, <2>1
<1>5. WellFormed(d1, nextName) /\ WellFormed(d2, nextName) /\ Driven(d1) \cap Driven(d2) = {}
  BY <1>2, <1>4 DEF BInv
<1>6. /\ result.deInfo = CombineBlifBuilder(d1, d2, table, nextName)
      /\ result.fun \in SUBSET Assignments /\ result.mixed \in BOOLEAN
      /\ result = [deInfo |-> result.deInfo, fun |-> result.fun, mixed |-> result.mixed]
  <2>1. Left.mixed \in BOOLEAN /\ Right.mixed \in BOOLEAN
    <3>1. \A i \in DOMAIN stack : stack[i] \in Results
      BY <1>2
    <3>2. Left \in Results /\ Right \in Results
      BY <1>4, <3>1, Zenon
    <3> QED
      BY <3>2 DEF Results
  <2>2. CombineTruthTable(Left.fun, Right.fun, table) \in SUBSET Assignments
    BY DEF CombineTruthTable
  <2> QED
    BY <2>1, <2>2 DEF Combined
<1>7. /\ WellFormed(result.deInfo, nextName + 1)
      /\ Driven(result.deInfo) \subseteq Driven(d1) \cup Driven(d2) \cup {nextName}
  <2>1. Combinable(d1, d2, table)
    OBVIOUS
  <2> HIDE DEF d1, d2, result
  <2>2. LET b == CombineBlifBuilder(d1, d2, table, nextName)
        IN  /\ WellFormed(b, nextName + 1)
            /\ Driven(b) \subseteq Driven(d1) \cup Driven(d2) \cup {nextName}
    BY <1>3, <1>5, <2>1, CombinedWellFormed, Zenon
  <2> QED
    BY <1>6, <2>2
<1>8. result \in Results
  BY <1>6, <1>7 DEF Results, WellFormed
<1> HIDE DEF result, n
<1>9. /\ rest \in Seq(Results) /\ Len(rest) = n - 2
      /\ \A i \in 1..(n - 2) : rest[i] = stack[i]
  BY <1>2 DEF n
<1> HIDE DEF rest
<1>10. /\ stack' \in Seq(Results) /\ Len(stack') = n - 1 /\ DOMAIN stack' = 1..(n - 1)
       /\ \A i \in 1..(n - 2) : stack'[i] = stack[i]
       /\ stack'[n - 1] = result
  BY <1>1, <1>2, <1>8, <1>9
<1>11. /\ leaves' \in 0..NumInputs /\ Len(stack') <= leaves'
       /\ nextName' = NumInputs + 1 + leaves' - Len(stack')
  <2>1. /\ leaves \in 0..NumInputs /\ n <= leaves
        /\ nextName = NumInputs + 1 + leaves - n
    BY DEF BInv, n
  <2>2. Len(stack') = n - 1 /\ n \in Nat
    BY <1>2, <1>10
  <2> QED
    BY <1>1, <2>1, <2>2, NumInputsAssumption
<1>12. ASSUME NEW i \in DOMAIN stack'
       PROVE  WellFormed(stack'[i].deInfo, nextName')
  <2>1. CASE i \in 1..(n - 2)
    <3>1. WellFormed(stack[i].deInfo, nextName)
      BY <1>2, <2>1 DEF BInv
    <3> QED
      BY <1>1, <1>3, <1>10, <2>1, <3>1, WellFormedLater
  <2>2. CASE i = n - 1
    BY <1>1, <1>7, <1>10, <2>2
  <2> QED
    BY <1>2, <1>10, <2>1, <2>2
<1>13. ASSUME NEW i \in 1..(n - 2)
       PROVE  Driven(stack[i].deInfo) \cap Driven(result.deInfo) = {}
  <2>1. /\ Driven(stack[i].deInfo) \cap Driven(d1) = {}
        /\ Driven(stack[i].deInfo) \cap Driven(d2) = {}
    <3>1. i \in DOMAIN stack /\ i # n - 1 /\ i # n
      BY <1>2
    <3> QED
      BY <1>4, <3>1 DEF BInv
  <2>2. nextName \notin Driven(stack[i].deInfo)
    <3>1. i \in DOMAIN stack
      BY <1>2
    <3> QED
      BY <1>3, <3>1, NewName DEF BInv, WellFormed
  <2> QED
    BY <1>7, <2>1, <2>2
<1>14. ASSUME NEW i \in DOMAIN stack', NEW j \in DOMAIN stack', i # j
       PROVE  Driven(stack'[i].deInfo) \cap Driven(stack'[j].deInfo) = {}
  <2>1. CASE i \in 1..(n - 2) /\ j \in 1..(n - 2)
    <3>1. i \in DOMAIN stack /\ j \in DOMAIN stack
      BY <1>2, <2>1
    <3>2. Driven(stack[i].deInfo) \cap Driven(stack[j].deInfo) = {}
      BY <1>14, <3>1 DEF BInv
    <3> QED
      BY <1>10, <2>1, <3>2
  <2>2. CASE i \in 1..(n - 2) /\ j = n - 1
    BY <1>10, <1>13, <2>2
  <2>3. CASE j \in 1..(n - 2) /\ i = n - 1
    BY <1>10, <1>13, <2>3
  <2> QED
    BY <1>2, <1>10, <1>14, <2>1, <2>2, <2>3
<1> QED
  BY <1>10, <1>11, <1>12, <1>14 DEF BInv

\* Each action keeps the invariant.
LEMMA NextKeeps ==
  ASSUME BInv, [Next]_vars
  PROVE  BInv'
<1>1. CASE UNCHANGED vars
  BY <1>1 DEF vars, BInv
<1>2. CASE PushInput
  <2>1. PICK negated \in BOOLEAN :
          /\ leaves < NumInputs
          /\ Push(BuildInput(leaves + 1, negated),
                  {a \in Assignments : (leaves + 1 \in a) # negated})
    BY <1>2 DEF PushInput
  <2>2. leaves + 1 \in Inputs
    BY <2>1, NumInputsAssumption DEF BInv, Inputs
  <2> QED
    BY <2>1, <2>2, LeafWellFormed, PushKeeps
<1>3. CASE PushConstant
  <2>1. PICK value \in BOOLEAN :
          /\ leaves < NumInputs
          /\ Push(BuildConst(NoName, TRUE), IF value THEN Assignments ELSE {})
    BY <1>3 DEF PushConstant
  <2>2. (IF value THEN Assignments ELSE {}) \in SUBSET Assignments
    OBVIOUS
  <2> QED
    BY <2>1, <2>2, InvalidWellFormed, PushKeeps
<1>4. CASE CombineDivision
  <2>1. Len(stack) >= 2
    BY <1>4 DEF CombineDivision
  <2>2. PICK table : Combinable(Left.deInfo, Right.deInfo, table) /\ Return(table)
    BY <1>4 DEF CombineDivision, Combinable, IsInvalid
  <2> QED
    BY <2>1, <2>2, ReturnKeeps
<1>5. CASE CombineMatch
  <2>1. Len(stack) >= 2
    BY <1>5 DEF CombineMatch
  <2>2. PICK table : Combinable(Left.deInfo, Right.deInfo, table) /\ Return(table)
    BY <1>5 DEF CombineMatch, Combinable, IsInvalid, IsLeaf
  <2> QED
    BY <2>1, <2>2, ReturnKeeps
<1>6. CASE CombineTwoInputs
  <2>1. Len(stack) >= 2
    BY <1>6 DEF CombineTwoInputs
  <2>2. PICK table : Combinable(Left.deInfo, Right.deInfo, table) /\ Return(table)
    BY <1>6 DEF CombineTwoInputs, Combinable
  <2> QED
    BY <2>1, <2>2, ReturnKeeps
<1> QED
  BY <1>1, <1>2, <1>3, <1>4, <1>5, <1>6 DEF Next

\* The builders on the stack stay well formed, and none drives a name that
\* another one drives (each call of combineBilfBuilder, line 170 of
\* algorithm_decompose.cpp, gets a fresh name).
THEOREM BuildersStayWellFormed == Spec => []BInv
<1>1. Init => BInv
  BY InitKeeps
<1>2. BInv /\ [Next]_vars => BInv'
  BY NextKeeps
<1> QED
  BY <1>1, <1>2, PTL DEF Spec

\* The body of a builder drives each signal once and reads only what it
\* drives or gets as input: combineBilfBuilder loses no line of its operands
\* and duplicates none.
THEOREM BodiesAreClosed == Spec => []BodyClosed
<1>1. BInv => BodyClosed
  <2> SUFFICES ASSUME BInv, NEW i \in DOMAIN stack, stack[i].deInfo.type # "INVALID"
               PROVE  LET b == stack[i].deInfo
                      IN  /\ \A s \in Driven(b) : Drivers(b, s) = 1
                          /\ Driven(b) \cap b.input = {}
                          /\ Read(b) \cup {b.node} \subseteq Driven(b) \cup b.input
    BY DEF BodyClosed, Driven, Read
  <2> DEFINE b == stack[i].deInfo
  <2>1. WellFormed(b, nextName)
    BY DEF BInv
  <2> HIDE DEF b
  <2>2. b.input \subseteq Inputs
    BY <2>1 DEF WellFormed, Builders
  <2>3. Driven(b) \cap b.input = {}
    BY <2>1, <2>2, NumInputsAssumption DEF WellFormed, Generated, Inputs
  <2> QED
    BY <2>1, <2>3 DEF WellFormed, b
<1> QED
  BY <1>1, BuildersStayWellFormed, PTL

\* As no two gates of a builder drive the same name, there are no more gates
\* than generated names.
LEMMA FewGates ==
  ASSUME NEW next \in Nat, next > NumInputs, NEW b, WellFormed(b, next)
  PROVE  Cardinality(b.data) \in Nat /\ Cardinality(b.data) <= next - 1 - NumInputs
<1> DEFINE out == [c \in b.data |-> c.out]
<1>1. IsFiniteSet(b.data) /\ IsFiniteSet(b.wire)
  BY DEF WellFormed
<1>2. ASSUME NEW c \in b.data, NEW e \in b.data, c.out = e.out
      PROVE  c = e
  <2> DEFINE W == {w \in b.wire : w.out = c.out}
             D == {x \in b.data : x.out = c.out}
             Z == {c.out} \cap b.constant0
             O == {c.out} \cap b.constant1
  <2>1. IsFiniteSet(W) /\ IsFiniteSet(D)
    BY <1>1, FS_Subset
  <2>2. IsFiniteSet(Z) /\ IsFiniteSet(O)
    BY FS_Singleton, FS_Intersection
  <2>3. /\ Cardinality(W) \in Nat /\ Cardinality(D) \in Nat
        /\ Cardinality(Z) \in Nat /\ Cardinality(O) \in Nat
    BY <2>1, <2>2, FS_CardinalityType
  <2>4. Cardinality(D) # 0
    <3>1. D # {}
      OBVIOUS
    <3> QED
      BY <2>1, <3>1, FS_EmptySet
  <2>5. Cardinality(W) + Cardinality(D) + Cardinality(Z) + Cardinality(O) = 1
    <3>1. c.out \in Driven(b)
      BY DEF Driven, Outs
    <3> QED
      BY <3>1 DEF WellFormed, Drivers
  <2>6. Cardinality(D) = 1
    <3> HIDE DEF W, D, Z, O
    <3> QED
      BY <2>3, <2>4, <2>5
  <2>7. PICK x : D = {x}
    BY <2>1, <2>6, FS_Singleton
  <2>8. c \in D /\ e \in D
    BY <1>2
  <2> HIDE DEF D
  <2> QED
    BY <2>7, <2>8
<1>3. out \in [b.data -> Generated(next)]
  BY DEF WellFormed, Driven, Outs
<1>4. out \in Injection(b.data, Generated(next))
  BY <1>2, <1>3 DEF Injection, IsInjective
<1>5. /\ IsFiniteSet(Generated(next))
      /\ Cardinality(Generated(next)) = next - 1 - NumInputs
  <2>1. NumInputs + 1 \in Int /\ next - 1 \in Int
    BY NumInputsAssumption
  <2>2. /\ IsFiniteSet(Generated(next))
        /\ Cardinality(Generated(next)) =
             IF NumInputs + 1 > next - 1 THEN 0 ELSE (next - 1) - (NumInputs + 1) + 1
    BY <2>1, FS_Interval, Zenon DEF Generated
  <2> QED
    BY <2>2, NumInputsAssumption
<1>6. Cardinality(b.data) <= Cardinality(Generated(next))
  BY <1>4, <1>5, FS_Injection
<1>7. Cardinality(b.data) \in Nat
  BY <1>1, FS_CardinalityType
<1> QED
  BY <1>5, <1>6, <1>7

\* The types of the stack, the count of names, and at most one gate for each
\* pair of operands (TypeOK).
THEOREM TypeCorrect == Spec => []TypeOK
<1>1. BInv => TypeOK
  <2> SUFFICES ASSUME BInv PROVE TypeOK
    OBVIOUS
  <2>1. Len(stack) \in Nat /\ stack \in Seq(Results) /\ DOMAIN stack = 1..Len(stack)
    BY DEF BInv
  <2>2. /\ leaves \in 0..NumInputs /\ Len(stack) <= leaves
        /\ nextName = NumInputs + 1 + leaves - Len(stack)
    BY DEF BInv
  <2>3. nextName \in (NumInputs + 1)..(2 * NumInputs + 1)
    BY <2>1, <2>2, NumInputsAssumption
  <2>4. nextName \in Nat /\ nextName > NumInputs
    BY NextNameIsNew
  <2>5. ASSUME NEW i \in DOMAIN stack
        PROVE  LET b == stack[i].deInfo
               IN  /\ b.type \in Types
                   /\ b.node \in 0..(nextName - 1)
                   /\ b.input \subseteq Inputs
                   /\ Cardinality(b.data) < NumInputs
                   /\ stack[i].fun \subseteq Assignments
    <3> DEFINE b == stack[i].deInfo
    <3>1. WellFormed(b, nextName)
      BY DEF BInv
    <3>2. stack[i].fun \subseteq Assignments
      <4>1. stack[i] \in Results
        BY <2>1
      <4> QED
        BY <4>1 DEF Results
    <3> HIDE DEF b
    <3>3. b.type \in Types /\ b.input \subseteq Inputs
      BY <3>1 DEF WellFormed, Builders
    <3>4. b.node \in 0..(nextName - 1)
      <4>1. b.node = NoName \/ b.node \in Generated(nextName) \/ b.node \in Inputs
        BY <3>1, <3>3 DEF WellFormed
      <4> QED
        BY <2>4, <4>1, NumInputsAssumption DEF NoName, Generated, Inputs
    <3>5. Len(stack) >= 1
      BY <2>1
    <3>6. /\ Cardinality(b.data) \in Nat
          /\ Cardinality(b.data) <= nextName - 1 - NumInputs
      BY <2>4, <3>1, FewGates
    <3>7. Cardinality(b.data) < NumInputs
      BY <2>1, <2>2, <3>5, <3>6, NumInputsAssumption
    <3> QED
      BY <3>2, <3>3, <3>4, <3>7 DEF b
  <2> QED
    BY <2>2, <2>3, <2>5 DEF TypeOK, Types
<1> QED
  BY <1>1, BuildersStayWellFormed, PTL

-----------------------------------------------------------------------------
(***************************************************************************)
(* The functions of the signals of a body.                                 *)
(***************************************************************************)

BoolFunctions == SUBSET Assignments
Complement(f) == Assignments \ f
Negated(f, negate) == IF negate THEN Complement(f) ELSE f
Variable(s) == {a \in Assignments : s \in a}

\* Each line reads signals that come before the one it drives.
Ordered(b) ==
  /\ \A w \in b.wire : w.in < w.out
  /\ \A c \in b.data : c.in1 < c.out /\ c.in2 < c.out

\* What each of its lines says of the signal s, when v gives the functions.
Lines(b, v, s) ==
  /\ s \in b.constant0 => v[s] = {}
  /\ s \in b.constant1 => v[s] = Assignments
  /\ \A w \in b.wire : w.out = s => v[s] = Negated(v[w.in], w.negate)
  /\ \A c \in b.data : c.out = s => v[s] = CombineTruthTable(v[c.in1], v[c.in2], c.method)

\* A signal has the function its lines give it; another one is an input.
Fits(b, v, s) == Lines(b, v, s) /\ (s \notin Driven(b) => v[s] = Variable(s))

Settled(b, next, v) ==
  /\ v \in [1..(next - 1) -> BoolFunctions]
  /\ \A s \in 1..(next - 1) : Fits(b, v, s)

\* A result has the function that is kept beside it.
Agrees(r, v) == r.fun = Negated(v[r.deInfo.node], r.deInfo.type = "REVERSE_INPUT")
HasFunction(r, next) == \E v : Settled(r.deInfo, next, v) /\ Agrees(r, v)

\* The function of a signal, from those of the signals it reads: the body of
\* the recursion in Values.
ValueAt(b, value, s) ==
  IF s \in b.constant0 THEN {}
  ELSE IF s \in b.constant1 THEN Assignments
  ELSE IF \E w \in b.wire : w.out = s
  THEN LET w == CHOOSE w \in b.wire : w.out = s
       IN  IF w.negate THEN Assignments \ value[w.in] ELSE value[w.in]
  ELSE IF \E c \in b.data : c.out = s
  THEN LET c == CHOOSE c \in b.data : c.out = s
       IN  CombineTruthTable(value[c.in1], value[c.in2], c.method)
  ELSE {a \in Assignments : s \in a}

IsValues(b, value) == value = [s \in 1..(nextName - 1) |-> ValueAt(b, value, s)]

\* The second invariant: lines come in order, and builders compute what they
\* should unless the wrong operand of a wire was looked at.
FunInv ==
  \A i \in DOMAIN stack :
    /\ Ordered(stack[i].deInfo)
    /\ stack[i].deInfo.type # "INVALID" /\ ~stack[i].mixed => HasFunction(stack[i], nextName)

\* Values is a function that its recursion defines, if there is one.
LEMMA ValuesIsChosen ==
  ASSUME NEW b
  PROVE  Values(b) = CHOOSE value : IsValues(b, value)
BY DEF Values, IsValues, ValueAt

\* Settled functions are what the recursion computes.
LEMMA SettledIsValue ==
  ASSUME NEW b, NEW v, Settled(b, nextName, v)
  PROVE  IsValues(b, v)
<1>1. ASSUME NEW s \in 1..(nextName - 1)
      PROVE  v[s] = ValueAt(b, v, s)
  <2>1. Fits(b, v, s)
    BY DEF Settled
  <2>2. CASE s \in b.constant0
    BY <2>1, <2>2 DEF Fits, Lines, ValueAt
  <2>3. CASE s \notin b.constant0 /\ s \in b.constant1
    BY <2>1, <2>3 DEF Fits, Lines, ValueAt
  <2>4. CASE /\ s \notin b.constant0 /\ s \notin b.constant1
             /\ \E w \in b.wire : w.out = s
    <3> DEFINE w == CHOOSE w \in b.wire : w.out = s
    <3>1. w \in b.wire /\ w.out = s
      BY <2>4
    <3>2. ValueAt(b, v, s) = Negated(v[w.in], w.negate)
      BY <2>4 DEF ValueAt, Negated, Complement
    <3> HIDE DEF w
    <3> QED
      BY <2>1, <3>1, <3>2 DEF Fits, Lines
  <2>5. CASE /\ s \notin b.constant0 /\ s \notin b.constant1
             /\ ~\E w \in b.wire : w.out = s
             /\ \E c \in b.data : c.out = s
    <3> DEFINE c == CHOOSE c \in b.data : c.out = s
    <3>1. c \in b.data /\ c.out = s
      BY <2>5
    <3>2. ValueAt(b, v, s) = CombineTruthTable(v[c.in1], v[c.in2], c.method)
      BY <2>5 DEF ValueAt
    <3> HIDE DEF c
    <3> QED
      BY <2>1, <3>1, <3>2 DEF Fits, Lines
  <2>6. CASE s \notin Driven(b)
    <3>1. /\ s \notin b.constant0 /\ s \notin b.constant1
          /\ ~\E w \in b.wire : w.out = s
          /\ ~\E c \in b.data : c.out = s
      BY <2>6 DEF Driven, Outs
    <3> QED
      BY <2>1, <2>6, <3>1 DEF Fits, ValueAt, Variable
  <2> QED
    BY <2>2, <2>3, <2>4, <2>5, <2>6 DEF Driven, Outs
<1>2. v = [s \in 1..(nextName - 1) |-> v[s]]
  BY DEF Settled
<1> QED
  BY <1>1, <1>2 DEF IsValues

\* There is one such function: of two signals that would differ, the first
\* could not.
LEMMA ValuesAreUnique ==
  ASSUME nextName \in Nat, NEW b, WellFormed(b, nextName), b.type # "INVALID", Ordered(b),
         NEW v, IsValues(b, v), NEW u, IsValues(b, u)
  PROVE  v = u
<1> DEFINE N == 1..(nextName - 1)
           bad == {s \in N : v[s] # u[s]}
<1>1. /\ v = [s \in N |-> ValueAt(b, v, s)]
      /\ u = [s \in N |-> ValueAt(b, u, s)]
  BY DEF IsValues
<1>2. SUFFICES bad = {}
  <2>1. v = [s \in N |-> v[s]] /\ u = [s \in N |-> u[s]]
    BY <1>1
  <2> HIDE DEF N
  <2> QED
    BY <2>1
<1>3. SUFFICES ASSUME bad # {} PROVE FALSE
  OBVIOUS
<1>4. PICK s \in bad : \A t \in bad : s <= t
  <2>1. bad \in SUBSET Nat
    OBVIOUS
  <2> HIDE DEF bad
  <2> QED
    BY <1>3, <2>1, LeastNumber
<1>5. s \in N /\ v[s] # u[s] /\ \A t \in N : t < s => v[t] = u[t]
  <2>1. \A t \in N : t < s => ~(s <= t)
    BY <1>4
  <2> QED
    BY <1>4, <2>1
<1>6. v[s] = ValueAt(b, v, s) /\ u[s] = ValueAt(b, u, s)
  <2> HIDE DEF N
  <2>1. \A t \in N : v[t] = ValueAt(b, v, t)
    BY <1>1
  <2>2. \A t \in N : u[t] = ValueAt(b, u, t)
    BY <1>1
  <2> QED
    BY <1>5, <2>1, <2>2
<1>7. \A r \in Read(b) : r \in Nat /\ r >= 1
  BY NumInputsAssumption DEF WellFormed, Generated, Builders, Inputs
<1>8. \A r \in Read(b) : r < s => v[r] = u[r]
  BY <1>5, <1>7
<1> HIDE DEF bad, N
<1>9. CASE /\ s \notin b.constant0 /\ s \notin b.constant1
           /\ \E w \in b.wire : w.out = s
  <2> DEFINE w == CHOOSE w \in b.wire : w.out = s
  <2>1. w \in b.wire /\ w.out = s
    BY <1>9
  <2>2. /\ ValueAt(b, v, s) = Negated(v[w.in], w.negate)
        /\ ValueAt(b, u, s) = Negated(u[w.in], w.negate)
    BY <1>9 DEF ValueAt, Negated, Complement
  <2> HIDE DEF w
  <2>3. w.in \in Read(b) /\ w.in < s
    BY <2>1 DEF Read, Ordered
  <2> QED
    BY <1>5, <1>6, <1>8, <2>2, <2>3
<1>10. CASE /\ s \notin b.constant0 /\ s \notin b.constant1
            /\ ~\E w \in b.wire : w.out = s
            /\ \E c \in b.data : c.out = s
  <2> DEFINE c == CHOOSE c \in b.data : c.out = s
  <2>1. c \in b.data /\ c.out = s
    BY <1>10
  <2>2. /\ ValueAt(b, v, s) = CombineTruthTable(v[c.in1], v[c.in2], c.method)
        /\ ValueAt(b, u, s) = CombineTruthTable(u[c.in1], u[c.in2], c.method)
    BY <1>10 DEF ValueAt
  <2> HIDE DEF c
  <2>3. c.in1 \in Read(b) /\ c.in2 \in Read(b) /\ c.in1 < s /\ c.in2 < s
    BY <2>1 DEF Read, Ordered
  <2> QED
    BY <1>5, <1>6, <1>8, <2>2, <2>3
<1>11. CASE \/ s \in b.constant0 \/ s \in b.constant1
            \/ /\ ~\E w \in b.wire : w.out = s
               /\ ~\E c \in b.data : c.out = s
  <2>1. ValueAt(b, v, s) = ValueAt(b, u, s)
    BY <1>11 DEF ValueAt
  <2> QED
    BY <1>5, <1>6, <2>1
<1> QED
  BY <1>9, <1>10, <1>11

\* So these are the functions of the signals.
LEMMA ValuesOf ==
  ASSUME nextName \in Nat, NEW b, WellFormed(b, nextName), b.type # "INVALID", Ordered(b),
         NEW v, Settled(b, nextName, v)
  PROVE  Values(b) = v
<1>1. IsValues(b, v)
  BY SettledIsValue
<1>2. IsValues(b, CHOOSE value : IsValues(b, value))
  BY <1>1
<1> QED
  BY <1>1, <1>2, ValuesIsChosen, ValuesAreUnique

\* A leaf has the function of its input.
LEMMA LeafHasFunction ==
  ASSUME NEW i \in Inputs, NEW negated \in BOOLEAN, NEW next \in Nat, next > NumInputs,
         NEW r, r.deInfo = BuildInput(i, negated),
         r.fun = {a \in Assignments : (i \in a) # negated}
  PROVE  Ordered(r.deInfo) /\ HasFunction(r, next)
<1> DEFINE b == BuildInput(i, negated)
           v == [s \in 1..(next - 1) |-> Variable(s)]
<1>1. /\ b.type = IF negated THEN "REVERSE_INPUT" ELSE "INPUT"
      /\ b.node = i /\ b.data = {} /\ b.wire = {} /\ b.constant0 = {} /\ b.constant1 = {}
  BY BuilderFields DEF BuildInput, Types, Inputs
<1>2. v \in [1..(next - 1) -> BoolFunctions]
  BY DEF Variable, BoolFunctions
<1>3. \A s \in 1..(next - 1) : v[s] = Variable(s)
  OBVIOUS
<1>4. i \in 1..(next - 1)
  BY NumInputsAssumption DEF Inputs
<1> HIDE DEF b, v
<1>5. Ordered(b) /\ Settled(b, next, v)
  BY <1>1, <1>2, <1>3 DEF Ordered, Settled, Fits, Lines
<1>6. r.fun = Negated(Variable(i), negated)
  BY DEF Negated, Variable, Complement
<1>7. Agrees(r, v)
  BY <1>1, <1>3, <1>4, <1>6 DEF Agrees, b
<1> QED
  BY <1>5, <1>7 DEF HasFunction, b

\* Functions that are the same as far as a body reads them still fit it.
LEMMA LinesKept ==
  ASSUME NEW next \in Nat, NEW d, Ordered(d), WellFormed(d, next), d.type # "INVALID",
         NEW v, Settled(d, next, v),
         NEW u, \A s \in Driven(d) \cup d.input : u[s] = v[s],
         NEW s \in Driven(d)
  PROVE  Lines(d, u, s)
<1>1. Driven(d) \subseteq 1..(next - 1) /\ Read(d) \subseteq Driven(d) \cup d.input
  BY NumInputsAssumption DEF WellFormed, Generated
<1>2. Lines(d, v, s) /\ u[s] = v[s]
  BY <1>1 DEF Settled, Fits
<1>3. \A w \in d.wire : u[w.in] = v[w.in]
  BY <1>1 DEF Read
<1>4. \A c \in d.data : u[c.in1] = v[c.in1] /\ u[c.in2] = v[c.in2]
  BY <1>1 DEF Read
<1> QED
  BY <1>2, <1>3, <1>4 DEF Lines

\* A further name changes nothing.
LEMMA HasFunctionLater ==
  ASSUME NEW next \in Nat, next > NumInputs,
         NEW r, Ordered(r.deInfo), WellFormed(r.deInfo, next), r.deInfo.type # "INVALID",
         HasFunction(r, next)
  PROVE  HasFunction(r, next + 1)
<1> DEFINE d == r.deInfo
           N == 1..(next - 1)
<1>1. PICK v : Settled(d, next, v) /\ Agrees(r, v)
  BY DEF HasFunction
<1> DEFINE u == [s \in 1..(next + 1 - 1) |-> IF s = next THEN Variable(s) ELSE v[s]]
<1>2. 1..(next + 1 - 1) = N \cup {next} /\ next \notin N
  BY NumInputsAssumption
<1>3. u \in [1..(next + 1 - 1) -> BoolFunctions]
  BY <1>1, <1>2 DEF Settled, Variable, BoolFunctions
<1>4. (\A s \in N : u[s] = v[s]) /\ u[next] = Variable(next)
  BY <1>2
<1>5. Driven(d) \subseteq N /\ d.input \subseteq N
  BY NumInputsAssumption DEF WellFormed, Generated, Builders, Inputs
<1> HIDE DEF u, N
<1>6. ASSUME NEW s \in N \cup {next} PROVE Fits(d, u, s)
  <2>1. CASE s \in Driven(d)
    <3>1. Lines(d, u, s)
      BY <1>1, <1>4, <1>5, <2>1, LinesKept
    <3> QED
      BY <2>1, <3>1 DEF Fits
  <2>2. CASE s \notin Driven(d)
    <3>1. u[s] = Variable(s)
      <4>1. CASE s = next
        BY <1>4, <4>1
      <4>2. CASE s \in N
        BY <1>1, <1>4, <2>2, <4>2 DEF Settled, Fits, N
      <4> QED
        BY <4>1, <4>2
    <3>2. Lines(d, u, s)
      BY <2>2 DEF Lines, Driven, Outs
    <3> QED
      BY <3>1, <3>2 DEF Fits
  <2> QED
    BY <2>1, <2>2
<1>7. Settled(d, next + 1, u)
  BY <1>2, <1>3, <1>6 DEF Settled
<1>8. d.node \in N
  BY <1>5 DEF WellFormed
<1>9. Agrees(r, u)
  BY <1>1, <1>4, <1>8 DEF Agrees
<1> QED
  BY <1>7, <1>9 DEF HasFunction

\* A constant.
LEMMA ConstHasFunction ==
  ASSUME NEW next \in Nat, next > NumInputs, NEW value \in BOOLEAN,
         NEW r, r.deInfo = BuildConst(next, value),
         r.fun = IF value THEN Assignments ELSE {}
  PROVE  Ordered(r.deInfo) /\ HasFunction(r, next + 1)
<1> DEFINE b == BuildConst(next, value)
           v == [s \in 1..(next + 1 - 1) |-> IF s = next THEN r.fun ELSE Variable(s)]
<1> USE NumInputsAssumption
<1>1. next # NoName
  BY DEF NoName
<1>2. /\ b.type = IF value THEN "CONST_1" ELSE "CONST_0"
      /\ b.node = next /\ b.data = {} /\ b.wire = {}
      /\ b.constant0 = IF value THEN {} ELSE {next}
      /\ b.constant1 = IF value THEN {next} ELSE {}
  <2> DEFINE type == IF value THEN "CONST_1" ELSE "CONST_0"
  <2>1. b = Builder(type, next)
    BY <1>1 DEF BuildConst
  <2>2. /\ type \in Types /\ type \notin {"INPUT", "REVERSE_INPUT"}
        /\ type = "CONST_0" <=> ~value
        /\ type = "CONST_1" <=> value
    BY DEF Types
  <2> HIDE DEF b, type
  <2>3. /\ b.type = type /\ b.node = next /\ b.data = {} /\ b.wire = {}
        /\ b.constant0 = IF type = "CONST_0" THEN {next} ELSE {}
        /\ b.constant1 = IF type = "CONST_1" THEN {next} ELSE {}
    BY <2>1 DEF Builder
  <2> QED
    BY <2>2, <2>3 DEF type
<1>3. v \in [1..(next + 1 - 1) -> BoolFunctions]
  BY DEF Variable, BoolFunctions
<1>4. /\ v[next] = r.fun
      /\ \A s \in 1..(next + 1 - 1) : s # next => v[s] = Variable(s)
  OBVIOUS
<1> HIDE DEF b, v
<1>5. Driven(b) = {next}
  BY <1>2 DEF Driven, Outs
<1>6. Ordered(b) /\ Settled(b, next + 1, v)
  BY <1>2, <1>3, <1>4, <1>5 DEF Ordered, Settled, Fits, Lines
<1>7. Agrees(r, v)
  BY <1>2, <1>4 DEF Agrees, Negated, b
<1> QED
  BY <1>6, <1>7 DEF HasFunction, b

\* A wire to the new name.
LEMMA ConnectHasFunction ==
  ASSUME NEW next \in Nat, next > NumInputs,
         NEW q, Ordered(q.deInfo), WellFormed(q.deInfo, next), q.deInfo.type # "INVALID",
         HasFunction(q, next), q.fun \in BoolFunctions,
         NEW negated \in BOOLEAN,
         NEW negate \in BOOLEAN, negate = (negated # (q.deInfo.type = "REVERSE_INPUT")),
         NEW r, r.deInfo = Connect(q.deInfo, negate, next), r.fun = Negated(q.fun, negated)
  PROVE  HasFunction(r, next + 1)
<1> DEFINE d == q.deInfo
           b == Connect(d, negate, next)
           wire == [in |-> d.node, out |-> next, negate |-> negate]
           N == 1..(next - 1)
<1>1. PICK v : Settled(d, next, v) /\ Agrees(q, v)
  BY DEF HasFunction
<1> DEFINE f == Negated(v[d.node], negate)
           u == [s \in 1..(next + 1 - 1) |-> IF s = next THEN f ELSE v[s]]
<1>2. 1..(next + 1 - 1) = N \cup {next} /\ next \notin N
  BY NumInputsAssumption
<1>3. Driven(d) \subseteq N /\ d.input \subseteq N
  BY NumInputsAssumption DEF WellFormed, Generated, Builders, Inputs
<1>4. d.node \in N
  BY <1>3 DEF WellFormed
<1>5. f \in BoolFunctions
  BY <1>1, <1>4 DEF Settled, Negated, Complement, BoolFunctions
<1>6. u \in [1..(next + 1 - 1) -> BoolFunctions]
  <2> HIDE DEF f
  <2> QED
    BY <1>1, <1>2, <1>5 DEF Settled
<1>7. (\A s \in N : u[s] = v[s]) /\ u[next] = f
  <2> HIDE DEF f
  <2> QED
    BY <1>2
<1>8. /\ b.type = "NET" /\ b.node = next /\ b.data = d.data
      /\ b.wire = d.wire \cup {wire}
      /\ b.constant0 = d.constant0 /\ b.constant1 = d.constant1
  BY DEF Connect
<1>9. wire.in = d.node /\ wire.out = next /\ wire.negate = negate
  OBVIOUS
<1> HIDE DEF u, N, b, wire
<1>10. Driven(b) = Driven(d) \cup {next}
  BY <1>8, <1>9 DEF Driven, Outs
<1>11. ASSUME NEW s \in N \cup {next} PROVE Fits(b, u, s)
  <2>1. CASE s = next
    <3>1. next \notin Driven(d)
      BY <1>2, <1>3
    <3>2. /\ s \notin b.constant0 /\ s \notin b.constant1
          /\ \A c \in b.data : c.out # s
          /\ \A w \in b.wire : w.out = s => w = wire
      BY <1>8, <1>9, <2>1, <3>1 DEF Driven, Outs
    <3>3. u[s] = Negated(u[wire.in], wire.negate)
      BY <1>4, <1>7, <1>9, <2>1
    <3> HIDE DEF f
    <3>4. Lines(b, u, s)
      BY <3>2, <3>3 DEF Lines
    <3> QED
      BY <1>10, <2>1, <3>4 DEF Fits
  <2>2. CASE s # next /\ s \in Driven(d)
    <3>1. Lines(d, u, s)
      BY <1>1, <1>3, <1>7, <2>2, LinesKept
    <3>2. Lines(b, u, s)
      BY <1>8, <1>9, <2>2, <3>1 DEF Lines
    <3> QED
      BY <1>10, <2>2, <3>2 DEF Fits
  <2>3. CASE s # next /\ s \notin Driven(d)
    <3>1. u[s] = Variable(s)
      BY <1>1, <1>7, <2>3 DEF Settled, Fits, N
    <3>2. Lines(b, u, s)
      BY <1>10, <2>3 DEF Lines, Driven, Outs
    <3> QED
      BY <3>1, <3>2 DEF Fits
  <2> QED
    BY <2>1, <2>2, <2>3
<1>12. Settled(b, next + 1, u)
  BY <1>2, <1>6, <1>11 DEF Settled
<1>13. r.fun = u[next]
  <2>1. v[d.node] \in BoolFunctions
    BY <1>1, <1>4 DEF Settled, N
  <2>2. q.fun = Negated(v[d.node], d.type = "REVERSE_INPUT")
    BY <1>1 DEF Agrees
  <2>3. \A g \in BoolFunctions : Assignments \ (Assignments \ g) = g
    BY DEF BoolFunctions
  <2> QED
    BY <1>7, <2>1, <2>2, <2>3 DEF Negated, Complement
<1>14. Agrees(r, u)
  BY <1>8, <1>13 DEF Agrees, Negated, b
<1> QED
  BY <1>12, <1>14 DEF HasFunction, b

\* A line added by combineBilfBuilder reads nodes of its operands, which come
\* before the new name.
LEMMA CombinedOrdered ==
  ASSUME NEW next \in Nat, next > NumInputs, NEW table,
         NEW d1, WellFormed(d1, next), Ordered(d1),
         NEW d2, WellFormed(d2, next), Ordered(d2), Combinable(d1, d2, table)
  PROVE  Ordered(CombineBlifBuilder(d1, d2, table, next))
<1> DEFINE b == CombineBlifBuilder(d1, d2, table, next)
<1> SUFFICES Ordered(b)
  OBVIOUS
<1>1. ASSUME NEW d, WellFormed(d, next), d.type # "INVALID"
      PROVE  d.node < next
  <2>1. d.node \in Generated(next) \/ d.node \in Inputs
    BY <1>1 DEF WellFormed, Builders
  <2> QED
    BY <2>1, NumInputsAssumption DEF Generated, Inputs
<1>2. CASE table \in ConstTables
  <2>1. b = BuildConst(next, table = ALL_IRR_TABLE_1)
    BY <1>2, Branches
  <2>2. b.data = {} /\ b.wire = {}
    <3> HIDE DEF b
    <3> QED
      BY <2>1 DEF BuildConst, Builder
  <2> HIDE DEF b
  <2> QED
    BY <2>2 DEF Ordered
<1>3. ASSUME NEW d, WellFormed(d, next), d.type # "INVALID", Ordered(d),
             NEW negate, b = Connect(d, negate, next)
      PROVE  Ordered(b)
  <2> HIDE DEF b
  <2>1. /\ b.data = d.data
        /\ b.wire = d.wire \cup {[in |-> d.node, out |-> next, negate |-> negate]}
    BY <1>3 DEF Connect
  <2> QED
    BY <1>1, <1>3, <2>1 DEF Ordered
<1>4. CASE table \in LeftTables
  <2>1. table \notin ConstTables /\ table \notin RightTables
    BY <1>4, TablesDiffer
  <2>2. b = Connect(d1, (table = Not(LEFT_RELA_TABLE)) # (d1.type = "REVERSE_INPUT"), next)
    BY <1>4, Branches
  <2>3. d1.type # "INVALID"
    BY <2>1 DEF Combinable
  <2> HIDE DEF b
  <2> QED
    BY <1>3, <2>2, <2>3
<1>5. CASE table \in RightTables
  <2>1. table \notin ConstTables /\ table \notin LeftTables
    BY <1>5, TablesDiffer
  <2>2. b = Connect(d2, (table = Not(RIGHT_RELA_TABLE)) # (d1.type = "REVERSE_INPUT"), next)
    BY <1>5, Branches
  <2>3. d2.type # "INVALID"
    BY <2>1 DEF Combinable
  <2> HIDE DEF b
  <2> QED
    BY <1>3, <2>2, <2>3
<1>6. CASE table \notin ConstTables \cup LeftTables \cup RightTables
  <2>1. b = CombineGate(d1, d2, table, next)
    BY <1>6, Branches
  <2>2. d1.type # "INVALID" /\ d2.type # "INVALID"
    BY <1>6 DEF Combinable
  <2> HIDE DEF b
  <2>3. PICK m : /\ b.data = d1.data \cup d2.data \cup
                               {[in1 |-> d1.node, in2 |-> d2.node, out |-> next, method |-> m]}
                 /\ b.wire = d1.wire \cup d2.wire
    BY <2>1 DEF CombineGate
  <2>4. d1.node < next /\ d2.node < next
    BY <1>1, <2>2
  <2> QED
    BY <2>3, <2>4 DEF Ordered
<1> QED
  BY <1>2, <1>4, <1>5, <1>6

\* The table of a gate makes up for the operands that are complemented.
LEMMA FlippedIndex ==
  ASSUME NEW table, NEW rev1 \in BOOLEAN, NEW rev2 \in BOOLEAN,
         NEW x \in BOOLEAN, NEW y \in BOOLEAN
  PROVE  (Index(x, y) \in FlipBinaryTTableInput(table, rev1, rev2))
           <=> (Index(x # rev1, y # rev2) \in table)
<1>1. ASSUME NEW p \in BOOLEAN \X BOOLEAN, Index(p[1], p[2]) = Index(x, y)
      PROVE  p[1] = x /\ p[2] = y
  BY <1>1 DEF Index, Bit
<1>2. <<x, y>> \in BOOLEAN \X BOOLEAN
  OBVIOUS
<1>3. ASSUME Index(x # rev1, y # rev2) \in table
      PROVE  Index(x, y) \in FlipBinaryTTableInput(table, rev1, rev2)
  BY <1>2, <1>3, Zenon DEF FlipBinaryTTableInput
<1>4. ASSUME Index(x, y) \in FlipBinaryTTableInput(table, rev1, rev2)
      PROVE  Index(x # rev1, y # rev2) \in table
  <2>1. PICK p \in BOOLEAN \X BOOLEAN :
          /\ Index(p[1] # rev1, p[2] # rev2) \in table
          /\ Index(x, y) = Index(p[1], p[2])
    BY <1>4, Zenon DEF FlipBinaryTTableInput
  <2>2. p[1] = x /\ p[2] = y
    BY <1>1, <2>1, Zenon
  <2> QED
    BY <2>1, <2>2, Zenon
<1> QED
  BY <1>3, <1>4

\* So the gate has the function that the operation makes of the two.
LEMMA GateFunction ==
  ASSUME NEW table, NEW rev1 \in BOOLEAN, NEW rev2 \in BOOLEAN,
         NEW v1 \in BoolFunctions, NEW v2 \in BoolFunctions
  PROVE  CombineTruthTable(v1, v2, FlipBinaryTTableInput(table, rev1, rev2))
           = CombineTruthTable(Negated(v1, rev1), Negated(v2, rev2), table)
<1> DEFINE method == FlipBinaryTTableInput(table, rev1, rev2)
<1>1. ASSUME NEW a \in Assignments
      PROVE  (Index(a \in v1, a \in v2) \in method)
               <=> (Index(a \in Negated(v1, rev1), a \in Negated(v2, rev2)) \in table)
  <2>1. /\ (a \in Negated(v1, rev1)) <=> ((a \in v1) # rev1)
        /\ (a \in Negated(v2, rev2)) <=> ((a \in v2) # rev2)
    BY DEF Negated, Complement
  <2>2. Index(a \in Negated(v1, rev1), a \in Negated(v2, rev2))
          = Index((a \in v1) # rev1, (a \in v2) # rev2)
    BY <2>1 DEF Index, Bit
  <2>3. (Index(a \in v1, a \in v2) \in method)
          <=> (Index((a \in v1) # rev1, (a \in v2) # rev2) \in table)
    <3>1. \A x, y \in BOOLEAN : (Index(x, y) \in method)
                                  <=> (Index(x # rev1, y # rev2) \in table)
      BY FlippedIndex, Zenon
    <3>2. (a \in v1) \in BOOLEAN /\ (a \in v2) \in BOOLEAN
      OBVIOUS
    <3> HIDE DEF method
    <3> QED
      BY <3>1, <3>2, Zenon
  <2> HIDE DEF method
  <2> QED
    BY <2>2, <2>3
<1> HIDE DEF method
<1>2. CombineTruthTable(v1, v2, method)
        = CombineTruthTable(Negated(v1, rev1), Negated(v2, rev2), table)
  BY <1>1 DEF CombineTruthTable
<1> QED
  BY <1>2 DEF method

\* A gate with the new name.  The operands drive different names, and every
\* signal of theirs keeps its function.
LEMMA GateHasFunction ==
  ASSUME NEW next \in Nat, next > NumInputs, NEW table,
         NEW q1, Ordered(q1.deInfo), WellFormed(q1.deInfo, next), q1.deInfo.type # "INVALID",
         HasFunction(q1, next),
         NEW q2, Ordered(q2.deInfo), WellFormed(q2.deInfo, next), q2.deInfo.type # "INVALID",
         HasFunction(q2, next),
         Driven(q1.deInfo) \cap Driven(q2.deInfo) = {},
         NEW r, r.deInfo = CombineGate(q1.deInfo, q2.deInfo, table, next),
         r.fun = CombineTruthTable(q1.fun, q2.fun, table)
  PROVE  HasFunction(r, next + 1)
<1> DEFINE d1 == q1.deInfo
           d2 == q2.deInfo
           b == CombineGate(d1, d2, table, next)
           rev1 == d1.type = "REVERSE_INPUT"
           rev2 == d2.type = "REVERSE_INPUT"
           method == FlipBinaryTTableInput(table, rev1, rev2)
           gate == [in1 |-> d1.node, in2 |-> d2.node, out |-> next, method |-> method]
           N == 1..(next - 1)
<1>1. PICK v1 : Settled(d1, next, v1) /\ Agrees(q1, v1)
  BY DEF HasFunction
<1>2. PICK v2 : Settled(d2, next, v2) /\ Agrees(q2, v2)
  BY DEF HasFunction
<1>3. 1..(next + 1 - 1) = N \cup {next} /\ next \notin N
  BY NumInputsAssumption
<1>4. /\ Driven(d1) \subseteq N /\ d1.input \subseteq N /\ d1.node \in Driven(d1) \cup d1.input
      /\ Driven(d2) \subseteq N /\ d2.input \subseteq N /\ d2.node \in Driven(d2) \cup d2.input
      /\ Driven(d1) \cap d2.input = {} /\ Driven(d2) \cap d1.input = {}
      /\ Driven(d1) \cap d1.input = {} /\ Driven(d2) \cap d2.input = {}
  BY NumInputsAssumption DEF WellFormed, Generated, Builders, Inputs
<1> DEFINE f == CombineTruthTable(v1[d1.node], v2[d2.node], method)
           u == [s \in 1..(next + 1 - 1) |->
                   IF s = next THEN f
                   ELSE IF s \in Driven(d1) THEN v1[s]
                   ELSE IF s \in Driven(d2) THEN v2[s] ELSE Variable(s)]
<1>5. f \in BoolFunctions
  BY DEF CombineTruthTable, BoolFunctions
<1>6. \A s : Variable(s) \in BoolFunctions
  BY DEF Variable, BoolFunctions
<1>7. /\ v1 \in [N -> BoolFunctions] /\ \A s \in N : s \notin Driven(d1) => v1[s] = Variable(s)
      /\ v2 \in [N -> BoolFunctions] /\ \A s \in N : s \notin Driven(d2) => v2[s] = Variable(s)
  BY <1>1, <1>2 DEF Settled, Fits
<1>8. u \in [1..(next + 1 - 1) -> BoolFunctions]
  <2> HIDE DEF f
  <2> QED
    BY <1>3, <1>5, <1>6, <1>7
<1>9. /\ u[next] = f
      /\ \A s \in N : s \in Driven(d1) => u[s] = v1[s]
      /\ \A s \in N : s \in Driven(d2) => u[s] = v2[s]
      /\ \A s \in N : s \notin Driven(d1) \cup Driven(d2) => u[s] = Variable(s)
  <2> HIDE DEF f, N
  <2> QED
    BY <1>3
<1>10. /\ b.type = "NET" /\ b.node = next /\ b.data = d1.data \cup d2.data \cup {gate}
       /\ b.wire = d1.wire \cup d2.wire
       /\ b.constant0 = d1.constant0 \cup d2.constant0
       /\ b.constant1 = d1.constant1 \cup d2.constant1
  BY DEF CombineGate
<1>11. /\ gate.in1 = d1.node /\ gate.in2 = d2.node /\ gate.out = next
       /\ gate.method = method
  OBVIOUS
<1>12. /\ \A s \in Driven(d1) \cup d1.input : u[s] = v1[s]
       /\ \A s \in Driven(d2) \cup d2.input : u[s] = v2[s]
  <2> HIDE DEF u, f, N
  <2> QED
    BY <1>4, <1>7, <1>9
<1> HIDE DEF u, N, b, gate, f, method, rev1, rev2
<1>13. Driven(b) = Driven(d1) \cup Driven(d2) \cup {next}
  BY <1>10, <1>11 DEF Driven, Outs
<1>14. u[gate.in1] = v1[d1.node] /\ u[gate.in2] = v2[d2.node]
  BY <1>4, <1>11, <1>12
<1>15. ASSUME NEW s \in N \cup {next} PROVE Fits(b, u, s)
  <2>1. CASE s = next
    <3>1. next \notin Driven(d1) /\ next \notin Driven(d2)
      BY <1>3, <1>4
    <3>2. /\ s \notin b.constant0 /\ s \notin b.constant1
          /\ \A w \in b.wire : w.out # s
          /\ \A c \in b.data : c.out = s => c = gate
      BY <1>10, <1>11, <2>1, <3>1 DEF Driven, Outs
    <3>3. u[s] = CombineTruthTable(u[gate.in1], u[gate.in2], gate.method)
      BY <1>9, <1>11, <1>14, <2>1 DEF f
    <3>4. Lines(b, u, s)
      BY <3>2, <3>3 DEF Lines
    <3> QED
      BY <1>13, <2>1, <3>4 DEF Fits
  <2>2. CASE s # next /\ s \in Driven(d1)
    <3>1. Lines(d1, u, s)
      BY <1>1, <1>12, <2>2, LinesKept
    <3>2. s \notin Driven(d2)
      BY <2>2
    <3>3. Lines(b, u, s)
      BY <1>10, <1>11, <2>2, <3>1, <3>2 DEF Lines, Driven, Outs
    <3> QED
      BY <1>13, <2>2, <3>3 DEF Fits
  <2>3. CASE s # next /\ s \in Driven(d2)
    <3>1. Lines(d2, u, s)
      BY <1>2, <1>12, <2>3, LinesKept
    <3>2. s \notin Driven(d1)
      BY <2>3
    <3>3. Lines(b, u, s)
      BY <1>10, <1>11, <2>3, <3>1, <3>2 DEF Lines, Driven, Outs
    <3> QED
      BY <1>13, <2>3, <3>3 DEF Fits
  <2>4. CASE s # next /\ s \notin Driven(d1) \cup Driven(d2)
    <3>1. u[s] = Variable(s)
      BY <1>9, <2>4
    <3>2. Lines(b, u, s)
      BY <1>13, <2>4 DEF Lines, Driven, Outs
    <3> QED
      BY <3>1, <3>2 DEF Fits
  <2> QED
    BY <2>1, <2>2, <2>3, <2>4
<1>16. Settled(b, next + 1, u)
  BY <1>3, <1>8, <1>15 DEF Settled
<1>17. r.fun = u[next]
  <2>1. v1[d1.node] \in BoolFunctions /\ v2[d2.node] \in BoolFunctions
    BY <1>4, <1>7
  <2>2. q1.fun = Negated(v1[d1.node], rev1) /\ q2.fun = Negated(v2[d2.node], rev2)
    BY <1>1, <1>2 DEF Agrees, rev1, rev2
  <2>3. rev1 \in BOOLEAN /\ rev2 \in BOOLEAN
    BY DEF rev1, rev2
  <2>4. f = CombineTruthTable(q1.fun, q2.fun, table)
    <3> HIDE DEF d1, d2
    <3> QED
      BY <2>1, <2>2, <2>3, GateFunction DEF f, method
  <2> QED
    BY <1>9, <2>4
<1>18. Agrees(r, u)
  BY <1>10, <1>17 DEF Agrees, Negated, b
<1> QED
  BY <1>16, <1>18 DEF HasFunction, b

\* The functions of the tables that look at no operand, or at one.
LEMMA RelatedFunction ==
  ASSUME NEW f1 \in BoolFunctions, NEW f2 \in BoolFunctions, NEW table
  PROVE  /\ table \in ConstTables => CombineTruthTable(f1, f2, table)
              = IF table = ALL_IRR_TABLE_1 THEN Assignments ELSE {}
         /\ table \in LeftTables => CombineTruthTable(f1, f2, table)
              = Negated(f1, table = Not(LEFT_RELA_TABLE))
         /\ table \in RightTables => CombineTruthTable(f1, f2, table)
              = Negated(f2, table = Not(RIGHT_RELA_TABLE))
<1>1. \A x, y \in BOOLEAN :
        /\ Index(x, y) \in {0, 1, 2, 3}
        /\ Index(x, y) \in {1, 3} <=> x
        /\ Index(x, y) \in {0, 2} <=> ~x
        /\ Index(x, y) \in {2, 3} <=> y
        /\ Index(x, y) \in {0, 1} <=> ~y
  <2>1. /\ 0 \notin {1, 3} /\ 1 \in {1, 3} /\ 2 \notin {1, 3} /\ 3 \in {1, 3}
        /\ 0 \in {0, 2} /\ 1 \notin {0, 2} /\ 2 \in {0, 2} /\ 3 \notin {0, 2}
        /\ 0 \notin {2, 3} /\ 1 \notin {2, 3} /\ 2 \in {2, 3} /\ 3 \in {2, 3}
        /\ 0 \in {0, 1} /\ 1 \in {0, 1} /\ 2 \notin {0, 1} /\ 3 \notin {0, 1}
        /\ 0 \in {0, 1, 2, 3} /\ 1 \in {0, 1, 2, 3} /\ 2 \in {0, 1, 2, 3} /\ 3 \in {0, 1, 2, 3}
    OBVIOUS
  <2>2. \A x \in BOOLEAN : x = TRUE \/ x = FALSE
    OBVIOUS
  <2> QED
    BY <2>1, <2>2, Indices, Zenon
<1>2. f1 \subseteq Assignments /\ f2 \subseteq Assignments
  BY DEF BoolFunctions
<1>3. ASSUME NEW a \in Assignments
      PROVE  /\ Index(a \in f1, a \in f2) \in {0, 1, 2, 3}
             /\ Index(a \in f1, a \in f2) \in {1, 3} <=> a \in f1
             /\ Index(a \in f1, a \in f2) \in {0, 2} <=> a \notin f1
             /\ Index(a \in f1, a \in f2) \in {2, 3} <=> a \in f2
             /\ Index(a \in f1, a \in f2) \in {0, 1} <=> a \notin f2
  <2>1. (a \in f1) \in BOOLEAN /\ (a \in f2) \in BOOLEAN
    OBVIOUS
  <2> QED
    BY <1>1, <2>1, Zenon
<1> HIDE DEF Assignments
<1>4. /\ CombineTruthTable(f1, f2, {}) = {}
      /\ CombineTruthTable(f1, f2, {0, 1, 2, 3}) = Assignments
      /\ CombineTruthTable(f1, f2, {1, 3}) = f1
      /\ CombineTruthTable(f1, f2, {0, 2}) = Complement(f1)
      /\ CombineTruthTable(f1, f2, {2, 3}) = f2
      /\ CombineTruthTable(f1, f2, {0, 1}) = Complement(f2)
  <2>1. CombineTruthTable(f1, f2, {}) = {}
    BY DEF CombineTruthTable
  <2>2. CombineTruthTable(f1, f2, {0, 1, 2, 3}) = Assignments
    BY <1>3, Zenon DEF CombineTruthTable
  <2>3. CombineTruthTable(f1, f2, {1, 3}) = f1
    BY <1>2, <1>3, Zenon DEF CombineTruthTable
  <2>4. CombineTruthTable(f1, f2, {0, 2}) = Complement(f1)
    BY <1>2, <1>3, Zenon DEF CombineTruthTable, Complement
  <2>5. CombineTruthTable(f1, f2, {2, 3}) = f2
    BY <1>2, <1>3, Zenon DEF CombineTruthTable
  <2>6. CombineTruthTable(f1, f2, {0, 1}) = Complement(f2)
    BY <1>2, <1>3, Zenon DEF CombineTruthTable, Complement
  <2> QED
    BY <2>1, <2>2, <2>3, <2>4, <2>5, <2>6
<1>5. {} # {0, 1, 2, 3} /\ {1, 3} # {0, 2} /\ {2, 3} # {0, 1}
  OBVIOUS
<1> QED
  BY <1>4, <1>5, Tables DEF Negated, ConstTables, LeftTables, RightTables

\* An operand that a result may be made of.
IsOperand(q) ==
  /\ q \in Results /\ WellFormed(q.deInfo, nextName) /\ Ordered(q.deInfo)
  /\ q.deInfo.type # "INVALID" /\ ~q.mixed => HasFunction(q, nextName)

\* A combination has the function of its operation, unless the wrong operand
\* decided on its wire.
LEMMA CombinedHasFunction ==
  ASSUME nextName \in Nat, nextName > NumInputs, NEW table,
         NEW q1, IsOperand(q1), NEW q2, IsOperand(q2),
         Driven(q1.deInfo) \cap Driven(q2.deInfo) = {},
         Combinable(q1.deInfo, q2.deInfo, table),
         NEW r, r = Combined(q1, q2, table), ~r.mixed
  PROVE  HasFunction(r, nextName + 1)
<1> DEFINE rev1 == q1.deInfo.type = "REVERSE_INPUT"
           rev2 == q2.deInfo.type = "REVERSE_INPUT"
<1>1. /\ r.deInfo = CombineBlifBuilder(q1.deInfo, q2.deInfo, table, nextName)
      /\ r.fun = CombineTruthTable(q1.fun, q2.fun, table)
      /\ ~q1.mixed /\ ~q2.mixed
      /\ table \in RightTables => rev1 = rev2
  BY DEF Combined
<1>2. q1.fun \in BoolFunctions /\ q2.fun \in BoolFunctions
  BY DEF IsOperand, Results, BoolFunctions
<1>3. /\ WellFormed(q1.deInfo, nextName) /\ Ordered(q1.deInfo)
      /\ q1.deInfo.type # "INVALID" => HasFunction(q1, nextName)
  BY <1>1 DEF IsOperand
<1>4. /\ WellFormed(q2.deInfo, nextName) /\ Ordered(q2.deInfo)
      /\ q2.deInfo.type # "INVALID" => HasFunction(q2, nextName)
  BY <1>1 DEF IsOperand
<1> HIDE DEF rev1, rev2
<1>5. CASE table \in ConstTables
  <2> DEFINE value == table = ALL_IRR_TABLE_1
  <2>1. r.deInfo = BuildConst(nextName, value)
    BY <1>1, <1>5, Branches
  <2>2. r.fun = IF value THEN Assignments ELSE {}
    BY <1>1, <1>2, <1>5, RelatedFunction
  <2>3. value \in BOOLEAN
    OBVIOUS
  <2> HIDE DEF value
  <2> QED
    BY <2>1, <2>2, <2>3, ConstHasFunction
<1>6. CASE table \in LeftTables
  <2> DEFINE negated == table = Not(LEFT_RELA_TABLE)
             negate == negated # rev1
  <2>1. r.deInfo = Connect(q1.deInfo, negate, nextName)
    BY <1>1, <1>6, Branches DEF rev1
  <2>2. r.fun = Negated(q1.fun, negated)
    BY <1>1, <1>2, <1>6, RelatedFunction
  <2>3. q1.deInfo.type # "INVALID"
    <3>1. table \notin ConstTables /\ table \notin RightTables
      BY <1>6, TablesDiffer
    <3> QED
      BY <3>1 DEF Combinable
  <2>4. negated \in BOOLEAN /\ negate \in BOOLEAN /\ negate = (negated # (q1.deInfo.type = "REVERSE_INPUT"))
    BY DEF rev1
  <2> HIDE DEF negated, negate
  <2> QED
    BY <1>2, <1>3, <2>1, <2>2, <2>3, <2>4, ConnectHasFunction
<1>7. CASE table \in RightTables
  <2> DEFINE negated == table = Not(RIGHT_RELA_TABLE)
             negate == negated # rev1
  <2>1. r.deInfo = Connect(q2.deInfo, negate, nextName)
    BY <1>1, <1>7, Branches DEF rev1
  <2>2. r.fun = Negated(q2.fun, negated)
    BY <1>1, <1>2, <1>7, RelatedFunction
  <2>3. q2.deInfo.type # "INVALID"
    <3>1. table \notin ConstTables /\ table \notin LeftTables
      BY <1>7, TablesDiffer
    <3> QED
      BY <3>1 DEF Combinable
  <2>4. negated \in BOOLEAN /\ negate \in BOOLEAN /\ negate = (negated # (q2.deInfo.type = "REVERSE_INPUT"))
    BY <1>1, <1>7 DEF rev2
  <2> HIDE DEF negated, negate
  <2> QED
    BY <1>2, <1>4, <2>1, <2>2, <2>3, <2>4, ConnectHasFunction
<1>8. CASE table \notin ConstTables \cup LeftTables \cup RightTables
  <2>1. r.deInfo = CombineGate(q1.deInfo, q2.deInfo, table, nextName)
    BY <1>1, <1>8, Branches
  <2>2. q1.deInfo.type # "INVALID" /\ q2.deInfo.type # "INVALID"
    BY <1>8 DEF Combinable
  <2> QED
    BY <1>1, <1>3, <1>4, <2>1, <2>2, GateHasFunction
<1> QED
  BY <1>5, <1>6, <1>7, <1>8

\* Nothing is on the stack at first.
LEMMA FunInit == Init => FunInv
BY DEF Init, FunInv

\* A leaf brings its function along.
LEMMA PushKeepsFunctions ==
  ASSUME BInv, FunInv, NEW b, NEW fun, Push(b, fun), Ordered(b),
         LET r == [deInfo |-> b, fun |-> fun, mixed |-> FALSE]
         IN  b.type # "INVALID" => HasFunction(r, nextName)
  PROVE  FunInv'
<1> DEFINE r == [deInfo |-> b, fun |-> fun, mixed |-> FALSE]
<1>1. stack' = Append(stack, r) /\ nextName' = nextName
  BY DEF Push
<1>2. r.deInfo = b
  OBVIOUS
<1>3. b.type # "INVALID" => HasFunction(r, nextName)
  OBVIOUS
<1> HIDE DEF r
<1>4. /\ DOMAIN stack' = DOMAIN stack \cup {Len(stack) + 1}
      /\ \A i \in DOMAIN stack : stack'[i] = stack[i]
      /\ stack'[Len(stack) + 1] = r
  <2>1. stack \in Seq(Results)
    BY DEF BInv
  <2> QED
    BY <1>1, <2>1
<1>5. \A i \in DOMAIN stack' :
        /\ Ordered(stack'[i].deInfo)
        /\ stack'[i].deInfo.type # "INVALID" /\ ~stack'[i].mixed => HasFunction(stack'[i], nextName)
  BY <1>2, <1>3, <1>4 DEF FunInv
<1> QED
  BY <1>1, <1>5 DEF FunInv, HasFunction, Settled, Fits, Lines

\* A combination has its function, and the results below it keep theirs.
LEMMA ReturnKeepsFunctions ==
  ASSUME BInv, FunInv, Len(stack) >= 2, NEW table,
         Combinable(Left.deInfo, Right.deInfo, table), Return(table)
  PROVE  FunInv'
<1> DEFINE n == Len(stack)
           result == Combined(Left, Right, table)
           rest == SubSeq(stack, 1, n - 2)
<1>1. stack' = Append(rest, result) /\ nextName' = nextName + 1
  BY DEF Return
<1>2. stack \in Seq(Results) /\ n \in Nat /\ n >= 2 /\ DOMAIN stack = 1..n
  BY DEF BInv
<1>3. nextName \in Nat /\ nextName > NumInputs
  BY NextNameIsNew
<1>4. ASSUME NEW i \in DOMAIN stack
      PROVE  IsOperand(stack[i])
  BY <1>2 DEF BInv, FunInv, IsOperand
<1>5. IsOperand(Left) /\ IsOperand(Right) /\ Driven(Left.deInfo) \cap Driven(Right.deInfo) = {}
  <2>1. Left = stack[n - 1] /\ Right = stack[n]
    BY DEF Left, Right
  <2> HIDE DEF n
  <2>2. n - 1 \in DOMAIN stack /\ n \in DOMAIN stack /\ n - 1 # n
    BY <1>2
  <2>3. IsOperand(stack[n - 1]) /\ IsOperand(stack[n])
    BY <1>4, <2>2
  <2>4. Driven(stack[n - 1].deInfo) \cap Driven(stack[n].deInfo) = {}
    BY <2>2 DEF BInv
  <2> QED
    BY <2>1, <2>3, <2>4
<1>6. ~result.mixed => HasFunction(result, nextName + 1)
  <2> HIDE DEF result
  <2> SUFFICES ASSUME ~result.mixed PROVE HasFunction(result, nextName + 1)
    OBVIOUS
  <2> QED
    BY <1>3, <1>5, CombinedHasFunction DEF result
<1>7. Ordered(result.deInfo)
  <2>1. result.deInfo = CombineBlifBuilder(Left.deInfo, Right.deInfo, table, nextName)
    BY DEF Combined
  <2> HIDE DEF result
  <2> QED
    BY <1>3, <1>5, <2>1, CombinedOrdered DEF IsOperand
<1>8. /\ rest \in Seq(Results) /\ Len(rest) = n - 2
      /\ \A i \in 1..(n - 2) : rest[i] = stack[i]
  BY <1>2
<1> HIDE DEF result, n, rest
<1>9. /\ DOMAIN stack' = 1..(n - 1)
      /\ \A i \in 1..(n - 2) : stack'[i] = stack[i]
      /\ stack'[n - 1] = result
  <2> DEFINE S == Results \cup {result}
  <2>1. rest \in Seq(S) /\ result \in S
    BY <1>8
  <2> HIDE DEF S
  <2> QED
    BY <1>1, <1>2, <1>8, <2>1
<1>10. ASSUME NEW i \in DOMAIN stack'
       PROVE  /\ Ordered(stack'[i].deInfo)
              /\ stack'[i].deInfo.type # "INVALID" /\ ~stack'[i].mixed
                   => HasFunction(stack'[i], nextName + 1)
  <2>1. CASE i \in 1..(n - 2)
    <3>1. i \in DOMAIN stack /\ stack'[i] = stack[i]
      BY <1>2, <1>9, <2>1
    <3>2. IsOperand(stack[i])
      BY <1>4, <3>1
    <3> QED
      BY <1>3, <3>1, <3>2, HasFunctionLater DEF IsOperand
  <2>2. CASE i = n - 1
    BY <1>6, <1>7, <1>9, <2>2
  <2> QED
    BY <1>2, <1>9, <2>1, <2>2
<1> QED
  BY <1>1, <1>10 DEF FunInv, HasFunction, Settled, Fits, Lines

\* Each action keeps the second invariant too.
LEMMA FunStep ==
  ASSUME BInv, FunInv, [Next]_vars
  PROVE  FunInv'
<1>1. CASE UNCHANGED vars
  BY <1>1 DEF vars, FunInv, HasFunction, Settled, Fits, Lines
<1>2. CASE PushInput
  <2>1. PICK negated \in BOOLEAN :
          /\ leaves < NumInputs
          /\ Push(BuildInput(leaves + 1, negated),
                  {a \in Assignments : (leaves + 1 \in a) # negated})
    BY <1>2 DEF PushInput
  <2> DEFINE b == BuildInput(leaves + 1, negated)
             r == [deInfo |-> b, fun |-> {a \in Assignments : (leaves + 1 \in a) # negated},
                   mixed |-> FALSE]
  <2>2. leaves + 1 \in Inputs /\ nextName \in Nat /\ nextName > NumInputs
    BY <2>1, NextNameIsNew, NumInputsAssumption DEF BInv, Inputs
  <2>3. r.deInfo = b /\ r.fun = {a \in Assignments : (leaves + 1 \in a) # negated}
    OBVIOUS
  <2>4. Ordered(b) /\ HasFunction(r, nextName)
    <3> HIDE DEF r, b
    <3>1. Ordered(r.deInfo) /\ HasFunction(r, nextName)
      BY <2>2, <2>3, LeafHasFunction DEF b
    <3> QED
      BY <2>3, <3>1
  <2> QED
    BY <2>1, <2>4, PushKeepsFunctions
<1>3. CASE PushConstant
  <2>1. PICK fun : Push(BuildConst(NoName, TRUE), fun)
    BY <1>3 DEF PushConstant
  <2> DEFINE b == BuildConst(NoName, TRUE)
  <2>2. b.type = "INVALID" /\ b.data = {} /\ b.wire = {}
    BY DEF BuildConst, Builder, NoName
  <2>3. Ordered(b)
    <3> HIDE DEF b
    <3> QED
      BY <2>2 DEF Ordered
  <2> QED
    BY <2>1, <2>2, <2>3, PushKeepsFunctions
<1>4. CASE CombineDivision
  <2>1. Len(stack) >= 2
    BY <1>4 DEF CombineDivision
  <2>2. PICK table : Combinable(Left.deInfo, Right.deInfo, table) /\ Return(table)
    BY <1>4 DEF CombineDivision, Combinable, IsInvalid
  <2> QED
    BY <2>1, <2>2, ReturnKeepsFunctions
<1>5. CASE CombineMatch
  <2>1. Len(stack) >= 2
    BY <1>5 DEF CombineMatch
  <2>2. PICK table : Combinable(Left.deInfo, Right.deInfo, table) /\ Return(table)
    BY <1>5 DEF CombineMatch, Combinable, IsInvalid, IsLeaf
  <2> QED
    BY <2>1, <2>2, ReturnKeepsFunctions
<1>6. CASE CombineTwoInputs
  <2>1. Len(stack) >= 2
    BY <1>6 DEF CombineTwoInputs
  <2>2. PICK table : Combinable(Left.deInfo, Right.deInfo, table) /\ Return(table)
    BY <1>6 DEF CombineTwoInputs, Combinable
  <2> QED
    BY <2>1, <2>2, ReturnKeepsFunctions
<1> QED
  BY <1>1, <1>2, <1>3, <1>4, <1>5, <1>6 DEF Next

\* A builder computes the function that the decomposer keeps beside it and
\* counts the errors of, for any number of inputs and any sequence of calls
\* of combineBilfBuilder, as long as lines 65 and 77 of blif_builder.cpp do
\* not look at the wrong one of a complemented and another operand.
THEOREM BuildersComputeTheirFunctions == Spec => []DenotesFunctionUnlessMixed
<1>1. Init => BInv /\ FunInv
  BY InitKeeps, FunInit
<1>2. BInv /\ FunInv /\ [Next]_vars => (BInv /\ FunInv)'
  BY NextKeeps, FunStep
<1>3. BInv /\ FunInv => DenotesFunctionUnlessMixed
  <2> SUFFICES ASSUME BInv, FunInv, NEW i \in DOMAIN stack,
                      stack[i].deInfo.type # "INVALID", ~stack[i].mixed
               PROVE  Denotes(stack[i].deInfo) = stack[i].fun
    BY DEF DenotesFunctionUnlessMixed
  <2> DEFINE b == stack[i].deInfo
  <2>1. nextName \in Nat /\ WellFormed(b, nextName) /\ Ordered(b)
    BY NextNameIsNew DEF BInv, FunInv
  <2>2. PICK v : Settled(b, nextName, v) /\ Agrees(stack[i], v)
    BY DEF FunInv, HasFunction
  <2>3. Values(b) = v
    BY <2>1, <2>2, ValuesOf
  <2> QED
    BY <2>2, <2>3 DEF Denotes, Agrees, Negated, Complement
<1> QED
  BY <1>1, <1>2, <1>3, PTL DEF Spec
=============================================================================
