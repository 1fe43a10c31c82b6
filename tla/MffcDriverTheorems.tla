-------------------------- MODULE MffcDriverTheorems --------------------------
(***************************************************************************)
(* What the rounds of mffc.cpp guarantee, for every set of circuits, every *)
(* decomposer and every tolerance.                                         *)
(***************************************************************************)
EXTENDS MffcDriver, CommonTheorems, SequenceTheorems

(***************************************************************************)
(* Evaluation.  The circuits and the cones of MffcDriver are evaluated by  *)
(* a recursive function.  Without cycles it exists, and the set of nodes   *)
(* that are 1 is the only solution of the equations of the nodes.          *)
(***************************************************************************)

\* Nodes D with sources I, where no gate depends on itself.
Ranked(D, I, fanin) ==
  /\ \A g \in D \ I : fanin[g] \subseteq D
  /\ \A X \in SUBSET (D \ I) : X # {} => \E g \in X : fanin[g] \cap X = {}

\* T are the nodes that are 1 when the sources in b are 1.
Solves(D, I, fanin, fn, b, T) ==
  /\ T \subseteq D
  /\ \A n \in D \cap I : n \in T <=> n \in b
  /\ \A n \in D \ I : n \in T <=> fanin[n] \cap T \in fn[n]

\* One set of nodes at most solves the equations: a gate in which two differ,
\* and that reads no other such gate, would read the same and be different.
LEMMA SolutionUnique ==
  ASSUME NEW D, NEW I, NEW fanin, NEW fn, NEW b, Ranked(D, I, fanin),
         NEW T, Solves(D, I, fanin, fn, b, T), NEW U, Solves(D, I, fanin, fn, b, U)
  PROVE  T = U
<1> DEFINE X == {n \in D : ~(n \in T <=> n \in U)}
<1>1. X \in SUBSET (D \ I)
  BY DEF Solves
<1>2. ASSUME NEW g \in X, fanin[g] \cap X = {}
      PROVE  FALSE
  <2>1. g \in D \ I /\ fanin[g] \subseteq D
    BY <1>1 DEF Ranked
  <2>2. fanin[g] \cap T = fanin[g] \cap U
    BY <1>2, <2>1
  <2>3. g \in T <=> g \in U
    BY <2>1, <2>2 DEF Solves
  <2> QED
    BY <2>3
<1>3. X = {}
  BY <1>1, <1>2 DEF Ranked
<1> QED
  BY <1>3 DEF Solves

\* One set does: a largest part of the nodes, closed under reading, that has a
\* solution can be extended by a gate that reads no other gate outside of it.
LEMMA SolutionExists ==
  ASSUME NEW D, IsFiniteSet(D), NEW I \in SUBSET D, NEW fanin, NEW fn, NEW b,
         Ranked(D, I, fanin)
  PROVE  \E T : Solves(D, I, fanin, fn, b, T)
<1> DEFINE Part(Y) == /\ I \subseteq Y
                      /\ \A g \in Y \ I : fanin[g] \subseteq Y
                      /\ \E T : Solves(Y, I, fanin, fn, b, T)
           G == {Y \in SUBSET D : Part(Y)}
<1>1. I \in G
  <2>1. Solves(I, I, fanin, fn, b, I \cap b)
    BY DEF Solves
  <2> QED
    BY <2>1
<1>2. PICK Y \in G : \A Z \in G : Y \subseteq Z => Z = Y
  <2>1. G \in SUBSET SUBSET D /\ G # {}
    BY <1>1
  <2> HIDE DEF G
  <2> QED
    BY <2>1, LargestSet
<1>3. Y \in SUBSET D /\ I \subseteq Y /\ \A g \in Y \ I : fanin[g] \subseteq Y
  OBVIOUS
<1>4. PICK T : Solves(Y, I, fanin, fn, b, T)
  OBVIOUS
<1>5. ASSUME NEW g \in D \ Y, fanin[g] \cap (D \ Y) = {}
      PROVE  FALSE
  <2> DEFINE Z == Y \cup {g}
             U == IF fanin[g] \cap T \in fn[g] THEN T \cup {g} ELSE T
  <2>1. g \in D \ I /\ fanin[g] \subseteq Y /\ g \notin T /\ T \subseteq Y
    BY <1>3, <1>4, <1>5 DEF Ranked, Solves
  <2>2. U \subseteq Z /\ \A n \in Y : n \in U <=> n \in T
    BY <1>4, <2>1
  <2>3. \A n \in Z \ I : fanin[n] \subseteq Y
    BY <1>3, <2>1
  <2>4. \A n \in Z \ I : fanin[n] \cap U = fanin[n] \cap T
    BY <2>2, <2>3
  <2>5. g \in U <=> fanin[g] \cap T \in fn[g]
    BY <2>1
  <2> HIDE DEF U
  <2>6. Solves(Z, I, fanin, fn, b, U)
    <3>1. \A n \in Z \cap I : n \in U <=> n \in b
      BY <1>3, <1>4, <2>1, <2>2 DEF Solves
    <3>2. ASSUME NEW n \in Z \ I
          PROVE  n \in U <=> fanin[n] \cap U \in fn[n]
      <4>1. fanin[n] \cap U = fanin[n] \cap T
        BY <2>4
      <4>2. CASE n = g
        BY <2>5, <4>1, <4>2
      <4>3. CASE n # g
        <5>1. n \in Y \ I
          BY <4>3
        <5>2. n \in T <=> fanin[n] \cap T \in fn[n]
          BY <1>4, <5>1 DEF Solves
        <5> QED
          BY <2>2, <4>1, <5>1, <5>2
      <4> QED
        BY <4>2, <4>3
    <3> QED
      BY <2>2, <3>1, <3>2 DEF Solves
  <2>7. Z \in SUBSET D /\ I \subseteq Z /\ \A n \in Z \ I : fanin[n] \subseteq Z
    BY <1>3, <1>5, <2>3
  <2>8. Z \in G
    BY <2>6, <2>7
  <2> QED
    BY <1>2, <1>5, <2>8
<1>6. D \ Y \in SUBSET (D \ I)
  BY <1>3
<1>7. D \ Y = {}
  BY <1>5, <1>6 DEF Ranked
<1>8. Y = D
  BY <1>3, <1>7
<1> QED
  BY <1>4, <1>8

\* The recursive function by which circuits and cones are evaluated.
Value(D, I, fanin, fn, b) ==
  CHOOSE one : one = [n \in D |-> IF n \in I THEN n \in b
                                  ELSE {m \in fanin[n] : one[m]} \in fn[n]]

\* The nodes for which it is true solve the equations.
LEMMA ValueSolves ==
  ASSUME NEW D, IsFiniteSet(D), NEW I \in SUBSET D, NEW fanin, NEW fn, NEW b,
         Ranked(D, I, fanin)
  PROVE  Solves(D, I, fanin, fn, b, {n \in D : Value(D, I, fanin, fn, b)[n]})
<1> DEFINE Body(f, n) == IF n \in I THEN n \in b ELSE {m \in fanin[n] : f[m]} \in fn[n]
           IsOne(f) == f = [n \in D |-> Body(f, n)]
           one == Value(D, I, fanin, fn, b)
           O == {n \in D : one[n]}
<1>1. \E f : IsOne(f)
  <2>1. PICK T : Solves(D, I, fanin, fn, b, T)
    BY SolutionExists
  <2> DEFINE f == [n \in D |-> n \in T]
  <2>2. ASSUME NEW n \in D
        PROVE  (n \in T) = Body(f, n)
    <3>1. CASE n \in I
      BY <2>1, <3>1 DEF Solves
    <3>2. CASE n \notin I
      <4>1. fanin[n] \subseteq D
        BY <3>2 DEF Ranked
      <4>2. {m \in fanin[n] : f[m]} = fanin[n] \cap T
        BY <4>1
      <4>3. n \in T <=> fanin[n] \cap T \in fn[n]
        BY <2>1, <3>2 DEF Solves
      <4>4. Body(f, n) = (fanin[n] \cap T \in fn[n])
        BY <3>2, <4>2, Zenon
      <4>5. (n \in T) = (fanin[n] \cap T \in fn[n])
        BY <4>3, SMT
      <4> HIDE DEF Body, f
      <4> QED
        BY <4>4, <4>5
    <3> QED
      BY <3>1, <3>2
  <2>3. IsOne(f)
    BY <2>2, Zenon
  <2> QED
    BY <2>3
<1>2. IsOne(one)
  <2>1. one = CHOOSE f : IsOne(f)
    BY DEF Value
  <2> HIDE DEF one, IsOne
  <2> QED
    BY <1>1, <2>1
<1>3. ASSUME NEW n \in D
      PROVE  one[n] = Body(one, n)
  BY <1>2, Zenon
<1> HIDE DEF one
<1>4. \A n \in D \cap I : n \in O <=> n \in b
  BY <1>3
<1>5. ASSUME NEW n \in D \ I
      PROVE  n \in O <=> fanin[n] \cap O \in fn[n]
  <2>1. fanin[n] \subseteq D
    BY DEF Ranked
  <2>2. {m \in fanin[n] : one[m]} = fanin[n] \cap O
    BY <2>1
  <2>3. one[n] = ({m \in fanin[n] : one[m]} \in fn[n])
    BY <1>3
  <2> QED
    BY <2>2, <2>3, Zenon
<1>6. Solves(D, I, fanin, fn, b, O)
  BY <1>4, <1>5 DEF Solves
<1> QED
  BY <1>6 DEF one

\* A circuit can be evaluated: it is finite and has no cycles.
LEMMA CircuitRanked ==
  ASSUME NEW c, IsCircuit(c)
  PROVE  Ranked(Node(c), c.pi, c.fanin)
<1>1. Node(c) \ c.pi \subseteq c.gate
  BY DEF Node
<1>2. c.fanin \in [c.gate -> SUBSET Node(c)] /\ Acyclic(c)
  BY DEF IsCircuit, IsNetlist
<1> QED
  BY <1>1, <1>2 DEF Ranked, Acyclic

\* circuit(): the nodes that are 1 solve the equations of the gates.
LEMMA OnesSolve ==
  ASSUME NEW c, IsCircuit(c), NEW a
  PROVE  Solves(Node(c), c.pi, c.fanin, c.fn, a, Ones(c, a))
<1>1. Ones(c, a) = {n \in Node(c) : Value(Node(c), c.pi, c.fanin, c.fn, a)[n]}
  BY DEF Ones, Value
<1>2. Ranked(Node(c), c.pi, c.fanin)
  BY CircuitRanked
<1>3. IsFiniteSet(Node(c)) /\ c.pi \in SUBSET Node(c)
  BY DEF IsCircuit, Node
<1> QED
  BY <1>1, <1>2, <1>3, ValueSolves

\* They are the only nodes that do.
LEMMA OnesUnique ==
  ASSUME NEW c, IsCircuit(c), NEW a, NEW T, Solves(Node(c), c.pi, c.fanin, c.fn, a, T)
  PROVE  T = Ones(c, a)
BY OnesSolve, CircuitRanked, SolutionUnique

-----------------------------------------------------------------------------
(***************************************************************************)
(* A cone as a circuit of its own.                                         *)
(***************************************************************************)

\* A gate is 1 when what it reads says so.
LEMMA OnesAt ==
  ASSUME NEW c, IsCircuit(c), NEW a
  PROVE  /\ Ones(c, a) \subseteq Node(c)
         /\ \A n \in c.pi : n \in Ones(c, a) <=> n \in a
         /\ \A g \in c.gate : g \in Ones(c, a) <=> c.fanin[g] \cap Ones(c, a) \in c.fn[g]
<1>1. \A g \in c.gate : g \in Node(c) \ c.pi
  BY DEF IsCircuit, IsNetlist, Node
<1>2. \A n \in c.pi : n \in Node(c) \cap c.pi
  BY DEF Node
<1> QED
  BY <1>1, <1>2, OnesSolve DEF Solves

\* The nodes and the inputs of a cone can be evaluated on their own.
LEMMA FfcRanked ==
  ASSUME NEW c, IsCircuit(c), NEW r \in Node(c), NEW f, f = FfcAt(c, r)
  PROVE  /\ Ranked(f.nodeSet \cup f.inputNode, f.inputNode, c.fanin)
         /\ f.nodeSet \subseteq c.gate
         /\ f.nodeSet \cap f.inputNode = {}
         /\ f.nodeSet \cup f.inputNode \subseteq Node(c)
<1>1. IsNetlist(c) /\ Acyclic(c)
  BY DEF IsCircuit
<1>2. f.nodeSet \subseteq c.gate /\ f.inputNode \subseteq Node(c)
  BY <1>1, FfcType
<1>3. f.nodeSet \cap f.inputNode = {}
  BY FfcFields
<1>4. \A g \in f.nodeSet : c.fanin[g] \subseteq f.nodeSet \cup f.inputNode
  BY <1>1, <1>2, FfcReads DEF FaninOf
<1>5. (f.nodeSet \cup f.inputNode) \ f.inputNode = f.nodeSet
  BY <1>3
<1>6. \A X \in SUBSET f.nodeSet : X # {} => \E g \in X : c.fanin[g] \cap X = {}
  BY <1>1, <1>2 DEF Acyclic
<1> QED
  BY <1>2, <1>3, <1>4, <1>5, <1>6 DEF Ranked, Node

\* Its truth table gives, for the values its inputs have in the circuit, the
\* value the root has in the circuit.
LEMMA ConeHasValueOfRoot ==
  ASSUME NEW c, IsCircuit(c), NEW r \in Node(c), NEW f, f = FfcAt(c, r),
         r \in f.nodeSet, NEW a
  PROVE  Ones(c, a) \cap f.inputNode \in TruthTable(c, f) <=> r \in Ones(c, a)
<1> DEFINE D == f.nodeSet \cup f.inputNode
           I == f.inputNode
           b == Ones(c, a) \cap I
           O == {n \in D : Value(D, I, c.fanin, c.fn, b)[n]}
           T == Ones(c, a) \cap D
<1>1. IsOneInCone(c, f, b) = Value(D, I, c.fanin, c.fn, b)[f.name]
  BY DEF IsOneInCone, Value
<1>2. f.name = r
  BY FfcFields
<1>3. /\ Ranked(D, I, c.fanin) /\ f.nodeSet \subseteq c.gate
      /\ f.nodeSet \cap I = {} /\ D \subseteq Node(c)
  BY FfcRanked
<1>4. IsFiniteSet(D)
  BY <1>3, FS_Subset DEF IsCircuit
<1>5. Solves(D, I, c.fanin, c.fn, b, O)
  <2> I \in SUBSET D
    OBVIOUS
  <2> HIDE DEF D, I, b
  <2> QED
    BY <1>3, <1>4, ValueSolves
<1>6. Solves(D, I, c.fanin, c.fn, b, T)
  <2>1. \A n \in D \cap I : n \in T <=> n \in b
    OBVIOUS
  <2>2. ASSUME NEW n \in D \ I
        PROVE  n \in T <=> c.fanin[n] \cap T \in c.fn[n]
    <3>1. c.fanin[n] \subseteq D /\ n \in c.gate
      BY <1>3 DEF Ranked
    <3>2. c.fanin[n] \cap T = c.fanin[n] \cap Ones(c, a)
      BY <3>1
    <3> QED
      BY <3>1, <3>2, OnesAt
  <2> QED
    BY <2>1, <2>2 DEF Solves
<1>7. O = T
  <2> HIDE DEF D, I, b, O, T
  <2> QED
    BY <1>3, <1>5, <1>6, SolutionUnique
<1>8. r \in D
  OBVIOUS
<1>9. IsOneInCone(c, f, b) <=> r \in O
  <2> HIDE DEF D, I, b
  <2> QED
    BY <1>1, <1>2, <1>8
<1>10. b \in TruthTable(c, f) <=> IsOneInCone(c, f, b)
  BY DEF TruthTable
<1> QED
  BY <1>7, <1>8, <1>9, <1>10

-----------------------------------------------------------------------------
(***************************************************************************)
(* The circuit that exportReplacedBlif writes.                             *)
(***************************************************************************)

\* The FFCs of ffcSet.
FfcsOf(rs) == {rs[k].ffc : k \in DOMAIN rs}

\* The FFCs of rs are wide cones of c that do not meet and hide no output, and
\* each comes with a function of its inputs.
CanReplace(c, rs) ==
  /\ \A k \in DOMAIN rs :
       /\ rs[k].ffc.name \in Node(c) /\ rs[k].ffc = FfcAt(c, rs[k].ffc.name)
       /\ FaninOf(c, rs[k].ffc.name) # {} /\ rs[k].ffc.name \in rs[k].ffc.nodeSet
       /\ rs[k].fun \subseteq SUBSET rs[k].ffc.inputNode /\ rs[k].nLine \in Nat \ {0}
       /\ c.po \cap rs[k].ffc.nodeSet \subseteq {rs[k].ffc.name}
  /\ \A j, k \in DOMAIN rs : j # k => rs[j].ffc.nodeSet \cap rs[k].ffc.nodeSet = {}

\* Such FFCs can be replaced together.
LEMMA FfcsReplaceable ==
  ASSUME NEW c, NEW rs, CanReplace(c, rs)
  PROVE  Replaceable(c, FfcsOf(rs))
BY DEF CanReplace, Replaceable, FfcsOf

\* A root is driven by the builder that was made for it.
LEMMA ReplacementOfRoot ==
  ASSUME NEW c, NEW rs, CanReplace(c, rs), NEW k \in DOMAIN rs
  PROVE  Replacement(rs, rs[k].ffc.name) = rs[k]
<1>1. ASSUME NEW j \in DOMAIN rs, rs[j].ffc.name = rs[k].ffc.name
      PROVE  j = k
  <2>1. rs[j].ffc = rs[k].ffc /\ rs[k].ffc.name \in rs[k].ffc.nodeSet
    BY <1>1 DEF CanReplace
  <2> QED
    BY <2>1 DEF CanReplace
<1>2. (CHOOSE j \in DOMAIN rs : rs[j].ffc.name = rs[k].ffc.name) = k
  BY <1>1
<1> QED
  BY <1>2 DEF Replacement

\* The written circuit, field by field: roots are driven by their builders,
\* the other gates that are left are as they were.
IsExport(c, rs, E) ==
  /\ E.pi = c.pi /\ E.po = c.po
  /\ E.gate = (c.gate \ Omits(FfcsOf(rs))) \cup Roots(FfcsOf(rs))
  /\ E.fanin = [g \in E.gate |-> E.fanin[g]]
  /\ DOMAIN E.fn = E.gate
  /\ E.size = [g \in E.gate |-> E.size[g]]
  /\ \A g \in E.gate : g \notin Roots(FfcsOf(rs)) =>
       E.fanin[g] = c.fanin[g] /\ E.fn[g] = c.fn[g] /\ E.size[g] = c.size[g]
  /\ \A k \in DOMAIN rs :
       /\ rs[k].ffc.name \in E.gate
       /\ E.fanin[rs[k].ffc.name] = rs[k].ffc.inputNode
       /\ E.fn[rs[k].ffc.name] = rs[k].fun
       /\ E.size[rs[k].ffc.name] = rs[k].nLine

\* This is what exportReplacedBlif computes.
LEMMA ExportFields ==
  ASSUME NEW c, NEW rs, CanReplace(c, rs), NEW E, E = ExportReplacedBlif(c, rs)
  PROVE  IsExport(c, rs, E)
<1> DEFINE omits == UNION {rs[k].ffc.nodeSet : k \in DOMAIN rs}
           roots == {rs[k].ffc.name : k \in DOMAIN rs}
           gates == (c.gate \ omits) \cup roots
           fanin(g) == IF g \in roots THEN Replacement(rs, g).ffc.inputNode ELSE c.fanin[g]
           fn(g) == IF g \in roots THEN Replacement(rs, g).fun ELSE c.fn[g]
           size(g) == IF g \in roots THEN Replacement(rs, g).nLine ELSE c.size[g]
<1>1. omits = Omits(FfcsOf(rs)) /\ roots = Roots(FfcsOf(rs))
  BY DEF Omits, Roots, FfcsOf
<1>2. /\ E.pi = c.pi /\ E.po = c.po /\ E.gate = gates
      /\ E.fanin = [g \in gates |-> fanin(g)]
      /\ E.fn = [g \in gates |-> fn(g)]
      /\ E.size = [g \in gates |-> size(g)]
  BY DEF ExportReplacedBlif
<1>3. \A k \in DOMAIN rs : rs[k].ffc.name \in roots
  OBVIOUS
<1>4. \A k \in DOMAIN rs : Replacement(rs, rs[k].ffc.name) = rs[k]
  BY ReplacementOfRoot
<1>5. ASSUME NEW k \in DOMAIN rs
      PROVE  /\ fanin(rs[k].ffc.name) = rs[k].ffc.inputNode
             /\ fn(rs[k].ffc.name) = rs[k].fun
             /\ size(rs[k].ffc.name) = rs[k].nLine
  <2> HIDE DEF roots
  <2> QED
    BY <1>3, <1>4
<1>6. ASSUME NEW g, g \notin roots
      PROVE  fanin(g) = c.fanin[g] /\ fn(g) = c.fn[g] /\ size(g) = c.size[g]
  <2> HIDE DEF roots
  <2> QED
    BY <1>6
<1>7. roots \subseteq gates
  OBVIOUS
<1> HIDE DEF omits, roots, fanin, fn, size
<1>8. E.gate = (c.gate \ Omits(FfcsOf(rs))) \cup Roots(FfcsOf(rs))
  BY <1>1, <1>2
<1> HIDE DEF gates
<1> QED
  BY <1>1, <1>2, <1>3, <1>5, <1>6, <1>7, <1>8 DEF IsExport

\* It replaces the FFCs.
LEMMA ExportReplaces ==
  ASSUME NEW c, NEW rs, NEW E, IsExport(c, rs, E)
  PROVE  IsReplacement(c, FfcsOf(rs), E)
<1>1. ASSUME NEW f \in FfcsOf(rs)
      PROVE  E.fanin[f.name] = f.inputNode
  <2>1. PICK k \in DOMAIN rs : f = rs[k].ffc
    BY DEF FfcsOf
  <2>2. E.fanin[rs[k].ffc.name] = rs[k].ffc.inputNode
    BY DEF IsExport
  <2> QED
    BY <2>1, <2>2
<1> QED
  BY <1>1 DEF IsReplacement, IsExport

\* It is a circuit without cycles again, with the outputs it had.
LEMMA ExportIsCircuit ==
  ASSUME NEW c, IsCircuit(c), NEW rs, CanReplace(c, rs),
         NEW E, IsExport(c, rs, E)
  PROVE  IsCircuit(E) /\ E.pi = c.pi /\ E.po = c.po /\ Node(E) \subseteq Node(c)
<1> DEFINE F == FfcsOf(rs)
<1>1. IsNetlist(c) /\ Acyclic(c) /\ Replaceable(c, F) /\ IsReplacement(c, F, E)
  BY FfcsReplaceable, ExportReplaces DEF IsCircuit
<1>2. /\ E.pi = c.pi /\ E.po = c.po
      /\ DOMAIN E.fn = E.gate /\ E.size = [g \in E.gate |-> E.size[g]]
  BY DEF IsExport
<1> HIDE DEF F
<1>3. E.gate \subseteq c.gate /\ \A g \in E.gate : g \notin Roots(F) => g \in c.gate
  BY <1>1, ReplacedGates
<1>4. E.fanin \in [E.gate -> SUBSET Node(E)] /\ Acyclic(E)
  BY <1>1, ReplacedClosed, ReplacedAcyclic
<1>5. E.po \subseteq Node(E)
  <2> SUFFICES ASSUME NEW m \in c.po PROVE m \in Node(E)
    BY <1>2
  <2>1. m \in Node(c)
    BY <1>1 DEF IsNetlist
  <2>2. m \in Omits(F) => m \in Roots(F)
    BY DEF Omits, Roots, F, FfcsOf, CanReplace
  <2> QED
    BY <1>1, <2>1, <2>2, KeptNode
<1>6. ASSUME NEW g \in E.gate
      PROVE  E.fn[g] \subseteq SUBSET E.fanin[g] /\ E.size[g] \in Nat \ {0}
  <2>1. CASE g \in Roots(F)
    <3>1. PICK k \in DOMAIN rs : g = rs[k].ffc.name
      BY <2>1 DEF Roots, F, FfcsOf
    <3>2. E.fanin[g] = rs[k].ffc.inputNode /\ E.fn[g] = rs[k].fun /\ E.size[g] = rs[k].nLine
      BY <3>1 DEF IsExport
    <3> QED
      BY <3>2 DEF CanReplace
  <2>2. CASE g \notin Roots(F)
    <3>1. E.fanin[g] = c.fanin[g] /\ E.fn[g] = c.fn[g] /\ E.size[g] = c.size[g]
      BY <2>2 DEF F, IsExport
    <3>2. g \in c.gate
      BY <1>3
    <3> QED
      BY <3>1, <3>2 DEF IsCircuit
  <2> QED
    BY <2>1, <2>2
<1>7. Node(E) \subseteq Node(c)
  BY <1>2, <1>3 DEF Node
<1>8. IsFiniteSet(Node(E))
  BY <1>7, FS_Subset DEF IsCircuit
<1>9. IsNetlist(E)
  BY <1>1, <1>2, <1>3, <1>4, <1>5 DEF IsNetlist
<1>10. E.size \in [E.gate -> Nat \ {0}]
  BY <1>2, <1>6
<1> QED
  BY <1>2, <1>4, <1>6, <1>7, <1>8, <1>9, <1>10 DEF IsCircuit

-----------------------------------------------------------------------------
(***************************************************************************)
(* The errors of the written circuit.                                      *)
(***************************************************************************)

\* The vectors of a draw for which the outputs of c are not those of d.
Wrong(draw, c, d) ==
  {j \in DOMAIN draw : Ones(c, draw[j]) \cap c.po # Ones(d, draw[j]) \cap d.po}

\* The vectors countMatchError counts for one FFC.
Differ(draw, c, ffc, fun) ==
  {j \in DOMAIN draw : Ones(c, draw[j]) \cap ffc.inputNode \in
                          (TruthTable(c, ffc) \ fun) \cup (fun \ TruthTable(c, ffc))}

\* The vectors counted so far in the round: for each FFC those for which its
\* builder is wrong.
Suspect(draw, c, rs) == UNION {Differ(draw, c, rs[k].ffc, rs[k].fun) : k \in DOMAIN rs}

\* Where no builder is wrong for the values its inputs had before, every node
\* that is left has the value it had before.
LEMMA ValuesKept ==
  ASSUME NEW c, IsCircuit(c), NEW rs, CanReplace(c, rs),
         NEW E, IsExport(c, rs, E), NEW a,
         \A k \in DOMAIN rs :
           Ones(c, a) \cap rs[k].ffc.inputNode \in rs[k].fun <=>
           Ones(c, a) \cap rs[k].ffc.inputNode \in TruthTable(c, rs[k].ffc)
  PROVE  Ones(E, a) = Ones(c, a) \cap Node(E)
<1> DEFINE F == FfcsOf(rs)
           O == Ones(c, a)
           T == O \cap Node(E)
<1>1. IsNetlist(c) /\ Replaceable(c, F) /\ IsReplacement(c, F, E)
  BY FfcsReplaceable, ExportReplaces DEF IsCircuit
<1>2. IsCircuit(E) /\ E.pi = c.pi
  BY ExportIsCircuit
<1>3. \A n \in Node(E) \cap E.pi : n \in T <=> n \in a
  BY <1>2, OnesAt
<1>4. ASSUME NEW g \in Node(E) \ E.pi
      PROVE  g \in T <=> E.fanin[g] \cap T \in E.fn[g]
  <2>1. g \in E.gate
    BY DEF Node
  <2>2. CASE g \in Roots(F)
    <3>1. PICK k \in DOMAIN rs : g = rs[k].ffc.name
      BY <2>2 DEF Roots, FfcsOf
    <3>2. E.fanin[g] = rs[k].ffc.inputNode /\ E.fn[g] = rs[k].fun
      BY <3>1 DEF IsExport
    <3>3. rs[k].ffc \in F
      BY DEF FfcsOf
    <3>4. rs[k].ffc.inputNode \subseteq Node(E)
      BY <1>1, <3>3, BodyFanin
    <3>5. E.fanin[g] \cap T = O \cap rs[k].ffc.inputNode
      BY <3>2, <3>4
    <3>6. /\ g \in Node(c) /\ rs[k].ffc = FfcAt(c, g)
          /\ g \in rs[k].ffc.nodeSet
      BY <3>1 DEF CanReplace
    <3>7. O \cap rs[k].ffc.inputNode \in TruthTable(c, rs[k].ffc) <=> g \in O
      BY <3>6, ConeHasValueOfRoot
    <3>8. O \cap rs[k].ffc.inputNode \in rs[k].fun <=> g \in O
      BY <3>7
    <3> QED
      BY <3>2, <3>5, <3>8
  <2>3. CASE g \notin Roots(F)
    <3>1. E.fanin[g] = c.fanin[g] /\ E.fn[g] = c.fn[g]
      BY <2>1, <2>3 DEF IsExport
    <3>2. g \in c.gate
      BY <1>1, <2>1, ReplacedGates
    <3>3. c.fanin[g] \subseteq Node(E)
      BY <1>1, <2>1, <2>3, KeptFanin
    <3>4. c.fanin[g] \cap T = c.fanin[g] \cap O
      BY <3>3
    <3>5. g \in O <=> c.fanin[g] \cap O \in c.fn[g]
      BY <3>2, OnesAt
    <3> QED
      BY <3>1, <3>4, <3>5
  <2> QED
    BY <2>2, <2>3
<1>5. Solves(Node(E), E.pi, E.fanin, E.fn, a, T)
  BY <1>3, <1>4 DEF Solves
<1> HIDE DEF T
<1>6. T = Ones(E, a)
  BY <1>2, <1>5, OnesUnique
<1> QED
  BY <1>6 DEF T

\* So the written circuit is another only where something was counted.
LEMMA WrongIsSuspect ==
  ASSUME NEW c, IsCircuit(c), NEW rs, CanReplace(c, rs),
         NEW E, IsExport(c, rs, E), NEW draw
  PROVE  Wrong(draw, E, c) \subseteq Suspect(draw, c, rs)
<1> SUFFICES ASSUME NEW j \in Wrong(draw, E, c), j \notin Suspect(draw, c, rs)
             PROVE  FALSE
  OBVIOUS
<1> DEFINE a == draw[j]
<1>1. IsCircuit(E) /\ E.pi = c.pi /\ E.po = c.po
  BY ExportIsCircuit
<1>2. j \in DOMAIN draw /\ Ones(E, a) \cap c.po # Ones(c, a) \cap c.po
  BY <1>1 DEF Wrong
<1>3. ASSUME NEW k \in DOMAIN rs
      PROVE  Ones(c, a) \cap rs[k].ffc.inputNode \in rs[k].fun <=>
             Ones(c, a) \cap rs[k].ffc.inputNode \in TruthTable(c, rs[k].ffc)
  <2>1. j \notin Differ(draw, c, rs[k].ffc, rs[k].fun)
    BY DEF Suspect
  <2> QED
    BY <1>2, <2>1 DEF Differ
<1> HIDE DEF a
<1>4. Ones(E, a) = Ones(c, a) \cap Node(E)
  BY <1>3, ValuesKept
<1>5. c.po \subseteq Node(E)
  BY <1>1 DEF IsCircuit, IsNetlist
<1> QED
  BY <1>2, <1>4, <1>5

\* A circuit with other outputs than d has other outputs than c, or c has.
LEMMA WrongTriangle ==
  ASSUME NEW draw, NEW E, NEW c, NEW d
  PROVE  Wrong(draw, E, d) \subseteq Wrong(draw, E, c) \cup Wrong(draw, c, d)
BY DEF Wrong

\* A simulation draws finitely many vectors.
LEMMA FiniteDraw ==
  ASSUME NEW S, NEW draw \in Seq(S)
  PROVE  IsFiniteSet(DOMAIN draw)
BY FS_Interval

\* The counts of the code are the sizes of these sets.
LEMMA Counts ==
  ASSUME NEW S, NEW draw \in Seq(S), NEW c, NEW d, NEW f, NEW fun
  PROVE  /\ IsFiniteSet(Wrong(draw, c, d)) /\ IsFiniteSet(Differ(draw, c, f, fun))
         /\ CompareBySimulation(draw, c, d) = Cardinality(Wrong(draw, c, d))
         /\ CountMatchError(draw, c, f, TruthTable(c, f), fun)
              = Cardinality(Differ(draw, c, f, fun))
         /\ CompareBySimulation(draw, c, d) \in Nat
         /\ CountMatchError(draw, c, f, TruthTable(c, f), fun) \in Nat
<1>1. Wrong(draw, c, d) \subseteq DOMAIN draw /\ Differ(draw, c, f, fun) \subseteq DOMAIN draw
  BY DEF Wrong, Differ
<1>2. IsFiniteSet(Wrong(draw, c, d)) /\ IsFiniteSet(Differ(draw, c, f, fun))
  BY <1>1, FiniteDraw, FS_Subset
<1>3. CompareBySimulation(draw, c, d) = Cardinality(Wrong(draw, c, d))
  BY DEF CompareBySimulation, Wrong
<1>4. CountMatchError(draw, c, f, TruthTable(c, f), fun) = Cardinality(Differ(draw, c, f, fun))
  BY DEF CountMatchError, Differ
<1> QED
  BY <1>2, <1>3, <1>4, FS_CardinalityType

\* Nothing else is counted.
LEMMA FiniteSuspect ==
  ASSUME NEW S, NEW draw \in Seq(S), NEW c, NEW rs
  PROVE  IsFiniteSet(Suspect(draw, c, rs))
<1>1. Suspect(draw, c, rs) \subseteq DOMAIN draw
  BY DEF Suspect, Differ
<1> QED
  BY <1>1, FiniteDraw, FS_Subset

-----------------------------------------------------------------------------
(***************************************************************************)
(* The rounds.                                                             *)
(***************************************************************************)

Entry == [ffc   : [name : Nat, nodeSet : SUBSET Nat, inputNode : SUBSET Nat],
          fun   : SUBSET SUBSET Nat,
          nLine : Nat \ {0}]

\* All circuits of a run have the inputs and the outputs of the first.
SameInterface == /\ net.pi = initNet.pi /\ net.po = initNet.po
                 /\ file.pi = initNet.pi /\ file.po = initNet.po

\* What is left to be examined are wide cones of the current circuit.
FfcsOfNet == \A r \in DOMAIN ffcs : ffcs[r] = FfcAt(net, r) /\ InputCount(ffcs[r]) >= SizeMin

\* What was replaced in this round can be, and neither meets what is left to
\* be examined, nor does that hide an output.
RoundInv ==
  pc = "select" =>
    /\ CanReplace(net, replaced)
    /\ \A r \in DOMAIN ffcs :
         /\ net.po \cap ffcs[r].nodeSet \subseteq {r}
         /\ \A k \in DOMAIN replaced : replaced[k].ffc.nodeSet \cap ffcs[r].nodeSet = {}

\* The vectors that may be wrong when the round ends have all been counted.
Estimate ==
  pc = "select" => res + Cardinality(Suspect(unmodedSimResult, net, replaced)) <= nowError

\* A round that has replaced something is within the tolerance.
Budget == replaced # <<>> => nowError <= Tolerance

DInv ==
  /\ TypeOK /\ SameInterface /\ FfcsOfNet
  /\ replaced \in Seq(Entry)
  /\ RoundInv /\ Estimate /\ Budget
  /\ ErrorWithinEstimate /\ WithinTolerance

\* What TypeOK says of one replaced cone.
LEMMA TypeOKAt ==
  TypeOK <=>
    /\ pc \in {"load", "select", "finished", "aborted", "undefined"}
    /\ round \in 0..Rounds
    /\ initNet \in Circuits
    /\ IsCircuit(net) /\ IsCircuit(file)
    /\ unmodedSimResult \in Seq(SUBSET initNet.pi)
    /\ res \in Nat /\ nowError \in Nat
    /\ DOMAIN ffcs \subseteq Node(net)
    /\ \A k \in DOMAIN replaced : replaced[k].ffc = FfcAt(net, replaced[k].ffc.name)
BY DEF TypeOK, FfcAt

\* Nothing is wrong with no vectors.
LEMMA NoErrors ==
  ASSUME NEW c, NEW d
  PROVE  CompareBySimulation(<<>>, c, d) = 0
<1>1. {j \in DOMAIN <<>> : Ones(c, <<>>[j]) \cap c.po # Ones(d, <<>>[j]) \cap d.po} = {}
  BY EmptyMap
<1> QED
  BY <1>1, FS_EmptySet DEF CompareBySimulation

\* The invariant holds when the program starts.
LEMMA DInit == Init => DInv
<1> SUFFICES ASSUME Init PROVE DInv
  OBVIOUS
<1> USE DEF Init
<1>1. IsCircuit(initNet) /\ CompareBySimulation(unmodedSimResult, file, net) = 0
  BY DriverAssumption, NoErrors
<1>2. DOMAIN ffcs = {} /\ DOMAIN replaced = {} /\ replaced \in Seq(Entry)
  BY EmptyMap
<1>3. TypeOK
  BY <1>1, <1>2, DriverAssumption, TypeOKAt
<1>4. SameInterface /\ FfcsOfNet /\ RoundInv /\ Estimate
  BY <1>2 DEF SameInterface, FfcsOfNet, RoundInv, Estimate
<1>5. Budget /\ ErrorWithinEstimate /\ WithinTolerance
  BY <1>1 DEF Budget, ErrorWithinEstimate, WithinTolerance
<1> QED
  BY <1>2, <1>3, <1>4, <1>5 DEF DInv

\* A round starts with the cones of the file, and with its errors.
LEMMA LoadStep == DInv /\ Load => DInv'
<1> SUFFICES ASSUME DInv, Load PROVE DInv'
  OBVIOUS
<1> DEFINE m == FilterMffcBySize(GetFFC(file), SizeMin, SizeMax)
<1>1. /\ round < Rounds /\ round' = round + 1 /\ net' = file /\ ffcs' = m
      /\ unmodedSimResult' \in Draws(file.pi) /\ replaced' = <<>>
      /\ \E draw \in Draws(file.pi) : res' = CompareBySimulation(draw, file, initNet)
      /\ nowError' = res' /\ UNCHANGED <<initNet, file>>
      /\ pc' \in {"select", "undefined", "aborted"}
      /\ pc' = "select" => ContainOutput(ffcs', file.po) = {}
  BY DEF Load, Simulate, CollectFfcs
<1>2. /\ TypeOK /\ IsCircuit(file) /\ round \in 0..Rounds
      /\ initNet \in Circuits /\ file.pi = initNet.pi
  BY TypeOKAt DEF DInv, SameInterface
<1>3. /\ DOMAIN m \subseteq Node(file)
      /\ \A r \in DOMAIN m : m[r] = FfcAt(file, r) /\ InputCount(m[r]) >= SizeMin
  BY SizeFilter, GetFfcValue DEF SubmapOf
<1> HIDE DEF m
<1>4. DOMAIN replaced' = {} /\ replaced' \in Seq(Entry)
  BY <1>1, EmptyMap
<1>5. /\ unmodedSimResult' \in Seq(SUBSET initNet.pi)
      /\ res' \in Nat /\ nowError' \in Nat /\ nowError' = res'
  <2>1. \A draw \in Draws(file.pi) : draw \in Seq(SUBSET initNet.pi)
    BY <1>2, DriverAssumption
  <2>2. PICK draw \in Draws(file.pi) : res' = CompareBySimulation(draw, file, initNet)
    BY <1>1
  <2>3. res' \in Nat
    BY <2>1, <2>2, Counts
  <2> QED
    BY <1>1, <2>1, <2>3
<1>6. TypeOK'
  <2>1. round' \in 0..Rounds
    BY <1>1, <1>2, DriverAssumption
  <2>2. DOMAIN ffcs' \subseteq Node(net')
    BY <1>1, <1>3
  <2> QED
    BY <1>1, <1>2, <1>4, <1>5, <2>1, <2>2 DEF TypeOK
<1>7. SameInterface' /\ FfcsOfNet'
  BY <1>1, <1>3 DEF DInv, SameInterface, FfcsOfNet, FfcAt
<1>8. RoundInv'
  <2> SUFFICES ASSUME pc' = "select"
               PROVE  /\ CanReplace(net', replaced')
                      /\ \A r \in DOMAIN ffcs' :
                           /\ net'.po \cap ffcs'[r].nodeSet \subseteq {r}
                           /\ \A k \in DOMAIN replaced' :
                                replaced'[k].ffc.nodeSet \cap ffcs'[r].nodeSet = {}
    BY DEF RoundInv, CanReplace, FfcAt
  <2>1. ContainOutput(ffcs', file.po) = {}
    BY <1>1
  <2>2. \A r \in DOMAIN ffcs' : file.po \cap ffcs'[r].nodeSet \subseteq {r}
    BY <2>1 DEF ContainOutput
  <2> QED
    BY <1>1, <1>4, <2>2 DEF CanReplace
<1>9. Estimate'
  <2>1. Suspect(unmodedSimResult', net', replaced') = {}
    BY <1>4 DEF Suspect
  <2> QED
    BY <1>5, <2>1, FS_EmptySet DEF Estimate
<1>10. Budget' /\ ErrorWithinEstimate' /\ WithinTolerance'
  BY <1>1 DEF Budget, ErrorWithinEstimate, WithinTolerance
<1> QED
  BY <1>4, <1>5, <1>6, <1>7, <1>8, <1>9, <1>10, <1>1, DriverAssumption DEF DInv

\* A cone that is still in the map can be replaced along with the others.
LEMMA EntryCanBeReplaced ==
  ASSUME DInv, pc = "select", NEW r \in DOMAIN ffcs
  PROVE  /\ r \in Node(net) /\ ffcs[r] = FfcAt(net, r) /\ ffcs[r].name = r
         /\ FaninOf(net, r) # {} /\ r \in ffcs[r].nodeSet
         /\ net.po \cap ffcs[r].nodeSet \subseteq {r}
         /\ \A k \in DOMAIN replaced : replaced[k].ffc.nodeSet \cap ffcs[r].nodeSet = {}
<1>1. r \in Node(net) /\ IsNetlist(net) /\ Acyclic(net)
  BY TypeOKAt DEF DInv, IsCircuit
<1>2. ffcs[r] = FfcAt(net, r) /\ InputCount(ffcs[r]) >= SizeMin
  BY DEF DInv, FfcsOfNet
<1>3. Cardinality(FfcAt(net, r).inputNode) \notin {0, 1}
  BY <1>2, DriverAssumption DEF InputCount
<1>4. FaninOf(net, r) # {} /\ r \in ffcs[r].nodeSet
  BY <1>1, <1>2, <1>3, WideFfc
<1> QED
  BY <1>1, <1>2, <1>4, FfcFields DEF DInv, RoundInv

\* A cone that is refused only leaves the map.
LEMMA RefuseStep ==
  ASSUME DInv, SubmapOf(ffcs', ffcs), pc' \in {pc, "aborted"},
         nowError' \in Nat, nowError <= nowError',
         nowError' = nowError \/ nowError' <= Tolerance,
         UNCHANGED <<round, initNet, net, simulated, replaced, file>>, pc = "select"
  PROVE  DInv'
<1>1. TypeOK'
  BY DEF DInv, TypeOK, SubmapOf, simulated
<1>2. SameInterface' /\ FfcsOfNet' /\ RoundInv'
  BY DEF DInv, SameInterface, FfcsOfNet, RoundInv, SubmapOf, CanReplace, FfcAt
<1>3. Estimate'
  <2> DEFINE n == Cardinality(Suspect(unmodedSimResult, net, replaced))
  <2> SUFFICES ASSUME pc' = "select"
               PROVE  res + n <= nowError'
    BY DEF Estimate, simulated
  <2>1. res + n <= nowError
    BY DEF DInv, Estimate
  <2>2. n \in Nat /\ nowError \in Nat /\ res \in Nat
    BY FiniteSuspect, FS_CardinalityType DEF DInv, TypeOK
  <2> HIDE DEF n
  <2> QED
    BY <2>1, <2>2
<1>4. Budget' /\ ErrorWithinEstimate' /\ WithinTolerance'
  BY DEF DInv, Budget, ErrorWithinEstimate, WithinTolerance
<1> QED
  BY <1>1, <1>2, <1>3, <1>4 DEF DInv

\* An accepted cone joins those to be replaced, with its errors.
LEMMA AcceptStep ==
  ASSUME DInv, pc = "select", NEW r \in DOMAIN ffcs,
         NEW answer \in AnswersOver(ffcs[r].inputNode), NEW error,
         error = CountMatchError(unmodedSimResult, net, ffcs[r], TruthTable(net, ffcs[r]), answer.fun),
         ~Exceeds(error), nowError' = nowError + error,
         replaced' = Append(replaced, [ffc   |-> ffcs[r], fun |-> answer.fun,
                                       nLine |-> answer.nLine]),
         ffcs' = FilterMffcByIntersection(ffcs, ffcs[r]),
         UNCHANGED <<pc, round, initNet, net, simulated, file>>
  PROVE  DInv'
<1> DEFINE f == ffcs[r]
           e == [ffc |-> f, fun |-> answer.fun, nLine |-> answer.nLine]
           last == Len(replaced) + 1
<1>1. /\ TypeOK /\ IsCircuit(net) /\ IsNetlist(net) /\ nowError \in Nat /\ res \in Nat
      /\ unmodedSimResult \in Seq(SUBSET initNet.pi) /\ UNCHANGED <<unmodedSimResult, res>>
      /\ replaced \in Seq(Entry) /\ CanReplace(net, replaced)
  BY DEF DInv, TypeOK, IsCircuit, RoundInv, simulated
<1>2. /\ r \in Node(net) /\ f = FfcAt(net, r) /\ f.name = r
      /\ FaninOf(net, r) # {} /\ r \in f.nodeSet
      /\ net.po \cap f.nodeSet \subseteq {r}
      /\ \A k \in DOMAIN replaced : replaced[k].ffc.nodeSet \cap f.nodeSet = {}
  BY EntryCanBeReplaced
<1>3. answer.fun \subseteq SUBSET f.inputNode /\ answer.nLine \in Nat \ {0}
  BY DEF AnswersOver
<1>4. error \in Nat /\ error = Cardinality(Differ(unmodedSimResult, net, f, answer.fun))
      /\ IsFiniteSet(Differ(unmodedSimResult, net, f, answer.fun))
  BY <1>1, Counts
<1>5. nowError' \in Nat /\ nowError' <= Tolerance
  BY <1>1, <1>4, DriverAssumption DEF Exceeds
<1>6. e \in Entry
  <2>1. f \in [name : Nat, nodeSet : SUBSET Nat, inputNode : SUBSET Nat]
    BY <1>1, <1>2, FfcType
  <2>2. f.inputNode \subseteq Nat
    BY <2>1
  <2>3. answer.fun \subseteq SUBSET Nat
    BY <1>3, <2>2
  <2> QED
    BY <1>3, <2>1, <2>3 DEF Entry
<1>7. /\ DOMAIN replaced' = DOMAIN replaced \cup {last}
      /\ last \notin DOMAIN replaced
      /\ replaced'[last] = e
      /\ \A k \in DOMAIN replaced : replaced'[k] = replaced[k]
      /\ replaced' \in Seq(Entry)
  BY <1>1, <1>6, AppendAt
<1>8. e.ffc = f /\ e.fun = answer.fun /\ e.nLine = answer.nLine
  OBVIOUS
<1>9. /\ SubmapOf(ffcs', ffcs)
      /\ \A s \in DOMAIN ffcs' : ffcs[s].nodeSet \cap f.nodeSet = {}
  BY IntersectionFilter
<1> HIDE DEF e, last, f
<1>10. TypeOK'
  <2>1. \A k \in DOMAIN replaced' : replaced'[k].ffc = FfcAt(net, replaced'[k].ffc.name)
    BY <1>1, <1>2, <1>7, <1>8, TypeOKAt
  <2>2. DOMAIN ffcs' \subseteq Node(net)
    BY <1>1, <1>9 DEF TypeOK, SubmapOf
  <2> QED
    BY <1>1, <1>5, <2>1, <2>2 DEF TypeOK, FfcAt
<1>11. SameInterface' /\ FfcsOfNet'
  BY <1>9 DEF DInv, SameInterface, FfcsOfNet, SubmapOf, FfcAt
<1>12. CanReplace(net, replaced')
  <2>1. ASSUME NEW k \in DOMAIN replaced'
        PROVE  /\ replaced'[k].ffc.name \in Node(net)
               /\ replaced'[k].ffc = FfcAt(net, replaced'[k].ffc.name)
               /\ FaninOf(net, replaced'[k].ffc.name) # {}
               /\ replaced'[k].ffc.name \in replaced'[k].ffc.nodeSet
               /\ replaced'[k].fun \subseteq SUBSET replaced'[k].ffc.inputNode
               /\ replaced'[k].nLine \in Nat \ {0}
               /\ net.po \cap replaced'[k].ffc.nodeSet \subseteq {replaced'[k].ffc.name}
    <3>1. CASE k = last
      BY <1>2, <1>3, <1>7, <1>8, <3>1
    <3>2. CASE k \in DOMAIN replaced
      BY <1>1, <1>7, <3>2 DEF CanReplace
    <3> QED
      BY <1>7, <3>1, <3>2
  <2>2. \A j, k \in DOMAIN replaced' :
          j # k => replaced'[j].ffc.nodeSet \cap replaced'[k].ffc.nodeSet = {}
    BY <1>1, <1>2, <1>7, <1>8 DEF CanReplace
  <2> QED
    BY <2>1, <2>2 DEF CanReplace
<1>13. RoundInv'
  <2>1. ASSUME NEW s \in DOMAIN ffcs'
        PROVE  /\ net.po \cap ffcs'[s].nodeSet \subseteq {s}
               /\ \A k \in DOMAIN replaced' :
                    replaced'[k].ffc.nodeSet \cap ffcs'[s].nodeSet = {}
    <3>1. s \in DOMAIN ffcs /\ ffcs'[s] = ffcs[s] /\ ffcs[s].nodeSet \cap f.nodeSet = {}
      BY <1>9 DEF SubmapOf
    <3>2. /\ net.po \cap ffcs[s].nodeSet \subseteq {s}
          /\ \A k \in DOMAIN replaced : replaced[k].ffc.nodeSet \cap ffcs[s].nodeSet = {}
      BY <3>1 DEF DInv, RoundInv
    <3> QED
      BY <1>7, <1>8, <3>1, <3>2
  <2> QED
    BY <1>12, <2>1 DEF RoundInv, CanReplace, FfcAt
<1>14. Estimate'
  <2> DEFINE S == Suspect(unmodedSimResult, net, replaced)
             D == Differ(unmodedSimResult, net, f, answer.fun)
  <2>1. Suspect(unmodedSimResult, net, replaced') = S \cup D
    <3> DEFINE at(s, k) == Differ(unmodedSimResult, net, s[k].ffc, s[k].fun)
    <3>1. \A k \in DOMAIN replaced : at(replaced', k) = at(replaced, k)
      BY <1>7
    <3>2. at(replaced', last) = D
      BY <1>7, <1>8
    <3>3. UNION {at(replaced', k) : k \in DOMAIN replaced'} =
            (UNION {at(replaced, k) : k \in DOMAIN replaced}) \cup D
      <4> HIDE DEF at, D
      <4> QED
        BY <1>7, <3>1, <3>2
    <3> HIDE DEF D
    <3> QED
      BY <3>3 DEF Suspect
  <2>2. res + Cardinality(S) <= nowError
    BY DEF DInv, Estimate
  <2>3. IsFiniteSet(S)
    BY <1>1, FiniteSuspect
  <2>4. IsFiniteSet(D) /\ Cardinality(D) = error
    BY <1>4
  <2> HIDE DEF S, D
  <2>5. /\ Cardinality(S) \in Nat /\ Cardinality(S \cup D) \in Nat
        /\ Cardinality(S \cup D) <= Cardinality(S) + Cardinality(D)
    BY <2>3, <2>4, CardinalityOfUnion
  <2>6. res + Cardinality(S \cup D) <= nowError + error
    BY <1>1, <1>4, <2>2, <2>4, <2>5
  <2> QED
    BY <1>1, <2>1, <2>6 DEF Estimate
<1>15. Budget' /\ ErrorWithinEstimate' /\ WithinTolerance'
  BY <1>5 DEF DInv, Budget, ErrorWithinEstimate, WithinTolerance
<1> QED
  BY <1>5, <1>7, <1>10, <1>11, <1>13, <1>14, <1>15 DEF DInv

\* An iteration of the loop over the cones refuses or accepts one.
LEMMA ExamineStep == DInv /\ Examine => DInv'
<1> SUFFICES ASSUME DInv, Examine PROVE DInv'
  OBVIOUS
<1>1. /\ pc = "select" /\ UNCHANGED <<round, initNet, net, simulated, file>>
      /\ TypeOK /\ IsCircuit(net) /\ nowError \in Nat
      /\ unmodedSimResult \in Seq(SUBSET initNet.pi)
  BY DEF Examine, DInv, TypeOK
<1>2. PICK r \in DOMAIN ffcs :
        \E answer \in Answers(TruthTable(net, ffcs[r]), ffcs[r].inputNode)
                        \cap AnswersOver(ffcs[r].inputNode) :
           LET error == CountMatchError(unmodedSimResult, net, ffcs[r], TruthTable(net, ffcs[r]),
                                        answer.fun)
           IN  \/ RefuseSize(ffcs[r], answer)
               \/ RefuseError(ffcs[r], answer, error)
               \/ Accept(ffcs[r], answer, error)
  BY DEF Examine
<1> DEFINE f == ffcs[r]
<1>answer. PICK answer \in AnswersOver(f.inputNode) :
        LET error == CountMatchError(unmodedSimResult, net, f, TruthTable(net, f), answer.fun)
        IN  \/ RefuseSize(f, answer)
            \/ RefuseError(f, answer, error)
            \/ Accept(f, answer, error)
  BY <1>2
<1> DEFINE error == CountMatchError(unmodedSimResult, net, f, TruthTable(net, f), answer.fun)
<1>3. error \in Nat
  BY <1>1, Counts
<1>4. CASE RefuseSize(f, answer) \/ RefuseError(f, answer, error)
  <2>1. ffcs' = FilterCurrentMffc(ffcs, f) /\ UNCHANGED <<pc, replaced, nowError>>
    BY <1>4 DEF RefuseSize, RefuseError
  <2>2. SubmapOf(ffcs', ffcs)
    BY <2>1, CurrentFilter
  <2> QED
    BY <1>1, <2>1, <2>2, RefuseStep
<1>5. CASE Accept(f, answer, error)
  <2>1. ~Exceeds(error) /\ nowError' = nowError + error
    BY <1>5 DEF Accept
  <2>2. CASE answer.agrees
    <3>1. /\ replaced' = Append(replaced, [ffc   |-> f, fun |-> answer.fun,
                                           nLine |-> answer.nLine])
          /\ ffcs' = FilterMffcByIntersection(ffcs, f)
          /\ UNCHANGED pc
      BY <1>5, <2>2 DEF Accept
    <3> QED
      BY <1>1, <2>1, <3>1, AcceptStep
  <2>3. CASE ~answer.agrees
    <3>1. pc' = "aborted" /\ UNCHANGED <<replaced, ffcs>>
      BY <1>5, <2>3 DEF Accept
    <3>2. SubmapOf(ffcs', ffcs)
      BY <3>1 DEF SubmapOf
    <3>3. nowError' \in Nat /\ nowError <= nowError' /\ nowError' <= Tolerance
      BY <1>1, <1>3, <2>1, DriverAssumption DEF Exceeds
    <3> QED
      BY <1>1, <3>1, <3>2, <3>3, RefuseStep
  <2> QED
    BY <2>2, <2>3
<1> QED
  BY <1>answer, <1>4, <1>5

\* The circuit that is written has at most the errors counted.
LEMMA ExportStep == DInv /\ Export => DInv'
<1> SUFFICES ASSUME DInv, Export PROVE DInv'
  OBVIOUS
<1>1. /\ pc = "select" /\ file' = ExportReplacedBlif(net, replaced)
      /\ pc' \in {"load", "finished"}
      /\ UNCHANGED <<round, initNet, net, simulated, nowError, ffcs, replaced>>
  BY DEF Export
<1>2. /\ IsCircuit(net) /\ CanReplace(net, replaced)
      /\ nowError \in Nat /\ res \in Nat /\ Budget
      /\ unmodedSimResult \in Seq(SUBSET initNet.pi) /\ UNCHANGED <<unmodedSimResult, res>>
  BY <1>1 DEF DInv, TypeOK, RoundInv, simulated
<1>3. IsExport(net, replaced, file')
  BY <1>1, <1>2, ExportFields
<1>4. IsCircuit(file') /\ file'.pi = net.pi /\ file'.po = net.po
  BY <1>2, <1>3, ExportIsCircuit
<1> DEFINE changed == Wrong(unmodedSimResult, file', net)
           before  == Wrong(unmodedSimResult, net, initNet)
           after   == Wrong(unmodedSimResult, file', initNet)
<1>5. /\ IsFiniteSet(changed) /\ IsFiniteSet(before) /\ IsFiniteSet(after)
      /\ CompareBySimulation(unmodedSimResult, file', net) = Cardinality(changed)
      /\ CompareBySimulation(unmodedSimResult, net, initNet) = Cardinality(before)
      /\ CompareBySimulation(unmodedSimResult, file', initNet) = Cardinality(after)
  BY <1>2, Counts
<1>6. res + Cardinality(changed) <= nowError
  <2> DEFINE S == Suspect(unmodedSimResult, net, replaced)
  <2>1. changed \subseteq S
    BY <1>2, <1>3, WrongIsSuspect
  <2>2. res + Cardinality(S) <= nowError
    BY <1>1 DEF DInv, Estimate
  <2>3. IsFiniteSet(S)
    BY <1>2, FiniteSuspect
  <2> HIDE DEF S, changed
  <2>4. /\ Cardinality(changed) \in Nat /\ Cardinality(S) \in Nat
        /\ Cardinality(changed) <= Cardinality(S)
    BY <2>1, <2>3, FS_Subset, FS_CardinalityType
  <2> QED
    BY <1>2, <2>2, <2>4
<1>7. /\ Cardinality(changed) \in Nat /\ Cardinality(before) \in Nat
      /\ Cardinality(after) \in Nat
      /\ Cardinality(after) <= Cardinality(changed) + Cardinality(before)
  <2>1. after \subseteq changed \cup before
    BY WrongTriangle
  <2> HIDE DEF after, changed, before
  <2>2. IsFiniteSet(changed \cup before)
    BY <1>5, FS_Union
  <2>3. Cardinality(after) <= Cardinality(changed \cup before)
    BY <2>1, <2>2, FS_Subset
  <2>4. /\ Cardinality(changed \cup before) \in Nat
        /\ Cardinality(changed \cup before) <= Cardinality(changed) + Cardinality(before)
    BY <1>5, CardinalityOfUnion
  <2>5. /\ Cardinality(changed) \in Nat /\ Cardinality(before) \in Nat
        /\ Cardinality(after) \in Nat
    BY <1>5, FS_CardinalityType
  <2> QED
    BY <2>3, <2>4, <2>5
<1>8. TypeOK'
  BY <1>1, <1>2, <1>4 DEF DInv, TypeOK
<1>9. SameInterface' /\ FfcsOfNet' /\ RoundInv' /\ Estimate' /\ Budget'
  BY <1>1, <1>2, <1>4 DEF DInv, SameInterface, FfcsOfNet, RoundInv, Estimate, Budget, FfcAt
<1> HIDE DEF after, changed, before
<1>10. ErrorWithinEstimate'
  BY <1>1, <1>2, <1>5, <1>6 DEF ErrorWithinEstimate
<1>11. WithinTolerance'
  <2> SUFFICES ASSUME replaced # <<>>
               PROVE  /\ nowError <= Tolerance
                      /\ res + Cardinality(after) <= Tolerance + Cardinality(before)
    BY <1>1, <1>2, <1>5 DEF WithinTolerance
  <2>1. nowError <= Tolerance
    BY <1>2 DEF Budget
  <2> QED
    BY <1>2, <1>6, <1>7, <2>1, DriverAssumption
<1> QED
  BY <1>1, <1>8, <1>9, <1>10, <1>11 DEF DInv

\* Every step keeps the invariant.
LEMMA DStep == DInv /\ [Next]_vars => DInv'
<1> SUFFICES ASSUME DInv, [Next]_vars PROVE DInv'
  OBVIOUS
<1>1. CASE UNCHANGED vars
  BY <1>1 DEF vars, DInv, TypeOK, SameInterface, FfcsOfNet, RoundInv, CanReplace, Estimate,
              Budget, ErrorWithinEstimate, WithinTolerance, simulated, FfcAt
<1> QED
  BY <1>1, LoadStep, ExamineStep, ExportStep DEF Next

\* It holds all the time.
LEMMA DInvariant == Spec => []DInv
BY DInit, DStep, PTL DEF Spec

\* The circuits that mffc.cpp reads and writes are netlists without cycles,
\* with a function for each gate, in every run.
THEOREM TypeCorrect == Spec => []TypeOK
<1>1. DInv => TypeOK
  BY DEF DInv
<1> QED
  BY <1>1, DInvariant, PTL

\* What a round adds to the errors it measured is never less than what it
\* changes: counted with the vectors of the profile, the circuit with all cones
\* replaced differs from that of the round for no more vectors than were counted
\* for each cone alone (lines 137-168 and 222 of mffc.cpp).
THEOREM EstimateIsABound == Spec => []ErrorWithinEstimate
<1>1. DInv => ErrorWithinEstimate
  BY DEF DInv
<1> QED
  BY <1>1, DInvariant, PTL

\* A round that replaces anything keeps the driver's sum within the tolerance,
\* and the circuit it writes passes the tolerance for the vectors of the profile
\* by no more than the circuit of the round was underrated by its measurement.
THEOREM WrittenWithinTolerance == Spec => []WithinTolerance
<1>1. DInv => WithinTolerance
  BY DEF DInv
<1> QED
  BY <1>1, DInvariant, PTL
=============================================================================
