--------------------------- MODULE CommonTheorems ----------------------------
(***************************************************************************)
(* Facts that the proofs about several components use.                     *)
(*                                                                         *)
(*   - Least and largest members of families, which stand for induction    *)
(*     where a definition is recursive.                                    *)
(*   - The two-input truth tables of module TTable, written out.           *)
(*   - Finite sums, as the models write them.                              *)
(*   - The cones of Netlist: a cone is the least set that holds its root   *)
(*     and what its nodes read, cones of an acyclic circuit are ordered,   *)
(*     and nothing inside a maximum fanout free cone is read outside.      *)
(*   - FfcFilters: which entries of a map of cones are left; cones without *)
(*     a common node can be replaced together.                             *)
(***************************************************************************)
EXTENDS Netlist, FfcFilters, TTable, Functions, FiniteSetsExt, Sequences, FiniteSetTheorems, TLAPS

\* Some numbers have a least one.
LEMMA LeastNumber ==
  ASSUME NEW X \in SUBSET Nat, X # {}
  PROVE  \E x \in X : \A y \in X : x <= y
<1>1. IsWellFoundedOn(OpToRel(<, Nat), Nat)
  BY NatLessThanWellFounded
<1>2. PICK x \in X : \A y \in X : <<y, x>> \notin OpToRel(<, Nat)
  BY <1>1, WFMin, Zenon
<1>3. \A y \in X : ~(y < x)
  BY <1>2 DEF OpToRel
<1> QED
  BY <1>3

\* Some sets of members of a finite set have a largest one.
LEMMA LargestSet ==
  ASSUME NEW S, IsFiniteSet(S), NEW G \in SUBSET SUBSET S, G # {}
  PROVE  \E Y \in G : \A Z \in G : Y \subseteq Z => Z = Y
<1> DEFINE R == StrictSubsetOrdering(S)
           C == {S \ Y : Y \in G}
<1>1. IsWellFoundedOn(R, SUBSET S)
  BY FS_StrictSubsetOrderingWellFounded, FS_FiniteSubsetsOfFinite
<1>2. C \subseteq SUBSET S /\ C # {}
  <2>1. PICK Y \in G : TRUE
    OBVIOUS
  <2>2. S \ Y \in C
    BY <2>1
  <2>3. \A c \in C : c \subseteq S
    OBVIOUS
  <2> HIDE DEF C
  <2> QED
    BY <2>2, <2>3
<1> HIDE DEF R, C
<1>3. PICK x \in C : \A y \in C : <<y, x>> \notin R
  BY <1>1, <1>2, WFMin, Zenon
<1>4. PICK Y \in G : x = S \ Y
  BY <1>3 DEF C
<1>5. ASSUME NEW Z \in G, Y \subseteq Z, Z # Y
      PROVE  FALSE
  <2>1. S \ Z \in C
    BY DEF C
  <2>2. S \ Z \subseteq S \ Y /\ S \ Z # S \ Y
    BY <1>5
  <2>3. <<S \ Z, S \ Y>> \in R
    BY <2>2 DEF R, StrictSubsetOrdering
  <2> QED
    BY <1>3, <1>4, <2>1, <2>3
<1> QED
  BY <1>5

\* Some sets of members of a finite set have a smallest one.
LEMMA SmallestSet ==
  ASSUME NEW S, IsFiniteSet(S), NEW G \in SUBSET SUBSET S, G # {}
  PROVE  \E Y \in G : \A Z \in G : Z \subseteq Y => Z = Y
<1>1. IsWellFoundedOn(StrictSubsetOrdering(S), SUBSET S)
  BY FS_StrictSubsetOrderingWellFounded, FS_FiniteSubsetsOfFinite
<1>2. PICK Y \in G : \A Z \in G : <<Z, Y>> \notin StrictSubsetOrdering(S)
  BY <1>1, WFMin, Zenon
<1>3. ASSUME NEW Z \in G, Z \subseteq Y, Z # Y
      PROVE  FALSE
  <2>1. <<Z, Y>> \in StrictSubsetOrdering(S)
    BY <1>3 DEF StrictSubsetOrdering
  <2> QED
    BY <1>2, <2>1
<1> QED
  BY <1>3

\* Two sets have at most as many members together as they have one by one.
LEMMA CardinalityOfUnion ==
  ASSUME NEW S, IsFiniteSet(S), NEW T, IsFiniteSet(T)
  PROVE  /\ IsFiniteSet(S \cup T)
         /\ Cardinality(S) \in Nat /\ Cardinality(T) \in Nat
         /\ Cardinality(S \cup T) \in Nat
         /\ Cardinality(S \cup T) <= Cardinality(S) + Cardinality(T)
<1>1. /\ Cardinality(S) \in Nat /\ Cardinality(T) \in Nat
      /\ Cardinality(S \cap T) \in Nat
  BY FS_CardinalityType, FS_Intersection
<1>2. /\ IsFiniteSet(S \cup T)
      /\ Cardinality(S \cup T) = Cardinality(S) + Cardinality(T) - Cardinality(S \cap T)
  BY FS_Union
<1>3. Cardinality(S \cup T) \in Nat
  BY <1>2, FS_CardinalityType
<1> QED
  BY <1>1, <1>2, <1>3

\* The elements of a sequence after an append.
LEMMA AppendAt ==
  ASSUME NEW T, NEW s \in Seq(T), NEW e \in T
  PROVE  /\ DOMAIN Append(s, e) = DOMAIN s \cup {Len(s) + 1}
         /\ Len(s) + 1 \notin DOMAIN s
         /\ Append(s, e)[Len(s) + 1] = e
         /\ \A k \in DOMAIN s : Append(s, e)[k] = s[k]
OBVIOUS

-----------------------------------------------------------------------------
\* The indices of the four rows of a two-input table.
LEMMA Indices ==
  /\ Index(FALSE, FALSE) = 0 /\ Index(TRUE, FALSE) = 1
  /\ Index(FALSE, TRUE) = 2  /\ Index(TRUE, TRUE) = 3
BY DEF Index, Bit

\* The tables, written out.
LEMMA Tables ==
  /\ AND_TABLE = {3} /\ XOR_TABLE = {1, 2} /\ OR_TABLE = {1, 2, 3}
  /\ LEFT_RELA_TABLE = {1, 3} /\ RIGHT_RELA_TABLE = {2, 3}
  /\ ALL_IRR_TABLE_0 = {} /\ ALL_IRR_TABLE_1 = {0, 1, 2, 3}
  /\ Not(LEFT_RELA_TABLE) = {0, 2} /\ Not(RIGHT_RELA_TABLE) = {0, 1}
<1>1. 0..3 = {0, 1, 2, 3}
  BY SMT
<1>2. AND_TABLE = {3} /\ XOR_TABLE = {1, 2} /\ OR_TABLE = {1, 2, 3}
  BY Indices DEF AND_TABLE, XOR_TABLE, OR_TABLE
<1>3. LEFT_RELA_TABLE = {1, 3} /\ RIGHT_RELA_TABLE = {2, 3}
  BY Indices DEF LEFT_RELA_TABLE, RIGHT_RELA_TABLE
<1>4. ALL_IRR_TABLE_0 = {} /\ ALL_IRR_TABLE_1 = {0, 1, 2, 3}
  BY <1>1 DEF ALL_IRR_TABLE_0, ALL_IRR_TABLE_1
<1>5. Not(LEFT_RELA_TABLE) = {0, 2}
  BY <1>1, <1>3 DEF Not
<1>6. Not(RIGHT_RELA_TABLE) = {0, 1}
  BY <1>1, <1>3 DEF Not
<1> QED
  BY <1>2, <1>3, <1>4, <1>5, <1>6

\* A table that only looks at one input is no other such table, and neither
\* is constant.
LEMMA TablesDiffer ==
  /\ LeftTables \cap RightTables = {} /\ LeftTables \cap ConstTables = {}
  /\ RightTables \cap ConstTables = {}
<1>1. /\ {} # {0, 1, 2, 3} /\ {} # {1, 3} /\ {} # {2, 3} /\ {} # {0, 2} /\ {} # {0, 1}
      /\ {0, 1, 2, 3} # {1, 3} /\ {0, 1, 2, 3} # {2, 3}
      /\ {0, 1, 2, 3} # {0, 2} /\ {0, 1, 2, 3} # {0, 1}
      /\ {1, 3} # {2, 3} /\ {1, 3} # {0, 1} /\ {0, 2} # {2, 3} /\ {0, 2} # {0, 1}
  OBVIOUS
<1> QED
  BY <1>1, Tables DEF LeftTables, RightTables, ConstTables

\* Complementing inputs of a gate leaves a table of two inputs.
LEMMA FlippedIsTable ==
  ASSUME NEW table, NEW rev1 \in BOOLEAN, NEW rev2 \in BOOLEAN
  PROVE  FlipBinaryTTableInput(table, rev1, rev2) \subseteq 0..3
<1>1. \A x, y \in BOOLEAN : Index(x, y) \in 0..3
  BY DEF Index, Bit
<1> QED
  BY <1>1 DEF FlipBinaryTTableInput

-----------------------------------------------------------------------------
(***************************************************************************)
(* Sums.                                                                   *)
(***************************************************************************)

\* The member of a set that a sum adds first.
First(s) == CHOOSE x \in s : TRUE

\* The sums of f over the subsets of S, each from that of a smaller one.
IsSum(f, S, sum) ==
  sum = [s \in SUBSET S |-> IF s = {} THEN 0 ELSE f[First(s)] + sum[s \ {First(s)}]]

\* The sum of f over S.
SumOf(f, S) == (CHOOSE sum : IsSum(f, S, sum))[S]

\* A set that is not empty has a first member.
LEMMA FirstIsMember ==
  ASSUME NEW s, s # {}
  PROVE  First(s) \in s
BY DEF First

\* A partial sum, at a set.
LEMMA SumAt ==
  ASSUME NEW f, NEW S, NEW sum, IsSum(f, S, sum), NEW s \in SUBSET S
  PROVE  sum[s] = IF s = {} THEN 0 ELSE f[First(s)] + sum[s \ {First(s)}]
<1> DEFINE V(t) == IF t = {} THEN 0 ELSE f[First(t)] + sum[t \ {First(t)}]
<1>1. sum = [t \in SUBSET S |-> V(t)]
  BY DEF IsSum
<1> HIDE DEF V
<1>2. sum[s] = V(s)
  BY <1>1
<1> QED
  BY <1>2 DEF V

\* The sum, with its first member taken off.
LEMMA SumStep ==
  ASSUME NEW f, NEW S, NEW sum, IsSum(f, S, sum), NEW s \in SUBSET S, s # {}
  PROVE  sum[s] = f[First(s)] + sum[s \ {First(s)}]
BY SumAt

\* The sums of a subset are the same ones.
LEMMA SumsAgree ==
  ASSUME NEW f, NEW S, IsFiniteSet(S), NEW T \in SUBSET S,
         NEW a, IsSum(f, S, a), NEW b, IsSum(f, T, b)
  PROVE  \A s \in SUBSET T : a[s] = b[s]
<1> DEFINE bad == {s \in SUBSET T : a[s] # b[s]}
<1> SUFFICES ASSUME bad # {} PROVE FALSE
  OBVIOUS
<1>1. PICK s \in bad : \A t \in bad : t \subseteq s => t = s
  <2>1. bad \in SUBSET SUBSET S
    OBVIOUS
  <2> HIDE DEF bad
  <2> QED
    BY <2>1, SmallestSet
<1>2. s \in SUBSET T /\ s \in SUBSET S /\ a[s] # b[s]
  BY <1>1
<1>3. s # {}
  BY <1>2, SumAt
<1> DEFINE r == s \ {First(s)}
<1>4. r \subseteq s /\ r # s /\ r \in SUBSET T
  BY <1>2, <1>3, FirstIsMember
<1>5. a[r] = b[r]
  BY <1>1, <1>4
<1> HIDE DEF bad
<1>6. a[s] = f[First(s)] + a[r]
  BY <1>2, <1>3, SumStep
<1>7. b[s] = f[First(s)] + b[r]
  <2>1. IsSum(f, T, b) /\ s \in SUBSET T /\ s # {}
    BY <1>2, <1>3
  <2>2. b[s] = f[First(s)] + b[s \ {First(s)}]
    BY ONLY <2>1, SumStep
  <2> QED
    BY <2>2
<1> HIDE DEF r
<1> QED
  BY <1>2, <1>5, <1>6, <1>7

\* The recursion of sums ends.
LEMMA SumExists ==
  ASSUME NEW f, NEW S, IsFiniteSet(S)
  PROVE  \E sum : IsSum(f, S, sum)
<1> DEFINE bad == {s \in SUBSET S : ~\E sum : IsSum(f, s, sum)}
<1> SUFFICES ASSUME bad # {} PROVE FALSE
  OBVIOUS
<1>1. PICK T \in bad : \A t \in bad : t \subseteq T => t = T
  <2>1. bad \in SUBSET SUBSET S
    OBVIOUS
  <2> HIDE DEF bad
  <2> QED
    BY <2>1, SmallestSet
<1>2. T \in SUBSET S /\ IsFiniteSet(T)
  BY <1>1, FS_Subset
<1>3. \A t \in SUBSET T : t # T => \E sum : IsSum(f, t, sum)
  BY <1>1
<1> DEFINE it(t) == CHOOSE sum : IsSum(f, t, sum)
           below(t) == IF t = {} THEN 0 ELSE f[First(t)] + it(t \ {First(t)})[t \ {First(t)}]
           g == [t \in SUBSET T |-> below(t)]
<1>4. \A t \in SUBSET T : t # T => IsSum(f, t, it(t))
  BY <1>3
<1>5. ASSUME NEW t \in SUBSET T, t # {}
      PROVE  g[t \ {First(t)}] = it(t \ {First(t)})[t \ {First(t)}]
  <2> DEFINE r == t \ {First(t)}
             q == r \ {First(r)}
  <2>1. r \in SUBSET T /\ r # T
    BY <1>5, FirstIsMember
  <2>2. g[r] = below(r)
    BY <2>1
  <2>3. IsSum(f, r, it(r))
    BY <1>4, <2>1
  <2>4. it(r)[r] = IF r = {} THEN 0 ELSE f[First(r)] + it(r)[q]
    <3> HIDE DEF r, it
    <3> QED
      BY <2>3, SumAt
  <2>5. ASSUME r # {}
        PROVE  it(r)[q] = it(q)[q]
    <3>1. q \in SUBSET r /\ q # T /\ q \in SUBSET T
      BY <2>1, <2>5, FirstIsMember
    <3>2. IsSum(f, q, it(q)) /\ IsFiniteSet(r)
      BY <1>2, <1>4, <2>1, <3>1, FS_Subset
    <3> HIDE DEF r, q, it
    <3> QED
      BY <2>3, <3>1, <3>2, SumsAgree
  <2>6. below(r) = it(r)[r]
    <3> HIDE DEF it
    <3> QED
      BY <2>4, <2>5
  <2> QED
    BY <2>2, <2>6
<1>6. g = [t \in SUBSET T |-> IF t = {} THEN 0 ELSE f[First(t)] + g[t \ {First(t)}]]
  <2>1. \A t \in SUBSET T : below(t) = IF t = {} THEN 0 ELSE f[First(t)] + g[t \ {First(t)}]
    <3> HIDE DEF it, g
    <3> QED
      BY <1>5
  <2>2. g = [t \in SUBSET T |-> below(t)]
    OBVIOUS
  <2> HIDE DEF below, g
  <2> QED
    BY <2>1, <2>2
<1>7. IsSum(f, T, g)
  <2> HIDE DEF g
  <2> QED
    BY <1>6 DEF IsSum
<1> QED
  BY <1>1, <1>7

\* The sum of an empty set, and of another one.
LEMMA SumOfSet ==
  ASSUME NEW f, NEW S, IsFiniteSet(S)
  PROVE  /\ SumOf(f, {}) = 0
         /\ S # {} => SumOf(f, S) = f[First(S)] + SumOf(f, S \ {First(S)})
<1> DEFINE it(t) == CHOOSE sum : IsSum(f, t, sum)
           r == S \ {First(S)}
<1>1. IsFiniteSet({}) /\ IsFiniteSet(r)
  BY FS_EmptySet, FS_Subset
<1>2. IsSum(f, {}, it({})) /\ IsSum(f, S, it(S)) /\ IsSum(f, r, it(r))
  BY <1>1, SumExists
<1>3. SumOf(f, {}) = it({})[{}] /\ SumOf(f, S) = it(S)[S] /\ SumOf(f, r) = it(r)[r]
  BY DEF SumOf
<1> HIDE DEF it, r
<1>4. SumOf(f, {}) = 0
  BY <1>2, <1>3, SumAt
<1>5. ASSUME S # {}
      PROVE  SumOf(f, S) = f[First(S)] + SumOf(f, r)
  <2>1. it(S)[S] = f[First(S)] + it(S)[r]
    BY <1>2, <1>5, SumAt DEF r
  <2>2. r \in SUBSET S
    BY DEF r
  <2>3. it(S)[r] = it(r)[r]
    BY <1>2, <2>2, SumsAgree
  <2> QED
    BY <1>3, <2>1, <2>3
<1> QED
  BY <1>4, <1>5 DEF r

\* Nothing adds up to 0.
LEMMA SumOfEmpty ==
  ASSUME NEW f
  PROVE  SumOf(f, {}) = 0
<1>1. IsFiniteSet({})
  BY FS_EmptySet
<1> QED
  BY <1>1, SumOfSet

\* SumFunction is this sum.
LEMMA SumFunctionValue ==
  ASSUME NEW f
  PROVE  SumFunction(f) = SumOf(f, DOMAIN f)
BY DEF SumFunction, SumFunctionOnSet, FoldFunctionOnSet, MapThenFoldSet, SumOf, IsSum, First

\* A sum of numbers is a number.
LEMMA SumType ==
  ASSUME NEW S, IsFiniteSet(S), NEW f, \A x \in S : f[x] \in Nat
  PROVE  SumOf(f, S) \in Nat
<1> DEFINE bad == {s \in SUBSET S : SumOf(f, s) \notin Nat}
<1> SUFFICES ASSUME bad # {} PROVE FALSE
  OBVIOUS
<1>1. PICK s \in bad : \A t \in bad : t \subseteq s => t = s
  <2>1. bad \in SUBSET SUBSET S
    OBVIOUS
  <2> HIDE DEF bad
  <2> QED
    BY <2>1, SmallestSet
<1>2. s \in SUBSET S /\ IsFiniteSet(s) /\ SumOf(f, s) \notin Nat
  BY <1>1, FS_Subset
<1>3. s # {}
  BY <1>2, SumOfEmpty
<1> DEFINE r == s \ {First(s)}
<1>4. r \subseteq s /\ r # s /\ First(s) \in S
  BY <1>2, <1>3, FirstIsMember
<1>5. SumOf(f, r) \in Nat
  BY <1>1, <1>2, <1>4
<1>6. SumOf(f, s) = f[First(s)] + SumOf(f, r)
  BY <1>2, <1>3, SumOfSet
<1> HIDE DEF r, bad
<1> QED
  BY <1>2, <1>4, <1>5, <1>6

\* A sum of numbers that are no larger is no larger; where one of them is
\* smaller it is smaller.
LEMMA SumGrows ==
  ASSUME NEW S, IsFiniteSet(S), NEW f, \A x \in S : f[x] \in Nat,
         NEW g, \A x \in S : g[x] \in Nat /\ f[x] <= g[x]
  PROVE  /\ SumOf(f, S) <= SumOf(g, S)
         /\ (\E x \in S : f[x] < g[x]) => SumOf(f, S) < SumOf(g, S)
<1> DEFINE Fine(s) == /\ SumOf(f, s) <= SumOf(g, s)
                      /\ (\E x \in s : f[x] < g[x]) => SumOf(f, s) < SumOf(g, s)
           bad == {s \in SUBSET S : ~Fine(s)}
<1> SUFFICES ASSUME bad # {} PROVE FALSE
  OBVIOUS
<1>1. PICK s \in bad : \A t \in bad : t \subseteq s => t = s
  <2>1. bad \in SUBSET SUBSET S
    OBVIOUS
  <2> HIDE DEF bad
  <2> QED
    BY <2>1, SmallestSet
<1>2. s \in SUBSET S /\ IsFiniteSet(s) /\ ~Fine(s)
  BY <1>1, FS_Subset
<1>3. s # {}
  BY <1>2, SumOfEmpty
<1> DEFINE c == First(s)
           r == s \ {c}
<1>4. r \subseteq s /\ r # s /\ c \in s /\ c \in S
  BY <1>2, <1>3, FirstIsMember
<1>5. Fine(r)
  BY <1>1, <1>2, <1>4
<1>6. SumOf(f, s) = f[c] + SumOf(f, r) /\ SumOf(g, s) = g[c] + SumOf(g, r)
  BY <1>2, <1>3, SumOfSet
<1>7. IsFiniteSet(r) /\ \A x \in r : x \in S
  BY <1>2, FS_Subset
<1>8. SumOf(f, r) \in Nat /\ SumOf(g, r) \in Nat
  BY <1>7, SumType
<1>9. f[c] \in Nat /\ g[c] \in Nat /\ f[c] <= g[c]
  BY <1>4
<1>10. (\E x \in s : f[x] < g[x]) => f[c] < g[c] \/ SumOf(f, r) < SumOf(g, r)
  BY <1>5
<1>11. SumOf(f, r) <= SumOf(g, r)
  BY <1>5
<1> HIDE DEF c, r, bad
<1> QED
  BY <1>2, <1>6, <1>8, <1>9, <1>10, <1>11

\* The sum of two numbers for each member.
LEMMA SumOfSums ==
  ASSUME NEW S, IsFiniteSet(S), NEW f, \A x \in S : f[x] \in Nat,
         NEW g, \A x \in S : g[x] \in Nat,
         NEW h, \A x \in S : h[x] = f[x] + g[x]
  PROVE  SumOf(h, S) = SumOf(f, S) + SumOf(g, S)
<1> DEFINE bad == {s \in SUBSET S : SumOf(h, s) # SumOf(f, s) + SumOf(g, s)}
<1> SUFFICES ASSUME bad # {} PROVE FALSE
  OBVIOUS
<1>1. PICK s \in bad : \A t \in bad : t \subseteq s => t = s
  <2>1. bad \in SUBSET SUBSET S
    OBVIOUS
  <2> HIDE DEF bad
  <2> QED
    BY <2>1, SmallestSet
<1>2. s \in SUBSET S /\ IsFiniteSet(s) /\ SumOf(h, s) # SumOf(f, s) + SumOf(g, s)
  BY <1>1, FS_Subset
<1>3. s # {}
  <2>1. SumOf(f, {}) = 0 /\ SumOf(g, {}) = 0 /\ SumOf(h, {}) = 0
    BY SumOfEmpty
  <2>2. SumOf(h, {}) = SumOf(f, {}) + SumOf(g, {})
    BY <2>1
  <2> QED
    BY <1>2, <2>2
<1> DEFINE c == First(s)
           r == s \ {c}
<1>4. r \subseteq s /\ r # s /\ c \in S
  BY <1>2, <1>3, FirstIsMember
<1>5. SumOf(h, r) = SumOf(f, r) + SumOf(g, r)
  BY <1>1, <1>2, <1>4
<1>6. /\ SumOf(f, s) = f[c] + SumOf(f, r) /\ SumOf(g, s) = g[c] + SumOf(g, r)
      /\ SumOf(h, s) = h[c] + SumOf(h, r)
  BY <1>2, <1>3, SumOfSet
<1>7. IsFiniteSet(r) /\ \A x \in r : x \in S
  BY <1>2, FS_Subset
<1>8. SumOf(f, r) \in Nat /\ SumOf(g, r) \in Nat
  BY <1>7, SumType
<1>9. f[c] \in Nat /\ g[c] \in Nat /\ h[c] = f[c] + g[c]
  BY <1>4
<1> HIDE DEF c, r, bad
<1> QED
  BY <1>2, <1>5, <1>6, <1>8, <1>9

\* A sum of zeros is 0.
LEMMA SumOfZeros ==
  ASSUME NEW S, IsFiniteSet(S), NEW f, \A x \in S : f[x] = 0
  PROVE  SumOf(f, S) = 0
<1>1. SumOf(f, S) \in Nat
  BY SumType
<1>2. \A x \in S : f[x] \in Nat /\ f[x] = f[x] + f[x]
  OBVIOUS
<1>3. SumOf(f, S) = SumOf(f, S) + SumOf(f, S)
  BY <1>2, SumOfSums
<1>4. \A v \in Nat : v = v + v => v = 0
  OBVIOUS
<1> QED
  BY <1>1, <1>3, <1>4

-----------------------------------------------------------------------------
(***************************************************************************)
(* Cones.                                                                  *)
(***************************************************************************)

\* The gates of the cone of n.
ConeGates(net, n) ==
  {g \in net.gate : \A X \in ClosedGates(net) : n \in X => g \in X}

\* getFaninSet gives every node a cone: an input has a cone of its own, a
\* gate one with the gates in every closed set and all they read.
LEMMA ConeValue ==
  ASSUME NEW net, NEW n \in Node(net)
  PROVE  /\ DOMAIN FaninSet(net) = Node(net)
         /\ n \in net.pi => FaninSet(net)[n] = {n}
         /\ n \notin net.pi =>
              \A x : x \in FaninSet(net)[n] <=>
                      \/ x \in ConeGates(net, n)
                      \/ \E g \in ConeGates(net, n) : x \in net.fanin[g]
<1> DEFINE closed == {X \in ClosedGates(net) : n \in X}
           gates  == {g \in net.gate : \A X \in closed : g \in X}
<1>1. gates = ConeGates(net, n)
  BY DEF ConeGates
<1>2. FaninSet(net)[n] = IF n \in net.pi THEN {n}
                         ELSE gates \cup UNION {net.fanin[g] : g \in gates}
  BY DEF FaninSet
<1>3. DOMAIN FaninSet(net) = Node(net)
  BY DEF FaninSet
<1> HIDE DEF gates
<1>4. ASSUME n \notin net.pi, NEW x
      PROVE  x \in FaninSet(net)[n] <=>
                \/ x \in ConeGates(net, n)
                \/ \E g \in ConeGates(net, n) : x \in net.fanin[g]
  BY <1>1, <1>2, <1>4
<1>5. ASSUME n \in net.pi
      PROVE  FaninSet(net)[n] = {n}
  BY <1>2, <1>5
<1> QED
  BY <1>3, <1>4, <1>5

\* The gates of a cone are a closed set.
LEMMA ConeGatesClosed ==
  ASSUME NEW net, NEW n
  PROVE  \A g \in ConeGates(net, n) : net.fanin[g] \cap net.gate \subseteq ConeGates(net, n)
BY DEF ConeGates, ClosedGates

\* A cone holds its root and consists of nodes.
LEMMA ConeRoot ==
  ASSUME NEW net, IsNetlist(net), NEW n \in Node(net)
  PROVE  n \in FaninSet(net)[n] /\ FaninSet(net)[n] \subseteq Node(net)
<1>1. CASE n \in net.pi
  BY <1>1, ConeValue
<1>2. CASE n \notin net.pi
  <2>1. n \in ConeGates(net, n)
    BY <1>2 DEF ConeGates, Node
  <2>2. \A g \in ConeGates(net, n) : net.fanin[g] \subseteq Node(net) /\ g \in Node(net)
    BY DEF ConeGates, IsNetlist, Node
  <2> QED
    BY <1>2, <2>1, <2>2, ConeValue
<1> QED
  BY <1>1, <1>2

\* A cone holds what its nodes read.
LEMMA ConeStep ==
  ASSUME NEW net, IsNetlist(net), NEW n \in Node(net), NEW m \in FaninSet(net)[n]
  PROVE  FaninOf(net, m) \subseteq FaninSet(net)[n]
<1>1. CASE n \in net.pi
  BY <1>1, ConeValue DEF FaninOf, IsNetlist
<1>2. CASE n \notin net.pi
  <2>1. CASE m \in ConeGates(net, n)
    BY <1>2, <2>1, ConeValue DEF FaninOf
  <2>2. CASE m \notin ConeGates(net, n)
    <3>1. PICK g \in ConeGates(net, n) : m \in net.fanin[g]
      BY <1>2, <2>2, ConeValue
    <3>2. m \notin net.gate
      BY <2>2, <3>1, ConeGatesClosed
    <3> QED
      BY <3>2 DEF FaninOf
  <2> QED
    BY <2>1, <2>2
<1> QED
  BY <1>1, <1>2

\* A cone is the least such set: every set of nodes that holds its root, and
\* with a node what the node reads, holds the cone (getFaninSet).
THEOREM ConeLeast ==
  ASSUME NEW net, IsNetlist(net), NEW X, NEW n \in X, n \in Node(net),
         \A x \in X : FaninOf(net, x) \subseteq X
  PROVE  FaninSet(net)[n] \subseteq X
<1>1. CASE n \in net.pi
  BY <1>1, ConeValue
<1>2. CASE n \notin net.pi
  <2>1. X \cap net.gate \in ClosedGates(net)
    BY DEF ClosedGates, FaninOf
  <2>2. n \in X \cap net.gate
    BY <1>2 DEF Node
  <2>3. ConeGates(net, n) \subseteq X \cap net.gate
    BY <2>1, <2>2 DEF ConeGates
  <2>4. \A g \in ConeGates(net, n) : net.fanin[g] \subseteq X
    BY <2>3 DEF FaninOf
  <2> QED
    BY <1>2, <2>3, <2>4, ConeValue
<1> QED
  BY <1>1, <1>2

\* What a node reads is a node of the circuit.
LEMMA FaninIsNode ==
  ASSUME NEW net, IsNetlist(net), NEW n
  PROVE  FaninOf(net, n) \subseteq Node(net)
BY DEF FaninOf, IsNetlist

\* The cone of a member is part of the cone.
LEMMA ConeTransitive ==
  ASSUME NEW net, IsNetlist(net), NEW n \in Node(net), NEW m \in FaninSet(net)[n]
  PROVE  FaninSet(net)[m] \subseteq FaninSet(net)[n]
<1>1. m \in Node(net)
  BY ConeRoot
<1>2. \A x \in FaninSet(net)[n] : FaninOf(net, x) \subseteq FaninSet(net)[n]
  BY ConeStep
<1> QED
  BY <1>1, <1>2, ConeLeast

\* A member is the root, or in the cone of something the root reads.
LEMMA ConeSplit ==
  ASSUME NEW net, IsNetlist(net), NEW n \in Node(net),
         NEW m \in FaninSet(net)[n], m # n
  PROVE  \E y \in FaninOf(net, n) : m \in FaninSet(net)[y]
<1> DEFINE X == {n} \cup UNION {FaninSet(net)[y] : y \in FaninOf(net, n)}
<1>1. \A y \in FaninOf(net, n) : y \in FaninSet(net)[y] /\ y \in Node(net)
  BY FaninIsNode, ConeRoot
<1>2. ASSUME NEW x \in X
      PROVE  FaninOf(net, x) \subseteq X
  <2>1. CASE x = n
    BY <2>1, <1>1
  <2>2. CASE x # n
    <3>1. PICK y \in FaninOf(net, n) : x \in FaninSet(net)[y]
      BY <2>2
    <3>2. FaninOf(net, x) \subseteq FaninSet(net)[y]
      BY <3>1, <1>1, ConeStep
    <3> QED
      BY <3>2
  <2> QED
    BY <2>1, <2>2
<1>3. n \in X
  OBVIOUS
<1> HIDE DEF X
<1>4. FaninSet(net)[n] \subseteq X
  BY <1>2, <1>3, ConeLeast
<1> QED
  BY <1>4 DEF X

\* Only a gate has a gate in its cone.
LEMMA ConeOfGate ==
  ASSUME NEW net, IsNetlist(net), NEW n \in Node(net),
         NEW g \in net.gate, g \in FaninSet(net)[n]
  PROVE  n \in net.gate
<1>1. CASE n \in net.pi
  <2>1. g = n
    BY <1>1, ConeValue
  <2> QED
    BY <2>1
<1> QED
  BY <1>1 DEF Node

-----------------------------------------------------------------------------
\* Among any gates there is one whose cone holds none of the others.
LEMMA ConeMinimal ==
  ASSUME NEW net, IsNetlist(net), Acyclic(net), NEW X \in SUBSET net.gate, X # {}
  PROVE  \E g \in X : FaninSet(net)[g] \cap X = {g}
<1> DEFINE Y == {y \in net.gate : FaninSet(net)[y] \cap X # {}}
<1>1. \A g \in net.gate : g \in Node(net) /\ g \in FaninSet(net)[g]
  BY ConeRoot DEF Node
<1>2. X \subseteq Y
  BY <1>1
<1>3. PICK y \in Y : net.fanin[y] \cap Y = {}
  BY <1>2 DEF Acyclic
<1>4. ASSUME NEW x \in FaninSet(net)[y] \cap X, x # y
      PROVE  FALSE
  <2>1. PICK z \in FaninOf(net, y) : x \in FaninSet(net)[z]
    BY <1>1, <1>4, ConeSplit
  <2>2. z \in net.gate
    BY <2>1, FaninIsNode, ConeOfGate
  <2>3. z \in Y
    BY <2>1, <2>2
  <2> QED
    BY <1>3, <2>1, <2>3 DEF FaninOf
<1> QED
  BY <1>1, <1>3, <1>4

\* Cones are ordered: no node reads what depends on it.
LEMMA ConeAntisymmetric ==
  ASSUME NEW net, IsNetlist(net), Acyclic(net), NEW n \in Node(net),
         NEW m \in FaninSet(net)[n], n \in FaninSet(net)[m]
  PROVE  m = n
<1>0. m \in Node(net)
  BY ConeRoot
<1>1. CASE n \in net.pi
  BY <1>1, ConeValue
<1>2. CASE m \in net.pi
  BY <1>0, <1>2, ConeValue
<1>3. CASE n \in net.gate /\ m \in net.gate
  <2> DEFINE X == {n, m}
  <2>1. X \in SUBSET net.gate /\ X # {}
    BY <1>3
  <2> HIDE DEF X
  <2>2. PICK g \in X : FaninSet(net)[g] \cap X = {g}
    BY <2>1, ConeMinimal
  <2>3. n \in FaninSet(net)[g] /\ m \in FaninSet(net)[g]
    BY <1>0, <2>2, ConeRoot DEF X
  <2> QED
    BY <2>2, <2>3 DEF X
<1> QED
  BY <1>0, <1>1, <1>2, <1>3 DEF Node

\* No node that a gate reads depends on that gate: the circuit is acyclic.
LEMMA NoFaninDependsOnReader ==
  ASSUME NEW net, IsNetlist(net), Acyclic(net), NEW n \in Node(net),
         NEW m \in FaninOf(net, n)
  PROVE  n \notin FaninSet(net)[m]
<1> SUFFICES ASSUME n \in FaninSet(net)[m] PROVE FALSE
  OBVIOUS
<1>1. m \in FaninSet(net)[n] /\ m \in Node(net)
  BY ConeRoot, ConeStep, FaninIsNode
<1>2. m = n
  BY <1>1, ConeAntisymmetric
<1>3. {n} \in SUBSET net.gate /\ n \in net.fanin[n]
  BY <1>2 DEF FaninOf
<1>4. net.fanin[n] \cap {n} = {}
  BY <1>3 DEF Acyclic
<1> QED
  BY <1>3, <1>4

-----------------------------------------------------------------------------
\* The root stays in its maximum fanout free cone, the rest is from its cone.
LEMMA MffcRoot ==
  ASSUME NEW net, IsNetlist(net), Acyclic(net), NEW n \in Node(net)
  PROVE  /\ n \in Mffc(net, FaninSet(net), n)
         /\ Mffc(net, FaninSet(net), n) \subseteq FaninSet(net)[n]
<1>1. n \in FaninSet(net)[n]
  BY ConeRoot
<1>2. ASSUME NEW m \in FaninSet(net)[n] \ {n}
      PROVE  n \notin FaninSet(net)[m]
  BY <1>2, ConeAntisymmetric
<1> QED
  BY <1>1, <1>2 DEF Mffc, Escaping

\* Nothing outside of it reads one of its nodes, except for its root.
LEMMA MffcFanoutFree ==
  ASSUME NEW net, IsNetlist(net), NEW n \in Node(net),
         NEW v \in Mffc(net, FaninSet(net), n), v # n,
         NEW w \in Fanouts(net, v)
  PROVE  w \in Mffc(net, FaninSet(net), n)
<1> DEFINE cone == FaninSet(net)
           E == Escaping(net, cone, n)
<1>1. v \in cone[n] /\ \A m \in E : v \notin cone[m]
  BY DEF Mffc
<1>2. v \in cone[v]
  BY <1>1, ConeRoot
<1>3. v \notin E
  BY <1>1, <1>2
<1>4. w \in cone[n]
  BY <1>1, <1>3 DEF Escaping
<1>5. v \in FaninOf(net, w)
  BY DEF Fanouts, FaninOf
<1>6. ASSUME NEW m \in E
      PROVE  w \notin cone[m]
  <2>1. m \in Node(net)
    BY ConeRoot DEF Escaping
  <2> QED
    BY <1>1, <1>5, <2>1, ConeStep
<1> QED
  BY <1>4, <1>6 DEF Mffc

\* What getFFC says of the node r.
FfcAt(net, r) == Ffc(net, FaninSet(net), r)

\* getInputFromSet, one signal at a time.
LEMMA InputOfSet ==
  ASSUME NEW net, NEW S, NEW m
  PROVE  m \in InputFromSet(net, S) <=>
            \/ m \in S /\ FaninOf(net, m) = {}
            \/ /\ \E w \in S : m \in FaninOf(net, w)
               /\ m \in net.pi \/ m \notin S
BY DEF InputFromSet

\* The fields of an FFC, and the key it has in the map of getFFC.
LEMMA FfcFields ==
  ASSUME NEW net, NEW r
  PROVE  /\ FfcAt(net, r).name = r
         /\ FfcAt(net, r).inputNode = InputFromSet(net, Mffc(net, FaninSet(net), r))
         /\ FfcAt(net, r).nodeSet =
              Mffc(net, FaninSet(net), r) \ FfcAt(net, r).inputNode
         /\ FfcAt(net, r) = [name      |-> r,
                             nodeSet   |-> FfcAt(net, r).nodeSet,
                             inputNode |-> FfcAt(net, r).inputNode]
BY DEF FfcAt, Ffc

\* The nodes a replacement removes are those of the fanout free cone that
\* read anything; all of them are gates.
LEMMA FfcNodeSet ==
  ASSUME NEW net, IsNetlist(net), NEW r \in Node(net), NEW m
  PROVE  m \in FfcAt(net, r).nodeSet <=>
            m \in Mffc(net, FaninSet(net), r) /\ FaninOf(net, m) # {}
<1> DEFINE S == Mffc(net, FaninSet(net), r)
<1>1. m \in FfcAt(net, r).nodeSet <=> m \in S /\ m \notin InputFromSet(net, S)
  BY FfcFields
<1>2. FaninOf(net, m) # {} => m \notin net.pi
  BY DEF FaninOf, IsNetlist
<1> HIDE DEF S
<1>3. m \in InputFromSet(net, S) <=>
            \/ m \in S /\ FaninOf(net, m) = {}
            \/ /\ \E w \in S : m \in FaninOf(net, w)
               /\ m \in net.pi \/ m \notin S
  BY InputOfSet
<1>4. m \in S => (m \in InputFromSet(net, S) <=> FaninOf(net, m) = {})
  BY <1>2, <1>3
<1> QED
  BY <1>1, <1>4 DEF S

\* An input of an FFC is a source of its cone or is read by one of its nodes.
LEMMA FfcInput ==
  ASSUME NEW net, IsNetlist(net), NEW r \in Node(net),
         NEW m \in FfcAt(net, r).inputNode
  PROVE  \/ m \in Mffc(net, FaninSet(net), r) /\ FaninOf(net, m) = {}
         \/ \E w \in FfcAt(net, r).nodeSet : m \in FaninOf(net, w)
<1>1. m \in InputFromSet(net, Mffc(net, FaninSet(net), r))
  BY FfcFields
<1>2. CASE \E w \in Mffc(net, FaninSet(net), r) : m \in FaninOf(net, w)
  BY <1>2, FfcNodeSet
<1> QED
  BY <1>1, <1>2, InputOfSet

\* What the nodes of an FFC read is inside, or an input of it.
LEMMA FfcReads ==
  ASSUME NEW net, IsNetlist(net), NEW r \in Node(net), NEW w \in FfcAt(net, r).nodeSet
  PROVE  FaninOf(net, w) \subseteq FfcAt(net, r).nodeSet \cup FfcAt(net, r).inputNode
<1> DEFINE S == Mffc(net, FaninSet(net), r)
<1> SUFFICES ASSUME NEW m \in FaninOf(net, w)
             PROVE  m \in FfcAt(net, r).nodeSet \/ m \in FfcAt(net, r).inputNode
  OBVIOUS
<1>1. w \in S
  BY FfcNodeSet
<1>2. FfcAt(net, r).inputNode = InputFromSet(net, S)
  BY FfcFields
<1>3. m \in S /\ FaninOf(net, m) # {} => m \in FfcAt(net, r).nodeSet
  BY FfcNodeSet
<1> HIDE DEF S
<1> QED
  BY <1>1, <1>2, <1>3, InputOfSet

\* The sets of an FFC are sets of nodes.
LEMMA FfcType ==
  ASSUME NEW net, IsNetlist(net), NEW r \in Node(net)
  PROVE  /\ FfcAt(net, r).nodeSet \subseteq net.gate
         /\ FfcAt(net, r).inputNode \subseteq Node(net)
         /\ FfcAt(net, r) \in [name : Nat, nodeSet : SUBSET Nat, inputNode : SUBSET Nat]
<1>1. FfcAt(net, r).nodeSet \subseteq net.gate
  BY FfcNodeSet DEF FaninOf
<1>2. Mffc(net, FaninSet(net), r) \subseteq Node(net)
  BY ConeRoot DEF Mffc
<1>3. FfcAt(net, r).inputNode \subseteq Node(net)
  BY <1>2, FfcInput, FaninIsNode
<1>4. Node(net) \subseteq Nat
  BY DEF IsNetlist, Node
<1>5. net.gate \subseteq Nat
  BY DEF IsNetlist
<1> QED
  BY <1>1, <1>3, <1>4, <1>5, FfcFields

\* A node of an FFC other than the root is read by nodes of the FFC only.
LEMMA FfcFanoutFree ==
  ASSUME NEW net, IsNetlist(net), NEW r \in Node(net),
         NEW v \in FfcAt(net, r).nodeSet, v # r, NEW w \in Fanouts(net, v)
  PROVE  w \in FfcAt(net, r).nodeSet
<1>1. v \in Mffc(net, FaninSet(net), r)
  BY FfcNodeSet
<1>2. w \in Mffc(net, FaninSet(net), r)
  BY <1>1, MffcFanoutFree
<1>3. v \in FaninOf(net, w)
  BY DEF Fanouts, FaninOf
<1> QED
  BY <1>2, <1>3, FfcNodeSet

\* An FFC of two inputs or more has a gate that reads something as its root.
LEMMA WideFfc ==
  ASSUME NEW net, IsNetlist(net), Acyclic(net), NEW r \in Node(net),
         Cardinality(FfcAt(net, r).inputNode) \notin {0, 1}
  PROVE  FaninOf(net, r) # {} /\ r \in FfcAt(net, r).nodeSet
<1>1. ASSUME FaninOf(net, r) = {}
      PROVE  FALSE
  <2>1. FaninSet(net)[r] \subseteq {r}
    BY <1>1, ConeLeast
  <2>2. Mffc(net, FaninSet(net), r) \subseteq {r}
    BY <2>1 DEF Mffc
  <2>3. FfcAt(net, r).inputNode \subseteq {r}
    BY <1>1, <2>2, FfcInput, FfcNodeSet
  <2>4. FfcAt(net, r).inputNode = {} \/ FfcAt(net, r).inputNode = {r}
    BY <2>3
  <2> QED
    BY <2>4, FS_EmptySet, FS_Singleton
<1> QED
  BY <1>1, MffcRoot, FfcNodeSet

\* The inputs of such an FFC lie in the cone of the root, below the root.
LEMMA FfcInputsBelow ==
  ASSUME NEW net, IsNetlist(net), Acyclic(net), NEW r \in Node(net),
         FaninOf(net, r) # {}
  PROVE  FfcAt(net, r).inputNode \subseteq FaninSet(net)[r] \ {r}
<1> SUFFICES ASSUME NEW m \in FfcAt(net, r).inputNode
             PROVE  m \in FaninSet(net)[r] /\ m # r
  OBVIOUS
<1>1. CASE m \in Mffc(net, FaninSet(net), r) /\ FaninOf(net, m) = {}
  BY <1>1, MffcRoot
<1>2. ASSUME NEW w \in FfcAt(net, r).nodeSet, m \in FaninOf(net, w)
      PROVE  m \in FaninSet(net)[r] /\ m # r
  <2>1. w \in FaninSet(net)[r] /\ w \in Node(net)
    BY FfcNodeSet, MffcRoot, ConeRoot
  <2>2. w \notin FaninSet(net)[m]
    BY <1>2, <2>1, NoFaninDependsOnReader
  <2> QED
    BY <1>2, <2>1, <2>2, ConeStep
<1> QED
  BY <1>1, <1>2, FfcInput

\* Two FFCs whose node sets do not meet may read each other's roots, and
\* no other node of each other.
LEMMA DisjointFfcsIndependent ==
  ASSUME NEW net, IsNetlist(net), NEW r \in Node(net), NEW s \in Node(net),
         FfcAt(net, r).nodeSet \cap FfcAt(net, s).nodeSet = {}
  PROVE  FfcAt(net, r).nodeSet \cap FfcAt(net, s).inputNode \subseteq {r}
<1> SUFFICES ASSUME NEW m \in FfcAt(net, r).nodeSet, m \in FfcAt(net, s).inputNode, m # r
             PROVE  FALSE
  OBVIOUS
<1>1. FaninOf(net, m) # {}
  BY FfcNodeSet
<1>2. PICK w \in FfcAt(net, s).nodeSet : m \in FaninOf(net, w)
  BY <1>1, FfcInput
<1>3. w \in Fanouts(net, m)
  BY <1>2 DEF Fanouts, FaninOf
<1>4. w \in FfcAt(net, r).nodeSet
  BY <1>3, FfcFanoutFree
<1> QED
  BY <1>2, <1>4

-----------------------------------------------------------------------------
(***************************************************************************)
(* The filters.                                                            *)
(***************************************************************************)

\* An empty map has no keys.
LEMMA EmptyMap == DOMAIN <<>> = {}
OBVIOUS

\* The map a has only entries of b.
SubmapOf(a, b) == DOMAIN a \subseteq DOMAIN b /\ \A r \in DOMAIN a : a[r] = b[r]

\* The filters keep entries as they are.
LEMMA SizeFilter ==
  ASSUME NEW m, NEW a, NEW b
  PROVE  /\ SubmapOf(FilterMffcBySize(m, a, b), m)
         /\ \A r \in DOMAIN FilterMffcBySize(m, a, b) : InputCount(m[r]) >= a
BY DEF FilterMffcBySize, Keep, SubmapOf

\* filterMffcByIntersection removes entries and changes none.
LEMMA IntersectionFilter ==
  ASSUME NEW m, NEW f
  PROVE  /\ SubmapOf(FilterMffcByIntersection(m, f), m)
         /\ \A r \in DOMAIN FilterMffcByIntersection(m, f) :
              m[r].nodeSet \cap f.nodeSet = {}
BY DEF FilterMffcByIntersection, Keep, SubmapOf

\* So does filterCurrentMffc, which removes the entry of the root.
LEMMA CurrentFilter ==
  ASSUME NEW m, NEW f
  PROVE  /\ SubmapOf(FilterCurrentMffc(m, f), m)
         /\ f.name \notin DOMAIN FilterCurrentMffc(m, f)
BY DEF FilterCurrentMffc, Keep, SubmapOf

\* The map getFFC returns.
LEMMA GetFfcValue ==
  ASSUME NEW n
  PROVE  /\ DOMAIN GetFFC(n) = Node(n)
         /\ \A r \in Node(n) : GetFFC(n)[r] = FfcAt(n, r)
BY DEF GetFFC, FfcAt

-----------------------------------------------------------------------------
(***************************************************************************)
(* Replacing several FFCs of a circuit.                                    *)
(***************************************************************************)

\* FFCs of n that can be replaced together.
Replaceable(n, F) ==
  /\ \A f \in F : /\ f.name \in Node(n) /\ f = FfcAt(n, f.name)
                  /\ FaninOf(n, f.name) # {} /\ f.name \in f.nodeSet
  /\ \A f, g \in F : f # g => f.nodeSet \cap g.nodeSet = {}

\* The nodes that cones remove, and those they drive again.
Omits(F) == UNION {f.nodeSet : f \in F}
Roots(F) == {f.name : f \in F}

\* The circuit E that is left of n when a body that reads the inputs of the
\* FFC drives the root of each FFC of F.
IsReplacement(n, F, E) ==
  /\ E.pi = n.pi /\ E.gate = (n.gate \ Omits(F)) \cup Roots(F)
  /\ E.fanin = [g \in E.gate |-> E.fanin[g]]
  /\ \A f \in F : E.fanin[f.name] = f.inputNode
  /\ \A g \in E.gate : g \notin Roots(F) => E.fanin[g] = n.fanin[g]

\* No node is driven in E that was not a gate before.
LEMMA ReplacedGates ==
  ASSUME NEW n, NEW F, Replaceable(n, F), NEW E, IsReplacement(n, F, E)
  PROVE  /\ E.gate \subseteq n.gate
         /\ \A g \in E.gate : g \notin Roots(F) => g \in n.gate /\ g \notin Omits(F)
<1>1. \A f \in F : f.name \in n.gate
  BY DEF Replaceable, FaninOf
<1>2. Roots(F) \subseteq n.gate
  BY <1>1 DEF Roots
<1>3. E.gate = (n.gate \ Omits(F)) \cup Roots(F)
  BY DEF IsReplacement
<1> QED
  BY <1>2, <1>3

\* A node that no FFC omits, or that is a root, is a node of E.
LEMMA KeptNode ==
  ASSUME NEW n, NEW F, NEW E, IsReplacement(n, F, E),
         NEW m \in Node(n), m \in Omits(F) => m \in Roots(F)
  PROVE  m \in Node(E)
BY DEF IsReplacement, Node

\* What a gate that is kept reads is still driven.
LEMMA KeptFanin ==
  ASSUME NEW n, IsNetlist(n), NEW F, Replaceable(n, F),
         NEW E, IsReplacement(n, F, E), NEW g \in E.gate, g \notin Roots(F)
  PROVE  n.fanin[g] \subseteq Node(E)
<1>1. g \in n.gate /\ g \notin Omits(F)
  BY ReplacedGates
<1> SUFFICES ASSUME NEW m \in n.fanin[g] PROVE m \in Node(E)
  OBVIOUS
<1>2. m \in Node(n)
  BY <1>1 DEF IsNetlist
<1>3. ASSUME NEW f \in F, m \in f.nodeSet, m # f.name
      PROVE  FALSE
  <2>1. g \in Fanouts(n, m)
    BY <1>1 DEF Fanouts
  <2>2. f.name \in Node(n) /\ f = FfcAt(n, f.name)
    BY DEF Replaceable
  <2>3. g \in f.nodeSet
    BY <1>3, <2>1, <2>2, FfcFanoutFree
  <2> QED
    BY <1>1, <2>3 DEF Omits
<1>4. m \in Omits(F) => m \in Roots(F)
  BY <1>3 DEF Omits, Roots
<1> QED
  BY <1>2, <1>4, KeptNode

\* What the body of an FFC reads is still driven.
LEMMA BodyFanin ==
  ASSUME NEW n, IsNetlist(n), NEW F, Replaceable(n, F),
         NEW E, IsReplacement(n, F, E), NEW f \in F
  PROVE  f.inputNode \subseteq Node(E)
<1>1. f.name \in Node(n) /\ f = FfcAt(n, f.name)
  BY DEF Replaceable
<1> SUFFICES ASSUME NEW m \in f.inputNode PROVE m \in Node(E)
  OBVIOUS
<1>2. m \in Node(n)
  BY <1>1, FfcType
<1>3. ASSUME NEW h \in F, m \in h.nodeSet
      PROVE  m = h.name
  <2>1. h.name \in Node(n) /\ h = FfcAt(n, h.name)
    BY DEF Replaceable
  <2>2. h # f
    BY <1>1, <1>3, FfcFields
  <2>3. h.nodeSet \cap f.nodeSet = {}
    BY <2>2 DEF Replaceable
  <2>4. h.nodeSet \cap f.inputNode \subseteq {h.name}
    BY <1>1, <2>1, <2>3, DisjointFfcsIndependent
  <2> QED
    BY <1>3, <2>4
<1>4. m \in Omits(F) => m \in Roots(F)
  BY <1>3 DEF Omits, Roots
<1> QED
  BY <1>2, <1>4, KeptNode

\* Every signal that the new circuit reads is one it drives.
LEMMA ReplacedClosed ==
  ASSUME NEW n, IsNetlist(n), NEW F, Replaceable(n, F), NEW E, IsReplacement(n, F, E)
  PROVE  E.fanin \in [E.gate -> SUBSET Node(E)]
<1>1. ASSUME NEW g \in E.gate
      PROVE  E.fanin[g] \subseteq Node(E)
  <2>1. CASE g \in Roots(F)
    <3>1. PICK f \in F : g = f.name
      BY <2>1 DEF Roots
    <3>2. E.fanin[g] = f.inputNode
      BY <3>1 DEF IsReplacement
    <3> QED
      BY <3>2, BodyFanin
  <2>2. CASE g \notin Roots(F)
    <3>1. E.fanin[g] = n.fanin[g]
      BY <2>2 DEF IsReplacement
    <3> QED
      BY <2>2, <3>1, KeptFanin
  <2> QED
    BY <2>1, <2>2
<1>2. E.fanin = [g \in E.gate |-> E.fanin[g]]
  BY DEF IsReplacement
<1> QED
  BY <1>1, <1>2

\* No combinational cycle is closed.
LEMMA ReplacedAcyclic ==
  ASSUME NEW n, IsNetlist(n), Acyclic(n), NEW F, Replaceable(n, F),
         NEW E, IsReplacement(n, F, E)
  PROVE  Acyclic(E)
<1>1. E.gate \subseteq n.gate
  BY ReplacedGates
<1> SUFFICES ASSUME NEW X \in SUBSET E.gate, X # {}
             PROVE  \E g \in X : E.fanin[g] \cap X = {}
  BY DEF Acyclic
<1>2. PICK g \in X : FaninSet(n)[g] \cap X = {g}
  BY <1>1, ConeMinimal
<1>3. g \in Node(n) /\ g \in n.gate
  BY <1>1, <1>2 DEF Node
<1>4. E.fanin[g] \subseteq FaninSet(n)[g] \ {g}
  <2>1. CASE g \in Roots(F)
    <3>1. PICK f \in F : g = f.name
      BY <2>1 DEF Roots
    <3>2. f.name \in Node(n) /\ f = FfcAt(n, f.name) /\ FaninOf(n, f.name) # {}
      BY DEF Replaceable
    <3>3. f.inputNode \subseteq FaninSet(n)[g] \ {g}
      BY <3>1, <3>2, FfcInputsBelow
    <3> QED
      BY <3>1, <3>3 DEF IsReplacement
  <2>2. CASE g \notin Roots(F)
    <3>1. E.fanin[g] = FaninOf(n, g)
      BY <1>2, <1>3, <2>2 DEF FaninOf, IsReplacement
    <3>2. g \in FaninSet(n)[g]
      BY <1>3, ConeRoot
    <3>3. FaninOf(n, g) \subseteq FaninSet(n)[g]
      BY <1>3, <3>2, ConeStep
    <3>4. g \notin FaninOf(n, g)
      BY <1>3, <3>2, NoFaninDependsOnReader
    <3> QED
      BY <3>1, <3>3, <3>4
  <2> QED
    BY <2>1, <2>2
<1> QED
  BY <1>2, <1>4

-----------------------------------------------------------------------------
(***************************************************************************)
(* Distances: what Within reaches.                                         *)
(***************************************************************************)

\* One step of the search, against the direction of the wires.
Wider(net, near) == near \cup UNION {FaninOf(net, n) : n \in near}

\* The recursive function of Within.
IsReach(net, S, k, f) ==
  f = [i \in 0..k |-> IF i = 0 THEN S ELSE Wider(net, f[i - 1])]

\* The sets that are reached in k steps.
LEMMA ReachAt ==
  ASSUME NEW net, NEW S, NEW k \in Nat, NEW f, IsReach(net, S, k, f)
  PROVE  /\ f[0] = S
         /\ \A i \in 1..k : f[i] = Wider(net, f[i - 1])
<1> DEFINE F(i) == IF i = 0 THEN S ELSE Wider(net, f[i - 1])
<1>1. f = [i \in 0..k |-> F(i)]
  BY DEF IsReach
<1>2. \A i \in 0..k : f[i] = F(i)
  <2> HIDE DEF F
  <2> QED
    BY <1>1
<1>3. 0 \in 0..k /\ \A i \in 1..k : i \in 0..k /\ i # 0
  OBVIOUS
<1>4. f[0] = S
  BY <1>2, <1>3
<1>5. ASSUME NEW i \in 1..k PROVE f[i] = Wider(net, f[i - 1])
  BY <1>2, <1>3
<1> QED
  BY <1>4, <1>5

\* There is one.
LEMMA ReachExists ==
  ASSUME NEW net, NEW S
  PROVE  \A k \in Nat : \E f : IsReach(net, S, k, f)
<1> DEFINE bad == {k \in Nat : ~\E f : IsReach(net, S, k, f)}
<1> SUFFICES ASSUME bad # {} PROVE FALSE
  OBVIOUS
<1>1. PICK k \in bad : \A j \in bad : k <= j
  <2>1. bad \in SUBSET Nat
    OBVIOUS
  <2> HIDE DEF bad
  <2> QED
    BY <2>1, LeastNumber
<1>2. k # 0
  <2> DEFINE f == [i \in 0..0 |-> S]
  <2>1. f = [i \in 0..0 |-> IF i = 0 THEN S ELSE Wider(net, f[i - 1])]
    OBVIOUS
  <2>2. IsReach(net, S, 0, f)
    BY <2>1 DEF IsReach
  <2> QED
    BY <2>2
<1>3. k \in Nat /\ k - 1 \in Nat /\ ~(k <= k - 1)
  BY <1>1, <1>2
<1>4. k - 1 \notin bad
  BY <1>1, <1>3
<1>5. PICK f : IsReach(net, S, k - 1, f)
  BY <1>3, <1>4
<1> DEFINE v == Wider(net, f[k - 1])
           g == [i \in 0..k |-> IF i = k THEN v ELSE f[i]]
<1>6. \A i \in 0..k : i # k => i \in 0..(k - 1)
  BY <1>3
<1>7. ASSUME NEW i \in 0..k
      PROVE  g[i] = IF i = 0 THEN S ELSE Wider(net, g[i - 1])
  <2>1. CASE i = 0
    <3>1. g[0] = f[0]
      BY <1>2, <1>3
    <3>2. f[0] = S
      BY <1>3, <1>5, ReachAt
    <3> HIDE DEF g
    <3> QED
      BY <2>1, <3>1, <3>2
  <2>2. CASE i # 0
    <3>1. i \in 1..k /\ i - 1 \in 0..k /\ i - 1 # k
      BY <1>3, <2>2
    <3>2. g[i - 1] = f[i - 1]
      BY <3>1
    <3>3. CASE i = k
      BY <2>2, <3>2, <3>3
    <3>4. CASE i # k
      <4>1. i \in 1..(k - 1)
        BY <1>3, <3>1, <3>4
      <4>2. f[i] = Wider(net, f[i - 1])
        BY <1>3, <1>5, <4>1, ReachAt
      <4> QED
        BY <2>2, <3>2, <3>4, <4>2
    <3> QED
      BY <3>3, <3>4
  <2> QED
    BY <2>1, <2>2
<1>8. g = [i \in 0..k |-> g[i]]
  OBVIOUS
<1> HIDE DEF g
<1>9. IsReach(net, S, k, g)
  BY <1>7, <1>8 DEF IsReach
<1> QED
  BY <1>1, <1>9

\* Two of them agree as far as both go.
LEMMA ReachAgrees ==
  ASSUME NEW net, NEW S, NEW j \in Nat, NEW k \in Nat, j <= k,
         NEW f, IsReach(net, S, j, f), NEW g, IsReach(net, S, k, g)
  PROVE  \A i \in 0..j : f[i] = g[i]
<1> DEFINE bad == {i \in 0..j : f[i] # g[i]}
<1> SUFFICES ASSUME bad # {} PROVE FALSE
  OBVIOUS
<1>1. PICK i \in bad : \A h \in bad : i <= h
  <2>1. bad \in SUBSET Nat
    OBVIOUS
  <2> HIDE DEF bad
  <2> QED
    BY <2>1, LeastNumber
<1>2. i # 0
  BY ReachAt
<1>3. i \in 1..j /\ i \in 1..k /\ i - 1 \in 0..j /\ ~(i <= i - 1)
  BY <1>1, <1>2
<1>4. f[i - 1] = g[i - 1]
  BY <1>1, <1>3
<1>5. f[i] = Wider(net, f[i - 1]) /\ g[i] = Wider(net, g[i - 1])
  BY <1>3, ReachAt
<1> QED
  BY <1>1, <1>4, <1>5

\* Within is the last entry.
LEMMA WithinValue ==
  ASSUME NEW net, NEW S, NEW k \in Nat
  PROVE  \E f : IsReach(net, S, k, f) /\ Within(net, S, k) = f[k]
<1> DEFINE c == CHOOSE f : IsReach(net, S, k, f)
<1>1. IsReach(net, S, k, c)
  BY ReachExists
<1>2. Within(net, S, k) = c[k]
  BY DEF Within, IsReach, Wider
<1> QED
  BY <1>1, <1>2

\* Distance 0: the set itself.
LEMMA WithinZero ==
  ASSUME NEW net, NEW S
  PROVE  Within(net, S, 0) = S
BY WithinValue, ReachAt

\* One step further than the last but one.
LEMMA ReachLast ==
  ASSUME NEW net, NEW S, NEW k \in Nat, k # 0, NEW f, IsReach(net, S, k, f)
  PROVE  f[k] = Wider(net, f[k - 1])
<1>1. k \in 1..k
  OBVIOUS
<1>2. \A i \in 1..k : f[i] = Wider(net, f[i - 1])
  BY ReachAt
<1> QED
  BY <1>1, <1>2

\* Another step.
LEMMA WithinNext ==
  ASSUME NEW net, NEW S, NEW k \in Nat
  PROVE  Within(net, S, k + 1) = Wider(net, Within(net, S, k))
<1>1. ASSUME NEW j \in Nat, j = k + 1, NEW f, IsReach(net, S, k, f), NEW g, IsReach(net, S, j, g)
      PROVE  g[j] = Wider(net, f[k])
  <2>1. k <= j /\ k \in 0..k /\ j \in 1..j /\ j - 1 = k
    BY <1>1
  <2>2. f[k] = g[k]
    BY <1>1, <2>1, ReachAgrees
  <2>3. g[j] = Wider(net, g[j - 1])
    BY <1>1, <2>1, ReachLast
  <2> QED
    BY <2>1, <2>2, <2>3
<1>2. k + 1 \in Nat
  OBVIOUS
<1>3. PICK f : IsReach(net, S, k, f) /\ Within(net, S, k) = f[k]
  BY WithinValue
<1>4. \E g : IsReach(net, S, k + 1, g) /\ Within(net, S, k + 1) = g[k + 1]
  BY <1>2, WithinValue
<1> QED
  BY <1>1, <1>2, <1>3, <1>4

\* What is reached in k + 1 steps is reached in k, or read by what is.
LEMMA WithinStep ==
  ASSUME NEW net, NEW S, NEW k \in Nat, NEW n
  PROVE  n \in Within(net, S, k + 1) <=>
           \/ n \in Within(net, S, k)
           \/ \E m \in Within(net, S, k) : n \in FaninOf(net, m)
BY WithinNext DEF Wider

\* More steps reach more, and nodes only.
LEMMA WithinGrows ==
  ASSUME NEW net, NEW S, NEW j \in Nat, NEW k \in Nat, j <= k
  PROVE  Within(net, S, j) \subseteq Within(net, S, k)
<1> DEFINE bad == {i \in Nat : j <= i /\ ~(Within(net, S, j) \subseteq Within(net, S, i))}
<1> SUFFICES ASSUME bad # {} PROVE FALSE
  OBVIOUS
<1>1. PICK i \in bad : \A h \in bad : i <= h
  <2>1. bad \in SUBSET Nat
    OBVIOUS
  <2> HIDE DEF bad
  <2> QED
    BY <2>1, LeastNumber
<1>2. i # j
  BY <1>1
<1>3. i - 1 \in Nat /\ j <= i - 1 /\ ~(i <= i - 1) /\ (i - 1) + 1 = i
  BY <1>1, <1>2
<1>4. Within(net, S, j) \subseteq Within(net, S, i - 1)
  BY <1>1, <1>3
<1>5. Within(net, S, i - 1) \subseteq Within(net, S, i)
  BY <1>3, WithinStep
<1> QED
  BY <1>1, <1>4, <1>5

\* They are nodes of the circuit.
LEMMA WithinNodes ==
  ASSUME NEW net, IsNetlist(net), NEW S \in SUBSET Node(net)
  PROVE  \A k \in Nat : Within(net, S, k) \subseteq Node(net)
<1> DEFINE bad == {i \in Nat : ~(Within(net, S, i) \subseteq Node(net))}
<1> SUFFICES ASSUME bad # {} PROVE FALSE
  OBVIOUS
<1>1. PICK i \in bad : \A h \in bad : i <= h
  <2>1. bad \in SUBSET Nat
    OBVIOUS
  <2> HIDE DEF bad
  <2> QED
    BY <2>1, LeastNumber
<1>2. i # 0
  BY WithinZero
<1>3. i - 1 \in Nat /\ ~(i <= i - 1) /\ (i - 1) + 1 = i
  BY <1>1, <1>2
<1>4. Within(net, S, i - 1) \subseteq Node(net)
  BY <1>1, <1>3
<1>5. Within(net, S, i) \subseteq Node(net)
  BY <1>3, <1>4, WithinStep, FaninIsNode
<1> QED
  BY <1>1, <1>5

\* The length of a shortest way.
Nearest(net, S, n, d) ==
  n \in Within(net, S, d) /\ \A j \in 0..(d - 1) : n \notin Within(net, S, j)

\* A node that is reached has a distance.
LEMMA NearestExists ==
  ASSUME NEW net, NEW S, NEW k \in Nat, NEW n \in Within(net, S, k)
  PROVE  \E d \in 0..k : Nearest(net, S, n, d)
<1> DEFINE X == {i \in Nat : n \in Within(net, S, i)}
<1>1. PICK d \in X : \A h \in X : d <= h
  <2>1. X \in SUBSET Nat /\ k \in X
    OBVIOUS
  <2> HIDE DEF X
  <2> QED
    BY <2>1, LeastNumber
<1>2. \A j \in 0..(d - 1) : j \in Nat /\ ~(d <= j)
  BY <1>1
<1>3. d \in 0..k
  BY <1>1
<1> QED
  BY <1>1, <1>2, <1>3 DEF Nearest

\* Each level below the distance of a node has a node, so that the distance
\* is less than the number of nodes.
LEMMA NearestIsNear ==
  ASSUME NEW net, IsNetlist(net), IsFiniteSet(Node(net)), NEW S \in SUBSET Node(net),
         NEW d \in Nat, NEW n, Nearest(net, S, n, d)
  PROVE  d \in 0..Cardinality(Node(net))
<1> DEFINE empty == {i \in Nat : i <= d /\ \A m : ~Nearest(net, S, m, d - i)}
<1>1. empty = {}
  <2> SUFFICES ASSUME empty # {} PROVE FALSE
    OBVIOUS
  <2>1. PICK i \in empty : \A h \in empty : i <= h
    <3>1. empty \in SUBSET Nat
      OBVIOUS
    <3> HIDE DEF empty
    <3> QED
      BY <3>1, LeastNumber
  <2>2. i # 0
    <3>1. d - 0 = d
      OBVIOUS
    <3> QED
      BY <2>1, <3>1
  <2> DEFINE e == d - i
  <2>3. e \in Nat /\ i - 1 \in Nat /\ i - 1 <= d /\ ~(i <= i - 1) /\ d - (i - 1) = e + 1
    BY <2>1, <2>2
  <2>4. PICK m : Nearest(net, S, m, e + 1)
    BY <2>1, <2>3
  <2>5. \A m2 : ~Nearest(net, S, m2, e)
    BY <2>1
  <2> HIDE DEF e, empty
  <2>6. m \in Within(net, S, e + 1) /\ m \notin Within(net, S, e)
    BY <2>3, <2>4 DEF Nearest
  <2>7. PICK r \in Within(net, S, e) : m \in FaninOf(net, r)
    BY <2>3, <2>6, WithinStep
  <2>8. PICK j \in 0..e : Nearest(net, S, r, j)
    BY <2>3, <2>7, NearestExists
  <2>9. j # e
    BY <2>5, <2>8
  <2>10. j \in Nat /\ j + 1 \in Nat /\ j + 1 <= e
    BY <2>3, <2>8, <2>9
  <2>11. m \in Within(net, S, j + 1)
    BY <2>7, <2>8, <2>10, WithinStep DEF Nearest
  <2>12. m \in Within(net, S, e)
    BY <2>3, <2>10, <2>11, WithinGrows
  <2> QED
    BY <2>6, <2>12
<1>2. ASSUME NEW j \in 0..d
      PROVE  \E m : Nearest(net, S, m, j)
  <2>1. d - j \in Nat /\ d - j <= d /\ d - (d - j) = j
    OBVIOUS
  <2> QED
    BY <1>1, <2>1
<1> HIDE DEF empty
<1> DEFINE at == [j \in 0..d |-> CHOOSE m : Nearest(net, S, m, j)]
           K == Cardinality(Node(net))
<1>3. \A j \in 0..d : Nearest(net, S, at[j], j)
  BY <1>2
<1>4. \A j \in 0..d : at[j] \in Node(net)
  BY <1>3, WithinNodes DEF Nearest
<1>5. ASSUME NEW i \in 0..d, NEW j \in 0..d, i < j
      PROVE  at[i] # at[j]
  <2>1. i \in 0..(j - 1)
    BY <1>5
  <2>2. at[i] \in Within(net, S, i) /\ at[j] \notin Within(net, S, i)
    BY <1>3, <2>1 DEF Nearest
  <2> QED
    BY <2>2
<1>6. at \in [0..d -> Node(net)]
  BY <1>4
<1> HIDE DEF at
<1>7. at \in Injection(0..d, Node(net))
  <2>1. \A i, j \in 0..d : at[i] = at[j] => i = j
    <3>1. \A i, j \in 0..d : i < j \/ j < i \/ i = j
      OBVIOUS
    <3> QED
      BY <1>5, <3>1
  <2> QED
    BY <1>6, <2>1 DEF Injection, IsInjective
<1>8. IsFiniteSet(0..d) /\ Cardinality(0..d) = d + 1
  <2>1. 0 \in Int /\ d \in Int
    OBVIOUS
  <2>2. IsFiniteSet(0..d) /\ Cardinality(0..d) = IF 0 > d THEN 0 ELSE d - 0 + 1
    BY <2>1, FS_Interval, Zenon
  <2> QED
    BY <2>2
<1>9. d + 1 <= K
  BY <1>7, <1>8, FS_Injection
<1>10. K \in Nat
  BY FS_CardinalityType
<1> QED
  BY <1>9, <1>10

==============================================================================
