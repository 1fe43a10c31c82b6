------------------------ MODULE NetAlgorithmsTheorems ------------------------
(***************************************************************************)
(* The loops of NetAlgorithms compute what Netlist defines, for every      *)
(* circuit: topologicalSort lists the nodes in topological order (Sorted-  *)
(* Topologically), getFaninSet computes the cones (ConesComplete),         *)
(* getMffcSet leaves of each its largest fanout free part (ConesMaximal),  *)
(* and depth2Output finds the shortest ways (DepthsShortest).              *)
(***************************************************************************)
EXTENDS NetAlgorithms, CommonTheorems, FiniteSetTheorems, SequenceTheorems

-----------------------------------------------------------------------------
(***************************************************************************)
(* Sequences.                                                              *)
(***************************************************************************)

\* No element is listed twice.
Distinct(s) == \A i, j \in DOMAIN s : s[i] = s[j] => i = j

\* The number of the smaller elements tells the elements of a set apart.
LEMMA RankInjective ==
  ASSUME NEW S \in SUBSET Nat, IsFiniteSet(S), NEW m \in S, NEW n \in S, m # n
  PROVE  Cardinality({x \in S : x < m}) # Cardinality({x \in S : x < n})
<1> DEFINE below(y) == {x \in S : x < y}
<1>1. ASSUME NEW a \in S, NEW b \in S, a < b
      PROVE  Cardinality(below(a)) # Cardinality(below(b))
  <2>1. below(a) \in SUBSET below(b)
    <3>1. \A x \in S : x < a => x < b
      BY <1>1
    <3> QED
      BY <3>1
  <2>2. a \in below(b) /\ a \notin below(a)
    BY <1>1
  <2>3. IsFiniteSet(below(b))
    BY FS_Subset
  <2> HIDE DEF below
  <2> QED
    BY <2>1, <2>2, <2>3, FS_Subset
<1>2. m < n \/ n < m
  OBVIOUS
<1> QED
  BY <1>1, <1>2

\* InOrder lists each element of a set once.
LEMMA InOrderLists ==
  ASSUME NEW S \in SUBSET Nat, IsFiniteSet(S)
  PROVE  /\ InOrder(S) \in Seq(S) /\ Len(InOrder(S)) = Cardinality(S)
         /\ Distinct(InOrder(S)) /\ ToSet(InOrder(S)) = S
<1> DEFINE below(y) == {x \in S : x < y}
           K == Cardinality(S)
           rank == [n \in S |-> Cardinality(below(n))]
           s == InOrder(S)
<1>1. K \in Nat
  BY FS_CardinalityType
<1>2. ASSUME NEW n \in S
      PROVE  rank[n] \in 0..(K - 1)
  <2>1. below(n) \in SUBSET S /\ below(n) # S
    OBVIOUS
  <2>2. /\ Cardinality(below(n)) \in Nat /\ Cardinality(below(n)) <= K
        /\ Cardinality(below(n)) # K
    BY <2>1, FS_Subset, FS_CardinalityType
  <2> HIDE DEF K, below
  <2> QED
    BY <1>1, <2>2
<1>3. rank \in Injection(S, 0..(K - 1))
  <2>1. rank \in [S -> 0..(K - 1)]
    BY <1>2
  <2>2. \A m, n \in S : rank[m] = rank[n] => m = n
    BY RankInjective
  <2> QED
    BY <2>1, <2>2 DEF Injection, IsInjective
<1>4. IsFiniteSet(0..(K - 1)) /\ Cardinality(0..(K - 1)) = K
  <2>1. 0 \in Int /\ K - 1 \in Int
    BY <1>1
  <2>2. /\ IsFiniteSet(0..(K - 1))
        /\ Cardinality(0..(K - 1)) = IF 0 > K - 1 THEN 0 ELSE (K - 1) - 0 + 1
    BY <2>1, FS_Interval, Zenon
  <2> HIDE DEF K
  <2> QED
    BY <1>1, <2>2
<1>5. rank \in Surjection(S, 0..(K - 1))
  BY <1>3, <1>4, FS_Injection
<1>6. ASSUME NEW k \in 1..K
      PROVE  s[k] \in S /\ rank[s[k]] = k - 1
  <2>1. k - 1 \in 0..(K - 1)
    BY <1>1
  <2>2. \E n \in S : Cardinality(below(n)) = k - 1
    BY <1>5, <2>1 DEF Surjection
  <2>3. s[k] = CHOOSE n \in S : Cardinality(below(n)) = k - 1
    BY DEF InOrder
  <2> QED
    BY <2>2, <2>3
<1>7. s \in Seq(S) /\ Len(s) = K /\ DOMAIN s = 1..K
  <2>1. s \in [1..K -> S]
    BY <1>6 DEF InOrder
  <2> HIDE DEF s, K
  <2> QED
    BY <1>1, <2>1
<1>8. Distinct(s)
  <2> SUFFICES ASSUME NEW i \in 1..K, NEW j \in 1..K, s[i] = s[j]
               PROVE  i = j
    BY <1>7 DEF Distinct
  <2>1. i - 1 = j - 1
    BY <1>6
  <2> QED
    BY <1>1, <2>1
<1>9. ASSUME NEW n \in S
      PROVE  \E k \in 1..K : s[k] = n
  <2>1. rank[n] + 1 \in 1..K /\ rank[n] = (rank[n] + 1) - 1
    BY <1>1, <1>2
  <2>2. s[rank[n] + 1] \in S /\ rank[s[rank[n] + 1]] = rank[n]
    BY <1>6, <2>1
  <2>3. s[rank[n] + 1] = n
    BY <2>2, RankInjective
  <2> QED
    BY <2>1, <2>3
<1>10. ToSet(s) = S
  BY <1>6, <1>7, <1>9 DEF ToSet
<1> QED
  BY <1>7, <1>8, <1>10

\* A new last element.
LEMMA AppendLists ==
  ASSUME NEW S, NEW s \in Seq(S), NEW x \in S
  PROVE  /\ Append(s, x) \in Seq(S) /\ Len(Append(s, x)) = Len(s) + 1
         /\ DOMAIN Append(s, x) = 1..(Len(s) + 1)
         /\ \A i \in 1..Len(s) : Append(s, x)[i] = s[i]
         /\ Append(s, x)[Len(s) + 1] = x
         /\ ToSet(Append(s, x)) = ToSet(s) \cup {x}
         /\ Distinct(s) /\ x \notin ToSet(s) => Distinct(Append(s, x))
<1> DEFINE t == Append(s, x)
<1>1. Len(s) \in Nat /\ DOMAIN s = 1..Len(s)
  BY LenProperties
<1>2. /\ t \in Seq(S) /\ Len(t) = Len(s) + 1 /\ DOMAIN t = 1..(Len(s) + 1)
      /\ \A i \in 1..Len(s) : t[i] = s[i]
      /\ t[Len(s) + 1] = x
  BY <1>1
<1> HIDE DEF t
<1>3. 1..(Len(s) + 1) = 1..Len(s) \cup {Len(s) + 1}
  BY <1>1
<1>4. ToSet(t) = ToSet(s) \cup {x}
  BY <1>1, <1>2, <1>3 DEF ToSet
<1>5. ASSUME Distinct(s), x \notin ToSet(s), NEW i \in DOMAIN t, NEW j \in DOMAIN t, t[i] = t[j]
      PROVE  i = j
  <2>1. CASE i \in 1..Len(s) /\ j \in 1..Len(s)
    BY <1>1, <1>2, <1>5, <2>1 DEF Distinct
  <2>2. CASE i = Len(s) + 1 /\ j \in 1..Len(s)
    BY <1>1, <1>2, <1>5, <2>2 DEF ToSet
  <2>3. CASE j = Len(s) + 1 /\ i \in 1..Len(s)
    BY <1>1, <1>2, <1>5, <2>3 DEF ToSet
  <2> QED
    BY <1>2, <1>3, <2>1, <2>2, <2>3
<1> QED
  BY <1>2, <1>4, <1>5 DEF t, Distinct

\* The rest of a sequence.
LEMMA TailLists ==
  ASSUME NEW S, NEW s \in Seq(S), s # <<>>, Distinct(s)
  PROVE  /\ Head(s) \in S /\ Head(s) \in ToSet(s) /\ Tail(s) \in Seq(S) /\ Distinct(Tail(s))
         /\ ToSet(Tail(s)) = ToSet(s) \ {Head(s)}
<1> DEFINE t == Tail(s)
<1>1. Len(s) \in Nat \ {0} /\ DOMAIN s = 1..Len(s)
  BY LenProperties, EmptySeq
<1>2. /\ Head(s) \in S /\ t \in Seq(S) /\ Len(t) = Len(s) - 1
      /\ \A i \in 1..Len(t) : t[i] = s[i + 1]
  BY HeadTailProperties
<1>3. Head(s) = s[1] /\ 1 \in DOMAIN s
  BY <1>1
<1>4. DOMAIN t = 1..(Len(s) - 1)
  BY <1>2, LenProperties
<1> HIDE DEF t
<1>5. \A i \in 1..(Len(s) - 1) : t[i] = s[i + 1] /\ i + 1 \in DOMAIN s /\ i + 1 # 1
  BY <1>1, <1>2
<1>6. \A k \in DOMAIN s : k # 1 => k - 1 \in 1..(Len(s) - 1) /\ s[k] = t[k - 1]
  BY <1>1, <1>2
<1>7. Distinct(t)
  <2> SUFFICES ASSUME NEW i \in 1..(Len(s) - 1), NEW j \in 1..(Len(s) - 1), t[i] = t[j]
               PROVE  i = j
    BY <1>4 DEF Distinct
  <2>1. i + 1 = j + 1
    BY <1>5 DEF Distinct
  <2> QED
    BY <2>1
<1>8. ToSet(t) = ToSet(s) \ {Head(s)}
  <2>1. ASSUME NEW x \in ToSet(t)
        PROVE  x \in ToSet(s) \ {Head(s)}
    BY <1>3, <1>4, <1>5 DEF ToSet, Distinct
  <2>2. ASSUME NEW x \in ToSet(s) \ {Head(s)}
        PROVE  x \in ToSet(t)
    BY <1>3, <1>4, <1>6 DEF ToSet
  <2> QED
    BY <2>1, <2>2
<1> QED
  BY <1>2, <1>3, <1>7, <1>8 DEF t, ToSet

\* Two sequences, one after the other.
LEMMA ConcatLists ==
  ASSUME NEW S, NEW s \in Seq(S), NEW t \in Seq(S)
  PROVE  /\ s \o t \in Seq(S) /\ ToSet(s \o t) = ToSet(s) \cup ToSet(t)
         /\ Distinct(s) /\ Distinct(t) /\ ToSet(s) \cap ToSet(t) = {} => Distinct(s \o t)
<1> DEFINE u == s \o t
           m == Len(s)
           n == Len(t)
<1>1. m \in Nat /\ n \in Nat /\ DOMAIN s = 1..m /\ DOMAIN t = 1..n
  BY LenProperties
<1>2. /\ u \in Seq(S) /\ Len(u) = m + n
      /\ \A i \in 1..(m + n) : u[i] = IF i <= m THEN s[i] ELSE t[i - m]
  BY ConcatProperties
<1>3. DOMAIN u = 1..(m + n)
  BY <1>2, LenProperties
<1> HIDE DEF u, m, n
<1>4. \A i \in 1..(m + n) : \/ i \in 1..m /\ u[i] = s[i]
                            \/ i - m \in 1..n /\ i > m /\ u[i] = t[i - m]
  BY <1>1, <1>2
<1>5. \A i \in 1..m : i \in 1..(m + n) /\ u[i] = s[i]
  BY <1>1, <1>2
<1>6. ASSUME NEW i \in 1..n
      PROVE  m + i \in 1..(m + n) /\ u[m + i] = t[i]
  <2>1. m + i \in 1..(m + n) /\ ~(m + i <= m) /\ (m + i) - m = i
    BY <1>1
  <2> QED
    BY <1>2, <2>1
<1>7. ToSet(u) = ToSet(s) \cup ToSet(t)
  <2>1. ASSUME NEW x \in ToSet(u)
        PROVE  x \in ToSet(s) \cup ToSet(t)
    BY <1>1, <1>3, <1>4 DEF ToSet
  <2>2. ASSUME NEW x \in ToSet(s) \cup ToSet(t)
        PROVE  x \in ToSet(u)
    BY <1>1, <1>3, <1>5, <1>6 DEF ToSet
  <2> QED
    BY <2>1, <2>2
<1>8. ASSUME Distinct(s), Distinct(t), ToSet(s) \cap ToSet(t) = {},
             NEW i \in 1..(m + n), NEW j \in 1..(m + n), u[i] = u[j]
      PROVE  i = j
  <2>1. CASE i \in 1..m /\ u[i] = s[i] /\ j \in 1..m /\ u[j] = s[j]
    BY <1>1, <1>8, <2>1 DEF Distinct
  <2>2. CASE /\ i - m \in 1..n /\ i > m /\ u[i] = t[i - m]
             /\ j - m \in 1..n /\ j > m /\ u[j] = t[j - m]
    <3>1. i - m = j - m
      BY <1>1, <1>8, <2>2 DEF Distinct
    <3> QED
      BY <1>1, <3>1
  <2>3. CASE i \in 1..m /\ u[i] = s[i] /\ j - m \in 1..n /\ u[j] = t[j - m]
    BY <1>1, <1>8, <2>3 DEF ToSet
  <2>4. CASE j \in 1..m /\ u[j] = s[j] /\ i - m \in 1..n /\ u[i] = t[i - m]
    BY <1>1, <1>8, <2>4 DEF ToSet
  <2> QED
    BY <1>4, <2>1, <2>2, <2>3, <2>4
<1> QED
  BY <1>2, <1>3, <1>7, <1>8 DEF u, Distinct

-----------------------------------------------------------------------------
(***************************************************************************)
(* topologicalSort.                                                        *)
(***************************************************************************)

\* The nodes that have everything they read in L.
Served(n, L) == {g \in Node(n) : FaninOf(n, g) \subseteq L}

\* Every fanin comes before the node that reads it.
InTopologicalOrder(n, list) ==
  \A j \in DOMAIN list : \A m \in FaninOf(n, list[j]) : \E i \in 1..(j - 1) : list[i] = m

\* The list and the queue hold, once, the nodes whose fanins are listed.
Sorting(n, list, queue) ==
  /\ list \in Seq(Node(n)) /\ queue \in Seq(Node(n))
  /\ Distinct(list) /\ Distinct(queue)
  /\ ToSet(list) \cap ToSet(queue) = {}
  /\ ToSet(list) \cup ToSet(queue) = Served(n, ToSet(list))
  /\ InTopologicalOrder(n, list)

\* What a circuit is.
LEMMA CircuitFacts ==
  ASSUME NEW n \in Circuits
  PROVE  /\ IsNetlist(n) /\ Acyclic(n) /\ IsFiniteSet(Node(n))
         /\ Node(n) \in SUBSET Nat
         /\ \A g : FaninOf(n, g) \in SUBSET Node(n) /\ IsFiniteSet(FaninOf(n, g))
         /\ \A m : Fanouts(n, m) = {g \in Node(n) : m \in FaninOf(n, g)}
<1>1. IsNetlist(n) /\ Acyclic(n) /\ IsFiniteSet(Node(n))
  BY CircuitsAssumption
<1>2. \A g : FaninOf(n, g) \in SUBSET Node(n)
  BY <1>1, FaninIsNode
<1>3. \A g : IsFiniteSet(FaninOf(n, g))
  BY <1>1, <1>2, FS_Subset
<1>4. \A m : Fanouts(n, m) = {g \in Node(n) : m \in FaninOf(n, g)}
  BY DEF Fanouts, FaninOf, Node
<1> QED
  BY <1>1, <1>2, <1>3, <1>4 DEF IsNetlist, Node

\* The loop starts with the nodes that read nothing.
LEMMA SortingStarts ==
  ASSUME NEW n \in Circuits
  PROVE  Sorting(n, <<>>, InOrder({g \in Node(n) : FaninOf(n, g) = {}}))
<1> DEFINE S == {g \in Node(n) : FaninOf(n, g) = {}}
<1>1. S \in SUBSET Nat /\ IsFiniteSet(S)
  BY CircuitFacts, FS_Subset
<1>2. /\ InOrder(S) \in Seq(S) /\ Distinct(InOrder(S)) /\ ToSet(InOrder(S)) = S
  BY <1>1, InOrderLists
<1>3. InOrder(S) \in Seq(Node(n))
  BY <1>2, SeqMonotonic
<1>4. ToSet(<<>>) = {} /\ Distinct(<<>>) /\ <<>> \in Seq(Node(n))
  BY DEF ToSet, Distinct
<1>5. InTopologicalOrder(n, <<>>)
  BY DEF InTopologicalOrder
<1>6. S = Served(n, {})
  BY DEF Served
<1> QED
  BY <1>2, <1>3, <1>4, <1>5, <1>6 DEF Sorting

\* An iteration lists the first of the queue, and queues the nodes of which
\* it was the last fanin to be listed: those with a count of 1.
LEMMA SortingGoesOn ==
  ASSUME NEW n \in Circuits, NEW list, NEW queue, Sorting(n, list, queue), queue # <<>>
  PROVE  LET p == Head(queue)
             left(g) == Cardinality(FaninOf(n, g) \ ToSet(list))
             ready == {g \in Fanouts(n, p) : left(g) = 1}
         IN  /\ Sorting(n, Append(list, p), Tail(queue) \o InOrder(ready))
             /\ \A g \in Node(n) :
                  /\ left(g) \in Nat
                  /\ g \in Fanouts(n, p) => left(g) # 0
                  /\ Cardinality(FaninOf(n, g) \ ToSet(Append(list, p))) =
                       IF g \in Fanouts(n, p) THEN left(g) - 1 ELSE left(g)
<1> DEFINE p == Head(queue)
           L == ToSet(list)
           left(g) == Cardinality(FaninOf(n, g) \ L)
           ready == {g \in Fanouts(n, p) : left(g) = 1}
           list2 == Append(list, p)
           queue2 == Tail(queue) \o InOrder(ready)
<1>1. /\ list \in Seq(Node(n)) /\ queue \in Seq(Node(n)) /\ Distinct(list) /\ Distinct(queue)
      /\ L \cap ToSet(queue) = {} /\ L \cup ToSet(queue) = Served(n, L)
      /\ InTopologicalOrder(n, list)
  BY DEF Sorting
<1>2. /\ p \in Node(n) /\ p \in ToSet(queue) /\ Tail(queue) \in Seq(Node(n))
      /\ Distinct(Tail(queue)) /\ ToSet(Tail(queue)) = ToSet(queue) \ {p}
  BY <1>1, TailLists
<1>3. p \notin L /\ FaninOf(n, p) \subseteq L
  BY <1>1, <1>2 DEF Served
<1>4. ASSUME NEW g \in Node(n)
      PROVE  IsFiniteSet(FaninOf(n, g) \ L) /\ left(g) \in Nat
  BY CircuitFacts, FS_Difference, FS_CardinalityType
<1>5. /\ list2 \in Seq(Node(n)) /\ Distinct(list2) /\ ToSet(list2) = L \cup {p}
      /\ DOMAIN list2 = 1..(Len(list) + 1) /\ Len(list) \in Nat
      /\ \A i \in 1..Len(list) : list2[i] = list[i]
      /\ list2[Len(list) + 1] = p
  BY <1>1, <1>2, <1>3, AppendLists, LenProperties
<1>6. ASSUME NEW g \in Node(n)
      PROVE  /\ g \in Fanouts(n, p) => left(g) # 0
             /\ Cardinality(FaninOf(n, g) \ (L \cup {p})) =
                  IF g \in Fanouts(n, p) THEN left(g) - 1 ELSE left(g)
  <2>1. FaninOf(n, g) \ (L \cup {p}) = (FaninOf(n, g) \ L) \ {p}
    OBVIOUS
  <2>2. g \in Fanouts(n, p) <=> p \in FaninOf(n, g) \ L
    BY <1>3, CircuitFacts
  <2>3. Cardinality((FaninOf(n, g) \ L) \ {p}) =
          IF p \in FaninOf(n, g) \ L THEN left(g) - 1 ELSE left(g)
    BY <1>4, FS_RemoveElement
  <2>4. p \in FaninOf(n, g) \ L => left(g) # 0
    BY <1>4, FS_EmptySet
  <2> QED
    BY <2>1, <2>2, <2>3, <2>4
<1>7. ASSUME NEW g \in Node(n)
      PROVE  g \in ready <=> FaninOf(n, g) \subseteq L \cup {p} /\ p \in FaninOf(n, g)
  <2>1. g \in Fanouts(n, p) <=> p \in FaninOf(n, g)
    BY CircuitFacts
  <2>2. p \in FaninOf(n, g) => (left(g) = 1 <=> FaninOf(n, g) \ L = {p})
    <3>1. ASSUME p \in FaninOf(n, g), left(g) = 1
          PROVE  FaninOf(n, g) \ L = {p}
      <4>1. p \in FaninOf(n, g) \ L
        BY <1>3, <3>1
      <4>2. \E x : FaninOf(n, g) \ L = {x}
        BY <1>4, <3>1, FS_Singleton
      <4> QED
        BY <4>1, <4>2
    <3>2. FaninOf(n, g) \ L = {p} => left(g) = 1
      BY FS_Singleton
    <3> QED
      BY <3>1, <3>2
  <2> QED
    BY <1>3, <2>1, <2>2
<1>8. ready \in SUBSET Node(n) /\ ready \in SUBSET Nat /\ IsFiniteSet(ready)
  <2>1. ready \in SUBSET Node(n)
    BY CircuitFacts
  <2> QED
    BY <2>1, CircuitFacts, FS_Subset
<1> HIDE DEF ready, left, L
<1>9. /\ InOrder(ready) \in Seq(Node(n)) /\ Distinct(InOrder(ready))
      /\ ToSet(InOrder(ready)) = ready
  BY <1>8, InOrderLists, SeqMonotonic
<1>10. ready \cap Served(n, L) = {}
  BY <1>3, <1>7, <1>8 DEF Served
<1>11. queue2 \in Seq(Node(n)) /\ Distinct(queue2)
       /\ ToSet(queue2) = (ToSet(queue) \ {p}) \cup ready
  <2>1. ToSet(Tail(queue)) \cap ready = {}
    BY <1>1, <1>2, <1>10
  <2> HIDE DEF p
  <2>2. /\ queue2 \in Seq(Node(n))
        /\ ToSet(queue2) = ToSet(Tail(queue)) \cup ToSet(InOrder(ready))
        /\ Distinct(queue2)
    <3>1. ToSet(Tail(queue)) \cap ToSet(InOrder(ready)) = {}
      BY <1>9, <2>1
    <3> QED
      <4> DEFINE s == Tail(queue)
                 t == InOrder(ready)
      <4>1. s \in Seq(Node(n)) /\ t \in Seq(Node(n))
        BY <1>2, <1>9
      <4>2. Distinct(s) /\ Distinct(t) /\ ToSet(s) \cap ToSet(t) = {}
        BY <1>2, <1>9, <3>1
      <4>3. queue2 = s \o t
        OBVIOUS
      <4> HIDE DEF s, t, queue2
      <4>4. /\ queue2 \in Seq(Node(n)) /\ ToSet(queue2) = ToSet(s) \cup ToSet(t)
            /\ Distinct(queue2)
        BY <4>1, <4>2, <4>3, ConcatLists
      <4> QED
        BY <4>4 DEF s, t
  <2> HIDE DEF queue2
  <2> QED
    BY <1>2, <1>9, <2>2
<1>12. Served(n, L \cup {p}) = Served(n, L) \cup ready
  BY <1>7, <1>8 DEF Served
<1>13. /\ (L \cup {p}) \cap ToSet(queue2) = {}
       /\ (L \cup {p}) \cup ToSet(queue2) = Served(n, L \cup {p})
  BY <1>1, <1>2, <1>3, <1>10, <1>11, <1>12
<1>14. InTopologicalOrder(n, list2)
  <2> SUFFICES ASSUME NEW j \in 1..(Len(list) + 1), NEW m \in FaninOf(n, list2[j])
               PROVE  \E i \in 1..(j - 1) : list2[i] = m
    BY <1>5 DEF InTopologicalOrder
  <2>1. DOMAIN list = 1..Len(list)
    BY <1>1, LenProperties
  <2>2. CASE j \in 1..Len(list)
    <3>1. PICK i \in 1..(j - 1) : list[i] = m
      BY <1>1, <1>5, <2>1, <2>2 DEF InTopologicalOrder
    <3>2. i \in 1..Len(list)
      BY <1>5, <2>2
    <3> QED
      BY <1>5, <3>1, <3>2
  <2>3. CASE j = Len(list) + 1
    <3>1. m \in L
      BY <1>3, <1>5, <2>3
    <3>2. PICK i \in 1..Len(list) : list[i] = m
      BY <2>1, <3>1 DEF L, ToSet
    <3>3. i \in 1..(j - 1)
      BY <1>5, <2>3
    <3> QED
      BY <1>5, <3>2, <3>3
  <2> QED
    BY <1>5, <2>2, <2>3
<1>15. Sorting(n, list2, queue2)
  BY <1>5, <1>11, <1>13, <1>14 DEF Sorting
<1> QED
  BY <1>4, <1>5, <1>6, <1>15 DEF L, left, ready

\* With an empty queue all nodes are listed: among the gates that are not
\* there would be one that reads none of them.
LEMMA SortingEnds ==
  ASSUME NEW n \in Circuits, NEW list, Sorting(n, list, <<>>)
  PROVE  /\ ToSet(list) = Node(n) /\ Len(list) = Cardinality(Node(n))
         /\ \A i, j \in DOMAIN list : list[i] \in FaninOf(n, list[j]) => i < j
<1> DEFINE L == ToSet(list)
<1>1. /\ list \in Seq(Node(n)) /\ Distinct(list) /\ InTopologicalOrder(n, list)
      /\ L = Served(n, L)
  BY DEF Sorting, ToSet
<1>2. DOMAIN list = 1..Len(list) /\ Len(list) \in Nat /\ list \in [1..Len(list) -> Node(n)]
  BY <1>1, LenProperties
<1>3. L = Node(n)
  <2> DEFINE X == n.gate \ L
  <2>1. L \subseteq Node(n)
    BY <1>1 DEF Served
  <2>2. n.pi \subseteq L
    <3>1. n.pi \cap n.gate = {}
      BY CircuitFacts DEF IsNetlist
    <3>2. \A g \in n.pi : g \in Node(n) /\ FaninOf(n, g) = {}
      BY <3>1 DEF FaninOf, Node
    <3> QED
      BY <1>1, <3>2 DEF Served
  <2>3. ASSUME NEW g \in X, n.fanin[g] \cap X = {}
        PROVE  FALSE
    <3>1. FaninOf(n, g) = n.fanin[g] /\ FaninOf(n, g) \subseteq Node(n) /\ g \in Node(n)
      BY CircuitFacts DEF FaninOf, Node
    <3>2. FaninOf(n, g) \subseteq L
      BY <2>2, <2>3, <3>1 DEF Node
    <3> QED
      BY <1>1, <3>1, <3>2 DEF Served
  <2>4. X = {}
    BY <2>3, CircuitFacts DEF Acyclic
  <2> QED
    BY <2>1, <2>2, <2>4 DEF Node
<1>4. Len(list) = Cardinality(Node(n))
  <2>1. list \in Bijection(1..Len(list), Node(n))
    BY <1>1, <1>2, <1>3 DEF Bijection, Injection, IsInjective, Surjection, Distinct, ToSet
  <2>2. IsFiniteSet(1..Len(list)) /\ Cardinality(1..Len(list)) = Len(list)
    <3>1. 1 \in Int /\ Len(list) \in Int
      BY <1>2
    <3>2. /\ IsFiniteSet(1..Len(list))
          /\ Cardinality(1..Len(list)) = IF 1 > Len(list) THEN 0 ELSE Len(list) - 1 + 1
      BY <3>1, FS_Interval, Zenon
    <3> QED
      BY <1>2, <3>2
  <2> QED
    BY <2>1, <2>2, FS_Bijection DEF ExistsBijection
<1>5. ASSUME NEW i \in DOMAIN list, NEW j \in DOMAIN list, list[i] \in FaninOf(n, list[j])
      PROVE  i < j
  <2>1. PICK k \in 1..(j - 1) : list[k] = list[i]
    BY <1>1, <1>5 DEF InTopologicalOrder
  <2>2. k \in DOMAIN list
    BY <1>2
  <2>3. k = i
    BY <1>1, <2>1, <2>2 DEF Distinct
  <2> QED
    BY <1>2, <2>3
<1> QED
  BY <1>3, <1>4, <1>5

-----------------------------------------------------------------------------
(***************************************************************************)
(* getFaninSet and getMffcSet.                                             *)
(***************************************************************************)

\* The cone of a node is the node and the cones of what it reads.
LEMMA ConeOfFanins ==
  ASSUME NEW n \in Circuits, NEW g \in Node(n)
  PROVE  FaninSet(n)[g] = {g} \cup UNION {FaninSet(n)[m] : m \in FaninOf(n, g)}
<1> DEFINE cone == FaninSet(n)
<1>1. IsNetlist(n) /\ g \in cone[g] /\ FaninOf(n, g) \subseteq cone[g]
  BY CircuitFacts, ConeRoot, ConeStep
<1>2. ASSUME NEW m \in FaninOf(n, g)
      PROVE  cone[m] \subseteq cone[g]
  <2>1. m \in cone[g]
    BY <1>1
  <2> QED
    BY <1>1, <2>1, ConeTransitive
<1>3. ASSUME NEW x \in cone[g], x # g
      PROVE  \E m \in FaninOf(n, g) : x \in cone[m]
  BY <1>1, <1>3, ConeSplit
<1> QED
  BY <1>1, <1>2, <1>3

\* getMffcSet reads the cone of a node and the cones of its members only.
LEMMA MffcReadsCone ==
  ASSUME NEW n, NEW f, NEW c, NEW g, f[g] = c[g], \A m \in c[g] : f[m] = c[m]
  PROVE  Mffc(n, f, g) = Mffc(n, c, g)
<1>1. Escaping(n, f, g) = Escaping(n, c, g) /\ Escaping(n, c, g) \subseteq c[g]
  BY DEF Escaping
<1>2. {f[m] : m \in Escaping(n, c, g)} = {c[m] : m \in Escaping(n, c, g)}
  BY <1>1
<1> QED
  BY <1>1, <1>2 DEF Mffc

\* A part of the cone that nothing outside reads holds no node that escapes,
\* and with a node below such a one it would: so getMffcSet erases none of it.
LEMMA FanoutFreeIsKept ==
  ASSUME net \in Circuits, NEW r \in Node(net), NEW S \in SUBSET FaninSet(net)[r],
         FanoutFree(r, S)
  PROVE  S \subseteq Mffc(net, FaninSet(net), r)
<1> DEFINE cone == FaninSet(net)
<1>1. IsNetlist(net) /\ Acyclic(net) /\ r \in S
      /\ \A m \in S \ {r} : Fanouts(net, m) \subseteq S
  BY CircuitFacts DEF FanoutFree
<1>2. SUFFICES ASSUME NEW m \in Escaping(net, cone, r), NEW x \in S, x \in cone[m]
               PROVE  FALSE
  BY DEF Mffc
<1>3. m \in cone[r] /\ m # r /\ ~(Fanouts(net, m) \subseteq cone[r])
  BY <1>2 DEF Escaping
<1>4. m \notin S
  BY <1>1, <1>3
<1>5. m \in Node(net)
  BY <1>1, <1>3, ConeRoot
<1>6. r \notin cone[m]
  BY <1>1, <1>3, ConeAntisymmetric
<1>7. m \in cone[m] /\ cone[m] \subseteq Node(net)
  BY <1>1, <1>5, ConeRoot
<1> DEFINE X == cone[m] \ S
<1>8. ASSUME NEW y \in X, NEW z \in FaninOf(net, y)
      PROVE  z \in X
  <2>1. z \in cone[m]
    BY <1>1, <1>5, ConeStep
  <2>2. y \in Fanouts(net, z)
    BY <1>7, CircuitFacts
  <2>3. z \notin S
    BY <1>1, <1>6, <2>1, <2>2
  <2> QED
    BY <2>1, <2>3
<1>9. cone[m] \subseteq X
  <2>1. m \in X /\ \A y \in X : FaninOf(net, y) \subseteq X
    BY <1>4, <1>7, <1>8
  <2> HIDE DEF X
  <2> QED
    BY <1>1, <1>5, <2>1, ConeLeast
<1> QED
  BY <1>2, <1>9

\* What getMffcSet leaves of a cone is its largest fanout free part.
LEMMA MffcIsLargest ==
  ASSUME net \in Circuits, NEW r \in Node(net)
  PROVE  Mffc(net, FaninSet(net), r) =
           UNION {S \in SUBSET FaninSet(net)[r] : FanoutFree(r, S)}
<1> DEFINE M == Mffc(net, FaninSet(net), r)
<1>1. IsNetlist(net) /\ Acyclic(net)
  BY CircuitFacts
<1>2. r \in M /\ M \in SUBSET FaninSet(net)[r]
  BY <1>1, MffcRoot
<1>3. \A v \in M \ {r} : Fanouts(net, v) \subseteq M
  BY <1>1, MffcFanoutFree
<1>4. FanoutFree(r, M)
  BY <1>2, <1>3 DEF FanoutFree
<1>5. \A S \in SUBSET FaninSet(net)[r] : FanoutFree(r, S) => S \subseteq M
  BY FanoutFreeIsKept
<1> QED
  BY <1>2, <1>4, <1>5

\* The first k nodes of the list.
Prefix(list, k) == {list[i] : i \in 1..k}

\* In topological order, cones reach backwards only.
LEMMA ConeInPrefix ==
  ASSUME NEW n \in Circuits, NEW list, Sorting(n, list, <<>>), NEW k \in 1..Len(list)
  PROVE  FaninSet(n)[list[k]] \subseteq Prefix(list, k)
<1>1. IsNetlist(n)
  BY CircuitFacts
<1>2. DOMAIN list = 1..Len(list) /\ Len(list) \in Nat /\ list \in [1..Len(list) -> Node(n)]
  BY LenProperties DEF Sorting
<1>3. list[k] \in Node(n) /\ list[k] \in Prefix(list, k)
  BY <1>2 DEF Prefix
<1>4. ASSUME NEW x \in Prefix(list, k), NEW m \in FaninOf(n, x)
      PROVE  m \in Prefix(list, k)
  <2>1. PICK j \in 1..k : x = list[j]
    BY DEF Prefix
  <2>2. PICK i \in 1..(j - 1) : list[i] = m
    BY <1>2, <2>1 DEF Sorting, InTopologicalOrder
  <2>3. i \in 1..k
    BY <1>2
  <2> QED
    BY <2>2, <2>3 DEF Prefix
<1> QED
  BY <1>1, <1>3, <1>4, ConeLeast

-----------------------------------------------------------------------------
(***************************************************************************)
(* The inductive invariant.                                                *)
(***************************************************************************)

\* The counts of topologicalSort are those of fanins not listed.
SortInv ==
  /\ net \in Circuits
  /\ indegreeTable =
       [g \in Node(net) |-> Cardinality(FaninOf(net, g) \ ToSet(sortedList))]
  /\ Sorting(net, sortedList, IF pc = "sort" THEN sortingQueue ELSE <<>>)

\* getFaninSet has the cones of a prefix of the list; getMffcSet has not yet
\* touched those of a prefix.
ConesInv ==
  /\ pc \in {"sort", "fanin", "mffc", "depth", "done"}
  /\ pc = "sort" => position = 1 /\ faninNetwork = <<>>
  /\ pc = "fanin" =>
       /\ position \in 1..(Len(sortedList) + 1)
       /\ faninNetwork = [n \in Prefix(sortedList, position - 1) |-> FaninSet(net)[n]]
  /\ pc = "mffc" =>
       /\ position \in 0..Len(sortedList)
       /\ faninNetwork = [n \in Node(net) |->
                            IF n \in Prefix(sortedList, position) THEN FaninSet(net)[n]
                            ELSE Mffc(net, FaninSet(net), n)]
  /\ pc \in {"depth", "done"} =>
       /\ position = 0
       /\ faninNetwork = [n \in Node(net) |-> Mffc(net, FaninSet(net), n)]

Calls == [name : Node(net), curr : Nat, inputs : Seq(Node(net))]

\* depth2Output: nodes have numbers for distances, and calls have nodes.
DepthInv ==
  /\ DOMAIN distance \subseteq Node(net)
  /\ \A n \in DOMAIN distance : distance[n] \in Nat
  /\ frames \in Seq(Calls)
  /\ outputs \in Seq(Node(net))

NInv == SortInv /\ ConesInv /\ DepthInv

\* Nodes in order are a sequence of nodes.
LEMMA InOrderOfNodes ==
  ASSUME NEW n \in Circuits, NEW S \in SUBSET Node(n)
  PROVE  InOrder(S) \in Seq(Node(n))
<1>1. S \in SUBSET Nat /\ IsFiniteSet(S)
  BY CircuitFacts, FS_Subset
<1> QED
  BY <1>1, InOrderLists, SeqMonotonic

\* The invariant holds before the first function is called.
LEMMA InitKeeps == Init => NInv
<1> SUFFICES ASSUME Init PROVE NInv
  OBVIOUS
<1>1. net \in Circuits
  BY DEF Init
<1>2. SortInv
  <2>1. Sorting(net, sortedList, sortingQueue)
    BY <1>1, SortingStarts DEF Init
  <2>2. \A g : FaninOf(net, g) \ ToSet(sortedList) = FaninOf(net, g)
    BY DEF Init, ToSet
  <2>3. indegreeTable = [g \in Node(net) |-> Cardinality(FaninOf(net, g))]
    BY DEF Init
  <2> QED
    BY <1>1, <2>1, <2>2, <2>3 DEF Init, SortInv
<1>3. ConesInv
  BY DEF Init, ConesInv
<1>4. DepthInv
  <2>1. net.po \in SUBSET Node(net)
    BY <1>1, CircuitFacts DEF IsNetlist
  <2> QED
    BY <1>1, <2>1, InOrderOfNodes DEF Init, DepthInv
<1> QED
  BY <1>2, <1>3, <1>4 DEF NInv

\* One iteration of topologicalSort.
LEMMA ListNodeKeeps ==
  ASSUME NInv, ListNode
  PROVE  NInv'
<1> DEFINE p == Head(sortingQueue)
           left(g) == Cardinality(FaninOf(net, g) \ ToSet(sortedList))
           ready == {g \in Fanouts(net, p) : indegreeTable[g] = 1}
<1>1. /\ pc = "sort" /\ pc' = pc /\ net' = net /\ sortingQueue # <<>>
      /\ sortedList' = Append(sortedList, p)
      /\ sortingQueue' = Tail(sortingQueue) \o InOrder(ready)
      /\ indegreeTable' = [g \in DOMAIN indegreeTable |->
           IF g \in Fanouts(net, p) THEN indegreeTable[g] - 1 ELSE indegreeTable[g]]
      /\ UNCHANGED <<faninNetwork, position, distance, frames, outputs>>
  BY DEF ListNode, ConesUnchanged, DepthUnchanged
<1>2. /\ net \in Circuits /\ Sorting(net, sortedList, sortingQueue)
      /\ indegreeTable = [g \in Node(net) |-> left(g)]
  BY <1>1 DEF NInv, SortInv
<1>3. ready = {g \in Fanouts(net, p) : left(g) = 1}
  BY <1>2, CircuitFacts
<1>4. /\ Sorting(net, Append(sortedList, p),
                 Tail(sortingQueue) \o InOrder({g \in Fanouts(net, p) : left(g) = 1}))
      /\ \A g \in Node(net) :
           Cardinality(FaninOf(net, g) \ ToSet(Append(sortedList, p))) =
             IF g \in Fanouts(net, p) THEN left(g) - 1 ELSE left(g)
  BY <1>1, <1>2, SortingGoesOn
<1> HIDE DEF p, ready
<1>5. Sorting(net, sortedList', sortingQueue')
  BY <1>1, <1>3, <1>4
<1>6. indegreeTable' =
        [g \in Node(net) |-> Cardinality(FaninOf(net, g) \ ToSet(sortedList'))]
  BY <1>1, <1>2, <1>4
<1>7. SortInv'
  BY <1>1, <1>2, <1>5, <1>6 DEF SortInv
<1>8. ConesInv'
  BY <1>1 DEF NInv, ConesInv
<1>9. DepthInv'
  BY <1>1 DEF NInv, DepthInv, Calls
<1> QED
  BY <1>7, <1>8, <1>9 DEF NInv

\* Steps after topologicalSort leave its result alone.
LEMMA SortedKept ==
  ASSUME NInv, UNCHANGED <<net, indegreeTable, sortedList>>, pc # "sort", pc' # "sort"
  PROVE  SortInv'
BY DEF NInv, SortInv

\* Steps outside depth2Output leave its variables alone.
LEMMA DepthKept ==
  ASSUME NInv, UNCHANGED <<net, distance, frames, outputs>>
  PROVE  DepthInv'
BY DEF NInv, DepthInv, Calls

\* The list is complete.
LEMMA ListFacts ==
  ASSUME NInv, pc # "sort"
  PROVE  /\ net \in Circuits /\ Sorting(net, sortedList, <<>>)
         /\ Len(sortedList) \in Nat /\ DOMAIN sortedList = 1..Len(sortedList)
         /\ Prefix(sortedList, Len(sortedList)) = Node(net) /\ Distinct(sortedList)
         /\ \A k \in 1..Len(sortedList) : sortedList[k] \in Node(net)
<1>1. net \in Circuits /\ Sorting(net, sortedList, <<>>)
  BY DEF NInv, SortInv
<1>2. /\ Len(sortedList) \in Nat /\ DOMAIN sortedList = 1..Len(sortedList)
      /\ \A k \in 1..Len(sortedList) : sortedList[k] \in Node(net)
  BY <1>1, LenProperties, ElementOfSeq DEF Sorting
<1>3. ToSet(sortedList) = Node(net)
  BY <1>1, SortingEnds
<1>4. Prefix(sortedList, Len(sortedList)) = Node(net)
  BY <1>2, <1>3 DEF Prefix, ToSet
<1> QED
  BY <1>1, <1>2, <1>4 DEF Sorting

\* topologicalSort ends.
LEMMA SortDoneKeeps ==
  ASSUME NInv, SortDone
  PROVE  NInv'
<1>1. /\ pc = "sort" /\ pc' = "fanin" /\ sortingQueue = <<>>
      /\ UNCHANGED <<net, indegreeTable, sortedList, faninNetwork, position,
                     distance, frames, outputs>>
  BY DEF SortDone, SortUnchanged, ConesUnchanged, DepthUnchanged
<1>2. SortInv'
  BY <1>1 DEF NInv, SortInv
<1>3. Len(sortedList) \in Nat
  BY <1>1, LenProperties DEF NInv, SortInv, Sorting
<1>4. ConesInv'
  <2>1. position = 1 /\ faninNetwork = <<>>
    BY <1>1 DEF NInv, ConesInv
  <2>2. Prefix(sortedList, 0) = {}
    BY DEF Prefix
  <2>3. faninNetwork = [n \in Prefix(sortedList, 0) |-> FaninSet(net)[n]]
    BY <2>1, <2>2
  <2> QED
    BY <1>1, <1>3, <2>1, <2>3 DEF ConesInv
<1> QED
  BY <1>1, <1>2, <1>4, DepthKept DEF NInv

\* A prefix, longer by one.
LEMMA PrefixGrows ==
  ASSUME NEW list, NEW k \in Nat
  PROVE  Prefix(list, k + 1) = Prefix(list, k) \cup {list[k + 1]}
<1>1. 1..(k + 1) = 1..k \cup {k + 1}
  OBVIOUS
<1> QED
  BY <1>1 DEF Prefix

\* One iteration of getFaninSet: the fanins come earlier in the list, and
\* have their cones.
LEMMA CollectConeKeeps ==
  ASSUME NInv, CollectCone
  PROVE  NInv'
<1> DEFINE n == sortedList[position]
           cone == FaninSet(net)
           done == Prefix(sortedList, position - 1)
<1>1. /\ pc = "fanin" /\ pc' = pc /\ position <= Len(sortedList)
      /\ faninNetwork' =
           With(faninNetwork, n, {n} \cup UNION {faninNetwork[m] : m \in FaninOf(net, n)})
      /\ position' = position + 1
      /\ UNCHANGED <<net, indegreeTable, sortedList, distance, frames, outputs>>
  BY DEF CollectCone, SortUnchanged, DepthUnchanged
<1>2. /\ net \in Circuits /\ Sorting(net, sortedList, <<>>)
      /\ Len(sortedList) \in Nat /\ DOMAIN sortedList = 1..Len(sortedList)
  BY <1>1, ListFacts
<1>3. /\ position \in 1..Len(sortedList) /\ position - 1 \in Nat
      /\ faninNetwork = [m \in done |-> cone[m]]
  BY <1>1, <1>2 DEF NInv, ConesInv
<1>4. n \in Node(net)
  BY <1>1, <1>3, ListFacts
<1>5. ASSUME NEW m \in FaninOf(net, n)
      PROVE  m \in done /\ faninNetwork[m] = cone[m]
  <2>1. PICK i \in 1..(position - 1) : sortedList[i] = m
    BY <1>2, <1>3 DEF Sorting, InTopologicalOrder
  <2>2. m \in done
    BY <2>1 DEF Prefix
  <2> QED
    BY <1>3, <2>2
<1>6. {n} \cup UNION {faninNetwork[m] : m \in FaninOf(net, n)} = cone[n]
  <2>1. {faninNetwork[m] : m \in FaninOf(net, n)} = {cone[m] : m \in FaninOf(net, n)}
    BY <1>5
  <2> QED
    BY <1>2, <1>4, <2>1, ConeOfFanins
<1>7. Prefix(sortedList, position) = done \cup {n}
  <2>1. (position - 1) + 1 = position
    BY <1>3
  <2> QED
    BY <1>3, <2>1, PrefixGrows
<1> HIDE DEF n, cone, done
<1>8. faninNetwork' = [m \in done \cup {n} |-> cone[m]]
  BY <1>1, <1>3, <1>6 DEF With
<1>9. ConesInv'
  <2>1. position' \in 1..(Len(sortedList) + 1) /\ position' - 1 = position
    BY <1>1, <1>2, <1>3
  <2> QED
    BY <1>1, <1>7, <1>8, <2>1 DEF ConesInv, cone
<1> QED
  BY <1>1, <1>9, SortedKept, DepthKept DEF NInv

\* getFaninSet ends with the cones of all nodes.
LEMMA FaninDoneKeeps ==
  ASSUME NInv, FaninDone
  PROVE  NInv'
<1>1. /\ pc = "fanin" /\ pc' = "mffc" /\ position > Len(sortedList)
      /\ position' = Len(sortedList)
      /\ UNCHANGED <<net, indegreeTable, sortedList, faninNetwork, distance, frames, outputs>>
  BY DEF FaninDone, SortUnchanged, DepthUnchanged
<1>2. Len(sortedList) \in Nat /\ Prefix(sortedList, Len(sortedList)) = Node(net)
  BY <1>1, ListFacts
<1>3. /\ position - 1 = Len(sortedList)
      /\ faninNetwork = [n \in Prefix(sortedList, position - 1) |-> FaninSet(net)[n]]
  BY <1>1, <1>2 DEF NInv, ConesInv
<1>4. faninNetwork = [n \in Node(net) |->
                        IF n \in Prefix(sortedList, Len(sortedList)) THEN FaninSet(net)[n]
                        ELSE Mffc(net, FaninSet(net), n)]
  BY <1>2, <1>3
<1>5. ConesInv'
  BY <1>1, <1>2, <1>4 DEF ConesInv
<1> QED
  BY <1>1, <1>5, SortedKept, DepthKept DEF NInv

\* One iteration of getMffcSet: the members of a cone come earlier in the
\* list, and still have the cones of getFaninSet.
LEMMA ShrinkConeKeeps ==
  ASSUME NInv, ShrinkCone
  PROVE  NInv'
<1> DEFINE n == sortedList[position]
           cone == FaninSet(net)
<1>1. /\ pc = "mffc" /\ pc' = pc /\ position >= 1 /\ position' = position - 1
      /\ faninNetwork' = [faninNetwork EXCEPT ![n] = Mffc(net, faninNetwork, n)]
      /\ UNCHANGED <<net, indegreeTable, sortedList, distance, frames, outputs>>
  BY DEF ShrinkCone, SortUnchanged, DepthUnchanged
<1>2. /\ net \in Circuits /\ Sorting(net, sortedList, <<>>) /\ Distinct(sortedList)
      /\ Len(sortedList) \in Nat /\ DOMAIN sortedList = 1..Len(sortedList)
  BY <1>1, ListFacts
<1>3. /\ position \in 1..Len(sortedList) /\ position - 1 \in Nat
      /\ faninNetwork = [m \in Node(net) |->
                           IF m \in Prefix(sortedList, position) THEN cone[m]
                           ELSE Mffc(net, cone, m)]
  BY <1>1, <1>2 DEF NInv, ConesInv
<1>4. n \in Node(net)
  BY <1>1, <1>3, ListFacts
<1>5. Prefix(sortedList, position) = Prefix(sortedList, position - 1) \cup {n}
  <2>1. (position - 1) + 1 = position
    BY <1>3
  <2> QED
    BY <1>3, <2>1, PrefixGrows
<1>6. n \notin Prefix(sortedList, position - 1)
  BY <1>2, <1>3 DEF Prefix, Distinct
<1>7. ASSUME NEW m \in cone[n]
      PROVE  faninNetwork[m] = cone[m]
  <2>1. m \in Prefix(sortedList, position)
    BY <1>2, <1>3, ConeInPrefix
  <2>2. m \in Node(net)
    BY <1>2, <1>4, CircuitFacts, ConeRoot
  <2> QED
    BY <1>3, <2>1, <2>2
<1>8. Mffc(net, faninNetwork, n) = Mffc(net, cone, n)
  <2>1. faninNetwork[n] = cone[n]
    BY <1>3, <1>4, <1>5
  <2> QED
    BY <1>7, <2>1, MffcReadsCone
<1> HIDE DEF n, cone
<1>9. faninNetwork' = [m \in Node(net) |->
                         IF m \in Prefix(sortedList, position - 1) THEN cone[m]
                         ELSE Mffc(net, cone, m)]
  BY <1>1, <1>3, <1>4, <1>5, <1>6, <1>8
<1>10. ConesInv'
  <2>1. position' \in 0..Len(sortedList)
    BY <1>1, <1>2, <1>3
  <2> QED
    BY <1>1, <1>9, <2>1 DEF ConesInv, cone
<1> QED
  BY <1>1, <1>10, SortedKept, DepthKept DEF NInv

\* getMffcSet ends.
LEMMA MffcDoneKeeps ==
  ASSUME NInv, MffcDone
  PROVE  NInv'
<1>1. /\ pc = "mffc" /\ pc' = "depth" /\ position = 0
      /\ UNCHANGED <<net, indegreeTable, sortedList, faninNetwork, position,
                     distance, frames, outputs>>
  BY DEF MffcDone, SortUnchanged, ConesUnchanged, DepthUnchanged
<1>2. Prefix(sortedList, 0) = {}
  BY DEF Prefix
<1>3. faninNetwork = [n \in Node(net) |-> Mffc(net, FaninSet(net), n)]
  BY <1>1, <1>2 DEF NInv, ConesInv
<1>4. ConesInv'
  BY <1>1, <1>3 DEF ConesInv
<1> QED
  BY <1>1, <1>4, SortedKept, DepthKept DEF NInv

\* Steps of depth2Output leave the list and the cones alone.
LEMMA ConesKept ==
  ASSUME NInv, UNCHANGED <<net, sortedList, faninNetwork, position>>,
         pc = "depth", pc' \in {"depth", "done"}
  PROVE  ConesInv'
BY DEF NInv, ConesInv

\* A distance added or replaced.
LEMMA WithDistance ==
  ASSUME DepthInv, NEW n \in Node(net), NEW d \in Nat
  PROVE  /\ DOMAIN With(distance, n, d) \subseteq Node(net)
         /\ \A m \in DOMAIN With(distance, n, d) : With(distance, n, d)[m] \in Nat
BY DEF DepthInv, With

\* The frame of a node is a call.
LEMMA FrameIsCall ==
  ASSUME net \in Circuits, NEW n \in Node(net), NEW d \in Nat
  PROVE  Frame(n, d) \in Calls
<1>1. FaninOf(net, n) \in SUBSET Node(net)
  BY CircuitFacts
<1>2. InOrder(FaninOf(net, n)) \in Seq(Node(net))
  BY <1>1, InOrderOfNodes
<1> QED
  BY <1>2 DEF Frame, Calls

\* The loop over the outputs.
LEMMA VisitOutputKeeps ==
  ASSUME NInv, VisitOutput
  PROVE  NInv'
<1> DEFINE n == Head(outputs)
<1>1. /\ pc = "depth" /\ pc' = pc /\ outputs # <<>>
      /\ distance' = With(distance, n, 0)
      /\ frames' = <<Frame(n, 0)>> /\ outputs' = Tail(outputs)
      /\ UNCHANGED <<net, indegreeTable, sortedList, faninNetwork, position>>
  BY DEF VisitOutput, SortUnchanged, ConesUnchanged
<1>2. net \in Circuits /\ DepthInv
  BY DEF NInv, SortInv
<1>3. n \in Node(net) /\ Tail(outputs) \in Seq(Node(net))
  BY <1>1, <1>2, HeadTailProperties DEF DepthInv
<1>4. Frame(n, 0) \in Calls
  BY <1>2, <1>3, FrameIsCall
<1> HIDE DEF n
<1>5. /\ DOMAIN With(distance, n, 0) \subseteq Node(net)
      /\ \A m \in DOMAIN With(distance, n, 0) : With(distance, n, 0)[m] \in Nat
  BY <1>2, <1>3, WithDistance
<1>6. <<Frame(n, 0)>> \in Seq(Calls)
  BY <1>4
<1>7. DepthInv'
  BY <1>1, <1>3, <1>5, <1>6 DEF DepthInv, Calls
<1> QED
  BY <1>1, <1>7, SortedKept, ConesKept DEF NInv

\* The calls below the innermost one.
LEMMA FrontOfCalls ==
  ASSUME NEW S, NEW s \in Seq(S), s # <<>>
  PROVE  Front(s) \in Seq(S) /\ Last(s) \in S
<1>1. Len(s) \in Nat /\ Len(s) # 0
  BY EmptySeq, LenProperties
<1>2. Last(s) \in S
  BY <1>1, ElementOfSeq DEF Last
<1>3. SubSeq(s, 1, Len(s) - 1) \in Seq(S)
  BY <1>1, SubSeqProperties, ElementOfSeq
<1> QED
  BY <1>2, <1>3 DEF Front

\* One iteration of the loop over the inputs of a call.
LEMMA VisitInputKeeps ==
  ASSUME NInv, VisitInput
  PROVE  NInv'
<1> DEFINE top == Last(frames)
           next == [top EXCEPT !.inputs = Tail(top.inputs)]
           rest == Append(Front(frames), next)
           m == Head(top.inputs)
           d == top.curr + 1
<1>1. /\ pc = "depth" /\ pc' = pc /\ frames # <<>> /\ top.inputs # <<>>
      /\ IF m \in DOMAIN distance /\ distance[m] <= d
         THEN frames' = rest /\ UNCHANGED distance
         ELSE /\ distance' = With(distance, m, d)
              /\ frames' = Append(rest, Frame(m, d))
      /\ UNCHANGED <<net, indegreeTable, sortedList, faninNetwork, position, outputs>>
  BY DEF VisitInput, SortUnchanged, ConesUnchanged
<1>2. net \in Circuits /\ DepthInv
  BY DEF NInv, SortInv
<1>3. Front(frames) \in Seq(Calls) /\ top \in Calls
  BY <1>1, <1>2, FrontOfCalls DEF DepthInv
<1>4. top.curr \in Nat /\ top.inputs \in Seq(Node(net)) /\ top.name \in Node(net)
  BY <1>3 DEF Calls
<1>5. m \in Node(net) /\ Tail(top.inputs) \in Seq(Node(net)) /\ d \in Nat
  BY <1>1, <1>4, HeadTailProperties
<1>6. next \in Calls
  BY <1>3, <1>5 DEF Calls
<1>7. Frame(m, d) \in Calls
  BY <1>2, <1>5, FrameIsCall
<1> HIDE DEF m, d, next
<1>8. /\ DOMAIN With(distance, m, d) \subseteq Node(net)
      /\ \A k \in DOMAIN With(distance, m, d) : With(distance, m, d)[k] \in Nat
  BY <1>2, <1>5, WithDistance
<1>9. rest \in Seq(Calls)
  BY <1>3, <1>6, AppendProperties
<1> HIDE DEF rest
<1>10. Append(rest, Frame(m, d)) \in Seq(Calls)
  BY <1>7, <1>9, AppendProperties
<1>11. frames' \in Seq(Calls)
  BY <1>1, <1>9, <1>10
<1>12. DepthInv'
  BY <1>1, <1>2, <1>8, <1>11 DEF DepthInv, Calls
<1> QED
  BY <1>1, <1>12, SortedKept, ConesKept DEF NInv

\* A call returns.
LEMMA ReturnKeeps ==
  ASSUME NInv, Return
  PROVE  NInv'
<1>1. /\ pc = "depth" /\ pc' = pc /\ frames # <<>> /\ frames' = Front(frames)
      /\ UNCHANGED <<net, indegreeTable, sortedList, faninNetwork, position,
                     distance, outputs>>
  BY DEF Return, SortUnchanged, ConesUnchanged
<1>2. Front(frames) \in Seq(Calls)
  BY <1>1, FrontOfCalls DEF NInv, DepthInv
<1>3. DepthInv'
  BY <1>1, <1>2 DEF NInv, DepthInv, Calls
<1> QED
  BY <1>1, <1>3, SortedKept, ConesKept DEF NInv

\* depth2Output ends.
LEMMA DepthDoneKeeps ==
  ASSUME NInv, DepthDone
  PROVE  NInv'
<1>1. /\ pc = "depth" /\ pc' = "done"
      /\ UNCHANGED <<net, indegreeTable, sortedList, faninNetwork, position,
                     distance, frames, outputs>>
  BY DEF DepthDone, SortUnchanged, ConesUnchanged, DepthUnchanged
<1> QED
  BY <1>1, SortedKept, ConesKept, DepthKept DEF NInv

\* The invariant is inductive.
LEMMA NextKeeps == NInv /\ [Next]_vars => NInv'
<1> SUFFICES ASSUME NInv, [Next]_vars PROVE NInv'
  OBVIOUS
<1>1. CASE ListNode BY <1>1, ListNodeKeeps
<1>2. CASE SortDone BY <1>2, SortDoneKeeps
<1>3. CASE CollectCone BY <1>3, CollectConeKeeps
<1>4. CASE FaninDone BY <1>4, FaninDoneKeeps
<1>5. CASE ShrinkCone BY <1>5, ShrinkConeKeeps
<1>6. CASE MffcDone BY <1>6, MffcDoneKeeps
<1>7. CASE VisitOutput BY <1>7, VisitOutputKeeps
<1>8. CASE VisitInput BY <1>8, VisitInputKeeps
<1>9. CASE Return BY <1>9, ReturnKeeps
<1>10. CASE DepthDone BY <1>10, DepthDoneKeeps
<1>11. CASE UNCHANGED vars
  <2>1. /\ pc' = pc /\ net' = net /\ sortingQueue' = sortingQueue
        /\ indegreeTable' = indegreeTable /\ sortedList' = sortedList
        /\ faninNetwork' = faninNetwork /\ position' = position
        /\ distance' = distance /\ frames' = frames /\ outputs' = outputs
    BY <1>11 DEF vars
  <2>2. SortInv'
    BY <2>1 DEF NInv, SortInv
  <2>3. ConesInv'
    BY <2>1 DEF NInv, ConesInv
  <2> QED
    BY <2>1, <2>2, <2>3, DepthKept DEF NInv
<1> QED
  BY <1>1, <1>2, <1>3, <1>4, <1>5, <1>6, <1>7, <1>8, <1>9, <1>10, <1>11 DEF Next

-----------------------------------------------------------------------------
\* The four functions keep the invariant: the list grows in topological
\* order, the cones of a prefix are complete, and shrinking a cone in place
\* disturbs no cone that is still read.
THEOREM LoopsKeepInvariant == Spec => []NInv
<1>1. Init => NInv
  BY InitKeeps
<1>2. NInv /\ [Next]_vars => NInv'
  BY NextKeeps
<1> QED
  BY <1>1, <1>2, PTL DEF Spec

\* The four functions keep their variables in range: topologicalSort never
\* counts a fanin twice, and a cone holds nodes of the circuit.
THEOREM TypeCorrect == Spec => []TypeOK
<1>1. ASSUME NInv PROVE TypeOK
  <2>1. net \in Circuits
    BY <1>1 DEF NInv, SortInv
  <2>2. pc \in {"sort", "fanin", "mffc", "depth", "done"} /\ DOMAIN distance \subseteq Node(net)
    BY <1>1 DEF NInv, ConesInv, DepthInv
  <2>3. DOMAIN indegreeTable = Node(net)
    BY <1>1 DEF NInv, SortInv
  <2>4. ASSUME NEW n \in Node(net)
        PROVE  indegreeTable[n] \in 0..Cardinality(FaninOf(net, n))
    <3> DEFINE F == FaninOf(net, n)
               R == F \ ToSet(sortedList)
    <3>1. indegreeTable[n] = Cardinality(R)
      BY <1>1 DEF NInv, SortInv
    <3>2. IsFiniteSet(F)
      BY <2>1, CircuitFacts
    <3>3. R \subseteq F
      OBVIOUS
    <3> HIDE DEF F, R
    <3>4. IsFiniteSet(R) /\ Cardinality(R) <= Cardinality(F)
      BY <3>2, <3>3, FS_Subset
    <3>5. Cardinality(R) \in Nat /\ Cardinality(F) \in Nat
      BY <3>2, <3>4, FS_CardinalityType
    <3>6. indegreeTable[n] \in 0..Cardinality(F)
      BY <3>1, <3>4, <3>5
    <3> QED
      BY <3>6 DEF F
  <2>5. Len(sortedList) \in Nat
    BY <1>1, LenProperties DEF NInv, SortInv, Sorting
  <2>6. position \in 0..(Len(sortedList) + 1)
    <3>1. CASE pc = "sort"
      BY <1>1, <2>5, <3>1 DEF NInv, ConesInv
    <3>2. CASE pc = "fanin"
      BY <1>1, <2>5, <3>2 DEF NInv, ConesInv
    <3>3. CASE pc = "mffc"
      BY <1>1, <2>5, <3>3 DEF NInv, ConesInv
    <3>4. CASE pc \in {"depth", "done"}
      BY <1>1, <2>5, <3>4 DEF NInv, ConesInv
    <3> QED
      BY <2>2, <3>1, <3>2, <3>3, <3>4
  <2>7. \A n \in Node(net) : /\ FaninSet(net)[n] \subseteq Node(net)
                             /\ Mffc(net, FaninSet(net), n) \subseteq Node(net)
    BY <2>1, CircuitFacts, ConeRoot, MffcRoot
  <2>8. /\ DOMAIN faninNetwork \subseteq Node(net)
        /\ \A n \in DOMAIN faninNetwork : faninNetwork[n] \subseteq Node(net)
    <3>1. CASE pc = "sort"
      BY <1>1, <3>1 DEF NInv, ConesInv
    <3>2. CASE pc = "fanin"
      <4>1. position - 1 \in 0..Len(sortedList)
        BY <1>1, <2>5, <3>2 DEF NInv, ConesInv
      <4>2. Prefix(sortedList, position - 1) \subseteq Prefix(sortedList, Len(sortedList))
        BY <2>5, <4>1 DEF Prefix
      <4>3. Prefix(sortedList, position - 1) \subseteq Node(net)
        BY <1>1, <3>2, <4>2, ListFacts
      <4> QED
        BY <1>1, <2>7, <3>2, <4>3 DEF NInv, ConesInv
    <3>3. CASE pc = "mffc"
      BY <1>1, <2>7, <3>3 DEF NInv, ConesInv
    <3>4. CASE pc \in {"depth", "done"}
      BY <1>1, <2>7, <3>4 DEF NInv, ConesInv
    <3> QED
      BY <2>2, <3>1, <3>2, <3>3, <3>4
  <2> QED
    BY <2>2, <2>3, <2>4, <2>6, <2>8 DEF TypeOK
<1> QED
  BY <1>1, LoopsKeepInvariant, PTL

\* topologicalSort returns every node of the circuit once, each after all
\* that it reads: Kahn's queue runs empty only when all are listed.
THEOREM ListIsTopological == Spec => []SortedTopologically
<1>1. ASSUME NInv PROVE SortedTopologically
  BY <1>1, ListFacts, SortingEnds DEF SortedTopologically
<1> QED
  BY <1>1, LoopsKeepInvariant, PTL

\* The one pass of getFaninSet over the list computes the transitive cones.
THEOREM ConesAreComplete == Spec => []ConesComplete
<1>1. ASSUME NInv PROVE ConesComplete
  <2> SUFFICES ASSUME pc = "mffc", position = Len(sortedList)
               PROVE  faninNetwork = FaninSet(net)
    BY DEF ConesComplete
  <2>1. Prefix(sortedList, position) = Node(net)
    BY <1>1, ListFacts
  <2>2. faninNetwork = [n \in Node(net) |-> FaninSet(net)[n]]
    BY <1>1, <2>1 DEF NInv, ConesInv
  <2>3. FaninSet(net) = [n \in Node(net) |-> FaninSet(net)[n]]
    BY DEF FaninSet
  <2> QED
    BY <2>2, <2>3
<1> QED
  BY <1>1, LoopsKeepInvariant, PTL

\* getMffcSet returns maximum fanout free cones although it reads the map
\* it is changing: what it reads for a node comes earlier in the list.
THEOREM ConesAreMaximal == Spec => []ConesMaximal
<1>1. ASSUME NInv PROVE ConesMaximal
  <2> SUFFICES ASSUME pc \in {"depth", "done"}, NEW n \in Node(net)
               PROVE  faninNetwork[n] =
                        UNION {S \in SUBSET FaninSet(net)[n] : FanoutFree(n, S)}
    BY DEF ConesMaximal
  <2>1. net \in Circuits
    BY <1>1 DEF NInv, SortInv
  <2>2. faninNetwork[n] = Mffc(net, FaninSet(net), n)
    BY <1>1 DEF NInv, ConesInv
  <2> QED
    BY <2>1, <2>2, MffcIsLargest
<1> QED
  BY <1>1, LoopsKeepInvariant, PTL

\* depth2Output visits a node again only to shorten its distance.
THEOREM DistancesNeverGrow == Spec => DepthsDecrease
<1> DEFINE Shorter == \A n \in DOMAIN distance : n \in DOMAIN distance' /\ distance'[n] <= distance[n]
<1>1. ASSUME NInv, [Next]_vars
      PROVE  [Shorter]_distance
  <2> SUFFICES ASSUME distance' # distance PROVE Shorter
    OBVIOUS
  <2>1. \A n \in DOMAIN distance : distance[n] \in Nat
    BY <1>1 DEF NInv, DepthInv
  <2>2. CASE VisitOutput
    <3>1. distance' = With(distance, Head(outputs), 0)
      BY <2>2 DEF VisitOutput
    <3> QED
      BY <2>1, <3>1 DEF With
  <2>3. CASE VisitInput
    <3> DEFINE top == Last(frames)
               m == Head(top.inputs)
               d == top.curr + 1
    <3>1. /\ distance' = With(distance, m, d)
          /\ ~(m \in DOMAIN distance /\ distance[m] <= d)
      BY <2>3 DEF VisitInput
    <3>2. Last(frames) \in Calls
      BY <1>1, <2>3, FrontOfCalls DEF NInv, DepthInv, VisitInput
    <3>3. d \in Nat
      BY <3>2 DEF Calls
    <3> HIDE DEF m, d
    <3>4. \A n \in DOMAIN distance : distance'[n] = IF n = m THEN d ELSE distance[n]
      BY <3>1 DEF With
    <3>5. DOMAIN distance \subseteq DOMAIN distance'
      BY <3>1 DEF With
    <3> QED
      BY <2>1, <3>1, <3>3, <3>4, <3>5
  <2>4. CASE ~VisitOutput /\ ~VisitInput
    BY <1>1, <2>4 DEF Next, ListNode, SortDone, CollectCone, FaninDone, ShrinkCone, MffcDone,
       Return, DepthDone, DepthUnchanged, vars
  <2> QED
    BY <2>2, <2>3, <2>4
<1> QED
  BY <1>1, LoopsKeepInvariant, PTL DEF Spec, DepthsDecrease

-----------------------------------------------------------------------------
(***************************************************************************)
(* depth2Output: the distances are the shortest ones.                      *)
(***************************************************************************)

\* A call of g has still to look at m, with a number no worse than g's.
Pending(g, m) ==
  \E i \in DOMAIN frames :
    /\ frames[i].name = g /\ frames[i].curr <= distance[g]
    /\ m \in ToSet(frames[i].inputs)

\* The distances are lengths of ways; outputs without one are still to be
\* visited; where a way could be shorter a call has still to look; a call
\* goes on with a number that may have been improved since.
SearchInv ==
  /\ distance = [n \in DOMAIN distance |-> distance[n]]
  /\ \A n \in DOMAIN distance : n \in Within(net, net.po, distance[n])
  /\ \A o \in net.po : (o \in DOMAIN distance /\ distance[o] = 0) \/ o \in ToSet(outputs)
  /\ \A g \in DOMAIN distance : \A m \in FaninOf(net, g) :
       (m \in DOMAIN distance /\ distance[m] <= distance[g] + 1) \/ Pending(g, m)
  /\ \A i \in DOMAIN frames :
       /\ frames[i].name \in DOMAIN distance
       /\ distance[frames[i].name] <= frames[i].curr
       /\ ToSet(frames[i].inputs) \subseteq FaninOf(net, frames[i].name)
  /\ ToSet(outputs) \subseteq net.po
  /\ pc = "done" => frames = <<>> /\ outputs = <<>>

\* The first of a sequence, and the rest.
LEMMA HeadOrTail ==
  ASSUME NEW S, NEW s \in Seq(S), s # <<>>
  PROVE  /\ Head(s) \in S /\ Tail(s) \in Seq(S) /\ Head(s) \in ToSet(s)
         /\ ToSet(Tail(s)) \subseteq ToSet(s)
         /\ \A x \in ToSet(s) : x = Head(s) \/ x \in ToSet(Tail(s))
<1> DEFINE t == Tail(s)
<1>1. Len(s) \in Nat \ {0} /\ DOMAIN s = 1..Len(s)
  BY LenProperties, EmptySeq
<1>2. /\ Head(s) \in S /\ t \in Seq(S) /\ Len(t) = Len(s) - 1
      /\ \A i \in 1..Len(t) : t[i] = s[i + 1]
  BY HeadTailProperties
<1>3. Head(s) = s[1] /\ 1 \in DOMAIN s
  BY <1>1
<1>4. DOMAIN t = 1..(Len(s) - 1)
  BY <1>2, LenProperties
<1> HIDE DEF t
<1>5. \A i \in 1..(Len(s) - 1) : t[i] = s[i + 1] /\ i + 1 \in DOMAIN s
  BY <1>1, <1>2
<1>6. \A k \in DOMAIN s : k # 1 => k - 1 \in 1..(Len(s) - 1) /\ s[k] = t[k - 1]
  BY <1>1, <1>2
<1>7. Head(s) \in ToSet(s)
  BY <1>3 DEF ToSet
<1>8. ToSet(t) \subseteq ToSet(s)
  BY <1>4, <1>5 DEF ToSet
<1>9. \A x \in ToSet(s) : x = Head(s) \/ x \in ToSet(t)
  BY <1>3, <1>4, <1>6 DEF ToSet
<1> QED
  BY <1>2, <1>7, <1>8, <1>9 DEF t

\* A sequence without its last element, and with another one in its place.
LEMMA LastReplaced ==
  ASSUME NEW S, NEW s \in Seq(S), s # <<>>, NEW e \in S
  PROVE  /\ Len(s) \in Nat /\ Len(s) # 0 /\ DOMAIN s = 1..Len(s) /\ Last(s) = s[Len(s)]
         /\ DOMAIN Front(s) = 1..(Len(s) - 1)
         /\ \A i \in 1..(Len(s) - 1) : Front(s)[i] = s[i]
         /\ Append(Front(s), e) \in Seq(S)
         /\ Len(Append(Front(s), e)) = Len(s)
         /\ DOMAIN Append(Front(s), e) = 1..Len(s)
         /\ Append(Front(s), e)[Len(s)] = e
         /\ \A i \in 1..(Len(s) - 1) : Append(Front(s), e)[i] = s[i]
<1> DEFINE f == Front(s)
<1>1. Len(s) \in Nat /\ Len(s) # 0 /\ DOMAIN s = 1..Len(s)
  BY EmptySeq, LenProperties
<1>2. Last(s) = s[Len(s)]
  BY DEF Last
<1>3. f \in Seq(S)
  BY FrontOfCalls
<1>4. Len(f) = Len(s) - 1 /\ \A i \in 1..(Len(s) - 1) : f[i] = s[i]
  BY <1>1 DEF Front
<1> HIDE DEF f
<1>5. DOMAIN f = 1..(Len(s) - 1)
  BY <1>3, <1>4, LenProperties
<1>6. /\ Append(f, e) \in Seq(S) /\ Len(Append(f, e)) = Len(f) + 1
      /\ DOMAIN Append(f, e) = 1..(Len(f) + 1)
      /\ \A i \in 1..Len(f) : Append(f, e)[i] = f[i]
      /\ Append(f, e)[Len(f) + 1] = e
  BY <1>3, AppendLists
<1>7. (Len(s) - 1) + 1 = Len(s)
  BY <1>1
<1> QED
  BY <1>1, <1>2, <1>4, <1>5, <1>6, <1>7 DEF f

\* The search has not begun.
LEMMA InitSearch ==
  ASSUME Init
  PROVE  SearchInv
<1>1. net \in Circuits /\ distance = <<>> /\ frames = <<>> /\ outputs = InOrder(net.po)
      /\ pc = "sort"
  BY DEF Init
<1>2. DOMAIN distance = {} /\ DOMAIN frames = {}
  BY <1>1, EmptyMap
<1>3. distance = [n \in DOMAIN distance |-> distance[n]]
  BY <1>1
<1>4. net.po \in SUBSET Nat /\ IsFiniteSet(net.po)
  <2>1. net.po \in SUBSET Node(net)
    BY <1>1, CircuitFacts DEF IsNetlist
  <2> QED
    BY <1>1, <2>1, CircuitFacts, FS_Subset
<1>5. ToSet(outputs) = net.po
  BY <1>1, <1>4, InOrderLists
<1> QED
  BY <1>1, <1>2, <1>3, <1>5 DEF SearchInv

\* The other functions leave the search alone.
LEMMA SearchKept ==
  ASSUME SearchInv, UNCHANGED <<net, distance, frames, outputs>>,
         pc' = "done" => frames = <<>> /\ outputs = <<>>
  PROVE  SearchInv'
<1>1. \A g, m : Pending(g, m)' <=> Pending(g, m)
  BY DEF Pending
<1> QED
  BY <1>1 DEF SearchInv

\* The inputs of a call are what its node reads.
LEMMA FrameFields ==
  ASSUME net \in Circuits, NEW n, NEW d
  PROVE  /\ Frame(n, d).name = n /\ Frame(n, d).curr = d
         /\ ToSet(Frame(n, d).inputs) = FaninOf(net, n)
<1>1. FaninOf(net, n) \in SUBSET Nat /\ IsFiniteSet(FaninOf(net, n))
  BY CircuitFacts
<1>2. ToSet(InOrder(FaninOf(net, n))) = FaninOf(net, n)
  BY <1>1, InOrderLists
<1> QED
  BY <1>2 DEF Frame

\* An output is visited.
LEMMA VisitOutputSearches ==
  ASSUME NInv, SearchInv, VisitOutput
  PROVE  SearchInv'
<1> DEFINE o == Head(outputs)
           F == Frame(o, 0)
<1>1. /\ pc' = "depth" /\ frames = <<>> /\ outputs # <<>> /\ net' = net
      /\ distance' = With(distance, o, 0) /\ frames' = <<F>> /\ outputs' = Tail(outputs)
  BY DEF VisitOutput
<1>2. net \in Circuits /\ outputs \in Seq(Node(net))
      /\ \A n \in DOMAIN distance : distance[n] \in Nat
  BY DEF NInv, SortInv, DepthInv
<1>3. /\ o \in ToSet(outputs) /\ ToSet(outputs') \subseteq ToSet(outputs)
      /\ \A x \in ToSet(outputs) : x = o \/ x \in ToSet(outputs')
  BY <1>1, <1>2, HeadOrTail
<1>4. o \in net.po
  BY <1>3 DEF SearchInv
<1>5. F.name = o /\ F.curr = 0 /\ ToSet(F.inputs) = FaninOf(net, o)
  BY <1>2, FrameFields
<1>6. DOMAIN frames = {}
  BY <1>1, EmptyMap
<1>7. DOMAIN frames' = {1} /\ frames'[1] = F
  BY <1>1
<1> HIDE DEF o, F
<1>8. /\ DOMAIN distance' = DOMAIN distance \cup {o} /\ distance'[o] = 0
      /\ \A x \in DOMAIN distance : x # o => distance'[x] = distance[x]
      /\ distance' = [x \in DOMAIN distance' |-> distance'[x]]
  <2>1. distance' = With(distance, o, 0)
    BY <1>1
  <2> QED
    BY <2>1 DEF With
<1>9. ASSUME NEW n \in DOMAIN distance'
      PROVE  n \in Within(net, net.po, distance'[n])
  BY <1>4, <1>8, WithinZero DEF SearchInv
<1>10. ASSUME NEW x \in net.po
       PROVE  (x \in DOMAIN distance' /\ distance'[x] = 0) \/ x \in ToSet(outputs')
  BY <1>3, <1>8 DEF SearchInv
<1>11. ASSUME NEW g \in DOMAIN distance', NEW m \in FaninOf(net, g)
       PROVE  (m \in DOMAIN distance' /\ distance'[m] <= distance'[g] + 1) \/ Pending(g, m)'
  <2>1. CASE g = o
    <3>1. /\ 1 \in DOMAIN frames' /\ frames'[1].name = g /\ frames'[1].curr <= distance'[g]
          /\ m \in ToSet(frames'[1].inputs)
      BY <1>5, <1>7, <1>8, <1>11, <2>1
    <3> QED
      BY <3>1 DEF Pending
  <2>2. CASE g # o
    <3>1. g \in DOMAIN distance /\ distance'[g] = distance[g]
      BY <1>8, <2>2
    <3>2. ~Pending(g, m)
      BY <1>6 DEF Pending
    <3>3. m \in DOMAIN distance /\ distance[m] <= distance[g] + 1
      BY <1>11, <3>1, <3>2 DEF SearchInv
    <3>4. distance[g] \in Nat
      BY <1>2, <3>1
    <3>5. distance'[m] = distance[m] \/ distance'[m] = 0
      BY <1>8, <3>3
    <3> QED
      BY <1>8, <3>1, <3>3, <3>4, <3>5
  <2> QED
    BY <2>1, <2>2
<1>12. ASSUME NEW i \in DOMAIN frames'
       PROVE  /\ frames'[i].name \in DOMAIN distance'
              /\ distance'[frames'[i].name] <= frames'[i].curr
              /\ ToSet(frames'[i].inputs) \subseteq FaninOf(net, frames'[i].name)
  BY <1>5, <1>7, <1>8
<1>13. ToSet(outputs') \subseteq net.po
  BY <1>3 DEF SearchInv
<1> QED
  BY <1>1, <1>8, <1>9, <1>10, <1>11, <1>12, <1>13 DEF SearchInv

\* A call looks at an input: it passes on a shorter way, or there is none.
LEMMA VisitInputSearches ==
  ASSUME NInv, SearchInv, VisitInput
  PROVE  SearchInv'
<1> DEFINE top == Last(frames)
           next == [top EXCEPT !.inputs = Tail(top.inputs)]
           rest == Append(Front(frames), next)
           k == Head(top.inputs)
           d == top.curr + 1
           F == Frame(k, d)
           N == Len(frames)
<1>1. /\ pc = "depth" /\ pc' = pc /\ frames # <<>> /\ top.inputs # <<>>
      /\ IF k \in DOMAIN distance /\ distance[k] <= d
         THEN frames' = rest /\ UNCHANGED distance
         ELSE /\ distance' = With(distance, k, d)
              /\ frames' = Append(rest, F)
      /\ UNCHANGED <<net, outputs>>
  BY DEF VisitInput
<1>2. /\ net \in Circuits /\ frames \in Seq(Calls)
      /\ \A n \in DOMAIN distance : distance[n] \in Nat
  BY DEF NInv, SortInv, DepthInv
<1>3. top \in Calls
  BY <1>1, <1>2, FrontOfCalls
<1>4. top.curr \in Nat /\ top.inputs \in Seq(Node(net)) /\ top.name \in Node(net)
  BY <1>3 DEF Calls
<1>5. /\ k \in Node(net) /\ Tail(top.inputs) \in Seq(Node(net)) /\ k \in ToSet(top.inputs)
      /\ ToSet(Tail(top.inputs)) \subseteq ToSet(top.inputs)
      /\ \A x \in ToSet(top.inputs) : x = k \/ x \in ToSet(Tail(top.inputs))
  BY <1>1, <1>4, HeadOrTail
<1>6. /\ next \in Calls /\ next.name = top.name /\ next.curr = top.curr
      /\ next.inputs = Tail(top.inputs)
  BY <1>3, <1>5 DEF Calls
<1>7. F \in Calls /\ F.name = k /\ F.curr = d /\ ToSet(F.inputs) = FaninOf(net, k)
  BY <1>2, <1>4, <1>5, FrameIsCall, FrameFields
<1>8. d \in Nat /\ d = top.curr + 1
  BY <1>4
<1> HIDE DEF k, d, F, next
<1>9. /\ N \in Nat /\ N # 0 /\ DOMAIN frames = 1..N /\ top = frames[N]
      /\ rest \in Seq(Calls) /\ Len(rest) = N /\ DOMAIN rest = 1..N /\ rest[N] = next
      /\ \A i \in 1..(N - 1) : rest[i] = frames[i]
  BY <1>1, <1>2, <1>6, LastReplaced
<1> HIDE DEF rest, top, N
<1>10. /\ top.name \in DOMAIN distance /\ distance[top.name] <= top.curr
       /\ ToSet(top.inputs) \subseteq FaninOf(net, top.name)
  <2>1. N \in DOMAIN frames
    BY <1>9
  <2> QED
    BY <1>9, <2>1 DEF SearchInv
\* A frame of the old stack is there, or is the innermost call.
<1>11. ASSUME NEW i \in DOMAIN frames
       PROVE  i \in 1..N /\ ((i # N /\ rest[i] = frames[i]) \/ (i = N /\ frames[i] = top))
  <2>1. i \in 1..N
    BY <1>9
  <2>2. i # N => i \in 1..(N - 1)
    BY <1>9, <2>1
  <2> QED
    BY <1>9, <2>1, <2>2
<1>12. \A i \in 1..N : /\ rest[i].name = frames[i].name /\ rest[i].curr = frames[i].curr
                       /\ ToSet(rest[i].inputs) \subseteq ToSet(frames[i].inputs)
  BY <1>5, <1>6, <1>9, <1>11
<1>13. CASE k \in DOMAIN distance /\ distance[k] <= d
  <2>1. frames' = rest /\ distance' = distance
    BY <1>1, <1>13
  <2>2. ASSUME NEW g \in DOMAIN distance, NEW m \in FaninOf(net, g)
        PROVE  (m \in DOMAIN distance /\ distance[m] <= distance[g] + 1) \/ Pending(g, m)'
    <3>1. CASE m \in DOMAIN distance /\ distance[m] <= distance[g] + 1
      BY <3>1
    <3>2. CASE Pending(g, m)
      <4>1. PICK i \in DOMAIN frames : /\ frames[i].name = g /\ frames[i].curr <= distance[g]
                                       /\ m \in ToSet(frames[i].inputs)
        BY <3>2 DEF Pending
      <4>2. CASE i = N /\ frames[i] = top /\ m = k
        <5>1. distance[g] \in Nat /\ distance[k] \in Nat
          BY <1>2, <1>13
        <5>2. distance[k] <= top.curr + 1 /\ top.curr <= distance[g]
          BY <1>8, <1>13, <4>1, <4>2
        <5> QED
          BY <1>4, <1>13, <4>2, <5>1, <5>2
      <4>3. CASE i = N /\ frames[i] = top /\ m # k
        <5>1. /\ N \in DOMAIN rest /\ rest[N].name = g /\ rest[N].curr <= distance[g]
              /\ m \in ToSet(rest[N].inputs)
          BY <1>5, <1>6, <1>9, <4>1, <4>3
        <5> QED
          BY <2>1, <5>1 DEF Pending
      <4>4. CASE i # N /\ rest[i] = frames[i]
        <5>1. /\ i \in DOMAIN rest /\ rest[i].name = g /\ rest[i].curr <= distance[g]
              /\ m \in ToSet(rest[i].inputs)
          BY <1>9, <4>1, <4>4
        <5> QED
          BY <2>1, <5>1 DEF Pending
      <4> QED
        BY <1>11, <4>2, <4>3, <4>4
    <3> QED
      BY <2>2, <3>1, <3>2 DEF SearchInv
  <2>3. ASSUME NEW i \in DOMAIN rest
        PROVE  /\ rest[i].name \in DOMAIN distance /\ distance[rest[i].name] <= rest[i].curr
               /\ ToSet(rest[i].inputs) \subseteq FaninOf(net, rest[i].name)
    <3>1. i \in DOMAIN frames /\ i \in 1..N
      BY <1>9
    <3>2. /\ frames[i].name \in DOMAIN distance /\ distance[frames[i].name] <= frames[i].curr
          /\ ToSet(frames[i].inputs) \subseteq FaninOf(net, frames[i].name)
      BY <3>1 DEF SearchInv
    <3> QED
      BY <1>12, <3>1, <3>2
  <2> QED
    BY <1>1, <2>1, <2>2, <2>3 DEF SearchInv
<1>14. CASE ~(k \in DOMAIN distance /\ distance[k] <= d)
  <2> DEFINE more == Append(rest, F)
  <2>1. distance' = With(distance, k, d) /\ frames' = more
    BY <1>1, <1>14
  <2>2. /\ DOMAIN distance' = DOMAIN distance \cup {k} /\ distance'[k] = d
        /\ \A x \in DOMAIN distance : x # k => distance'[x] = distance[x]
        /\ distance' = [x \in DOMAIN distance' |-> distance'[x]]
    BY <2>1 DEF With
  <2>3. /\ DOMAIN more = 1..(N + 1) /\ more[N + 1] = F
        /\ \A i \in 1..N : more[i] = rest[i]
    BY <1>7, <1>9, AppendLists
  <2> HIDE DEF more
  <2>4. ASSUME NEW x \in DOMAIN distance
        PROVE  x \in DOMAIN distance' /\ distance'[x] \in Nat /\ distance'[x] <= distance[x]
    <3>1. distance[x] \in Nat
      BY <1>2
    <3>2. x = k => d <= distance[x]
      BY <1>8, <1>14, <3>1
    <3> QED
      BY <1>8, <2>2, <3>1, <3>2
  <2>5. k \in Within(net, net.po, d)
    <3>1. distance[top.name] \in Nat
      BY <1>2, <1>10
    <3>2. top.name \in Within(net, net.po, top.curr)
      BY <1>4, <1>10, <3>1, WithinGrows DEF SearchInv
    <3>3. k \in FaninOf(net, top.name)
      BY <1>5, <1>10
    <3> QED
      BY <1>4, <1>8, <3>2, <3>3, WithinStep
  <2>6. ASSUME NEW n \in DOMAIN distance'
        PROVE  n \in Within(net, net.po, distance'[n])
    BY <2>2, <2>5 DEF SearchInv
  <2>7. ASSUME NEW o \in net.po
        PROVE  (o \in DOMAIN distance' /\ distance'[o] = 0) \/ o \in ToSet(outputs)
    <3>1. CASE o \in DOMAIN distance /\ distance[o] = 0
      <4>1. distance'[o] \in Nat /\ distance'[o] <= 0
        BY <2>4, <3>1
      <4> QED
        BY <2>4, <3>1, <4>1
    <3> QED
      BY <3>1 DEF SearchInv
  <2>8. ASSUME NEW g \in DOMAIN distance', NEW m \in FaninOf(net, g)
        PROVE  (m \in DOMAIN distance' /\ distance'[m] <= distance'[g] + 1) \/ Pending(g, m)'
    <3>1. CASE g = k
      <4>1. /\ N + 1 \in DOMAIN more /\ more[N + 1].name = g /\ more[N + 1].curr <= distance'[g]
            /\ m \in ToSet(more[N + 1].inputs)
        BY <1>7, <1>8, <1>9, <2>2, <2>3, <2>8, <3>1
      <4> QED
        BY <2>1, <4>1 DEF Pending
    <3>2. CASE g # k
      <4>1. g \in DOMAIN distance /\ distance'[g] = distance[g] /\ distance[g] \in Nat
        BY <1>2, <2>2, <3>2
      <4>2. CASE m \in DOMAIN distance /\ distance[m] <= distance[g] + 1
        <5>1. m \in DOMAIN distance' /\ distance'[m] \in Nat /\ distance'[m] <= distance[m]
              /\ distance[m] \in Nat
          BY <1>2, <2>4, <4>2
        <5> QED
          BY <4>1, <4>2, <5>1
      <4>3. CASE Pending(g, m)
        <5>1. PICK i \in DOMAIN frames : /\ frames[i].name = g /\ frames[i].curr <= distance[g]
                                         /\ m \in ToSet(frames[i].inputs)
          BY <4>3 DEF Pending
        <5>2. i \in DOMAIN more /\ more[i] = rest[i]
          BY <1>9, <1>11, <2>3
        <5>3. CASE i = N /\ frames[i] = top /\ m = k
          <6>1. distance'[m] = top.curr + 1 /\ top.curr <= distance[g]
            BY <1>8, <2>2, <5>1, <5>3
          <6> QED
            BY <1>4, <2>2, <4>1, <5>3, <6>1
        <5>4. CASE i = N /\ frames[i] = top /\ m # k
          <6>1. /\ rest[i].name = g /\ rest[i].curr <= distance[g]
                /\ m \in ToSet(rest[i].inputs)
            BY <1>5, <1>6, <1>9, <5>1, <5>4
          <6> QED
            BY <2>1, <4>1, <5>2, <6>1 DEF Pending
        <5>5. CASE i # N /\ rest[i] = frames[i]
          <6>1. /\ rest[i].name = g /\ rest[i].curr <= distance[g]
                /\ m \in ToSet(rest[i].inputs)
            BY <5>1, <5>5
          <6> QED
            BY <2>1, <4>1, <5>2, <6>1 DEF Pending
        <5> QED
          BY <1>11, <5>3, <5>4, <5>5
      <4> QED
        BY <2>8, <4>1, <4>2, <4>3 DEF SearchInv
    <3> QED
      BY <3>1, <3>2
  <2>9. ASSUME NEW i \in DOMAIN more
        PROVE  /\ more[i].name \in DOMAIN distance' /\ distance'[more[i].name] <= more[i].curr
               /\ ToSet(more[i].inputs) \subseteq FaninOf(net, more[i].name)
    <3>1. CASE i = N + 1
      BY <1>7, <1>8, <2>2, <2>3, <3>1
    <3>2. CASE i # N + 1
      <4>1. i \in DOMAIN frames /\ i \in 1..N /\ more[i] = rest[i] /\ frames[i] \in Calls
        <5>1. i \in 1..N
          BY <1>9, <2>3, <3>2
        <5> QED
          BY <1>2, <1>9, <2>3, <5>1, ElementOfSeq
      <4>2. /\ frames[i].name \in DOMAIN distance /\ distance[frames[i].name] <= frames[i].curr
            /\ ToSet(frames[i].inputs) \subseteq FaninOf(net, frames[i].name)
        BY <4>1 DEF SearchInv
      <4>3. /\ more[i].name = frames[i].name /\ more[i].curr = frames[i].curr
            /\ ToSet(more[i].inputs) \subseteq ToSet(frames[i].inputs)
        BY <1>12, <4>1
      <4>4. frames[i].curr \in Nat /\ distance[frames[i].name] \in Nat
        BY <1>2, <4>1, <4>2 DEF Calls
      <4>5. /\ frames[i].name \in DOMAIN distance'
            /\ distance'[frames[i].name] \in Nat
            /\ distance'[frames[i].name] <= distance[frames[i].name]
        BY <2>4, <4>2
      <4>6. distance'[frames[i].name] <= frames[i].curr
        BY <4>2, <4>4, <4>5
      <4> QED
        BY <4>2, <4>3, <4>5, <4>6
    <3> QED
      BY <3>1, <3>2
  <2> QED
    BY <1>1, <2>1, <2>2, <2>6, <2>7, <2>8, <2>9 DEF SearchInv
<1> QED
  BY <1>13, <1>14

\* A call that has looked at all its inputs returns.
LEMMA ReturnSearches ==
  ASSUME NInv, SearchInv, Return
  PROVE  SearchInv'
<1> DEFINE N == Len(frames)
<1>1. /\ pc = "depth" /\ pc' = pc /\ frames # <<>> /\ Last(frames).inputs = <<>>
      /\ frames' = Front(frames) /\ UNCHANGED <<net, distance, outputs>>
  BY DEF Return
<1>2. frames \in Seq(Calls)
  BY DEF NInv, DepthInv
<1>3. Last(frames) \in Calls
  BY <1>1, <1>2, FrontOfCalls
<1>4. /\ N \in Nat /\ N # 0 /\ DOMAIN frames = 1..N /\ Last(frames) = frames[N]
      /\ DOMAIN frames' = 1..(N - 1)
      /\ \A i \in 1..(N - 1) : frames'[i] = frames[i]
  BY <1>1, <1>2, <1>3, LastReplaced
<1> HIDE DEF N
<1>5. ToSet(<<>>) = {}
  BY DEF ToSet
<1>6. ASSUME NEW g, NEW m, Pending(g, m)
      PROVE  Pending(g, m)'
  <2>1. PICK i \in DOMAIN frames : /\ frames[i].name = g /\ frames[i].curr <= distance[g]
                                   /\ m \in ToSet(frames[i].inputs)
    BY <1>6 DEF Pending
  <2>2. i # N
    BY <1>1, <1>4, <1>5, <2>1
  <2>3. i \in 1..(N - 1)
    BY <1>4, <2>2
  <2>4. i \in DOMAIN frames' /\ frames'[i] = frames[i] /\ distance' = distance
    BY <1>1, <1>4, <2>3
  <2> QED
    BY <2>1, <2>4 DEF Pending
<1>7. \A i \in DOMAIN frames' : i \in DOMAIN frames /\ frames'[i] = frames[i]
  BY <1>4
<1> QED
  BY <1>1, <1>6, <1>7 DEF SearchInv

\* The invariant is inductive.
LEMMA NextSearches == NInv /\ SearchInv /\ [Next]_vars => SearchInv'
<1> SUFFICES ASSUME NInv, SearchInv, [Next]_vars PROVE SearchInv'
  OBVIOUS
<1>1. CASE VisitOutput BY <1>1, VisitOutputSearches
<1>2. CASE VisitInput BY <1>2, VisitInputSearches
<1>3. CASE Return BY <1>3, ReturnSearches
<1>4. CASE ~VisitOutput /\ ~VisitInput /\ ~Return
  <2>1. UNCHANGED <<net, distance, frames, outputs>>
    BY <1>4 DEF Next, ListNode, SortDone, CollectCone, FaninDone, ShrinkCone, MffcDone,
       DepthDone, DepthUnchanged, vars
  <2>2. pc' = "done" => frames = <<>> /\ outputs = <<>>
    <3>1. CASE DepthDone
      BY <3>1 DEF DepthDone
    <3>2. CASE UNCHANGED vars
      BY <3>2 DEF vars, SearchInv
    <3>3. CASE ~DepthDone /\ ~UNCHANGED vars
      BY <1>4, <3>3 DEF Next, ListNode, SortDone, CollectCone, FaninDone, ShrinkCone, MffcDone
    <3> QED
      BY <3>1, <3>2, <3>3
  <2> QED
    BY <2>1, <2>2, SearchKept
<1> QED
  BY <1>1, <1>2, <1>3, <1>4

\* When no call is left, a node has a distance no longer than any way.
LEMMA NoShorterWay ==
  ASSUME NInv, SearchInv, pc = "done"
  PROVE  \A k \in Nat : \A n \in Within(net, net.po, k) :
           n \in DOMAIN distance /\ distance[n] <= k
<1>1. frames = <<>> /\ outputs = <<>>
  BY DEF SearchInv
<1>2. ToSet(outputs) = {} /\ DOMAIN frames = {}
  BY <1>1, EmptyMap DEF ToSet
<1>3. \A g \in DOMAIN distance : \A m \in FaninOf(net, g) :
        m \in DOMAIN distance /\ distance[m] <= distance[g] + 1
  BY <1>2 DEF SearchInv, Pending
<1>4. \A o \in net.po : o \in DOMAIN distance /\ distance[o] = 0
  BY <1>2 DEF SearchInv
<1>5. \A n \in DOMAIN distance : distance[n] \in Nat
  BY DEF NInv, DepthInv
<1> DEFINE Near(k) == \A n \in Within(net, net.po, k) : n \in DOMAIN distance /\ distance[n] <= k
           bad == {k \in Nat : ~Near(k)}
<1> SUFFICES ASSUME bad # {} PROVE FALSE
  OBVIOUS
<1>6. PICK k \in bad : \A h \in bad : k <= h
  <2>1. bad \in SUBSET Nat
    OBVIOUS
  <2> HIDE DEF bad
  <2> QED
    BY <2>1, LeastNumber
<1>7. k # 0
  <2>1. Near(0)
    BY <1>4, WithinZero
  <2> QED
    BY <1>6, <2>1
<1>8. k - 1 \in Nat /\ ~(k <= k - 1) /\ (k - 1) + 1 = k
  BY <1>6, <1>7
<1>9. Near(k - 1)
  BY <1>6, <1>8
<1>10. ASSUME NEW n \in Within(net, net.po, k)
       PROVE  n \in DOMAIN distance /\ distance[n] <= k
  <2>1. CASE n \in Within(net, net.po, k - 1)
    <3>1. n \in DOMAIN distance /\ distance[n] <= k - 1 /\ distance[n] \in Nat
      BY <1>5, <1>9, <2>1
    <3> QED
      BY <1>8, <3>1
  <2>2. CASE \E m \in Within(net, net.po, k - 1) : n \in FaninOf(net, m)
    <3>1. PICK m \in Within(net, net.po, k - 1) : n \in FaninOf(net, m)
      BY <2>2
    <3>2. m \in DOMAIN distance /\ distance[m] <= k - 1 /\ distance[m] \in Nat
      BY <1>5, <1>9
    <3>3. n \in DOMAIN distance /\ distance[n] <= distance[m] + 1 /\ distance[n] \in Nat
      BY <1>3, <1>5, <3>1, <3>2
    <3> QED
      BY <1>8, <3>2, <3>3
  <2> QED
    BY <1>8, <2>1, <2>2, WithinStep
<1> QED
  BY <1>6, <1>10

\* depth2Output returns the length of a shortest way to an output for each
\* node an output depends on, and no entry for another: a call that goes on
\* with a number improved meanwhile does no harm.
THEOREM DistancesAreShortest == Spec => []DepthsShortest
<1>1. ASSUME NInv, SearchInv PROVE DepthsShortest
  <2> SUFFICES ASSUME pc = "done" PROVE distance = Depth2Output(net)
    BY DEF DepthsShortest
  <2> DEFINE K == Cardinality(Node(net))
             value(n) == CHOOSE k \in 0..K :
                           /\ n \in Within(net, net.po, k)
                           /\ \A j \in 0..(k - 1) : n \notin Within(net, net.po, j)
  <2>1. /\ IsNetlist(net) /\ IsFiniteSet(Node(net)) /\ net.po \in SUBSET Node(net)
        /\ \A n \in DOMAIN distance : distance[n] \in Nat
    BY <1>1, CircuitFacts DEF NInv, SortInv, DepthInv, IsNetlist
  <2>2. K \in Nat
    BY <2>1, FS_CardinalityType
  <2>3. ASSUME NEW n \in DOMAIN distance
        PROVE  Nearest(net, net.po, n, distance[n]) /\ distance[n] \in 0..K
    <3>1. distance[n] \in Nat /\ n \in Within(net, net.po, distance[n])
      BY <1>1, <2>1 DEF SearchInv
    <3>2. ASSUME NEW j \in 0..(distance[n] - 1), n \in Within(net, net.po, j)
          PROVE  FALSE
      <4>1. j \in Nat /\ ~(distance[n] <= j)
        BY <3>1
      <4> QED
        BY <1>1, <3>2, <4>1, NoShorterWay
    <3>3. Nearest(net, net.po, n, distance[n])
      BY <3>1, <3>2 DEF Nearest
    <3> QED
      BY <2>1, <3>1, <3>3, NearestIsNear
  <2>4. DOMAIN distance = Within(net, net.po, K)
    <3>1. ASSUME NEW n \in DOMAIN distance
          PROVE  n \in Within(net, net.po, K)
      <4>1. distance[n] \in Nat /\ distance[n] <= K /\ n \in Within(net, net.po, distance[n])
        BY <2>1, <2>2, <2>3 DEF Nearest
      <4> QED
        BY <2>2, <4>1, WithinGrows
    <3>2. Within(net, net.po, K) \subseteq DOMAIN distance
      BY <1>1, <2>2, NoShorterWay
    <3> QED
      BY <3>1, <3>2
  <2>5. ASSUME NEW n \in DOMAIN distance
        PROVE  distance[n] = value(n)
    <3>1. ASSUME NEW i \in 0..K, NEW j \in 0..K, i < j, Nearest(net, net.po, n, i),
                 Nearest(net, net.po, n, j)
          PROVE  FALSE
      <4>1. i \in 0..(j - 1)
        BY <2>2, <3>1
      <4> QED
        BY <3>1, <4>1 DEF Nearest
    <3>2. ASSUME NEW i \in 0..K, Nearest(net, net.po, n, i)
          PROVE  i = distance[n]
      <4>1. i \in Nat /\ distance[n] \in Nat
        BY <2>1
      <4>2. ~(i < distance[n]) /\ ~(distance[n] < i)
        BY <2>3, <3>1, <3>2
      <4> QED
        BY <4>1, <4>2
    <3>3. value(n) = CHOOSE i \in 0..K : Nearest(net, net.po, n, i)
      BY DEF Nearest
    <3> QED
      BY <2>3, <3>2, <3>3
  <2>6. Depth2Output(net) = [n \in Within(net, net.po, K) |-> value(n)]
    BY DEF Depth2Output
  <2>7. distance = [n \in DOMAIN distance |-> distance[n]]
    BY <1>1 DEF SearchInv
  <2> HIDE DEF value, K
  <2> QED
    BY <2>4, <2>5, <2>6, <2>7
<1>2. Init => SearchInv
  BY InitSearch
<1>3. NInv /\ SearchInv /\ [Next]_vars => SearchInv'
  BY NextSearches
<1> QED
  BY <1>1, <1>2, <1>3, LoopsKeepInvariant, PTL DEF Spec
=============================================================================
