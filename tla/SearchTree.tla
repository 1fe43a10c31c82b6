------------------------------ MODULE SearchTree ------------------------------
(***************************************************************************)
(* The search of approxiamate/src for the best way to take a function      *)
(* apart.  A search space is a binary tree of divided functions; its       *)
(* children in the search tree divide one more function of it.  A space    *)
(* none of whose leaves can be divided is a candidate for the answer.      *)
(*                                                                         *)
(* Nodes of the binary trees are shared pointers (SearchNodeOpPtr).  The   *)
(* children of a space copy the tree but not the nodes, so a node is seen  *)
(* by many spaces, and divide() writes to it: op is the heap.              *)
(*                                                                         *)
(* A step is one call of getNextSearchSpace_Full, getNextSearchSpace       *)
(* ("bound") or getNextSearchSpace_BFS, of which a recursive call is a     *)
(* step of its own.                                                        *)
(***************************************************************************)
EXTENDS BooleanFunction, Functions, Sequences, SequencesExt

CONSTANTS
  InitFunctions,   \* the functions to search, with inputs in Nat
  Searches,        \* [method, ignoreXor]: ActivedMode
  WIDTH_PRE_LEVEL  \* the children a space keeps in BFS

ASSUME SearchAssumption ==
  /\ \A f \in InitFunctions : /\ f \in FunctionsOver(f.ins)
                              /\ f.ins \subseteq Nat /\ IsFiniteSet(f.ins) /\ f.ins # {}
  /\ Searches \subseteq [method : {"full", "bound", "bfs"}, ignoreXor : BOOLEAN]
  /\ WIDTH_PRE_LEVEL \in Nat \ {0}

VARIABLES
  search,  \* the search that is called
  initBF,  \* the function to take apart
  op,      \* the SearchNodeOp objects some space points to
  chain,   \* the spaces from the root of mtree to currentVertexID
  record,  \* recordBestSearchSpacePtr: <<>> while it is the root
  pc

vars == <<search, initBF, op, chain, record, pc>>

-----------------------------------------------------------------------------
(***************************************************************************)
(* Binary trees.  A node is named by the way to it from the root, 0 for    *)
(* left and 1 for right; a tree maps its nodes to objects of the heap.     *)
(***************************************************************************)
\* f, with x mapped to v.
With(f, x, v) == [y \in DOMAIN f \cup {x} |-> IF y = x THEN v ELSE f[y]]

Left(p) == Append(p, 0)
Right(p) == Append(p, 1)
Leaves(tree) == {p \in DOMAIN tree : Left(p) \notin DOMAIN tree}

IsDividable(f) == ~IsConstant(f) /\ Cardinality(f.ins) # 1

\* p comes before q when leaves are read from the left.
IsLeftOf(p, q) ==
  \E i \in DOMAIN p \cap DOMAIN q :
    p[i] < q[i] /\ SubSeq(p, 1, i - 1) = SubSeq(q, 1, i - 1)

Dividable(heap, tree) == {p \in Leaves(tree) : IsDividable(heap[tree[p]].fn)}

\* findDivideNode, when there is one.
DivideNode(heap, tree) ==
  CHOOSE p \in Dividable(heap, tree) : \A q \in Dividable(heap, tree) \ {p} : IsLeftOf(p, q)

\* getFinalBooleanFuntion: the leaves, combined upwards.
Final(heap, tree) ==
  LET value[p \in DOMAIN tree] ==
        IF p \in Leaves(tree) THEN heap[tree[p]].fn
        ELSE Combine(value[Left(p)], value[Right(p)], heap[tree[p]].oper)
  IN  value[<<>>]

\* Mutant of FirstMethod: go on where the node was last divided.
FirstMethodOfNode(heap, tree) == heap[tree[DivideNode(heap, tree)]].currentDivide + 1

\* Where the constructor lets the divisions of a space begin.
FirstMethod(heap, tree) == 1

\* The constructors of SearchSpace.
NewSpace(heap, tree) ==
  LET grow == Dividable(heap, tree) # {}
  IN  [tree           |-> tree,
       currentDivide  |-> IF grow THEN FirstMethod(heap, tree) ELSE 1,
       divideRange    |-> IF grow
                          THEN 2^Cardinality(heap[tree[DivideNode(heap, tree)]].fn.ins) ELSE 0,
       totalError     |-> BooleanCompare(heap[tree[<<>>]].fn, Final(heap, tree)),
       isPreviouslyCalculated |-> FALSE,
       children       |-> <<>>]

IsAtLowestLevel(heap, space) == Dividable(heap, space.tree) = {}

\* Mutant of MayGrow: one division too few.
MayGrowTooFew(space) == space.currentDivide < space.divideRange - 2

\* searchSpaceGenerate() has one more division to make.
MayGrow(space) == space.currentDivide <= space.divideRange - 2

\* SearchNode::divide: bit i of the method sends input i to the left.
LeftPart(ins, method) ==
  {i \in ins : (method \div 2^Cardinality({j \in ins : j < i})) % 2 = 1}

NewOp(f) == [fn |-> f, oper |-> "none", currentDivide |-> 0]

\* A free place of the heap.
Free(heap, k) == Max({0} \cup DOMAIN heap) + k

\* searchSpaceGenerate(method), when divide() has answered res: the node is
\* written to and goes, with its two children, to the new space; this space
\* goes on with a fresh node.
Generated(heap, space, method, node, res) ==
  LET id   == space.tree[node]
      old  == [heap EXCEPT ![id].oper = res.oper, ![id].currentDivide = method]
      new  == With(With(With(old, Free(heap, 1), NewOp(heap[id].fn)),
                        Free(heap, 2), NewOp(res.left)),
                   Free(heap, 3), NewOp(res.right))
      down == With(With(space.tree, Left(node), Free(heap, 2)), Right(node), Free(heap, 3))
  IN  [heap  |-> new,
       space |-> [space EXCEPT !.tree[node] = Free(heap, 1)],
       child |-> NewSpace(new, down)]

SearchSpaceGenerate(heap, space, method) ==
  LET node == DivideNode(heap, space.tree)
      f    == heap[space.tree[node]].fn
      part == LeftPart(f.ins, method)
  IN  Generated(heap, space, method, node, Divide(f, part, f.ins \ part, search.ignoreXor))

\* OrderedQueue::push: behind the last element that is not greater.
Push(oq, space) ==
  InsertAt(oq, SelectLastInSeq(oq, LAMBDA s : ~(s.totalError > space.totalError)) + 1, space)

Shortened(oq, width) == IF Len(oq) > width THEN Front(oq) ELSE oq

Pushed(oq, width, g) ==
  [heap |-> g.heap, space |-> g.space, oq |-> Shortened(Push(oq, g.child), width)]

\* Mutant of PushGenerated: the queue may be longer by one.
PushGeneratedLonger(state, method) ==
  Pushed(state.oq, WIDTH_PRE_LEVEL + 1, SearchSpaceGenerate(state.heap, state.space, method))

\* One iteration of searchSpaceSeriesGenerate.
PushGenerated(state, method) ==
  Pushed(state.oq, WIDTH_PRE_LEVEL, SearchSpaceGenerate(state.heap, state.space, method))

\* The caller adds the queue from its back: the best is the last child.
WithChildren(done) ==
  [heap  |-> done.heap,
   space |-> [done.space EXCEPT !.isPreviouslyCalculated = TRUE, !.children = Reverse(done.oq)]]

SearchSpaceSeriesGenerate(heap, space) ==
  WithChildren(FoldLeft(PushGenerated, [heap |-> heap, space |-> space, oq |-> <<>>],
                        [m \in 1..(space.divideRange - 2) |-> m]))

-----------------------------------------------------------------------------
(***************************************************************************)
(* The search tree.                                                        *)
(***************************************************************************)
current == chain[Len(chain)]

\* The objects that a space still points to.
Reachable(spaces) == UNION {Range(s.tree) : s \in spaces}

Collect(heap, newChain, newRecord) ==
  LET spaces == Range(newChain) \cup (UNION {Range(s.children) : s \in Range(newChain)})
                  \cup Range(newRecord)
  IN  Restrict(heap, Reachable(spaces))

RecordError == IF record = <<>> THEN chain[1].totalError ELSE record[1].totalError

Init ==
  /\ search \in Searches
  /\ initBF \in InitFunctions
  /\ op = [id \in {1} |-> NewOp(initBF)]
  /\ chain = << NewSpace(op, [p \in {<<>>} |-> 1]) >>
  /\ record = <<>>
  /\ pc = "search"

\* Mutant of Improves: the root counts as a record like any other.
ImprovesOnRoot(heap, space) ==
  /\ IsAtLowestLevel(heap, space)
  /\ space.totalError < RecordError

\* A space that cannot be divided any more, and is better than the record.
Improves(heap, space) ==
  /\ IsAtLowestLevel(heap, space)
  /\ record = <<>> \/ space.totalError < RecordError

\* The currentVertexID becomes its parent, and its space is deleted.
Chop ==
  IF Len(chain) = 1
  THEN pc' = "done" /\ UNCHANGED <<op, chain>>
  ELSE /\ chain' = Front(chain)
       /\ op' = Collect(op, chain', record')
       /\ UNCHANGED pc

\* getNextSearchSpace_Full and getNextSearchSpace: the next division of the
\* current space.  The latter leaves a space that is not better alone.
Generate ==
  /\ pc = "search" /\ search.method \in {"full", "bound"}
  /\ MayGrow(current)
  /\ \E g \in {SearchSpaceGenerate(op, current, current.currentDivide)} :
       LET parent == [g.space EXCEPT !.currentDivide = @ + 1]
           better == Improves(g.heap, g.child)
           kept   == \/ search.method = "full"
                     \/ better
                     \/ record = <<>>
                     \/ RecordError > g.child.totalError
       IN  /\ record' = IF better THEN <<g.child>> ELSE record
           /\ chain' = Front(chain) \o (IF kept THEN <<parent, g.child>> ELSE <<parent>>)
           /\ op' = Collect(g.heap, chain', record')
  /\ UNCHANGED <<search, initBF, pc>>

\* There is no further division: back to the parent.
Backtrack ==
  /\ pc = "search" /\ search.method \in {"full", "bound"}
  /\ ~MayGrow(current)
  /\ UNCHANGED record
  /\ Chop
  /\ UNCHANGED <<search, initBF>>

Calculated ==
  IF current.isPreviouslyCalculated THEN [heap |-> op, space |-> current]
  ELSE SearchSpaceSeriesGenerate(op, current)

\* getNextSearchSpace_BFS, when the space has a child: the last one is next.
Descend ==
  /\ pc = "search" /\ search.method = "bfs"
  /\ \E c \in {Calculated} :
       /\ c.space.children # <<>>
       /\ chain' = Front(chain) \o << [c.space EXCEPT !.children = Front(@)],
                                      Last(c.space.children) >>
       /\ op' = Collect(c.heap, chain', record)
  /\ UNCHANGED <<search, initBF, record, pc>>

\* When it has none left.
Leave ==
  /\ pc = "search" /\ search.method = "bfs"
  /\ Calculated.space.children = <<>>
  /\ record' = IF Improves(op, current) THEN <<current>> ELSE record
  /\ Chop
  /\ UNCHANGED <<search, initBF>>

\* A search that has come to its end does nothing more.
Done ==
  /\ pc = "done"
  /\ UNCHANGED vars

\* The callers ask for the next space until there is none.
Next == Generate \/ Backtrack \/ Descend \/ Leave \/ Done

Spec == Init /\ [][Next]_vars

-----------------------------------------------------------------------------
Spaces ==
  Range(chain) \cup (UNION {Range(s.children) : s \in Range(chain)}) \cup Range(record)

\* The objects and spaces stay in their ranges, and no pointer dangles.
TypeOK ==
  /\ pc \in {"search", "done"}
  /\ \A id \in DOMAIN op :
       /\ op[id].fn \in FunctionsOver(initBF.ins)
       /\ op[id].oper \in {"none", "and", "or", "xor", "drop"}
  /\ DOMAIN op = Reachable(Spaces)
  /\ \A s \in Spaces :
       /\ s.totalError \in 0..2^Cardinality(initBF.ins)
       /\ s.divideRange \in {0} \cup {2^n : n \in 2..Cardinality(initBF.ins)}
       /\ Len(s.children) < WIDTH_PRE_LEVEL
  /\ chain # <<>> /\ Len(record) <= 1

\* A space computes the function whose errors were counted when it was made,
\* as long as anything points to it.  Its nodes are shared with other spaces,
\* whose divisions write the operations into them: the record would become
\* another circuit if two spaces divided a shared node differently.
SpacesKeepTheirFunctions ==
  \A s \in Spaces : s.totalError = BooleanCompare(initBF, Final(op, s.tree))

\* The functions that result from dividing f, and the parts of it, in every
\* way, until no part can be divided: defined without any search.
Approximations(f) ==
  LET parts(g) == {LeftPart(g.ins, m) : m \in 1..(2^Cardinality(g.ins) - 2)}
      result[g \in FunctionsOver(f.ins)] ==
        IF ~IsDividable(g) THEN {g}
        ELSE UNION {LET d == Divide(g, part, g.ins \ part, search.ignoreXor)
                    IN  {Combine(l, r, d.oper) : l \in result[d.left], r \in result[d.right]}
                      : part \in parts(g)}
  IN  result[f]

BestSpace == IF record = <<>> THEN chain[1] ELSE record[1]

\* The answer of every search is a complete way to take the function apart:
\* none stops half way or loses its only candidate.
AnswerIsDecomposition ==
  pc = "done" => Final(op, BestSpace.tree) \in Approximations(initBF)

\* The full search overlooks nothing: no way has fewer errors.
FullFindsMinimum ==
  pc = "done" /\ search.method = "full" =>
    \A g \in Approximations(initBF) : BestSpace.totalError <= BooleanCompare(initBF, g)
=============================================================================
