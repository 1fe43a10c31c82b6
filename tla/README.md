# Verification of Approximate Logic Synthesis

TLA+ models, TLC runs and TLAPS proofs for the program in `src/`, which makes
a combinational circuit (a BLIF file) smaller by replacing fanout-free cones
with cheaper functions that are wrong on few inputs.

## 1. The system

### 1.1 Components

| component | state | operations | modelled in |
|---|---|---|---|
| `driver/main.cpp`, the sweep | current circuit, measured error, map of cones, candidates, accumulated error, files in `TempPath` | rounds of: measure, collect cones, examine a cone, sort, accept, export | `Sweep` |
| `driver/filter_mffc.cpp` | none; edits a `std::map` from name to FFC | filters by size, by intersection, of the current cone; `findFirstFFC` | `FfcFilters` |
| `circuit/net_algorithms.cpp` | memorised results for a loaded circuit | `topologicalSort`, `getFaninSet`, `getMffcSet`, `getFFC`, `depth2Output` | `Netlist` (definitions), `NetAlgorithms` (loops) |
| `circuit/interface.cpp` | the loaded network, BDDs | load, `exportReplacedBlif`, `exportFfcToBlifFile`, `truthTable`, other exports | `exportReplacedBlif` in `Sweep` and, with functions, in `MffcDriver`; the truth table of a cone there, too |
| `common/ttable.*` | a truth table | combine, flip the inputs of a two-input table | `TTable`, `BlifBuilder` |
| `common/blif_builder.*` | the lines of a BLIF body under construction | `buildConst`, `buildInput`, `combineBilfBuilder`, `printBody` | `BlifBuilder` |
| `newApprox/src/kmap.cpp` | two patterns, results of four cases, best result | `divide`, `divideCore` | `Kmap` |
| `newApprox/src/algorithm_decompose.cpp`, `min_set.h`, `decomp_small.cpp` | two loops over the splits of a function; a bounded vector; a recursion | `searchPrcoe`, `push`, `popBack`, `buildFromMatch`, `match` | the search in `Decompose` and `MinSet`, how results are combined in `BlifBuilder`; `match` is not modelled |
| `driver/mffc.cpp`, the older driver | as the sweep, and the error so far | rounds of: simulate, collect cones, examine a cone, export | `MffcDriver` |
| `circuit/prof_sim.cpp` and `circuit_profile` | compiled simulators, samples | compare, profile, `countMatchError`, `localErrorSim` | compare, profile, `countMatchError` and whether `localErrorSim` returns in `MffcDriver`; otherwise their counts are inputs of `Sweep` and `Kmap` |
| `pre_decomp` | the database of functions | nearest match | no |
| `approxiamate` (the first version) | a tree of search spaces, trees of shared nodes, an ordered queue, the record | `divide`, three searches | `BooleanFunction`, `SearchTree` |
| `policy`, `blif_replace`, `util`, `circuit/err_asses.cpp` | none | programs and helpers no driver depends on | no |
| `abc_expansion`, `lib/` | ABC, CUDD, libblif, GTest | external | ABC is a choice in `Sweep` |

`PROJECT.json` has the same list, file by file, with the reason for what is
left out.

### 1.2 How they interact

The program is one thread. A round of the sweep reads the file the last round
wrote (after ABC has rewritten it), measures it against the original circuit,
asks `getFFC` for the cones, and for one cone after the other asks the
decomposer for a match. The decomposer divides a function by `Kmap::divide` or
looks it up in the database, and combines builders bottom up; the sweep
collects the results as candidates, sorts them, accepts as many as the error
budget takes, and has `exportReplacedBlif` write the circuit without the nodes
of the accepted cones and with the bodies of their builders.

The older driver differs where it matters: it accepts cones one at a time and
adds up the errors at their roots, counted from one profile of the circuit
before any replacement. The first version of the decomposer walks a tree of
search spaces, each a tree of nodes that it shares with its parent and
children.

What is hard here is not concurrency but long chains of assumptions between
these parts: that cones chosen one after the other, from a map that is edited
as they are chosen, can all be replaced at once; that in-place loops over
cones see the right version of each other; that loops without a bound end;
that a complemented leaf, remembered only in a type tag, is made up for exactly
once; that the error of a simplified result is the error that was counted; that
errors counted one cone at a time bound the error of all of them together; that
a search which drops candidates, or shares nodes between them, drops and
changes none that it still needs; and the boundaries of the error budget. `PROJECT.json` lists these hazards with
their lines and the properties that would catch each.

## 2. Modules

| module | what it is |
|---|---|
| `Netlist` | a circuit as a record of inputs, outputs, gates and fanins; fanin cones, MFFCs, FFCs and depths as definitions without recursion |
| `NetAlgorithms` | the loops that compute them, one action per iteration: Kahn's sort with its queue, the cones in topological order, the in-place shrinking in reverse order, the depth-first search with its call frames |
| `FfcFilters` | the filters, as functions on maps |
| `Sweep` | stage 1 of `main()` |
| `TTable` | two-input truth tables as sets of row indices |
| `BlifBuilder` | builders, `combineBilfBuilder`, and the calls of the decomposers that combine them |
| `Kmap` | `divide` with its random starts and improvement loops |
| `BestK` | what a bounded priority collection promises: an abstract specification |
| `MinSet` | `MinSet`, one action per iteration of the loops of `push`; implements `BestK` |
| `Decompose` | `searchPrcoe` in its four modes, over `MinSet` |
| `MffcDriver` | `main()` of `mffc.cpp`, over circuits that have functions |
| `BooleanFunction` | the functions of the first version and how they are divided |
| `SearchTree` | its three searches, with the heap of shared nodes |
| `MC*` | values of the constants for TLC |
| `CommonTheorems`, `NetAlgorithmsTheorems`, `SweepTheorems`, `MffcDriverTheorems`, `BlifBuilderTheorems`, `KmapTheorems`, `DecomposeTheorems`, `SearchTreeTheorems` | proofs |

`Sweep` and `MffcDriver` compose `Netlist` and `FfcFilters`; `Decompose`
composes `MinSet`; `SearchTree` composes `BooleanFunction`.

Operators whose comment starts with "Mutant of" are variants of the operator
named there, with a plausible mistake; no specification uses them. They show
for each property that a mistake of that kind would violate it.

### 2.1 Correspondence

**Names.** Nodes are numbers. The order of numbers is the order of names,
which decides what `findFirstFFC` returns and need not follow the wires.

**Netlist.** `po` is a list of names only: libblif makes a fanout of a node
from the `.names` lines that read it (`bnet.cpp:269-282`), never from
`.outputs`. A cone is defined as a least closed set; `ConeLeast` proves that
it is one, and `NetAlgorithmsTheorems` that the loops compute the same.

**Sweep.** `pc` is the place in `main()`: `collect` (110-120), `select`
(122-162, an iteration per step), `accept` (174-183), `measure` (94-109). An
iteration of the selection loop has three outcomes: a node no output depends
on, a discarded match, a new candidate. Functions are not part of the module:
the decomposer answers any match, ABC returns any circuit of `Nets`, the
simulation counts any error of `Measured`. The weight of an error is the
truncated product with `DEPTH_BONUS^depth`; the rounding of `float` is left
out. In `ExportReplacedBlif` the nodes inside a body are folded into its root,
which reads all inputs of its cone: the most a body can read. `file` is the
circuit in the last file; before the first export it is the circuit read.

**BlifBuilder.** `stack` holds results of calls that have returned, each with
the function the decomposer keeps beside it. Guards of the `Combine` actions
are what their callers guarantee: a division ignores a side only if it is
constant (proved in `KmapTheorems` for the sides that may be `INVALID`), a
database entry has no constant part and, as generated, no single input on the
right. Shared pointers are names, since nothing writes through them between
two combinations.

**Kmap.** The map and the counts of its terms are chosen at the start; a map
has a column for each assignment of the right inputs. The loops that add up
errors are sums over rows and columns (`SumFunction`). One
step is half of an iteration of a `while (true)`; the end of a case, its
simplified method, and the start of the next case follow the code's order.
The rows a case may start from are the ones lines 186-191 let through, with
the table they really compare with (finding 4).

**MinSet and Decompose.** `step` is where `push` is. The abstract collection is
the sequence of `data` followed by `temp` read from its back, cut at `len`: a
new item belongs to it from `push_back` on, and the item that `Trim` will drop
no more. One call of `searchPrcoe` is modelled, for a function that the small
algorithm does not answer. What `divide` says of a split is `errorOf`; what
becomes of it, after both parts are decomposed by recursive calls and the error
is counted again, is `resultOf`. The two are unrelated, as in the code, where
the parts are approximated once more. `relen` is not called.

**MffcDriver.** A circuit has functions and a size for each gate, the number of
lines of the body that drives it, as a body is one gate here. `Simulate` draws
vectors twice, like the code (`prof_sim.cpp:150-160`, `237-242`): those of the
profile, which are kept in `unmodedSimResult` and used by `countMatchError` for
every cone of the round, and others for the comparison with the original
circuit, of which only the number of errors stays (`res`). `Draws` has the
sequences of vectors that may be drawn, of length `SimRound` instead of 40000; a
vector may come more than once. A circuit that was written within the budget may
therefore be measured over it, and such a round replaces nothing. The decomposer
answers any function of the inputs of the cone that `Answers` has for it, with
what line 153 compares (`nNode`, 0 for a wire or a constant) and the lines
that are written (`nLine`). `LocalErrorSim` is the call of line 117: the position
of a node in this circuit is looked up among the values of the original one, so
that it may return or throw, and the names generated inside bodies leave the
position open. `pc = "undefined"` is where the iterator of
`filterMffcContainOutput` is invalid, which happens as soon as it erases a cone;
`"aborted"` is the failed `throwFalse`, or the exception of `localErrorSim`.

**BooleanFunction and SearchTree.** An assignment is the set of inputs that are
1. `op` is the heap of `SearchNodeOp` objects and a space maps the nodes of its
binary tree to them, so that a division which writes to a shared object is seen
by every space that has it; objects no space points to are released, as
`shared_ptr` does. `chain` is the path to `currentVertexID`: siblings left of it
are chopped, those right of it are the `children` of BFS. `record = <<>>` while
the record is the root. A recursive call of `getNextSearchSpace` is a step. The
parts of a division are tried in the order drop, and, or, xor. `GREEDY` has the
value of `BRANCH_AND_BOUND` in `conts.h` and is not told apart.

## 3. Runs

| run | question | bounds | result |
|---|---|---|---|
| `sweep` | do rounds keep candidates apart, and the budget? does the sweep end? | 4 circuits, 2 rounds, errors 0, 3, 11, sizes 1, 2, measured 0, 3, 4, 5 with the bound 4 | 4,261 states, holds |
| `sweep_dags` | can candidates be replaced together? | every acyclic wiring of 4 two-input gates over 2 inputs, any order of names, 1 round | 181,722 states, holds |
| `net_algorithms` | do the loops compute the cones and depths? | every circuit of 4 two-input gates over 2 inputs; with 3 gates, also any outputs | 78,019 states, holds |
| `blif_builder` | is a body well formed, and has it its function? | 4 leaves, all tables, all orders of calls | 12,841 states, holds |
| `kmap` | do the divisions do what their users rely on? | all maps of 2 rows and 4 columns, one vector of counts with ties and zeros, 2 rounds | 313,336 states, holds |
| `decompose` | what does `searchPrcoe` answer in each mode, and is its set a `BestK`? | 7 splits of 4 inputs, the set keeps 4; all estimates out of 3 for the set, all estimates and results out of 2 for the vector | 235,246 states, holds |
| `mffc_driver` | do added local errors bound what replacing all cones changes, whatever vectors are drawn? | 3 circuits of 4 inputs and 5 gates, 3 rounds, 8 vectors a simulation, 3 draws, answers wrong in at most one term or constant, tolerance 2 | 76,415 states, holds |
| `search_tree` | do spaces keep their functions, and searches find an answer? | 9 functions of 3 inputs, one of 4, three searches, 3 children in BFS | 1,351 states, holds |
| `sweep_assertion` | the assertion of `main.cpp:173` | as `sweep` | violated |
| `sweep_outputs` | is every output driven? | as `sweep` | violated |
| `blif_builder_function` | has every body its function? | 2 leaves | violated |
| `kmap_major_row` | does each case divide the maps it is made for? | as `kmap`, 1 round | violated |

**Bounds.** The code selects cones of 3 to 6 inputs among those of 3 to 20; the
runs take 2 to 3 among 2 to 4, so that circuits of five gates have cones that
are selected, too wide and too narrow, nested, and crossing. The tight bound is
4 instead of 800 and the relaxed one 8 instead of 4000: errors below, at and
above each occur, and 11 errors pass the relaxed bound two wires from an output
and not closer. Four gates are enough for a cone whose inner node is read
directly, or through one more gate, from outside. Four leaves give builders of
which both operands are combined ones. Two rows and four columns are the
smallest map where a table with a 1 for each input differs from one with a 1
for each column and the two rows may be anything; more rows add no branch of
the code. `DIVIDE_ROUND` is 1 instead of 8: the record is kept once and
replaced or not once.
Two rounds of the sweep are enough for a candidate, a cone or an error to be
carried over from one to the next. Seven splits make the set drop up to three
times, at the front, in the middle and behind ties. The cones of `mffc_driver`
read each other, mask each other, nest, and contain an output; the second and
third round work on replaced circuits. Of its three draws, two are disjoint and
the third has some vectors of each, some of them twice: rounds start below, at
and over the tolerance, and files are written that are over it on the vectors of
their own profile. Functions of three inputs are divided
twice, the one of four is divided into two parts that can both be divided
again, so that one space shares nodes with several; `DONTCAREBOND` is 2 instead
of 10, which is more undecided columns than most of these maps have.

**Deadlock** is not checked where the program ends: a module stops in a last
state. `Decompose` and `SearchTree` have an action for it (`Return`, `Done`),
and their runs check that nothing else stops.

**Fairness.** `Sweep`, `NetAlgorithms` and `Kmap` assume weak fairness of their
whole next-state relation: one thread that does not stop while it has a step
to take. Which step is taken stays open. The other modules state no liveness:
`BlifBuilder` and `MffcDriver` do not end by themselves (nothing makes the rounds
of `mffc.cpp` run out; `Rounds` bounds them), the loops of `Decompose` are
counted, and the steps of `SearchTree` are too costly to evaluate once more for
`ENABLED`.

### 3.1 Findings

1. `main.cpp:173` asserts that the error is *below* the bound; line 102 lets
   an error *at* the bound through. A simulation with exactly 800 errors
   aborts the program (`sweep_assertion`).
2. `main()` does not call `filterMffcContainOutput`, which the other drivers
   and tests call: a cone with an output inside is replaced, and the written
   circuit lists an output that nothing drives (`sweep_outputs`).
3. The `RIGHT_RELA` branches of `combineBilfBuilder` (`blif_builder.cpp:65`,
   `77`) test the type of the left operand where they use the right one: a
   negation is lost or added (`blif_builder_function`). Apart from that,
   builders have their functions (`DenotesFunctionUnlessMixed` in
   `blif_builder`).
4. `kmap.cpp:188` (and 233, 278) looks for rows of 1s with
   `(1 << widthName.size())-1`, a table with a 1 for each *input*. A map of
   the rows 0000 and 1100, an exact AND, is searched from a random pattern
   and may be divided with errors (`kmap_major_row`). `ExactIsFound` states
   what holds nevertheless.

## 4. Proofs

All theorems hold for every value of the constants under the assumptions named
in the modules: circuits are netlists without cycles, and finite where loops
run over them or they are evaluated; `SizeMin` is at least 2, so that no cone
that stays is an input or a constant; a map has `2^RightInputs` columns; counts
and bounds are natural numbers.

Many definitions are recursive functions: the values of a circuit's nodes or
of a body's signals, sums, the nodes within some wires of an output. To
reason about one takes two facts, that a function with these equations exists
and that only one does. Both are proved with a least counterexample instead of
by induction: among the places where two solutions differ, or up to which no
solution exists, one is first, and what its equation refers to comes before it.
Circuits give the order by being acyclic, bodies because a line reads only
signals with smaller names, sums by inclusion.

**CommonTheorems** has what several components need. First, the least and
largest members of these arguments (`LeastNumber`, `SmallestSet`, `LargestSet`)
and the tables of two variables. Then sums: `SumFunction` is what it should be,
the sum of a set is that of a smaller set and one number, whichever
(`SumOfSet`); it grows with its numbers (`SumGrows`); and a double sum may be
taken in either order (`SumOfSums`).

The rest of it is about cones. A cone is the least set closed under
reading (`ConeLeast`); in an acyclic circuit two nodes are not in each
other's cones (`ConeAntisymmetric`). Removing from a cone the cones of the
nodes that escape leaves a set nothing outside reads, except for the root
(`MffcFanoutFree`): a reader outside would make the node escape, or be removed
itself with a node that escapes, whose cone holds what it reads. It follows for
FFCs (`FfcFanoutFree`), and that two FFCs without a common node do not read
each other's inner nodes (`DisjointFfcsIndependent`). Replacing such cones by
one gate each leaves a netlist (`ReplacedClosed`) without a cycle, as a cycle
would have a node that reads only above it in the old circuit
(`ReplacedAcyclic`); both drivers rest on this. Three lemmas say what each
filter leaves of a map of cones. Of the nodes within `k` wires of an output,
`WithinStep` says that they grow by the fanins of those within `k - 1`, and
`NearestIsNear` that the depth of a node is the least such `k`.

**NetAlgorithmsTheorems** is about the loops that compute the cones, for every
finite acyclic circuit. `NInv` has a part per function. `Sorting`: the list and
the queue of `topologicalSort` have no node in common and none twice, together
they hold exactly the nodes whose fanins are all listed, and each listed node
comes after its fanins; the table counts the fanins not yet listed. When a node
is listed, the ones that become ready are those with one such fanin
(`SortingGoesOn`). When the queue is empty, the gates not listed would each
read another of them, which an acyclic circuit excludes (`SortingEnds`), so the
list is complete (`ListIsTopological`). `ConesInv`: `getFaninSet` has the cones
of a prefix of the list, and the cone of the next node is that of its fanins
and itself (`ConeOfFanins`); `getMffcSet`, which runs backwards, has shrunk the
cones behind its position and not those before it. All it reads for a node are
cones of members of that node's cone, which come earlier in the list
(`ConeInPrefix`, `MffcReadsCone`), so changing the map in place is harmless.
`MffcIsLargest` shows that what is left is the union of all parts of the cone
that nothing outside reads (`ConesAreMaximal`): such a part cannot hold a node
of the cone of an escaping node, as it would have to hold the way up to it.
`DepthInv` types the calls of the search, from which `DistancesNeverGrow`
follows. `SearchInv` makes the search complete although a call goes on with a
number that a deeper call may have improved meanwhile: every wire either
respects the distances or is still to be looked at by a call whose number is
*no larger than* the distance its node has (`Pending`), so what is late is also
harmless. When no call is left, no way is shorter than the distances say
(`NoShorterWay`, `DistancesAreShortest`).

**SweepTheorems.** `TypeInv` strengthens `TypeOK` with what it needs to be
inductive: the circuit is one of `Nets`, a round is left to do while the loop
runs, and the map holds FFCs of the current circuit with at least `SizeMin`
inputs (`FfcsOfRound`), so that no primary input and no constant is a
candidate. `CandidatesOfRound` is inductive together with it. `Independent`
follows from `DisjointFfcsIndependent`: this is the step from "no common node", which is all the filter checks, to "can be replaced
together". `FileInv` carries it over the export (`WrittenCircuitClosed`,
`WrittenCircuitAcyclic`). `BudgetInv` adds to the two bounds that
candidates are below the relaxed one, and that they are sorted once they are
accepted; from it follow `OvershootBounded` and `CheapestAreAccepted`.
`SelectionAlwaysShrinks` is the action property behind termination.

**BlifBuilderTheorems.** `BInv` says of every builder what makes it safe to
put two of them together (`WellFormed`): the names it drives are generated
ones, each driven once, and what it reads, and its output, it drives or has
among its inputs. Of the stack it says that no two builders drive a common
name, and that the names are below the next one, which grows by one with each
combination. What a combination adds is driven under that name, so it cannot
collide with either operand, and the operands cannot collide with each other.
`BodyClosed` alone is not inductive: two closed bodies that drive the same name
have a union that drives it twice (`BodiesAreClosed`). That a body has fewer
gates than there are inputs (`TypeCorrect`) follows by an injection of its
gates into the generated names.

That a body computes the function kept beside it is a second invariant,
`FunInv`, over `BInv`. It says of each builder that functions exist for all
signals which satisfy each of its lines (`Settled`), and that its output has
the function, complemented if its type says so. Lines read only earlier names,
so there is just one such assignment, the one `Values` computes
(`ValuesAreUnique`, `ValuesOf`). Combining two builders puts two assignments
together: the operands drive different names, so each line keeps its meaning
(`LinesKept`). What is left is that a gate whose table was flipped for each
complemented operand computes the table of the call (`GateFunction`), and that
one operand alone is connected with or without a negation
(`RelatedFunction`); in the branch for the right operand, only if the types of
both agree, which is what `mixed` records (finding 3).

**MffcDriverTheorems.** `DInv` holds of every set of circuits, every decomposer,
every tolerance and whatever vectors are drawn. The argument for the errors:
`Suspect` are the vectors of the profile for which one of the replaced builders
differs from its cone *for the values that the unreplaced circuit gives its
inputs*. For any other vector, the old values, cut down to the nodes that are
left, satisfy the equations of the new circuit: a node that is not replaced
reads none that was removed, and a root has the value of its builder
(`ValuesKept`, `ConeHasValueOfRoot`). As the new circuit is acyclic they are
its values, and its outputs are those of the circuit of the round. So the sum of
local errors bounds what changed, however the cones feed and mask each other
(`EstimateIsABound`). What is wrong in the written circuit is wrong in the
circuit of the round, or changed (`WrongTriangle`); with the budget that each
replacement kept (`Budget`), `WrittenWithinTolerance` follows. It does not say
that a file is within the tolerance, which the code does not guarantee: what the
profile shows wrong in the circuit of the round, and the comparison did not
count, is added. That no cone hides an output, and that replaced cones are
disjoint, is `RoundInv`.

**KmapTheorems.** `CasesInv`: patterns are functions, and the result of case
`k` has the method that the operation of case `k` simplifies to. With the
tables written out, a simplified method agrees with its operation on every
term (`SimplifyingKeepsTheFunction`) and looks at no constant side
(`ConstantsAreIgnored`).

By `SumOfSums`, the errors of a map are the sum of those of its rows and of
those of its columns. Half an iteration chooses for each row, or column, the
value with fewer errors; by the sum over rows no other left function would be
better. `DivideInv` keeps this for the results and, in the second half of an
iteration, for the patterns (`OptimalInv`). A result is kept when neither half
changed anything, so both sides are optimal for each other
(`CasesAreOptimal`). Of two values that are equally bad the old one stays, hence a
change lowers the sum strictly (`ChangesLowerErrors`), which is why the loops
end. `RecordIsBest`
carries the least error over the rounds of `divide`.

`ExactInv` is about maps that an operation makes exactly. If the row a case
starts from tells the right function (`StartRow`, `Fits`), the first half finds
a left function without errors, and nothing without errors is ever left
(`Finds`). `DecomposableFits` derives this from what `ExactIsFound` says of the
map.

**DecomposeTheorems** begins with `MinSet`. `MInv`: `data` followed by `temp`
read from its back is strictly ordered by errors and then by turn, whatever
`push` has moved; no item is later than the last; nothing in `temp` belongs
before the new item; the sizes are bounded in each phase. It is inductive
because the sequence as a whole (`AllOf`) changes in only two places, where the
new item is put in and where the last is dropped (`AllMovedAway`,
`AllMovedBack`, `AllPushed`). Under this invariant `PushBack` is an `Offer`,
`PopBack` a `Take`, and every other step a stutter, which gives the refinement
`MinSetImplementsBestK` for every size and every set of errors.

Every step of `Decompose` is a step of `MinSet` or leaves it alone
(`StepOfMinSet`), so that both results carry over (`SetImplementsBestK`). `DInv` says of the vector that it holds the first
splits in order, and that each split taken is covered by the answer or was
passed over; and of the set, until something is taken, that a split not kept
comes after all that are, of which there are `len` (`AreFirst`, preserved by
`OfferKeepsFirst`). Counting the splits before one with injections
(`AheadIsLarge`, `AheadIsSmall`) turns this into `LeastAreKept` and, with what
is covered, into `AnswerIsBestOfAll`. The assumptions are those of the module;
`ShiftAssumption` is a fact about powers of two that the provers do not have,
and every run evaluates it.

**SearchTreeTheorems** is about trees that share nodes and searches that write
to them. `Inv` is `Good`, for the spaces that exist, and `ChainOK`. A space is
right (`SpaceOK`) if its tree is made of divisions of the function, each as the
node records it, and its errors are those of this tree. This alone is not
inductive: a child copies the tree with the pointers, so a leaf of the parent
may be divided by the child, and by its descendants, before the parent divides
it, or by two of them. `Agree` is what saves them: any two spaces with the same
leaf will divide it with the same method next (`NextMethod`: the method a space
has come to for the leaf that is its turn, 1 for every other), and the node was
not divided before or with that method. A division therefore writes what was
written already, or writes to a node that no space has divided (`OldSpaceKept`);
the dividing space, which goes on to another method, replaces the node by a
fresh one first (`ParentKept`). `GeneratedGood` is this step for the two spaces
it makes, and `SeriesGood` for the whole loop of `searchSpaceSeriesGenerate`.
`SearchTreeFunctions` follows: the record, and every space that is compared with
it, stays what it was when its errors were counted. `ChainOK` says that no
record means that the search has only gone down, hence no search ends with the
root for an answer unless the root cannot be divided (the bounded search
keeps every space until it has a record).

Ranges of functions and errors (`SearchTreeType`) come from `DivideType`, which
goes through the choices of `findBestMajorRow`, and from trees by their lowest
nodes (`LowestNode`): the function of a tree is a recursive function on its
nodes (`FinalValue`). That the answer is a decomposition (`SearchTreeAnswer`)
compares two recursions, that of the tree and that of `Approximations`. The
latter recurs on functions, and only exists because every division leaves both
sides an input: a method between 1 and `2^n - 2` has a bit that is 1 and one
that is 0 (`EqualBits`, `BothBits`, `ProperParts`).

`FullSearchMinimum` needs more: that nothing is lost while the search goes down
and back. `ComesTo` says of a space which approximations it may still come to:
those of its leaves put together with the operations of its divided nodes, where
the leaf whose turn it is has only the methods not yet used. A division splits
this into what the new space and the old one, a method further, come to
(`GeneratedComesTo`); divisions by other spaces and the removal of objects do
not touch it (`OthersComeTo`, `CollectedComesTo`); a space comes to nothing any
more when its methods are used up (`UsedUp`), and one that cannot be divided
comes to its own function only, which was compared with the record
(`LowestComesTo`). `FullOK` is inductive from these: each approximation is no
better than the record, or a space of the chain still comes to it.

**Only model-checked**: liveness (`Terminates`, `Returns`), which the prover
does not reach. Every other property of a passing run is a theorem. The four
findings are behaviours of the code and stay with TLC.

## 5. Not modelled, and why

- Functions of circuits by BDD, and `err_asses.cpp`, which compares them: no
  state. In `Sweep`, measured errors are choices.
- Generated and compiled simulators, file and process I/O, ABC, text of BLIF
  files (lines are records).
- The match in the database (`pre_decomp`, `decomp_small.cpp:120-160`): one
  loop over a generated file with floating-point weights. In all drivers the
  decomposer answers any match of a small set.
- What follows undefined behaviour in `filterMffcContainOutput` (`MffcDriver`
  stops there), and `findNextFFC`, `findNextNonIntersectFFC` and
  `exportPartialBlif`, which nothing calls.
- The number that `localErrorSim` returns in `mffc.cpp`, which is only printed.
- In the first version: searches by an explicit list of methods, printing and
  `generateBlifFile`; the destructor of a search tree that was not searched to
  its end (`clearData`).
- Sampling: how far a count of random patterns is from the truth. That two counts
  of the same circuit differ is modelled (`Draws`), how likely it is is not.
- Utilities, test programs, vendored libraries.

## 6. Plan

What would come next, in this order:

1. `PreDecomp`: the match with its rounded minimum, over a small abstract
   database.
2. The cofactor operations of `TTable`, and `replaceInputOrder`.
3. Functions in `Sweep`, as in `MffcDriver`: the last file, which is never
   measured, against the relaxed bound.
