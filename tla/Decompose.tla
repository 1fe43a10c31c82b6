------------------------------ MODULE Decompose -------------------------------
(***************************************************************************)
(* searchPrcoe of newApprox/src/algorithm_decompose.cpp: every way to      *)
(* split the inputs in two is tried on the Kmap; then the candidates are   *)
(* taken from the back of a vector, or of a MinSet in BFS_SEARCH, and the  *)
(* parts of each are decomposed in turn.                                   *)
(*                                                                         *)
(* One call is modelled.  What Kmap::divide says of a split (errorOf) and  *)
(* what becomes of it when the parts are decomposed by recursive calls     *)
(* (resultOf, the boolErrorCount of the recombined function) are any       *)
(* numbers: neither bounds the other, as the parts are approximated again. *)
(***************************************************************************)
EXTENDS MinSet

CONSTANTS
  InputSize,   \* bf.getInputSize()
  SmallSizes,  \* the sizes the small algorithm answers: 3..6
  Problems,    \* [mode, errorOf, resultOf]
  MAX_VALUE    \* more errors than any function has

\* The splits i with i % 2 = 1 of 1 .. 2^InputSize - 2, numbered from 1.
Splits == 1..(2^(InputSize - 1) - 1)
SplitOf(i) == (i + 1) \div 2

Modes == {"FULL_SEARCH", "BRANCH_AND_BOUND", "BFS_SEARCH", "BFS_SEARCH_PRE_WIDTH"}

ASSUME DecomposeAssumption ==
  /\ InputSize \in Nat \ ({0, 1} \cup SmallSizes)
  /\ len = InputSize
  /\ Problems \subseteq [mode : Modes, errorOf : [Splits -> Errors], resultOf : [Splits -> Nat]]
  /\ MAX_VALUE \in Nat
  /\ \A p \in Problems, k \in Splits : p.errorOf[k] < MAX_VALUE /\ p.resultOf[k] < MAX_VALUE

\* Arithmetic of shifts: with two inputs or more there is a split.
ASSUME ShiftAssumption ==
  2^(InputSize - 1) \in Nat \ {0, 1} /\ 2^InputSize = 2 * 2^(InputSize - 1)

VARIABLES
  problem,       \* the function to decompose, and ApplicatedMode
  i,             \* the loop variable; even values are skipped
  searchSeries,  \* the candidates of FULL_SEARCH and BRANCH_AND_BOUND
  best           \* bestApproximation: its errors, and the split (0: none yet)

vars == <<minSetVars, problem, i, searchSeries, best>>

mode == problem.mode
Dividing == i < 2^InputSize - 1

Candidate(k) == [errorCount |-> problem.errorOf[k], turn |-> k]

Init ==
  /\ MinSetInit
  /\ problem \in Problems
  /\ i = 1
  /\ searchSeries = <<>>
  /\ best = [errorCount |-> MAX_VALUE, turn |-> 0]

-----------------------------------------------------------------------------
\* An iteration of the first loop: the split is divided, and recorded as the
\* mode wants it.  (For BFS_SEARCH_PRE_WIDTH nothing is.)
Divide ==
  /\ step = "idle" /\ Dividing
  /\ i' = i + 2
  /\ searchSeries' = IF mode \in {"FULL_SEARCH", "BRANCH_AND_BOUND"}
                     THEN Append(searchSeries, Candidate(SplitOf(i))) ELSE searchSeries
  /\ IF mode = "BFS_SEARCH" THEN Push(problem.errorOf[SplitOf(i)]) ELSE UNCHANGED minSetVars
  /\ UNCHANGED <<problem, best>>

\* bfsSeries.push goes on.
InPush ==
  /\ PushSteps
  /\ UNCHANGED <<problem, i, searchSeries, best>>

\* Mutant of Pruned: a candidate that is better by one is passed over, too.
PrunedEarly(approx) ==
  mode = "BRANCH_AND_BOUND" /\ approx.errorCount + 1 >= best.errorCount

\* The continue of BRANCH_AND_BOUND.
Pruned(approx) == mode = "BRANCH_AND_BOUND" /\ approx.errorCount >= best.errorCount

\* The rest of the iteration: the parts are decomposed and combined again.
Try(approx) ==
  LET err == problem.resultOf[approx.turn]
  IN  best' = IF ~Pruned(approx) /\ err < best.errorCount
              THEN [errorCount |-> err, turn |-> approx.turn] ELSE best

\* An iteration of the second loop.
TakeFromSeries ==
  /\ step = "idle" /\ ~Dividing /\ mode \in {"FULL_SEARCH", "BRANCH_AND_BOUND"}
  /\ searchSeries # <<>>
  /\ searchSeries' = PopBackOf(searchSeries)
  /\ Try(Back(searchSeries))
  /\ UNCHANGED <<minSetVars, problem, i>>

TakeFromSet ==
  /\ step = "idle" /\ ~Dividing /\ mode = "BFS_SEARCH"
  /\ PopBack
  /\ Try(Back(data))
  /\ UNCHANGED <<problem, i, searchSeries>>

Done == step = "idle" /\ ~Dividing /\ data = <<>> /\ searchSeries = <<>>

Return ==
  /\ Done
  /\ UNCHANGED vars

Next == Divide \/ InPush \/ TakeFromSeries \/ TakeFromSet \/ Return

Spec == Init /\ [][Next]_vars

-----------------------------------------------------------------------------
TypeOK ==
  /\ problem \in Problems
  /\ i \in 1..(2^InputSize - 1)
  /\ searchSeries \in Seq(Item)
  /\ data \in Seq(Item) /\ temp \in Seq(Item)
  /\ step \in {"idle", "pop", "restore"}
  /\ step = "idle" => Len(data) <= InputSize
  /\ turn \in 0..Cardinality(Splits)
  /\ best \in [errorCount : Nat, turn : {0} \cup Splits]

\* When all splits are divided, the set has the InputSize of them with the
\* fewest errors, the first ones of a tie, until the first is taken.
KeptAreLeast ==
  mode = "BFS_SEARCH" /\ step = "idle" /\ ~Dividing /\ best.turn = 0 =>
    {data[n] : n \in DOMAIN data} =
      {Candidate(k) : k \in {j \in Splits :
         Cardinality({l \in Splits : BK!Before(Candidate(l), Candidate(j))}) < InputSize}}

\* What a mode may overlook: BRANCH_AND_BOUND a split that looked as bad as
\* the answer, BFS_SEARCH one that InputSize others came before.
MayOverlook(k) ==
  \/ mode = "BRANCH_AND_BOUND" /\ problem.errorOf[k] >= best.errorCount
  \/ /\ mode = "BFS_SEARCH"
     /\ Cardinality({l \in Splits : BK!Before(Candidate(l), Candidate(k))}) >= InputSize

\* The answer is no worse than any split the mode may not overlook; when the
\* estimate of a split is never above what becomes of it, BRANCH_AND_BOUND
\* finds the best there is.
AnswerIsBest ==
  Done /\ mode # "BFS_SEARCH_PRE_WIDTH" =>
    /\ best.turn \in Splits /\ best.errorCount = problem.resultOf[best.turn]
    /\ \A k \in Splits : best.errorCount <= problem.resultOf[k] \/ MayOverlook(k)
    /\ mode = "BRANCH_AND_BOUND" /\ (\A k \in Splits : problem.errorOf[k] <= problem.resultOf[k])
         => \A k \in Splits : best.errorCount <= problem.resultOf[k]
=============================================================================
