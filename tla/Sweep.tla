-------------------------------- MODULE Sweep --------------------------------
(***************************************************************************)
(* Stage 1 of driver/main.cpp, "Sweep Trivials".  A round takes the fanout *)
(* free cones of the current circuit, asks the decomposer for a cheaper    *)
(* approximation of each, keeps candidates that do not overlap, accepts    *)
(* them in the order of their error until the budget is used up, and       *)
(* writes the circuit with the accepted cones replaced.  The next round    *)
(* resynthesises that file and measures its error against the original.    *)
(*                                                                         *)
(* What is external is a choice: the decomposer may answer any match of    *)
(* Match, ABC may return any circuit of Nets, and the simulation of the    *)
(* replaced circuit may count any number of errors of Measured.  Functions *)
(* are not part of the module, only who reads whom and how many errors.    *)
(***************************************************************************)
EXTENDS Netlist, FfcFilters, Sequences

CONSTANTS
  Nets,         \* the circuits a round may start from
  Match,        \* [errorCount, nNode]: the answers of the decomposer
  Measured,     \* the error counts a simulation may return
  Tight,        \* TIGHT_ERROR_RATE * SIMULATION_SAMPLE
  Relaxed,      \* RELAXED_ERROR_RATE * SIMULATION_SAMPLE
  Rounds,       \* SWEEP_TRIVIAL_ROUND
  SizeMin, SizeMax,     \* filterMffcBySize: 3 and 20 inputs
  SelectMin, SelectMax, \* the lambda select: 3 and 6 inputs
  BonusNum, BonusDen    \* DEPTH_BONUS = BonusNum / BonusDen

ASSUME NetsAssumption == \A n \in Nets : IsNetlist(n) /\ Acyclic(n)

ASSUME SweepAssumption ==
  /\ Match \subseteq [errorCount : Nat, nNode : Nat]
  /\ Measured \subseteq Nat
  /\ Tight \in Nat /\ Relaxed \in Nat
  /\ Rounds \in Nat \ {0}
  /\ SizeMin \in Nat \ {0, 1} /\ SizeMax \in Nat
  /\ SelectMin \in Nat /\ SelectMax \in Nat

VARIABLES
  pc,               \* where main() is
  round,            \* i
  net,              \* *net
  currentErr,       \* currentErr
  mffcSet,          \* the FFCs still to be looked at
  replaceCandidate, \* the chosen FFCs with their weighted errors
  accepted,         \* how many of them are in ffc2replace and builder
  accumulatedErr,   \* accumulatedErr
  file              \* the circuit last written to TempPath

vars == <<pc, round, net, currentErr, mffcSet, replaceCandidate,
          accepted, accumulatedErr, file>>

-----------------------------------------------------------------------------
(***************************************************************************)
(* The selection loop: candidates are collected one FFC at a time.         *)
(***************************************************************************)

\* match.errorCount *= ratio: the product, as a size_t.  (The rounding of
\* float arithmetic is left out.)
IsWeighted(e, errorCount, depth) ==
  /\ e * BonusDen^depth <= errorCount * BonusNum^depth
  /\ errorCount * BonusNum^depth < (e + 1) * BonusDen^depth

Select(m) == Selectable(m, SelectMin, SelectMax)

\* A node no output depends on has no depth.
SkipUnobservable(ffc) ==
  /\ ffc.name \notin DOMAIN Depth2Output(net)
  /\ mffcSet' = FilterCurrentMffc(mffcSet, ffc)
  /\ UNCHANGED replaceCandidate

\* Too many errors, or a match of exactly the size of what it replaces.
Discard(ffc, match) ==
  /\ ffc.name \in DOMAIN Depth2Output(net)
  /\ \E e \in 0..match.errorCount :
       /\ IsWeighted(e, match.errorCount, Depth2Output(net)[ffc.name])
       /\ e > Relaxed \/ match.nNode = Cardinality(ffc.nodeSet)
  /\ mffcSet' = FilterCurrentMffc(mffcSet, ffc)
  /\ UNCHANGED replaceCandidate

PushCandidate(ffc, match) ==
  /\ ffc.name \in DOMAIN Depth2Output(net)
  /\ \E e \in 0..match.errorCount :
       /\ IsWeighted(e, match.errorCount, Depth2Output(net)[ffc.name])
       /\ ~(e > Relaxed)
       /\ match.nNode # Cardinality(ffc.nodeSet)
       /\ replaceCandidate' = Append(replaceCandidate, [ffc |-> ffc, errorCount |-> e])
  /\ mffcSet' = FilterMffcByIntersection(mffcSet, ffc)

\* One iteration of the loop of lines 122-162.
Examine ==
  /\ pc = "select"
  /\ \E r \in DOMAIN mffcSet :
       /\ IsFirst(r, Select(mffcSet))
       /\ \/ SkipUnobservable(mffcSet[r])
          \/ \E match \in Match : Discard(mffcSet[r], match)
          \/ \E match \in Match : PushCandidate(mffcSet[r], match)
  /\ UNCHANGED <<pc, round, net, currentErr, accepted, accumulatedErr, file>>

-----------------------------------------------------------------------------
(***************************************************************************)
(* The acceptance loop: candidates are taken in the order of their errors. *)
(***************************************************************************)

\* std::sort with compare: equal elements may end up in any order.
IsSorted(s) == \A i, j \in DOMAIN s : i < j => s[i].errorCount <= s[j].errorCount

Arrangements(s) ==
  {p \in [DOMAIN s -> DOMAIN s] : \A i, j \in DOMAIN s : p[i] = p[j] => i = j}

\* Mutant of SortCandidates: the candidates stay as they were found.
SortCandidatesNot ==
  /\ pc = "select"
  /\ Select(mffcSet) = {}
  /\ accepted' = 0
  /\ accumulatedErr' = currentErr
  /\ pc' = IF currentErr < Tight THEN "accept" ELSE "aborted"
  /\ UNCHANGED <<round, net, currentErr, mffcSet, replaceCandidate, file>>

\* Lines 165-173.  The assertion stops the program, the build keeps it.
SortCandidates ==
  /\ pc = "select"
  /\ Select(mffcSet) = {}
  /\ \E p \in Arrangements(replaceCandidate) :
       /\ replaceCandidate' = [i \in DOMAIN replaceCandidate |-> replaceCandidate[p[i]]]
       /\ IsSorted(replaceCandidate')
  /\ accepted' = 0
  /\ accumulatedErr' = currentErr
  /\ pc' = IF currentErr < Tight THEN "accept" ELSE "aborted"
  /\ UNCHANGED <<round, net, currentErr, mffcSet, file>>

\* Mutant of AcceptCandidate: the budget is not looked at.
AcceptUnchecked ==
  /\ pc = "accept"
  /\ accepted < Len(replaceCandidate)
  /\ accepted' = accepted + 1
  /\ accumulatedErr' = accumulatedErr + replaceCandidate[accepted + 1].errorCount
  /\ UNCHANGED <<pc, round, net, currentErr, mffcSet, replaceCandidate, file>>

\* Lines 174-182.
AcceptCandidate ==
  /\ pc = "accept"
  /\ accepted < Len(replaceCandidate)
  /\ ~(accumulatedErr > Tight)
  /\ accepted' = accepted + 1
  /\ accumulatedErr' = accumulatedErr + replaceCandidate[accepted + 1].errorCount
  /\ UNCHANGED <<pc, round, net, currentErr, mffcSet, replaceCandidate, file>>

\* The FFCs of ffc2replace.
Replaced == {replaceCandidate[i].ffc : i \in 1..accepted}

\* Mutant of ExportReplacedBlif: the vector of builders is out of step with
\* the vector of FFCs, and a root gets the body of another one.
ExportMispaired(n, ffcs) ==
  LET omits == UNION {f.nodeSet : f \in ffcs}
      roots == {f.name : f \in ffcs}
      body(r) == UNION {f.inputNode : f \in {g \in ffcs : g.name # r}}
  IN  [pi    |-> n.pi,
       po    |-> n.po,
       gate  |-> (n.gate \ omits) \cup roots,
       fanin |-> [g \in (n.gate \ omits) \cup roots |->
                    IF g \in roots THEN body(g) ELSE n.fanin[g]]]

\* exportReplacedBlif: the nodes of the replaced FFCs are left out, and the
\* bodies of the builders drive the roots again.  The fresh nodes inside a
\* body are folded into its root, which then reads all inputs of the FFC.
ExportReplacedBlif(n, ffcs) ==
  LET omits == UNION {f.nodeSet : f \in ffcs}
      roots == {f.name : f \in ffcs}
      body(r) == UNION {f.inputNode : f \in {g \in ffcs : g.name = r}}
  IN  [pi    |-> n.pi,
       po    |-> n.po,
       gate  |-> (n.gate \ omits) \cup roots,
       fanin |-> [g \in (n.gate \ omits) \cup roots |->
                    IF g \in roots THEN body(g) ELSE n.fanin[g]]]

\* Mutant of Export: the loop runs once more than SWEEP_TRIVIAL_ROUND.
ExportOneRoundMore ==
  /\ pc = "accept"
  /\ accepted = Len(replaceCandidate) \/ accumulatedErr > Tight
  /\ file' = ExportReplacedBlif(net, Replaced)
  /\ mffcSet' = <<>>
  /\ round' = round + 1
  /\ pc' = IF round < Rounds THEN "measure" ELSE "finished"
  /\ UNCHANGED <<net, currentErr, replaceCandidate, accepted, accumulatedErr>>

\* Line 183, and the end of the round, where mffcSet goes out of scope.
Export ==
  /\ pc = "accept"
  /\ accepted = Len(replaceCandidate) \/ accumulatedErr > Tight
  /\ file' = ExportReplacedBlif(net, Replaced)
  /\ mffcSet' = <<>>
  /\ round' = round + 1
  /\ pc' = IF round + 1 < Rounds THEN "measure" ELSE "finished"
  /\ UNCHANGED <<net, currentErr, replaceCandidate, accepted, accumulatedErr>>

-----------------------------------------------------------------------------
(***************************************************************************)
(* The beginning of a round.                                               *)
(***************************************************************************)

\* Lines 94-109: ABC rewrites the last file, and the result is simulated
\* against the original circuit.  Too many errors end the sweep.
Measure ==
  /\ pc = "measure"
  /\ net' \in Nets
  /\ file' = net'
  /\ currentErr' \in Measured
  /\ pc' = IF currentErr' > Tight THEN "finished" ELSE "collect"
  /\ UNCHANGED <<round, mffcSet, replaceCandidate, accepted, accumulatedErr>>

\* Mutant of CollectFfcs: the candidates of the last round are kept.
CollectWithoutReset ==
  /\ pc = "collect"
  /\ mffcSet' = FilterMffcBySize(GetFFC(net), SizeMin, SizeMax)
  /\ accepted' = 0
  /\ pc' = "select"
  /\ UNCHANGED <<round, net, currentErr, replaceCandidate, accumulatedErr, file>>

\* Lines 110-120.
CollectFfcs ==
  /\ pc = "collect"
  /\ mffcSet' = FilterMffcBySize(GetFFC(net), SizeMin, SizeMax)
  /\ replaceCandidate' = <<>>
  /\ accepted' = 0
  /\ pc' = "select"
  /\ UNCHANGED <<round, net, currentErr, accumulatedErr, file>>

Init ==
  /\ pc = "collect"
  /\ round = 0
  /\ net \in Nets
  /\ currentErr = 0
  /\ mffcSet = <<>>
  /\ replaceCandidate = <<>>
  /\ accepted = 0
  /\ accumulatedErr = 0
  /\ file = net

Next ==
  \/ Measure
  \/ CollectFfcs
  \/ Examine
  \/ SortCandidates
  \/ AcceptCandidate
  \/ Export

\* The program is one thread that runs until it ends.
Spec == Init /\ [][Next]_vars /\ WF_vars(Next)

-----------------------------------------------------------------------------
(***************************************************************************)
(* Correctness.                                                            *)
(***************************************************************************)

FfcRecord == [name : Nat, nodeSet : SUBSET Nat, inputNode : SUBSET Nat]

\* The variables of main() stay in their ranges.
TypeOK ==
  /\ pc \in {"measure", "collect", "select", "accept", "finished", "aborted"}
  /\ round \in 0..Rounds
  /\ IsNetlist(net)
  /\ currentErr \in Nat
  /\ DOMAIN mffcSet \subseteq Node(net)
  /\ \A r \in DOMAIN mffcSet : mffcSet[r] \in FfcRecord
  /\ replaceCandidate \in Seq([ffc : FfcRecord, errorCount : Nat])
  /\ accepted \in 0..Len(replaceCandidate)
  /\ accumulatedErr \in Nat

\* What is still to be looked at are FFCs of the circuit of this round.
FfcsOfRound ==
  LET cone == FaninSet(net)
  IN  \A r \in DOMAIN mffcSet :
        mffcSet[r] = Ffc(net, cone, r) /\ InputCount(mffcSet[r]) >= SizeMin

Cand(i) == replaceCandidate[i].ffc

\* So are the candidates, no two of which share a node, and none of which
\* shares a node with what is still to be looked at: two rounds never mix,
\* and an FFC chosen later never meets one chosen before.
CandidatesOfRound ==
  pc \in {"select", "accept", "aborted"} =>
    LET cone == FaninSet(net)
    IN  \A i \in DOMAIN replaceCandidate :
          /\ Cand(i).name \in Node(net)
          /\ Cand(i) = Ffc(net, cone, Cand(i).name)
          /\ InputCount(Cand(i)) >= SizeMin
          /\ \A j \in DOMAIN replaceCandidate :
               i # j => Cand(i).nodeSet \cap Cand(j).nodeSet = {}
          /\ \A r \in DOMAIN mffcSet : Cand(i).nodeSet \cap mffcSet[r].nodeSet = {}

\* Two candidates of a round can be replaced together: neither removes a
\* node of the other, and neither reads a node that the other removes and
\* does not drive again (lines 45-64 of filter_mffc.cpp only compare the
\* node sets; that nothing inside a cone is read from outside is left to
\* getMffcSet).
Independent ==
  \A i, j \in DOMAIN replaceCandidate :
     i # j =>
       /\ Cand(i).nodeSet \cap Cand(j).nodeSet = {}
       /\ Cand(i).nodeSet \cap Cand(j).inputNode \subseteq {Cand(i).name}

\* Every signal that the written circuit reads is one it drives, although
\* exportReplacedBlif drops whole node sets and never looks at the readers.
FileClosed == file.fanin \in [file.gate -> SUBSET Node(file)]

\* Replacing several cones at once closes no combinational cycle: each body
\* only reads the inputs its own FFC had.
FileAcyclic == Acyclic(file)

\* The estimate of the round passes the tight bound by the error of the
\* last accepted candidate at most, and that candidate passed RELAXED.
Overshoot ==
  pc \in {"accept", "measure", "finished"} /\ accepted > 0 =>
    /\ accumulatedErr <= Tight + replaceCandidate[accepted].errorCount
    /\ replaceCandidate[accepted].errorCount <= Relaxed

\* No candidate is left out while a dearer one is taken, and one is left
\* out only when the budget is used up.
CheapestFirst ==
  /\ pc \in {"accept", "measure", "finished"} =>
       \A i \in 1..accepted :
         \A j \in DOMAIN replaceCandidate :
           j > accepted => replaceCandidate[i].errorCount <= replaceCandidate[j].errorCount
  /\ pc = "measure" /\ accepted < Len(replaceCandidate) => accumulatedErr > Tight

\* Each iteration of the selection loop, which has no bound of its own,
\* removes an entry of the map, and none is ever added.
SelectionShrinks ==
  [][pc = "select" /\ pc' = "select" =>
        DOMAIN mffcSet' \subseteq DOMAIN mffcSet /\ DOMAIN mffcSet' # DOMAIN mffcSet]_vars

\* The sweep comes to an end.
Terminates == <>(pc \in {"finished", "aborted"})

\* The written circuit drives each of the outputs it lists.  The other
\* drivers erase the cones that contain an output (filterMffcContainOutput,
\* line 27 of filter_mffc.cpp); main() does not call that filter.
OutputsDriven == file.po \subseteq Node(file)

\* The assertion of line 173.
BelowTightBeforeAccepting == pc # "aborted"
=============================================================================
