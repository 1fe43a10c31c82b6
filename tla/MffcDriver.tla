------------------------------ MODULE MffcDriver ------------------------------
(***************************************************************************)
(* driver/mffc.cpp: rounds that replace fanout free cones by approximations*)
(* as long as the errors stay within a tolerance.  A round simulates the   *)
(* circuit against the original one, and then only adds up: the errors of  *)
(* an approximation are counted at the root of its cone, from the profile  *)
(* that was taken of the circuit before any replacement.  Nobody simulates *)
(* the replaced circuit before the next round; the first cone that may be  *)
(* replaced is, and the budget is all that keeps the circuit correct.      *)
(*                                                                         *)
(* Circuits have functions here: fn[g] is the set of the sets of fanins of *)
(* g that make it 1, size[g] the number of nodes that g stands for, as the *)
(* body of a builder is one gate.  Each simulation draws input vectors of  *)
(* its own: what a round measures at its start, and what it adds up from   *)
(* its profile, are counts over different vectors.                         *)
(***************************************************************************)
EXTENDS Netlist, FfcFilters, FiniteSetsExt, Sequences

CONSTANTS
  Circuits,             \* the original circuits
  Answers(_, _),        \* what the decomposer may answer for a function
  SimRound,             \* SIM_ROUND, the input vectors of a simulation
  Draws(_),             \* the vectors a simulation may draw for these inputs
  Tolerance,            \* SIM_ROUND * TOLLENT_RATE
  Rounds,               \* bounds the number of rounds
  SizeMin, SizeMax,     \* filterMffcBySize: 3 and 20 inputs
  SelectMin, SelectMax  \* the lambda select: 3 and 8 inputs

IsCircuit(c) ==
  /\ IsNetlist(c) /\ Acyclic(c) /\ IsFiniteSet(Node(c))
  /\ DOMAIN c.fn = c.gate /\ \A g \in c.gate : c.fn[g] \subseteq SUBSET c.fanin[g]
  /\ c.size \in [c.gate -> Nat \ {0}]

ASSUME DriverAssumption ==
  /\ \A c \in Circuits : IsCircuit(c)
  /\ \A c \in Circuits : \A draw \in Draws(c.pi) : draw \in [1..SimRound -> SUBSET c.pi]
  /\ SimRound \in Nat /\ Tolerance \in Nat /\ Rounds \in Nat \ {0}
  /\ SizeMin \in Nat \ {0, 1} /\ SizeMax \in Nat /\ SelectMin \in Nat /\ SelectMax \in Nat

VARIABLES
  pc,                \* where main() is
  round,             \* i
  initNet,           \* initNet
  net,               \* unmodedNet
  unmodedSimResult,  \* the input vectors of the profile
  res,               \* res.nErrors of line 96, the errors measured
  nowError,          \* nowError
  ffcs,              \* ffcs, the map of the cones
  replaced,          \* ffcSet and blifSet: [ffc, fun, nLine]
  file               \* the circuit that was written last

simulated == <<unmodedSimResult, res>>
vars == <<pc, round, initNet, net, simulated, nowError, ffcs, replaced, file>>

-----------------------------------------------------------------------------
(***************************************************************************)
(* Simulation.                                                             *)
(***************************************************************************)

\* circuit(): the nodes that are 1 for the input vector a.
Ones(c, a) ==
  LET one[n \in Node(c)] ==
        IF n \in c.pi THEN n \in a ELSE {m \in c.fanin[n] : one[m]} \in c.fn[n]
  IN  {n \in Node(c) : one[n]}

\* compareBySimulation: a vector counts once, however many outputs differ.
CompareBySimulation(draw, c, d) ==
  Cardinality({j \in DOMAIN draw : Ones(c, draw[j]) \cap c.po # Ones(d, draw[j]) \cap d.po})

\* exportFfcToBlifFile and truthTable: the cone as a circuit of its own.
IsOneInCone(c, ffc, b) ==
  LET one[n \in ffc.nodeSet \cup ffc.inputNode] ==
        IF n \in ffc.inputNode THEN n \in b ELSE {m \in c.fanin[n] : one[m]} \in c.fn[n]
  IN  one[ffc.name]

TruthTable(c, ffc) == {b \in SUBSET ffc.inputNode : IsOneInCone(c, ffc, b)}

\* Mutant of CountMatchError: only the terms that were on are counted.
CountLostTerms(draw, c, ffc, table, fun) ==
  Cardinality({j \in DOMAIN draw : Ones(c, draw[j]) \cap ffc.inputNode \in table \ fun})

\* countMatchError: the vectors of the profile for which the inputs of the cone
\* have a value the functions differ in.
CountMatchError(draw, c, ffc, table, fun) ==
  LET diff == (table \ fun) \cup (fun \ table)
  IN  Cardinality({j \in DOMAIN draw : Ones(c, draw[j]) \cap ffc.inputNode \in diff})

\* internalNodeSet: what bodies drive inside counts as well.
InternalCount(c) ==
  MapThenSumSet(LAMBDA g : c.size[g], c.gate) - Cardinality(c.po \cap c.gate)

\* The position of r among the internal nodes of c, which are in the order of
\* their names: the generated names inside of bodies come anywhere.
InternalPositions(c, r) ==
  LET first == Cardinality({g \in c.gate \ c.po : g < r})
  IN  first..(first + InternalCount(c) - Cardinality(c.gate \ c.po))

\* localErrorSim, asked for lastFfcNode: an internal node is looked up by its
\* position in this circuit among the values of the original one, by at().
\* Before anything was replaced the name is not found, and the first input is
\* compared.
LocalErrorSim(c, orig, rs) ==
  IF rs = <<>> \/ rs[Len(rs)].ffc.name \in c.po
  THEN {"returns"}
  ELSE {IF position < InternalCount(orig) THEN "returns" ELSE "throws" :
          position \in InternalPositions(c, rs[Len(rs)].ffc.name)}

-----------------------------------------------------------------------------
Init ==
  /\ pc = "load"
  /\ round = 0
  /\ initNet \in Circuits
  /\ net = initNet
  /\ unmodedSimResult = <<>>
  /\ res = 0
  /\ nowError = 0
  /\ ffcs = <<>>
  /\ replaced = <<>>
  /\ file = initNet

\* Lines 87-97: the file is loaded, profiled, and compared with the original.
Simulate ==
  /\ round' = round + 1
  /\ net' = file
  /\ unmodedSimResult' \in Draws(file.pi)
  /\ \E draw \in Draws(file.pi) : res' = CompareBySimulation(draw, file, initNet)
  /\ nowError' = res'

\* Lines 101-118.  filterMffcContainOutput goes on with erased iterators as
\* soon as it erases a cone: what the program does then is undefined.
CollectFfcs ==
  /\ ffcs' = FilterMffcBySize(GetFFC(file), SizeMin, SizeMax)
  /\ \E outcome \in LocalErrorSim(file, initNet, replaced) :
       pc' = CASE ContainOutput(ffcs', file.po) # {} -> "undefined"
               [] ContainOutput(ffcs', file.po) = {} /\ outcome = "throws" -> "aborted"
               [] OTHER -> "select"

\* Mutant of Load: the replacements of the last round are kept.
LoadKeepingReplaced ==
  /\ pc = "load" /\ round < Rounds
  /\ Simulate
  /\ CollectFfcs
  /\ UNCHANGED <<initNet, replaced, file>>

\* Lines 80-118, the beginning of a round.
Load ==
  /\ pc = "load" /\ round < Rounds
  /\ Simulate
  /\ CollectFfcs
  /\ replaced' = <<>>
  /\ UNCHANGED <<initNet, file>>

Select(m) == Selectable(m, SelectMin, SelectMax)

\* The approximation is exactly as large as the cone.
RefuseSize(ffc, answer) ==
  /\ answer.nNode = MapThenSumSet(LAMBDA g : net.size[g], ffc.nodeSet)
  /\ ffcs' = FilterCurrentMffc(ffcs, ffc)
  /\ UNCHANGED <<pc, replaced, nowError>>

\* Mutant of Exceeds: the errors of the round so far are forgotten.
ExceedsAlone(error) == error > Tolerance

Exceeds(error) == nowError + error > Tolerance

RefuseError(ffc, answer, error) ==
  /\ answer.nNode # MapThenSumSet(LAMBDA g : net.size[g], ffc.nodeSet)
  /\ Exceeds(error)
  /\ ffcs' = FilterCurrentMffc(ffcs, ffc)
  /\ UNCHANGED <<pc, replaced, nowError>>

\* Lines 167-218.  throwFalse stops the program when the netlist that the
\* decomposer built is not the function it answered.
Accept(ffc, answer, error) ==
  /\ answer.nNode # MapThenSumSet(LAMBDA g : net.size[g], ffc.nodeSet)
  /\ ~Exceeds(error)
  /\ nowError' = nowError + error
  /\ IF answer.agrees
     THEN /\ replaced' = Append(replaced, [ffc |-> ffc, fun |-> answer.fun, nLine |-> answer.nLine])
          /\ ffcs' = FilterMffcByIntersection(ffcs, ffc)
          /\ UNCHANGED pc
     ELSE /\ pc' = "aborted"
          /\ UNCHANGED <<replaced, ffcs>>

\* What any decomposer answers for a function of these inputs: a function of
\* the same inputs, the gates of its netlist (data.size(), which is 0 for a
\* wire or a constant), the signals that the netlist drives, and whether the
\* netlist is of that function.
AnswersOver(inputs) ==
  [fun : SUBSET SUBSET inputs, nNode : Nat, nLine : Nat \ {0}, agrees : BOOLEAN]

\* One iteration of the loop of lines 121-220.
Examine ==
  /\ pc = "select"
  /\ \E r \in DOMAIN ffcs :
       /\ IsFirst(r, Select(ffcs))
       /\ LET ffc   == ffcs[r]
              table == TruthTable(net, ffc)
          IN  \E answer \in Answers(table, ffc.inputNode) \cap AnswersOver(ffc.inputNode) :
                LET error == CountMatchError(unmodedSimResult, net, ffc, table, answer.fun)
                IN  \/ RefuseSize(ffc, answer)
                    \/ RefuseError(ffc, answer, error)
                    \/ Accept(ffc, answer, error)
  /\ UNCHANGED <<round, initNet, net, simulated, file>>

\* The builder that drives the root r.
Replacement(rs, r) == rs[CHOOSE k \in DOMAIN rs : rs[k].ffc.name = r]

\* exportReplacedBlif
ExportReplacedBlif(c, rs) ==
  LET omits == UNION {rs[k].ffc.nodeSet : k \in DOMAIN rs}
      roots == {rs[k].ffc.name : k \in DOMAIN rs}
      gates == (c.gate \ omits) \cup roots
  IN  [pi    |-> c.pi,
       po    |-> c.po,
       gate  |-> gates,
       fanin |-> [g \in gates |-> IF g \in roots THEN Replacement(rs, g).ffc.inputNode
                                  ELSE c.fanin[g]],
       fn    |-> [g \in gates |-> IF g \in roots THEN Replacement(rs, g).fun ELSE c.fn[g]],
       size  |-> [g \in gates |-> IF g \in roots THEN Replacement(rs, g).nLine
                                  ELSE c.size[g]]]

\* Lines 222-236: flag is set when a cone was replaced.
Export ==
  /\ pc = "select"
  /\ Select(ffcs) = {}
  /\ file' = ExportReplacedBlif(net, replaced)
  /\ pc' = IF replaced # <<>> THEN "load" ELSE "finished"
  /\ UNCHANGED <<round, initNet, net, simulated, nowError, ffcs, replaced>>

Next == Load \/ Examine \/ Export

Spec == Init /\ [][Next]_vars

-----------------------------------------------------------------------------
\* The variables stay in their ranges, and circuits without cycles are read
\* and written.
TypeOK ==
  /\ pc \in {"load", "select", "finished", "aborted", "undefined"}
  /\ round \in 0..Rounds
  /\ initNet \in Circuits
  /\ IsCircuit(net) /\ IsCircuit(file)
  /\ unmodedSimResult \in Seq(SUBSET initNet.pi)
  /\ res \in Nat /\ nowError \in Nat
  /\ DOMAIN ffcs \subseteq Node(net)
  /\ \A k \in DOMAIN replaced : replaced[k].ffc = Ffc(net, FaninSet(net), replaced[k].ffc.name)

\* What a round adds to the errors it measured bounds what it changes: of the
\* vectors of its profile, the outputs of the circuit with all cones replaced
\* differ from those of the circuit of the round for no more than were counted
\* cone by cone (lines 137-168), although a cone that reads another one, or
\* masks it, was counted with the values it had before.  The vectors the errors
\* were measured with are others, and so are those of the next round.
ErrorWithinEstimate ==
  pc \in {"load", "finished"} =>
    res + CompareBySimulation(unmodedSimResult, file, net) <= nowError

\* A round that replaces anything keeps its sum within the tolerance, and writes
\* a circuit that passes the tolerance, counted with the vectors of its profile,
\* by no more than what the circuit of the round had wrong for these vectors and
\* not for those it was measured with (lines 93-97 and 159-160).
WithinTolerance ==
  pc \in {"load", "finished"} /\ replaced # <<>> =>
    /\ nowError <= Tolerance
    /\ res + CompareBySimulation(unmodedSimResult, file, initNet)
         <= Tolerance + CompareBySimulation(unmodedSimResult, net, initNet)
=============================================================================
