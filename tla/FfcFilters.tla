----------------------------- MODULE FfcFilters -----------------------------
(***************************************************************************)
(* driver/filter_mffc.cpp: what the drivers do with the std::map from node *)
(* name to FFC that getFFC returned.  A map is a function whose domain is  *)
(* its set of keys; its order is the order of the names.                   *)
(***************************************************************************)
EXTENDS Naturals, FiniteSets

\* The map m with only the entries whose keys are in S.
Keep(m, S) == [r \in S |-> m[r]]

InputCount(ffc) == Cardinality(ffc.inputNode)

FilterMffcBySize(m, least, most) ==
  Keep(m, {r \in DOMAIN m : InputCount(m[r]) >= least /\ InputCount(m[r]) <= most})

\* Mutant of FilterMffcByIntersection: the root does not count as shared.
FilterMffcByInnerNodes(m, prev) ==
  Keep(m, {r \in DOMAIN m : m[r].nodeSet \cap (prev.nodeSet \ {prev.name}) = {}})

FilterMffcByIntersection(m, prev) ==
  Keep(m, {r \in DOMAIN m : m[r].nodeSet \cap prev.nodeSet = {}})

\* Mutant of FilterCurrentMffc: the inputs of the FFC are erased instead of
\* its root.
FilterInputsOfMffc(m, curr) == Keep(m, DOMAIN m \ curr.inputNode)

FilterCurrentMffc(m, curr) == Keep(m, DOMAIN m \ {curr.name})

\* The FFCs that filterMffcContainOutput would erase: those with an output,
\* other than the root, among their nodes.
ContainOutput(m, output) ==
  {r \in DOMAIN m : \E out \in output \ {r} : out \in m[r].nodeSet}

\* The keys that findFirstFFC could return, and the one it does return:
\* the first in the order of the map.
Selectable(m, least, most) ==
  {r \in DOMAIN m : InputCount(m[r]) >= least /\ InputCount(m[r]) <= most}

IsFirst(r, S) == r \in S /\ \A s \in S : r <= s
=============================================================================
