---------------------------- MODULE NetAlgorithms ----------------------------
(***************************************************************************)
(* The loops of circuit/net_algorithms.cpp that compute, for a loaded      *)
(* circuit, what module Netlist defines outright: topologicalSort (Kahn's  *)
(* algorithm with a first-in first-out queue), getFaninSet (one pass in    *)
(* topological order), getMffcSet (one pass in reverse order that shrinks  *)
(* the cones in place, while it reads the cones of other nodes), and       *)
(* depth2Output (a depth-first search that visits a node again whenever it *)
(* finds a shorter way).                                                   *)
(*                                                                         *)
(* The order of the nodes in the file is the order of their numbers; as a  *)
(* run takes every wiring, it also takes every order of a wiring.          *)
(***************************************************************************)
EXTENDS Netlist, Sequences, SequencesExt

CONSTANT Circuits

ASSUME CircuitsAssumption ==
  \A n \in Circuits : IsNetlist(n) /\ Acyclic(n) /\ IsFiniteSet(Node(n))

VARIABLES
  pc,             \* which function runs
  net,
  sortingQueue,   \* topologicalSort: the nodes ready to be listed
  indegreeTable,  \*   the fanins of each node that are not listed yet
  sortedList,     \*   the result
  faninNetwork,   \* getFaninSet and getMffcSet: the cones
  position,       \*   the loop's position in sortedList
  distance,       \* depth2Output: the map under construction
  frames,         \*   the active calls of recur, the innermost last
  outputs         \*   the outputs the last loop has still to visit

vars == <<pc, net, sortingQueue, indegreeTable, sortedList, faninNetwork,
          position, distance, frames, outputs>>

SortUnchanged == UNCHANGED <<sortingQueue, indegreeTable, sortedList>>
ConesUnchanged == UNCHANGED <<faninNetwork, position>>
DepthUnchanged == UNCHANGED <<distance, frames, outputs>>

\* The nodes of S in the order of their names.
InOrder(S) ==
  [k \in 1..Cardinality(S) |-> CHOOSE n \in S : Cardinality({m \in S : m < n}) = k - 1]

\* f with the entry k |-> v added or replaced.
With(f, k, v) == [x \in DOMAIN f \cup {k} |-> IF x = k THEN v ELSE f[x]]

-----------------------------------------------------------------------------
Init ==
  /\ pc = "sort"
  /\ net \in Circuits
  /\ indegreeTable = [n \in Node(net) |-> Cardinality(FaninOf(net, n))]
  /\ sortingQueue = InOrder({n \in Node(net) : FaninOf(net, n) = {}})
  /\ sortedList = <<>>
  /\ faninNetwork = <<>>
  /\ position = 1
  /\ distance = <<>>
  /\ frames = <<>>
  /\ outputs = InOrder(net.po)

\* Mutant of ListNode: a node is queued for each of its fanins.
ListNodeEveryTime ==
  /\ pc = "sort"
  /\ sortingQueue # <<>>
  /\ LET pnode == Head(sortingQueue)
         fanouts == Fanouts(net, pnode)
         ready == fanouts
     IN  /\ sortedList' = Append(sortedList, pnode)
         /\ indegreeTable' = [g \in DOMAIN indegreeTable |->
                                IF g \in fanouts THEN indegreeTable[g] - 1
                                ELSE indegreeTable[g]]
         /\ sortingQueue' = Tail(sortingQueue) \o InOrder(ready)
  /\ UNCHANGED <<pc, net>> /\ ConesUnchanged /\ DepthUnchanged

\* Mutant of ListNode: a node is queued for the first of its fanins.
ListNodeAtFirst ==
  /\ pc = "sort"
  /\ sortingQueue # <<>>
  /\ LET pnode == Head(sortingQueue)
         fanouts == Fanouts(net, pnode)
         ready == {g \in fanouts : indegreeTable[g] = Cardinality(FaninOf(net, g))}
     IN  /\ sortedList' = Append(sortedList, pnode)
         /\ indegreeTable' = [g \in DOMAIN indegreeTable |->
                                IF g \in fanouts THEN indegreeTable[g] - 1
                                ELSE indegreeTable[g]]
         /\ sortingQueue' = Tail(sortingQueue) \o InOrder(ready)
  /\ UNCHANGED <<pc, net>> /\ ConesUnchanged /\ DepthUnchanged

\* One iteration of the while loop of topologicalSort.
ListNode ==
  /\ pc = "sort"
  /\ sortingQueue # <<>>
  /\ LET pnode == Head(sortingQueue)
         fanouts == Fanouts(net, pnode)
         ready == {g \in fanouts : indegreeTable[g] = 1}
     IN  /\ sortedList' = Append(sortedList, pnode)
         /\ indegreeTable' = [g \in DOMAIN indegreeTable |->
                                IF g \in fanouts THEN indegreeTable[g] - 1
                                ELSE indegreeTable[g]]
         /\ sortingQueue' = Tail(sortingQueue) \o InOrder(ready)
  /\ UNCHANGED <<pc, net>> /\ ConesUnchanged /\ DepthUnchanged

SortDone ==
  /\ pc = "sort"
  /\ sortingQueue = <<>>
  /\ pc' = "fanin"
  /\ UNCHANGED net /\ SortUnchanged /\ ConesUnchanged /\ DepthUnchanged

\* Mutant of CollectCone: the fanins are added and their cones are not.
CollectFanins ==
  /\ pc = "fanin"
  /\ position <= Len(sortedList)
  /\ LET n == sortedList[position]
     IN  faninNetwork' = With(faninNetwork, n, {n} \cup FaninOf(net, n))
  /\ position' = position + 1
  /\ UNCHANGED <<pc, net>> /\ SortUnchanged /\ DepthUnchanged

\* One iteration of getFaninSet; map::at needs the cones of the inputs.
CollectCone ==
  /\ pc = "fanin"
  /\ position <= Len(sortedList)
  /\ LET n == sortedList[position]
     IN  faninNetwork' =
           With(faninNetwork, n, {n} \cup UNION {faninNetwork[m] : m \in FaninOf(net, n)})
  /\ position' = position + 1
  /\ UNCHANGED <<pc, net>> /\ SortUnchanged /\ DepthUnchanged

FaninDone ==
  /\ pc = "fanin"
  /\ position > Len(sortedList)
  /\ pc' = "mffc"
  /\ position' = Len(sortedList)
  /\ UNCHANGED <<net, faninNetwork>> /\ SortUnchanged /\ DepthUnchanged

\* One iteration of getMffcSet, from the last node of the list to the first.
\* The cones of the escaping nodes are read from the map being changed.
\* (toBeErased never holds nodeID in an acyclic circuit, so that the test of
\* line 179 never skips anything.)
ShrinkCone ==
  /\ pc = "mffc"
  /\ position >= 1
  /\ LET n == sortedList[position]
     IN  faninNetwork' = [faninNetwork EXCEPT ![n] = Mffc(net, faninNetwork, n)]
  /\ position' = position - 1
  /\ UNCHANGED <<pc, net>> /\ SortUnchanged /\ DepthUnchanged

MffcDone ==
  /\ pc = "mffc"
  /\ position = 0
  /\ pc' = "depth"
  /\ UNCHANGED net /\ SortUnchanged /\ ConesUnchanged /\ DepthUnchanged

-----------------------------------------------------------------------------
\* The frame of a call recur(name, curr).
Frame(name, curr) ==
  [name |-> name, curr |-> curr, inputs |-> InOrder(FaninOf(net, name))]

\* Mutant of VisitOutput: the loop does not advance.
VisitOutputForever ==
  /\ pc = "depth"
  /\ frames = <<>>
  /\ outputs # <<>>
  /\ distance' = With(distance, Head(outputs), 0)
  /\ frames' = <<Frame(Head(outputs), 0)>>
  /\ UNCHANGED <<pc, net, outputs>> /\ SortUnchanged /\ ConesUnchanged

\* The loop over the outputs.  A call overwrites the distance at once.
VisitOutput ==
  /\ pc = "depth"
  /\ frames = <<>>
  /\ outputs # <<>>
  /\ distance' = With(distance, Head(outputs), 0)
  /\ frames' = <<Frame(Head(outputs), 0)>>
  /\ outputs' = Tail(outputs)
  /\ UNCHANGED <<pc, net>> /\ SortUnchanged /\ ConesUnchanged

\* Mutant of VisitInput: a node is visited once, however short the way.
VisitInputOnce ==
  /\ pc = "depth"
  /\ frames # <<>>
  /\ LET top  == Last(frames)
         rest == Append(Front(frames), [top EXCEPT !.inputs = Tail(top.inputs)])
         m    == Head(top.inputs)
         d    == top.curr + 1
     IN  /\ top.inputs # <<>>
         /\ IF m \in DOMAIN distance
            THEN frames' = rest /\ UNCHANGED distance
            ELSE /\ distance' = With(distance, m, d)
                 /\ frames' = Append(rest, Frame(m, d))
  /\ UNCHANGED <<pc, net, outputs>> /\ SortUnchanged /\ ConesUnchanged

\* Mutant of VisitInput: a longer way overwrites a shorter one.
VisitInputAlways ==
  /\ pc = "depth"
  /\ frames # <<>>
  /\ LET top  == Last(frames)
         rest == Append(Front(frames), [top EXCEPT !.inputs = Tail(top.inputs)])
         m    == Head(top.inputs)
         d    == top.curr + 1
     IN  /\ top.inputs # <<>>
         /\ IF m \in DOMAIN distance /\ distance[m] = d
            THEN frames' = rest /\ UNCHANGED distance
            ELSE /\ distance' = With(distance, m, d)
                 /\ frames' = Append(rest, Frame(m, d))
  /\ UNCHANGED <<pc, net, outputs>> /\ SortUnchanged /\ ConesUnchanged

\* One iteration of the loop over the inputs of the innermost call.
VisitInput ==
  /\ pc = "depth"
  /\ frames # <<>>
  /\ LET top  == Last(frames)
         rest == Append(Front(frames), [top EXCEPT !.inputs = Tail(top.inputs)])
         m    == Head(top.inputs)
         d    == top.curr + 1
     IN  /\ top.inputs # <<>>
         /\ IF m \in DOMAIN distance /\ distance[m] <= d
            THEN frames' = rest /\ UNCHANGED distance
            ELSE /\ distance' = With(distance, m, d)
                 /\ frames' = Append(rest, Frame(m, d))
  /\ UNCHANGED <<pc, net, outputs>> /\ SortUnchanged /\ ConesUnchanged

Return ==
  /\ pc = "depth"
  /\ frames # <<>>
  /\ Last(frames).inputs = <<>>
  /\ frames' = Front(frames)
  /\ UNCHANGED <<pc, net, distance, outputs>> /\ SortUnchanged /\ ConesUnchanged

DepthDone ==
  /\ pc = "depth"
  /\ frames = <<>> /\ outputs = <<>>
  /\ pc' = "done"
  /\ UNCHANGED net /\ SortUnchanged /\ ConesUnchanged /\ DepthUnchanged

Next ==
  \/ ListNode \/ SortDone
  \/ CollectCone \/ FaninDone
  \/ ShrinkCone \/ MffcDone
  \/ VisitOutput \/ VisitInput \/ Return \/ DepthDone

\* A sequence of calls in one thread.  Every action changes one of the four
\* variables of the subscript, which is cheaper to check than vars.
Spec == Init /\ [][Next]_vars /\ WF_<<pc, position, sortedList, frames>>(Next)

-----------------------------------------------------------------------------
\* The variables of the four functions stay in their ranges.
TypeOK ==
  /\ pc \in {"sort", "fanin", "mffc", "depth", "done"}
  /\ DOMAIN indegreeTable = Node(net)
  /\ \A n \in Node(net) : indegreeTable[n] \in 0..Cardinality(FaninOf(net, n))
  /\ DOMAIN faninNetwork \subseteq Node(net)
  /\ \A n \in DOMAIN faninNetwork : faninNetwork[n] \subseteq Node(net)
  /\ position \in 0..(Len(sortedList) + 1)
  /\ DOMAIN distance \subseteq Node(net)

\* topologicalSort lists every node once, after all it reads.
SortedTopologically ==
  pc # "sort" =>
    /\ ToSet(sortedList) = Node(net)
    /\ Len(sortedList) = Cardinality(Node(net))
    /\ \A i, j \in DOMAIN sortedList :
         sortedList[i] \in FaninOf(net, sortedList[j]) => i < j

\* getFaninSet computes the cones that Netlist defines.
ConesComplete == pc = "mffc" /\ position = Len(sortedList) => faninNetwork = FaninSet(net)

\* The sets without an escape: everything in S but n is read inside S only.
FanoutFree(n, S) == n \in S /\ \A m \in S \ {n} : Fanouts(net, m) \subseteq S

\* getMffcSet leaves for each node its maximum fanout free cone, the largest
\* part of its cone that nothing outside reads, although it shrinks the
\* cones while it still reads them.
ConesMaximal ==
  pc \in {"depth", "done"} =>
    LET cone == FaninSet(net)
    IN  \A n \in Node(net) :
          faninNetwork[n] = UNION {S \in SUBSET cone[n] : FanoutFree(n, S)}

\* When the search ends, each node an output depends on has the length of
\* its shortest way to an output, and no other node has an entry.
DepthsShortest == pc = "done" => distance = Depth2Output(net)

\* A second visit of a node only ever shortens its distance.
DepthsDecrease ==
  [][\A n \in DOMAIN distance : n \in DOMAIN distance' /\ distance'[n] <= distance[n]]_distance

\* All four functions return.
Returns == <>(pc = "done")
=============================================================================
