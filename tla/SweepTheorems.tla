---------------------------- MODULE SweepTheorems ----------------------------
(***************************************************************************)
(* What Sweep guarantees for every set of circuits, decomposer, simulation *)
(* and bound.                                                              *)
(***************************************************************************)
EXTENDS Sweep, CommonTheorems, SequenceTheorems

\* Every circuit of a round is a netlist without cycles.
LEMMA NetIsGood ==
  ASSUME NEW n \in Nets
  PROVE  IsNetlist(n) /\ Acyclic(n)
BY NetsAssumption

\* What FfcsOfRound says of one entry of the map.
LEMMA FfcsOfRoundAt ==
  FfcsOfRound <=>
    \A r \in DOMAIN mffcSet :
      mffcSet[r] = FfcAt(net, r) /\ InputCount(mffcSet[r]) >= SizeMin
BY DEF FfcsOfRound, FfcAt

\* An iteration of the selection loop removes entries and changes none.
LEMMA ExamineShrinksMap ==
  ASSUME Examine
  PROVE  SubmapOf(mffcSet', mffcSet)
<1>1. PICK r \in DOMAIN mffcSet :
        \/ SkipUnobservable(mffcSet[r])
        \/ \E match \in Match : Discard(mffcSet[r], match)
        \/ \E match \in Match : PushCandidate(mffcSet[r], match)
  BY DEF Examine
<1>2. \/ mffcSet' = FilterCurrentMffc(mffcSet, mffcSet[r])
      \/ mffcSet' = FilterMffcByIntersection(mffcSet, mffcSet[r])
  BY <1>1 DEF SkipUnobservable, Discard, PushCandidate
<1>3. SubmapOf(FilterCurrentMffc(mffcSet, mffcSet[r]), mffcSet)
  BY CurrentFilter
<1>4. SubmapOf(FilterMffcByIntersection(mffcSet, mffcSet[r]), mffcSet)
  BY IntersectionFilter
<1> QED
  BY <1>2, <1>3, <1>4

-----------------------------------------------------------------------------
CandidateRecord == [ffc : FfcRecord, errorCount : Nat]

\* Type correctness needs that the circuit is one of Nets, that a round that
\* has begun is one of Rounds, and what the map holds.
TypeInv ==
  /\ TypeOK
  /\ net \in Nets
  /\ pc \in {"measure", "collect", "select", "accept"} => round < Rounds
  /\ pc \notin {"select", "accept", "aborted"} => mffcSet = <<>>
  /\ FfcsOfRound

\* The type invariant holds when main() starts.
LEMMA TypeInit == Init => TypeInv
<1> SUFFICES ASSUME Init PROVE TypeInv
  OBVIOUS
<1> USE DEF Init
<1>1. DOMAIN mffcSet = {}
  BY EmptyMap
<1>2. replaceCandidate \in Seq(CandidateRecord) /\ Len(replaceCandidate) = 0
  OBVIOUS
<1>3. TypeOK
  BY <1>1, <1>2, NetIsGood, SweepAssumption DEF TypeOK, CandidateRecord
<1>4. FfcsOfRound
  BY <1>1, FfcsOfRoundAt
<1> QED
  BY <1>3, <1>4, SweepAssumption DEF TypeInv

\* A candidate is pushed with a natural number of errors.
LEMMA PushType ==
  ASSUME TypeOK, NEW r \in DOMAIN mffcSet, NEW match \in Match,
         PushCandidate(mffcSet[r], match)
  PROVE  \E e \in Nat :
           /\ e <= Relaxed
           /\ replaceCandidate' =
                Append(replaceCandidate, [ffc |-> mffcSet[r], errorCount |-> e])
<1>1. match.errorCount \in Nat
  BY SweepAssumption
<1>2. PICK e \in 0..match.errorCount :
        /\ ~(e > Relaxed)
        /\ replaceCandidate' =
             Append(replaceCandidate, [ffc |-> mffcSet[r], errorCount |-> e])
  BY DEF PushCandidate
<1> QED
  BY <1>1, <1>2, SweepAssumption

\* An iteration of the selection loop keeps the candidates, or appends one.
LEMMA ExamineCandidates ==
  ASSUME TypeOK, Examine
  PROVE  \/ replaceCandidate' = replaceCandidate
         \/ \E r \in DOMAIN mffcSet, e \in Nat :
              /\ e <= Relaxed
              /\ replaceCandidate' =
                   Append(replaceCandidate, [ffc |-> mffcSet[r], errorCount |-> e])
              /\ mffcSet' = FilterMffcByIntersection(mffcSet, mffcSet[r])
<1>1. PICK r \in DOMAIN mffcSet :
        \/ SkipUnobservable(mffcSet[r])
        \/ \E match \in Match : Discard(mffcSet[r], match)
        \/ \E match \in Match : PushCandidate(mffcSet[r], match)
  BY DEF Examine
<1>2. CASE \E match \in Match : PushCandidate(mffcSet[r], match)
  BY <1>2, PushType DEF PushCandidate
<1>3. CASE ~\E match \in Match : PushCandidate(mffcSet[r], match)
  BY <1>1, <1>3 DEF SkipUnobservable, Discard
<1> QED
  BY <1>2, <1>3

\* std::sort permutes the candidates.
LEMMA SortPermutes ==
  ASSUME TypeOK, SortCandidates
  PROVE  /\ replaceCandidate' \in Seq(CandidateRecord)
         /\ DOMAIN replaceCandidate' = DOMAIN replaceCandidate
         /\ \E p \in [DOMAIN replaceCandidate -> DOMAIN replaceCandidate] :
              /\ \A i, j \in DOMAIN replaceCandidate : p[i] = p[j] => i = j
              /\ \A i \in DOMAIN replaceCandidate :
                   replaceCandidate'[i] = replaceCandidate[p[i]]
<1> DEFINE s == replaceCandidate
<1>1. s \in Seq(CandidateRecord)
  BY DEF TypeOK, CandidateRecord
<1>2. PICK p \in Arrangements(s) : s' = [i \in DOMAIN s |-> s[p[i]]]
  BY DEF SortCandidates
<1>3. p \in [DOMAIN s -> DOMAIN s] /\ \A i, j \in DOMAIN s : p[i] = p[j] => i = j
  BY <1>2 DEF Arrangements
<1>4. DOMAIN s = 1..Len(s) /\ Len(s) \in Nat /\ \A i \in DOMAIN s : s[i] \in CandidateRecord
  BY <1>1
<1>5. s' \in [1..Len(s) -> CandidateRecord]
  BY <1>2, <1>3, <1>4
<1>6. s' \in Seq(CandidateRecord)
  BY <1>4, <1>5, SeqDef
<1> QED
  BY <1>2, <1>3, <1>6

\* Every step keeps the type invariant.
LEMMA TypeStep == TypeInv /\ [Next]_vars => TypeInv'
<1> SUFFICES ASSUME TypeInv, [Next]_vars PROVE TypeInv'
  OBVIOUS
<1> USE SweepAssumption
<1>0. /\ TypeOK /\ net \in Nets /\ IsNetlist(net)
      /\ replaceCandidate \in Seq(CandidateRecord)
  BY NetIsGood DEF TypeInv, TypeOK, CandidateRecord
<1>1. CASE Measure
  <2>1. net' \in Nets /\ IsNetlist(net') /\ currentErr' \in Nat
    BY <1>1, NetIsGood DEF Measure
  <2>2. mffcSet' = <<>> /\ DOMAIN mffcSet' = {}
    BY <1>1, EmptyMap DEF Measure, TypeInv
  <2>3. FfcsOfRound'
    BY <2>2 DEF FfcsOfRound
  <2>4. TypeOK'
    BY <1>1, <2>1, <2>2 DEF TypeInv, TypeOK, Measure
  <2> QED
    BY <1>1, <2>1, <2>2, <2>3, <2>4 DEF TypeInv, Measure
<1>2. CASE CollectFfcs
  <2> DEFINE m == FilterMffcBySize(GetFFC(net), SizeMin, SizeMax)
  <2>0. mffcSet' = m
    BY <1>2 DEF CollectFfcs
  <2>filtered. /\ SubmapOf(m, GetFFC(net))
        /\ \A r \in DOMAIN m : InputCount(GetFFC(net)[r]) >= SizeMin
    BY SizeFilter
  <2> HIDE DEF m
  <2>1. /\ DOMAIN mffcSet' \subseteq Node(net)
        /\ \A r \in DOMAIN mffcSet' :
             mffcSet'[r] = FfcAt(net, r) /\ InputCount(mffcSet'[r]) >= SizeMin
    BY <2>0, <2>filtered, GetFfcValue DEF SubmapOf
  <2>2. \A r \in DOMAIN mffcSet' : mffcSet'[r] \in FfcRecord
    BY <1>0, <2>1, FfcType DEF FfcRecord
  <2>3. replaceCandidate' = <<>> /\ accepted' = 0 /\ pc' = "select" /\ UNCHANGED net
    BY <1>2 DEF CollectFfcs
  <2>4. FfcsOfRound'
    BY <2>1, <2>3 DEF FfcsOfRound, FfcAt
  <2>5. TypeOK'
    BY <1>2, <2>1, <2>2, <2>3 DEF TypeInv, TypeOK, CollectFfcs
  <2> QED
    BY <1>2, <2>4, <2>5 DEF TypeInv, CollectFfcs
<1>3. CASE Examine
  <2>1. SubmapOf(mffcSet', mffcSet)
    BY <1>3, ExamineShrinksMap
  <2>2. UNCHANGED <<pc, round, net, currentErr, accepted, accumulatedErr, file>> /\ pc = "select"
    BY <1>3 DEF Examine
  <2>3. replaceCandidate' \in Seq(CandidateRecord) /\ Len(replaceCandidate') >= Len(replaceCandidate)
    <3>1. CASE replaceCandidate' = replaceCandidate
      BY <1>0, <3>1
    <3>2. ASSUME NEW r \in DOMAIN mffcSet, NEW e \in Nat,
                 replaceCandidate' =
                   Append(replaceCandidate, [ffc |-> mffcSet[r], errorCount |-> e])
          PROVE  /\ replaceCandidate' \in Seq(CandidateRecord)
                 /\ Len(replaceCandidate') >= Len(replaceCandidate)
      <4>1. [ffc |-> mffcSet[r], errorCount |-> e] \in CandidateRecord
        BY <1>0 DEF TypeOK, CandidateRecord
      <4> QED
        BY <1>0, <3>2, <4>1
    <3> QED
      BY <1>0, <1>3, <3>1, <3>2, ExamineCandidates
  <2>4. FfcsOfRound'
    BY <2>1, <2>2 DEF TypeInv, FfcsOfRound, SubmapOf
  <2>5. DOMAIN mffcSet' \subseteq Node(net) /\ \A r \in DOMAIN mffcSet' : mffcSet'[r] \in FfcRecord
    BY <1>0, <2>1 DEF TypeOK, SubmapOf
  <2>6. accepted \in 0..Len(replaceCandidate')
    BY <1>0, <2>3 DEF TypeOK
  <2>7. TypeOK'
    BY <1>0, <2>2, <2>3, <2>5, <2>6 DEF TypeOK, CandidateRecord
  <2> QED
    BY <2>2, <2>4, <2>7 DEF TypeInv
<1>4. CASE SortCandidates
  <2>1. /\ UNCHANGED <<round, net, currentErr, mffcSet, file>>
        /\ accepted' = 0 /\ accumulatedErr' = currentErr
        /\ pc = "select" /\ pc' \in {"accept", "aborted"}
    BY <1>4 DEF SortCandidates
  <2>2. replaceCandidate' \in Seq(CandidateRecord)
    BY <1>0, <1>4, SortPermutes
  <2>3. FfcsOfRound'
    BY <2>1 DEF TypeInv, FfcsOfRound
  <2>4. TypeOK'
    BY <1>0, <2>1, <2>2 DEF TypeOK, CandidateRecord
  <2> QED
    BY <2>1, <2>3, <2>4 DEF TypeInv
<1>5. CASE AcceptCandidate
  <2>1. /\ UNCHANGED <<pc, round, net, currentErr, mffcSet, replaceCandidate, file>>
        /\ accepted' = accepted + 1 /\ accepted < Len(replaceCandidate)
        /\ accumulatedErr' = accumulatedErr + replaceCandidate[accepted + 1].errorCount
    BY <1>5 DEF AcceptCandidate
  <2>2. accepted + 1 \in DOMAIN replaceCandidate
    BY <1>0, <2>1 DEF TypeOK
  <2>3. replaceCandidate[accepted + 1] \in CandidateRecord
    BY <1>0, <2>2
  <2>4. replaceCandidate[accepted + 1].errorCount \in Nat
    BY <2>3 DEF CandidateRecord
  <2>5. TypeOK'
    BY <1>0, <2>1, <2>4 DEF TypeOK
  <2> QED
    BY <2>1, <2>5 DEF TypeInv, FfcsOfRound
<1>6. CASE Export
  <2>1. /\ UNCHANGED <<net, currentErr, replaceCandidate, accepted, accumulatedErr>>
        /\ mffcSet' = <<>> /\ round' = round + 1 /\ pc = "accept"
        /\ pc' = IF round + 1 < Rounds THEN "measure" ELSE "finished"
    BY <1>6 DEF Export
  <2>2. DOMAIN mffcSet' = {}
    BY <2>1, EmptyMap
  <2>3. FfcsOfRound'
    BY <2>2 DEF FfcsOfRound
  <2>4. TypeOK'
    BY <1>0, <2>1, <2>2 DEF TypeInv, TypeOK
  <2> QED
    BY <2>1, <2>3, <2>4 DEF TypeInv
<1>7. CASE UNCHANGED vars
  BY <1>7 DEF vars, TypeInv, TypeOK, FfcsOfRound
<1> QED
  BY <1>1, <1>2, <1>3, <1>4, <1>5, <1>6, <1>7 DEF Next

\* The variables of main() stay in their ranges, in every run of the sweep.
THEOREM TypeCorrect == Spec => []TypeOK
<1>1. TypeInv => TypeOK
  BY DEF TypeInv
<1> QED
  BY <1>1, TypeInit, TypeStep, PTL DEF Spec

-----------------------------------------------------------------------------
(***************************************************************************)
(* The candidates of a round can be replaced together.                     *)
(***************************************************************************)

\* CandidatesOfRound without its guard and its LET.
CandidatesOf(n) ==
  \A i \in DOMAIN replaceCandidate :
    /\ Cand(i).name \in Node(n)
    /\ Cand(i) = FfcAt(n, Cand(i).name)
    /\ InputCount(Cand(i)) >= SizeMin
    /\ \A j \in DOMAIN replaceCandidate :
         i # j => Cand(i).nodeSet \cap Cand(j).nodeSet = {}
    /\ \A r \in DOMAIN mffcSet : Cand(i).nodeSet \cap mffcSet[r].nodeSet = {}

\* What CandidatesOfRound says of one candidate.
LEMMA CandidatesOfRoundAt ==
  CandidatesOfRound <=> (pc \in {"select", "accept", "aborted"} => CandidatesOf(net))
BY DEF CandidatesOfRound, CandidatesOf, FfcAt

\* The node set of an entry of the map is not empty: it holds the root.
LEMMA EntryHasRoot ==
  ASSUME TypeInv, NEW r \in DOMAIN mffcSet
  PROVE  /\ r \in mffcSet[r].nodeSet
         /\ mffcSet[r].name = r
         /\ r \in Node(net) /\ mffcSet[r] = FfcAt(net, r)
         /\ InputCount(mffcSet[r]) >= SizeMin
<1>1. r \in Node(net) /\ IsNetlist(net) /\ Acyclic(net)
  BY NetIsGood DEF TypeInv, TypeOK
<1>2. mffcSet[r] = FfcAt(net, r) /\ InputCount(mffcSet[r]) >= SizeMin
  BY FfcsOfRoundAt DEF TypeInv
<1>3. Cardinality(FfcAt(net, r).inputNode) \notin {0, 1}
  BY <1>2, SweepAssumption DEF InputCount
<1> QED
  BY <1>1, <1>2, <1>3, WideFfc, FfcFields

\* Every step keeps the invariant of the candidates: a new candidate comes
\* from the map, and what overlaps it is filtered from the map.
LEMMA CandidatesStep == TypeInv /\ CandidatesOfRound /\ [Next]_vars => CandidatesOfRound'
<1> SUFFICES ASSUME TypeInv, CandidatesOfRound, [Next]_vars,
                    pc' \in {"select", "accept", "aborted"}
             PROVE  CandidatesOf(net)'
  BY CandidatesOfRoundAt DEF CandidatesOfRound, CandidatesOf, FfcAt
<1>0. pc \in {"select", "accept", "aborted"} => CandidatesOf(net)
  BY CandidatesOfRoundAt
<1>typed. TypeOK /\ replaceCandidate \in Seq(CandidateRecord)
  BY DEF TypeInv, TypeOK, CandidateRecord
<1>1. CASE Measure
  BY <1>1 DEF Measure
<1>2. CASE CollectFfcs
  <2>1. DOMAIN replaceCandidate' = {}
    BY <1>2, EmptyMap DEF CollectFfcs
  <2> QED
    BY <2>1 DEF CandidatesOf
<1>3. CASE Examine
  <2>1. SubmapOf(mffcSet', mffcSet) /\ UNCHANGED net /\ CandidatesOf(net)
    BY <1>0, <1>3, ExamineShrinksMap DEF Examine
  <2>2. CASE replaceCandidate' = replaceCandidate
    BY <2>1, <2>2 DEF CandidatesOf, SubmapOf, Cand
  <2>3. ASSUME NEW r \in DOMAIN mffcSet, NEW e \in Nat,
               replaceCandidate' =
                 Append(replaceCandidate, [ffc |-> mffcSet[r], errorCount |-> e]),
               mffcSet' = FilterMffcByIntersection(mffcSet, mffcSet[r])
        PROVE  CandidatesOf(net)'
    <3>index. PICK k \in Nat : k = Len(replaceCandidate) + 1
      BY <1>typed
    <3> DEFINE c == [ffc |-> mffcSet[r], errorCount |-> e]
    <3>record. c \in CandidateRecord
      BY <1>typed DEF TypeOK, CandidateRecord
    <3>field. c.ffc = mffcSet[r]
      OBVIOUS
    <3> HIDE DEF c
    <3>pushed. replaceCandidate' = Append(replaceCandidate, c)
      BY <2>3 DEF c
    <3>1. DOMAIN replaceCandidate' = DOMAIN replaceCandidate \cup {k} /\ k \notin DOMAIN replaceCandidate
      BY <1>typed, <3>record, <3>pushed, <3>index, AppendAt
    <3>2. Cand(k)' = mffcSet[r] /\ \A i \in DOMAIN replaceCandidate : Cand(i)' = Cand(i)
      BY <1>typed, <3>record, <3>field, <3>pushed, <3>index, AppendAt DEF Cand
    <3>3. \A s \in DOMAIN mffcSet' :
            s \in DOMAIN mffcSet /\ mffcSet'[s] = mffcSet[s]
              /\ mffcSet[s].nodeSet \cap mffcSet[r].nodeSet = {}
      BY <2>1, <2>3, IntersectionFilter DEF SubmapOf
    <3>4. /\ mffcSet[r].name \in Node(net)
          /\ mffcSet[r] = FfcAt(net, mffcSet[r].name)
          /\ InputCount(mffcSet[r]) >= SizeMin
      BY EntryHasRoot
    <3>5. \A i \in DOMAIN replaceCandidate : Cand(i).nodeSet \cap mffcSet[r].nodeSet = {}
      BY <2>1 DEF CandidatesOf
    <3> SUFFICES ASSUME NEW i \in DOMAIN replaceCandidate'
                 PROVE  /\ Cand(i)'.name \in Node(net)
                        /\ Cand(i)' = FfcAt(net, Cand(i)'.name)
                        /\ InputCount(Cand(i)') >= SizeMin
                        /\ \A j \in DOMAIN replaceCandidate' :
                             i # j => Cand(i)'.nodeSet \cap Cand(j)'.nodeSet = {}
                        /\ \A s \in DOMAIN mffcSet' :
                             Cand(i)'.nodeSet \cap mffcSet'[s].nodeSet = {}
      BY <2>1 DEF CandidatesOf, FfcAt
    <3>6. CASE i = k
      <4>1. Cand(i)' = mffcSet[r]
        BY <3>2, <3>6
      <4>2. \A j \in DOMAIN replaceCandidate' :
              i # j => mffcSet[r].nodeSet \cap Cand(j)'.nodeSet = {}
        BY <3>1, <3>2, <3>5, <3>6
      <4>3. \A s \in DOMAIN mffcSet' : mffcSet[r].nodeSet \cap mffcSet'[s].nodeSet = {}
        BY <3>3
      <4> QED
        BY <3>4, <4>1, <4>2, <4>3
    <3>7. CASE i \in DOMAIN replaceCandidate
      <4>1. Cand(i)' = Cand(i)
        BY <3>2, <3>7
      <4>2. \A j \in DOMAIN replaceCandidate' :
              i # j => Cand(i).nodeSet \cap Cand(j)'.nodeSet = {}
        <5>1. Cand(i).nodeSet \cap Cand(k)'.nodeSet = {}
          BY <3>2, <3>5, <3>7
        <5>2. \A j \in DOMAIN replaceCandidate :
                i # j => Cand(i).nodeSet \cap Cand(j)'.nodeSet = {}
          BY <2>1, <3>2, <3>7 DEF CandidatesOf
        <5> QED
          BY <3>1, <5>1, <5>2
      <4>3. \A s \in DOMAIN mffcSet' : Cand(i).nodeSet \cap mffcSet'[s].nodeSet = {}
        BY <2>1, <3>3, <3>7 DEF CandidatesOf
      <4>4. /\ Cand(i).name \in Node(net)
            /\ Cand(i) = FfcAt(net, Cand(i).name)
            /\ InputCount(Cand(i)) >= SizeMin
        BY <2>1, <3>7 DEF CandidatesOf
      <4> QED
        BY <4>1, <4>2, <4>3, <4>4
    <3> QED
      BY <3>1, <3>6, <3>7
  <2> QED
    BY <1>3, <1>typed, <2>2, <2>3, ExamineCandidates
<1>4. CASE SortCandidates
  <2>1. UNCHANGED <<net, mffcSet>> /\ CandidatesOf(net)
    BY <1>0, <1>4 DEF SortCandidates
  <2>2. PICK p \in [DOMAIN replaceCandidate -> DOMAIN replaceCandidate] :
          /\ \A i, j \in DOMAIN replaceCandidate : p[i] = p[j] => i = j
          /\ \A i \in DOMAIN replaceCandidate :
               replaceCandidate'[i] = replaceCandidate[p[i]]
    BY <1>4, <1>typed, SortPermutes
  <2>3. DOMAIN replaceCandidate' = DOMAIN replaceCandidate
    BY <1>4, <1>typed, SortPermutes
  <2>4. \A i \in DOMAIN replaceCandidate : p[i] \in DOMAIN replaceCandidate /\ Cand(i)' = Cand(p[i])
    BY <2>2 DEF Cand
  <2> QED
    BY <2>1, <2>2, <2>3, <2>4 DEF CandidatesOf
<1>5. CASE AcceptCandidate
  BY <1>0, <1>5 DEF AcceptCandidate, CandidatesOf, Cand
<1>6. CASE Export
  BY <1>6 DEF Export
<1>7. CASE UNCHANGED vars
  BY <1>0, <1>7 DEF vars, CandidatesOf, Cand
<1> QED
  BY <1>1, <1>2, <1>3, <1>4, <1>5, <1>6, <1>7 DEF Next

\* There are no candidates when main() starts.
LEMMA CandidatesInit == Init => CandidatesOfRound
BY DEF Init, CandidatesOfRound

\* What the selection keeps apart is independent.
LEMMA CandidatesAreIndependent ==
  ASSUME TypeInv, CandidatesOf(net)
  PROVE  Independent
<1>1. IsNetlist(net)
  BY NetIsGood DEF TypeInv
<1> SUFFICES ASSUME NEW i \in DOMAIN replaceCandidate, NEW j \in DOMAIN replaceCandidate, i # j
             PROVE  /\ Cand(i).nodeSet \cap Cand(j).nodeSet = {}
                    /\ Cand(i).nodeSet \cap Cand(j).inputNode \subseteq {Cand(i).name}
  BY DEF Independent
<1>2. PICK r \in Node(net), s \in Node(net) :
        /\ r = Cand(i).name /\ Cand(i) = FfcAt(net, r) /\ Cand(j) = FfcAt(net, s)
        /\ Cand(i).nodeSet \cap Cand(j).nodeSet = {}
  BY DEF CandidatesOf
<1>3. FfcAt(net, r).nodeSet \cap FfcAt(net, s).inputNode \subseteq {r}
  BY <1>1, <1>2, DisjointFfcsIndependent
<1> QED
  BY <1>2, <1>3

\* Two FFCs of a circuit with disjoint node sets can be replaced together.
LEMMA IndependentStep ==
  TypeInv' /\ CandidatesOfRound' /\ Independent /\ [Next]_vars => Independent'
<1> SUFFICES ASSUME TypeInv', CandidatesOfRound', Independent, [Next]_vars
             PROVE  Independent'
  OBVIOUS
<1>1. CASE pc' \in {"select", "accept", "aborted"}
  <2>1. CandidatesOf(net)'
    BY <1>1 DEF CandidatesOfRound, CandidatesOf, FfcAt, Cand
  <2>2. (TypeInv /\ CandidatesOf(net) => Independent)'
    BY CandidatesAreIndependent, PTL
  <2> QED
    BY <2>1, <2>2
<1>2. CASE pc' \notin {"select", "accept", "aborted"}
  <2>1. UNCHANGED replaceCandidate
    BY <1>2 DEF Next, Measure, CollectFfcs, Examine, SortCandidates, AcceptCandidate,
                Export, vars
  <2> QED
    BY <2>1 DEF Independent, Cand
<1> QED
  BY <1>1, <1>2

\* Two candidates of a round never remove a node of each other, and never
\* read a node the other removes and does not drive again.
THEOREM CandidatesIndependent == Spec => []Independent
<1>1. Init => Independent
  <2>1. DOMAIN <<>> = {}
    BY EmptyMap
  <2> QED
    BY <2>1 DEF Init, Independent
<1> QED
  BY <1>1, TypeInit, TypeStep, CandidatesInit, CandidatesStep, IndependentStep, PTL DEF Spec

-----------------------------------------------------------------------------
(***************************************************************************)
(* The circuit exportReplacedBlif writes.                                  *)
(***************************************************************************)

\* What a gate reads after the export.
FaninAfter(n, F, g) ==
  IF g \in Roots(F) THEN UNION {f.inputNode : f \in {h \in F : h.name = g}}
  ELSE n.fanin[g]

\* The gates of the written circuit.
LEMMA ExportGates ==
  ASSUME NEW n, NEW F
  PROVE  /\ ExportReplacedBlif(n, F).pi = n.pi
         /\ ExportReplacedBlif(n, F).gate = (n.gate \ Omits(F)) \cup Roots(F)
BY DEF ExportReplacedBlif, Omits, Roots

\* The fanins of the written circuit, as one function of its gates.
LEMMA ExportFanin ==
  ASSUME NEW n, NEW F
  PROVE  ExportReplacedBlif(n, F).fanin =
           [g \in (n.gate \ Omits(F)) \cup Roots(F) |-> FaninAfter(n, F, g)]
<1> DEFINE E == ExportReplacedBlif(n, F)
           G == (n.gate \ Omits(F)) \cup Roots(F)
<1>1. E.fanin = [g \in G |->
                   IF g \in Roots(F) THEN UNION {f.inputNode : f \in {h \in F : h.name = g}}
                   ELSE n.fanin[g]]
  BY DEF ExportReplacedBlif, Omits, Roots
<1> HIDE DEF G, E
<1>2. E.fanin = [g \in G |-> FaninAfter(n, F, g)]
  BY <1>1, Zenon DEF FaninAfter
<1> QED
  BY <1>2 DEF E, G

\* The same for one gate: it keeps its old inputs, or reads the inputs
\* of its FFC.
LEMMA ExportFaninAt ==
  ASSUME NEW n, NEW F, NEW g \in ExportReplacedBlif(n, F).gate
  PROVE  ExportReplacedBlif(n, F).fanin[g] = FaninAfter(n, F, g)
<1> DEFINE G == (n.gate \ Omits(F)) \cup Roots(F)
<1>1. g \in G
  BY ExportGates
<1>2. ExportReplacedBlif(n, F).fanin = [h \in G |-> FaninAfter(n, F, h)]
  BY ExportFanin
<1> HIDE DEF G
<1> QED
  BY <1>1, <1>2

\* The body of a root reads the inputs of its FFC.
LEMMA BodyOfRoot ==
  ASSUME NEW n, NEW F, Replaceable(n, F), NEW f \in F
  PROVE  ExportReplacedBlif(n, F).fanin[f.name] = f.inputNode
<1>1. {h \in F : h.name = f.name} = {f}
  BY DEF Replaceable
<1>2. UNION {h.inputNode : h \in {f}} = f.inputNode
  OBVIOUS
<1>3. f.name \in Roots(F)
  BY DEF Roots
<1>4. f.name \in ExportReplacedBlif(n, F).gate
  BY <1>3, ExportGates
<1>5. FaninAfter(n, F, f.name) = UNION {h.inputNode : h \in {f}}
  BY <1>1, <1>3 DEF FaninAfter
<1> QED
  BY <1>2, <1>4, <1>5, ExportFaninAt

\* A node that stays reads what it read before.
LEMMA KeptGate ==
  ASSUME NEW n, NEW F, NEW g \in ExportReplacedBlif(n, F).gate, g \notin Roots(F)
  PROVE  /\ g \in n.gate /\ g \notin Omits(F)
         /\ ExportReplacedBlif(n, F).fanin[g] = n.fanin[g]
<1>1. g \in n.gate /\ g \notin Omits(F)
  BY ExportGates
<1>2. FaninAfter(n, F, g) = n.fanin[g]
  BY DEF FaninAfter
<1> QED
  BY <1>1, <1>2, ExportFaninAt

\* The export replaces the FFCs.
LEMMA ExportReplaces ==
  ASSUME NEW n, NEW F, Replaceable(n, F)
  PROVE  IsReplacement(n, F, ExportReplacedBlif(n, F))
<1> DEFINE E == ExportReplacedBlif(n, F)
<1>1. E.pi = n.pi /\ E.gate = (n.gate \ Omits(F)) \cup Roots(F)
  BY ExportGates
<1>2. E.fanin = [g \in (n.gate \ Omits(F)) \cup Roots(F) |-> FaninAfter(n, F, g)]
  BY ExportFanin
<1>3. \A f \in F : E.fanin[f.name] = f.inputNode
  BY BodyOfRoot
<1>4. \A g \in E.gate : g \notin Roots(F) => E.fanin[g] = n.fanin[g]
  BY KeptGate
<1> HIDE DEF E
<1>5. E.fanin = [g \in E.gate |-> E.fanin[g]]
  BY <1>1, <1>2
<1>6. IsReplacement(n, F, E)
  BY <1>1, <1>3, <1>4, <1>5 DEF IsReplacement
<1> QED
  BY <1>6 DEF E

\* The accepted candidates can be replaced together.
LEMMA ReplacedIsReplaceable ==
  ASSUME TypeInv, CandidatesOf(net)
  PROVE  Replaceable(net, Replaced)
<1>1. IsNetlist(net) /\ Acyclic(net) /\ TypeOK
  BY NetIsGood DEF TypeInv
<1>2. 1..accepted \subseteq DOMAIN replaceCandidate
  BY <1>1 DEF TypeOK
<1>3. ASSUME NEW i \in 1..accepted
      PROVE  /\ Cand(i).name \in Node(net) /\ Cand(i) = FfcAt(net, Cand(i).name)
             /\ FaninOf(net, Cand(i).name) # {} /\ Cand(i).name \in Cand(i).nodeSet
  <2>1. /\ Cand(i).name \in Node(net) /\ Cand(i) = FfcAt(net, Cand(i).name)
        /\ InputCount(Cand(i)) >= SizeMin
    BY <1>2 DEF CandidatesOf
  <2>2. Cardinality(FfcAt(net, Cand(i).name).inputNode) \notin {0, 1}
    BY <2>1, SweepAssumption DEF InputCount
  <2> QED
    BY <1>1, <2>1, <2>2, WideFfc
<1>4. \A i, j \in 1..accepted : i # j => Cand(i).nodeSet \cap Cand(j).nodeSet = {}
  BY <1>2 DEF CandidatesOf
<1>5. Replaced = {Cand(i) : i \in 1..accepted}
  BY DEF Replaced, Cand
<1> QED
  BY <1>3, <1>4, <1>5 DEF Replaceable

\* The file is a circuit, be it what ABC wrote or what the export wrote.
FileInv == FileClosed /\ FileAcyclic

\* A circuit of Nets is one that can be written.
LEMMA NetIsFile ==
  ASSUME NEW n \in Nets
  PROVE  n.fanin \in [n.gate -> SUBSET Node(n)] /\ Acyclic(n)
BY NetIsGood DEF IsNetlist

\* Every step leaves a file that is a netlist without cycles.
LEMMA FileStep ==
  TypeInv /\ CandidatesOfRound /\ FileInv /\ [Next]_vars => FileInv'
<1> SUFFICES ASSUME TypeInv, CandidatesOfRound, FileInv, [Next]_vars
             PROVE  FileInv'
  OBVIOUS
<1>1. CASE Measure
  BY <1>1, NetIsFile DEF Measure, FileInv, FileClosed, FileAcyclic
<1>2. CASE Export
  <2>1. file' = ExportReplacedBlif(net, Replaced) /\ pc = "accept"
    BY <1>2 DEF Export
  <2>2. Replaceable(net, Replaced)
    BY <2>1, CandidatesOfRoundAt, ReplacedIsReplaceable
  <2>3. IsNetlist(net) /\ Acyclic(net)
    BY NetIsGood DEF TypeInv
  <2>4. FileClosed'
    BY <2>1, <2>2, <2>3, ExportReplaces, ReplacedClosed DEF FileClosed
  <2>5. FileAcyclic'
    BY <2>1, <2>2, <2>3, ExportReplaces, ReplacedAcyclic DEF FileAcyclic
  <2> QED
    BY <2>4, <2>5 DEF FileInv
<1>3. CASE UNCHANGED file
  BY <1>3 DEF FileInv, FileClosed, FileAcyclic
<1> QED
  BY <1>1, <1>2, <1>3 DEF Next, CollectFfcs, Examine, SortCandidates, AcceptCandidate, vars

\* The circuit that main() starts from is one.
LEMMA FileInit == Init => FileInv
BY NetIsFile DEF Init, FileInv, FileClosed, FileAcyclic

\* In every state the file is one.
LEMMA FileAlways == Spec => []FileInv
BY TypeInit, TypeStep, CandidatesInit, CandidatesStep, FileInit, FileStep, PTL DEF Spec

\* Every signal that a written circuit reads is one it drives.
THEOREM WrittenCircuitClosed == Spec => []FileClosed
<1>1. FileInv => FileClosed
  BY DEF FileInv
<1> QED
  BY <1>1, FileAlways, PTL

\* No written circuit has a combinational cycle.
THEOREM WrittenCircuitAcyclic == Spec => []FileAcyclic
<1>1. FileInv => FileAcyclic
  BY DEF FileInv
<1> QED
  BY <1>1, FileAlways, PTL

\* The selection keeps the candidates of a round apart from each other, and
\* apart from what it has still to look at.
THEOREM RoundsDoNotMix == Spec => []CandidatesOfRound
BY TypeInit, TypeStep, CandidatesInit, CandidatesStep, PTL DEF Spec

-----------------------------------------------------------------------------
(***************************************************************************)
(* The error budget.                                                       *)
(***************************************************************************)

\* Every candidate has passed RELAXED, those of the acceptance are sorted.
BudgetInv ==
  /\ \A i \in DOMAIN replaceCandidate : replaceCandidate[i].errorCount <= Relaxed
  /\ pc \in {"accept", "measure", "finished"} => IsSorted(replaceCandidate)
  /\ pc = "measure" /\ accepted < Len(replaceCandidate) => accumulatedErr > Tight
  /\ Overshoot
  /\ pc \in {"collect", "select", "accept"} => currentErr <= Tight

\* Nothing is used up when main() starts.
LEMMA BudgetInit == Init => BudgetInv
<1> SUFFICES ASSUME Init PROVE BudgetInv
  OBVIOUS
<1>1. DOMAIN replaceCandidate = {}
  BY EmptyMap DEF Init
<1> QED
  BY <1>1, SweepAssumption DEF Init, BudgetInv, Overshoot

\* Every step keeps the invariant of the budget.
LEMMA BudgetStep == TypeInv /\ TypeInv' /\ BudgetInv /\ [Next]_vars => BudgetInv'
<1> SUFFICES ASSUME TypeInv, TypeInv', BudgetInv, [Next]_vars PROVE BudgetInv'
  OBVIOUS
<1> USE SweepAssumption
<1>0. /\ TypeOK /\ TypeOK' /\ replaceCandidate \in Seq(CandidateRecord)
      /\ currentErr \in Nat /\ currentErr' \in Nat
  BY DEF TypeInv, TypeOK, CandidateRecord
<1>1. CASE Measure
  <2>1. /\ UNCHANGED <<replaceCandidate, accepted, accumulatedErr>> /\ pc = "measure"
        /\ pc' = IF currentErr' > Tight THEN "finished" ELSE "collect"
    BY <1>1 DEF Measure
  <2>2. pc' = "collect" => currentErr' <= Tight
    BY <1>0, <2>1
  <2> QED
    BY <2>1, <2>2 DEF BudgetInv, Overshoot, IsSorted
<1>2. CASE CollectFfcs
  <2>1. /\ replaceCandidate' = <<>> /\ accepted' = 0 /\ UNCHANGED currentErr
        /\ pc = "collect" /\ pc' = "select"
    BY <1>2 DEF CollectFfcs
  <2>2. DOMAIN replaceCandidate' = {}
    BY <2>1, EmptyMap
  <2> QED
    BY <2>1, <2>2 DEF BudgetInv, Overshoot
<1>3. CASE Examine
  <2>1. UNCHANGED <<pc, currentErr, accepted, accumulatedErr>> /\ pc = "select"
    BY <1>3 DEF Examine
  <2>2. \A i \in DOMAIN replaceCandidate' : replaceCandidate'[i].errorCount <= Relaxed
    <3>1. CASE replaceCandidate' = replaceCandidate
      BY <3>1 DEF BudgetInv
    <3>2. ASSUME NEW r \in DOMAIN mffcSet, NEW e \in Nat, e <= Relaxed,
                 replaceCandidate' =
                   Append(replaceCandidate, [ffc |-> mffcSet[r], errorCount |-> e])
          PROVE  \A i \in DOMAIN replaceCandidate' : replaceCandidate'[i].errorCount <= Relaxed
      <4> DEFINE c == [ffc |-> mffcSet[r], errorCount |-> e]
      <4>1. c \in CandidateRecord
        BY <1>0 DEF TypeOK, CandidateRecord
      <4>2. c.errorCount <= Relaxed
        BY <3>2
      <4> HIDE DEF c
      <4>3. replaceCandidate' = Append(replaceCandidate, c)
        BY <3>2 DEF c
      <4> QED
        BY <1>0, <4>1, <4>2, <4>3, AppendAt DEF BudgetInv
    <3> QED
      BY <1>0, <1>3, <3>1, <3>2, ExamineCandidates
  <2> QED
    BY <2>1, <2>2 DEF BudgetInv, Overshoot
<1>4. CASE SortCandidates
  <2>1. /\ accepted' = 0 /\ UNCHANGED currentErr /\ IsSorted(replaceCandidate')
        /\ pc = "select" /\ pc' \in {"accept", "aborted"}
    BY <1>4 DEF SortCandidates
  <2>2. \A i \in DOMAIN replaceCandidate' : replaceCandidate'[i].errorCount <= Relaxed
    <3>1. PICK p \in [DOMAIN replaceCandidate -> DOMAIN replaceCandidate] :
            \A i \in DOMAIN replaceCandidate : replaceCandidate'[i] = replaceCandidate[p[i]]
      BY <1>0, <1>4, SortPermutes
    <3>2. DOMAIN replaceCandidate' = DOMAIN replaceCandidate
      BY <1>0, <1>4, SortPermutes
    <3> QED
      BY <3>1, <3>2 DEF BudgetInv
  <2> QED
    BY <2>1, <2>2 DEF BudgetInv, Overshoot
<1>5. CASE AcceptCandidate
  <2>1. /\ UNCHANGED <<pc, currentErr, replaceCandidate>> /\ pc = "accept"
        /\ accepted' = accepted + 1 /\ accepted < Len(replaceCandidate)
        /\ ~(accumulatedErr > Tight)
        /\ accumulatedErr' = accumulatedErr + replaceCandidate[accepted + 1].errorCount
    BY <1>5 DEF AcceptCandidate
  <2>2. accepted + 1 \in DOMAIN replaceCandidate /\ accumulatedErr \in Nat
    BY <1>0, <2>1 DEF TypeOK
  <2>3. replaceCandidate[accepted + 1] \in CandidateRecord
    BY <1>0, <2>2
  <2>4. /\ replaceCandidate[accepted + 1].errorCount \in Nat
        /\ replaceCandidate[accepted + 1].errorCount <= Relaxed
    BY <2>2, <2>3 DEF CandidateRecord, BudgetInv
  <2>5. Overshoot'
    BY <2>1, <2>2, <2>4 DEF Overshoot
  <2> QED
    BY <2>1, <2>5 DEF BudgetInv, IsSorted
<1>6. CASE Export
  <2>1. /\ UNCHANGED <<currentErr, replaceCandidate, accepted, accumulatedErr>>
        /\ pc = "accept" /\ pc' \in {"measure", "finished"}
        /\ accepted = Len(replaceCandidate) \/ accumulatedErr > Tight
    BY <1>6 DEF Export
  <2>2. accepted < Len(replaceCandidate) => accumulatedErr > Tight
    BY <1>0, <2>1
  <2> QED
    BY <2>1, <2>2 DEF BudgetInv, Overshoot, IsSorted
<1>7. CASE UNCHANGED vars
  BY <1>7 DEF vars, BudgetInv, Overshoot, IsSorted
<1> QED
  BY <1>1, <1>2, <1>3, <1>4, <1>5, <1>6, <1>7 DEF Next

\* In every state the budget is kept.
LEMMA BudgetAlways == Spec => [](TypeInv /\ BudgetInv)
BY TypeInit, TypeStep, BudgetInit, BudgetStep, PTL DEF Spec

\* The estimate of a round passes the bound by its last candidate at most.
THEOREM OvershootBounded == Spec => []Overshoot
<1>1. BudgetInv => Overshoot
  BY DEF BudgetInv
<1> QED
  BY <1>1, BudgetAlways, PTL

\* The cheapest candidates are taken, until the budget is used up.
THEOREM CheapestAreAccepted == Spec => []CheapestFirst
<1>1. ASSUME TypeInv, BudgetInv
      PROVE  CheapestFirst
  <2>1. /\ replaceCandidate \in Seq(CandidateRecord)
        /\ accepted \in 0..Len(replaceCandidate)
    BY <1>1 DEF TypeInv, TypeOK, CandidateRecord
  <2>2. 1..accepted \subseteq DOMAIN replaceCandidate
    BY <2>1
  <2>3. \A i \in 1..accepted, j \in DOMAIN replaceCandidate : j > accepted => i < j
    BY <2>1
  <2> QED
    BY <1>1, <2>2, <2>3 DEF BudgetInv, CheapestFirst, IsSorted
<1> QED
  BY <1>1, BudgetAlways, PTL

\* An iteration of the selection loop removes an entry and adds none.
THEOREM SelectionAlwaysShrinks == Spec => SelectionShrinks
<1> DEFINE Shrinks == pc = "select" /\ pc' = "select" =>
                        DOMAIN mffcSet' \subseteq DOMAIN mffcSet /\ DOMAIN mffcSet' # DOMAIN mffcSet
<1>1. TypeInv /\ [Next]_vars => [Shrinks]_vars
  <2> SUFFICES ASSUME TypeInv, Next, pc = "select", pc' = "select"
               PROVE  DOMAIN mffcSet' \subseteq DOMAIN mffcSet /\ DOMAIN mffcSet' # DOMAIN mffcSet
    OBVIOUS
  <2>1. Examine
    BY DEF Next, Measure, CollectFfcs, SortCandidates, AcceptCandidate, Export
  <2>2. PICK r \in DOMAIN mffcSet :
          \/ mffcSet' = FilterCurrentMffc(mffcSet, mffcSet[r])
          \/ mffcSet' = FilterMffcByIntersection(mffcSet, mffcSet[r])
    BY <2>1 DEF Examine, SkipUnobservable, Discard, PushCandidate
  <2>3. r \in mffcSet[r].nodeSet /\ mffcSet[r].name = r
    BY EntryHasRoot
  <2>4. CASE mffcSet' = FilterCurrentMffc(mffcSet, mffcSet[r])
    <3>1. r \notin DOMAIN FilterCurrentMffc(mffcSet, mffcSet[r])
      BY <2>3, CurrentFilter
    <3> QED
      BY <2>1, <2>4, <3>1, ExamineShrinksMap DEF SubmapOf
  <2>5. CASE mffcSet' = FilterMffcByIntersection(mffcSet, mffcSet[r])
    <3>1. r \notin DOMAIN FilterMffcByIntersection(mffcSet, mffcSet[r])
      BY <2>3, IntersectionFilter
    <3> QED
      BY <2>1, <2>5, <3>1, ExamineShrinksMap DEF SubmapOf
  <2> QED
    BY <2>2, <2>4, <2>5
<1>2. SelectionShrinks <=> [][Shrinks]_vars
  BY DEF SelectionShrinks
<1> HIDE DEF Shrinks
<1> QED
  BY <1>1, <1>2, TypeInit, TypeStep, PTL DEF Spec
=============================================================================
