------------------------ MODULE TrainingLineProofs ------------------------
(***************************************************************************)
(* Proofs about the two stages of one training line: ClusterExpansion      *)
(* (with ScanSpec) and LineMatches (with Spec).                            *)
(*                                                                         *)
(* Of ClusterExpansion, for lines of any length, any index, any sampling   *)
(* rate and any miss limit: IInv says, for one document of the seed at a   *)
(* time, what is known of the side being traversed (OpenLeft, OpenRight)   *)
(* and of a side that is finished (DoneLeft, DoneRight); ByDoc collects    *)
(* them.                                                                   *)
(*                                                                         *)
(* Of LineMatches, for any lines, documents, clusters and settings that    *)
(* InputsAssumption allows: first what the traversals for passage and      *)
(* answer compute, by induction over their positions; then the arithmetic  *)
(* of the scores, whose fractions are compared in common units (Is); then  *)
(* LineInv, which says where the report and its keys stand, and Verdicts,  *)
(* why a document was reported or left out.                                *)
(***************************************************************************)
EXTENDS ClusterExpansion, LineMatches, FiniteSetTheorems, SequenceTheorems,
        WellFoundedInduction, TLAPS

-----------------------------------------------------------------------------
(* The clusters of a line: ClusterExpansion. *)

Found == Matched(seed)

(* The ids collected for d are those of its n-grams between its boundaries, *)
(* which lie on the two sides of the seed.                                  *)
Collected(d) ==
    /\ start[d] \in 1 .. seed /\ stop[d] \in seed .. Total
    /\ d \in Matched(start[d]) /\ d \in Matched(stop[d])
    /\ matches[d] = {line[k] : k \in Occurs(d, start[d], stop[d])}

(* Up to MaxMisses positions beyond a boundary do not contain d.            *)
BeyondLeft(d) ==
    \A k \in Positions : start[d] - k \in 1 .. MaxMisses => d \notin Matched(k)
BeyondRight(d) ==
    \A k \in Positions : k - stop[d] \in 1 .. MaxMisses => d \notin Matched(k)

(* While d is followed, nothing of it lies between its boundary and the     *)
(* cursor, and its misses are the distance of the two if its last n-gram    *)
(* was a new one.                                                           *)
OpenLeft(d) ==
    /\ current <= start[d]
    /\ \A k \in Positions : current <= k /\ k < start[d] => d \notin Matched(k)
    /\ New(d, start[d], seed, start[d]) => misses[d] = start[d] - current
OpenRight(d) ==
    /\ stop[d] <= current
    /\ \A k \in Positions : stop[d] < k /\ k <= current => d \notin Matched(k)
    /\ New(d, start[d], stop[d], stop[d]) => misses[d] = current - stop[d]

(* Once d is left, the position next to its boundary does not contain it.   *)
DoneLeft(d) ==
    /\ start[d] = 1 \/ d \notin Matched(start[d] - 1)
    /\ New(d, start[d], seed, start[d]) => BeyondLeft(d)
DoneRight(d) ==
    /\ stop[d] = Total \/ d \notin Matched(stop[d] + 1)
    /\ New(d, start[d], stop[d], stop[d]) => BeyondRight(d)

ByDoc(d) ==
    /\ Collected(d)
    /\ phase = "left" =>
         /\ stop[d] = seed /\ current <= start[d]
         /\ IF d \in active THEN OpenLeft(d) ELSE DoneLeft(d)
    /\ phase = "right" =>
         /\ DoneLeft(d) /\ stop[d] <= current
         /\ IF d \in active THEN OpenRight(d) ELSE DoneRight(d)
    /\ \A g \in matches[d] : <<g, Cardinality(index.docs[g])>> \in frequencies

(* A document reaches as far from the seed as it occurs without a gap.      *)
Reaches(c) ==
    \A d \in c.docs :
        /\ c.start[d] = 1 \/ d \notin Matched(c.start[d] - 1)
        /\ c.stop[d] = Total \/ d \notin Matched(c.stop[d] + 1)

ClusterSet ==
    [seed : Positions, docs : SUBSET Docs, matches : [Docs -> SUBSET Ids],
     start : [Docs -> 0 .. Total], stop : [Docs -> 0 .. Total],
     frequencies : SUBSET (Ids \X Nat), end : Positions]

Expanding ==
    phase \in {"left", "right"} =>
        /\ i = seed /\ active \subseteq Found
        /\ phase = "left" => current <= seed
        /\ phase = "right" => seed <= current
        /\ \A d \in Found : ByDoc(d)

(* Every run of Sample n-grams that sampling has passed is in a cluster.    *)
Caught ==
    \A d \in Docs, p \in Positions :
        Run(d, p) /\ p + Sample - 1 < i =>
            \E n \in 1 .. Len(clusters) : Follows(clusters[n], d, p) \/ Covers(clusters[n], p)

IInv ==
    /\ TypeOK
    /\ clusters \in Seq(ClusterSet)
    /\ phase = "done" => i > Total
    /\ Expanding
    /\ ExactMatches
    /\ Caught

-----------------------------------------------------------------------------
(* The line and the index as the actions read them. *)

(* What line and index give for a position.                                *)
LEMMA Lookups ==
    ASSUME TypeOK
    PROVE  /\ Total \in Nat /\ Positions \subseteq Nat
           /\ \A p \in Positions :
                /\ line[p] \in Ids \cup {NoId}
                /\ Matched(p) \subseteq Docs
                /\ Known(p) => line[p] \in Ids
                /\ \A d \in Matched(p) :
                     /\ Known(p) /\ line[p] \in Ids
                     /\ index.docs[line[p]] = Matched(p)
                /\ Cardinality(Matched(p)) \in Nat
<1>1. line \in Seq(Ids \cup {NoId})
  BY LinesAssumption DEF TypeOK
<1>2. Total \in Nat /\ \A p \in Positions : line[p] \in Ids \cup {NoId}
  BY <1>1 DEF Total, Positions
<1>3. Positions \subseteq Nat
  BY <1>2 DEF Positions
<1>4. index.docs \in [Ids -> SUBSET Docs]
  BY IndexAssumption DEF TypeOK
<1>5. ASSUME NEW p \in Positions
      PROVE  /\ Matched(p) \subseteq Docs
             /\ Known(p) => line[p] \in Ids
             /\ \A d \in Matched(p) : /\ Known(p) /\ line[p] \in Ids
                                      /\ index.docs[line[p]] = Matched(p)
  BY <1>2, <1>4, NoIdAssumption DEF Matched, Known
<1>6. ASSUME NEW p \in Positions
      PROVE  Cardinality(Matched(p)) \in Nat
  BY <1>5, DocsAssumption, FS_Subset, FS_CardinalityType
<1> QED
  BY <1>2, <1>3, <1>5, <1>6

(* A cluster in the list does not change, and what is said of it depends on *)
(* the line and the index alone.                                            *)
LEMMA ClustersKept ==
    ASSUME ExactMatches, Caught, UNCHANGED <<line, index, clusters>>
    PROVE  /\ ExactMatches'
           /\ i' = i => Caught'
<1>1. ExactMatches'
  <2>1. line' = line /\ index' = index /\ clusters' = clusters
    OBVIOUS
  <2>2. ASSUME NEW n \in 1 .. Len(clusters)
        PROVE  Exact(clusters[n])' /\ NotCutShort(clusters[n])'
    <3>1. Exact(clusters[n]) /\ NotCutShort(clusters[n])
      BY DEF ExactMatches
    <3>2. Exact(clusters[n])'
      BY <2>1, <3>1 DEF Exact, Occurs, Matched, Known
    <3>3. NotCutShort(clusters[n])'
      BY <2>1, <3>1 DEF NotCutShort, QuietLeft, QuietRight, New, Occurs, Matched, Known, Positions, Total
    <3> QED
      BY <3>2, <3>3
  <2> QED
    BY <2>1, <2>2 DEF ExactMatches
<1>2. ASSUME i' = i PROVE Caught'
  BY <1>2 DEF Caught, Run, Follows, Covers, Matched, Known, Hot, Total, Positions
<1> QED
  BY <1>1, <1>2

THEOREM InitInv == ScanInit => IInv
<1> SUFFICES ASSUME ScanInit PROVE IInv
  OBVIOUS
<1>1. Total \in Nat
  BY LinesAssumption DEF ScanInit, Total
<1>2. TypeOK
  BY <1>1 DEF ScanInit, TypeOK, Positions
<1>3. clusters \in Seq(ClusterSet) /\ Len(clusters) = 0
  BY DEF ScanInit
<1>4. ExactMatches
  BY <1>3 DEF ExactMatches
<1>5. Caught
  BY <1>1, SampleAssumption DEF ScanInit, Caught, Positions
<1> QED
  BY <1>2, <1>3, <1>4, <1>5 DEF IInv, ScanInit, Expanding

-----------------------------------------------------------------------------
(* Visiting a position. *)

LEMMA VisitType ==
    ASSUME TypeOK, NEW p \in Positions, Visit(p)
    PROVE  /\ current' \in Positions
           /\ active' \subseteq active
           /\ matches' \in [Docs -> SUBSET Ids]
           /\ misses' \in [Docs -> Nat]
           /\ frequencies' \subseteq Ids \X Nat
<1> USE DEF Visit
<1>1. current' \in Positions /\ active' \subseteq active
  OBVIOUS
<1>2. matches' \in [Docs -> SUBSET Ids]
  BY Lookups DEF TypeOK
<1>3. Counted(p) \in [Docs -> Nat]
  BY DEF TypeOK, Counted
<1>4. Known(p) => <<line[p], Cardinality(Matched(p))>> \in Ids \X Nat
  BY Lookups
<1>5. frequencies' \subseteq Ids \X Nat
  BY <1>4 DEF TypeOK
<1> QED
  BY <1>1, <1>2, <1>3, <1>5

(* What a visit does for one document.                                      *)
LEMMA VisitDoc ==
    ASSUME TypeOK, NEW p \in Positions, Visit(p), NEW d \in Docs
    PROVE  /\ d \notin active => d \notin active' /\ matches'[d] = matches[d]
           /\ d \in active /\ d \in Matched(p) =>
                /\ d \in active' /\ matches'[d] = matches[d] \cup {line[p]}
                /\ line[p] \notin matches[d] => misses'[d] = 0
           /\ d \in active /\ d \notin Matched(p) =>
                /\ matches'[d] = matches[d] /\ misses'[d] = misses[d] + 1
                /\ d \in active' <=> misses[d] + 1 < MaxMisses
<1>1. d \in active /\ d \in Matched(p) => d \in active'
  BY DEF Visit
<1>2. matches'[d] = IF d \in active /\ d \in Matched(p) THEN matches[d] \cup {line[p]}
                                                        ELSE matches[d]
  BY DEF Visit
<1>3. misses'[d] = Counted(p)[d]
  BY DEF Visit
<1>4. Counted(p)[d] = IF d \notin active THEN misses[d]
                      ELSE IF d \notin Matched(p) THEN misses[d] + 1
                      ELSE IF line[p] \in matches[d] THEN misses[d] ELSE 0
  BY DEF Counted
<1>5. d \notin Matched(p) => (d \in active' <=> d \in active /\ Counted(p)[d] < MaxMisses)
  BY DEF Visit
<1>6. d \notin active => d \notin active'
  BY DEF Visit
<1> QED
  BY <1>1, <1>2, <1>3, <1>4, <1>5, <1>6

(* The frequency of every id that a visit collects is recorded.             *)
LEMMA VisitFrequencies ==
    ASSUME TypeOK, NEW p \in Positions, Visit(p), NEW d \in Docs, index' = index,
           \A g \in matches[d] : <<g, Cardinality(index.docs[g])>> \in frequencies
    PROVE  (\A g \in matches[d] : <<g, Cardinality(index.docs[g])>> \in frequencies)'
<1>1. frequencies \subseteq frequencies'
  BY DEF Visit
<1>2. CASE d \in active /\ d \in Matched(p)
  <2>1. <<line[p], Cardinality(index.docs[line[p]])>> \in frequencies'
    BY <1>2, Lookups DEF Visit
  <2>2. matches'[d] = matches[d] \cup {line[p]}
    BY <1>2, VisitDoc
  <2> QED
    BY <1>1, <2>1, <2>2
<1>3. CASE ~(d \in active /\ d \in Matched(p))
  <2>1. matches'[d] = matches[d]
    BY <1>3, VisitDoc
  <2> QED
    BY <1>1, <2>1
<1> QED
  BY <1>2, <1>3

-----------------------------------------------------------------------------
(* The left traversal. *)

LEMMA StepLeftDoc ==
    ASSUME IInv, StepLeft, NEW d \in Found
    PROVE  ByDoc(d)'
<1> DEFINE p == current - 1
<1>0. /\ TypeOK /\ Total \in Nat /\ phase = "left" /\ current > 1
      /\ current \in Positions /\ seed \in Positions
  BY Lookups DEF IInv, StepLeft, TypeOK
<1>1. /\ phase = "left" /\ current \in Positions /\ current > 1 /\ seed \in Positions
      /\ p \in Positions /\ current \in Nat /\ seed \in Nat /\ Total \in Nat
      /\ d \in Docs /\ start \in [Docs -> 0 .. Total] /\ TypeOK /\ Visit(p)
      /\ current <= seed
  <2>1. d \in Docs
    BY <1>0, Lookups DEF Found
  <2>2. start \in [Docs -> 0 .. Total]
    BY <1>0 DEF TypeOK
  <2>3. Visit(p)
    BY DEF StepLeft
  <2>4. current <= seed
    BY <1>0 DEF IInv, Expanding
  <2> QED
    BY <1>0, <2>1, <2>2, <2>3, <2>4 DEF Positions
<1>2. /\ phase' = "left" /\ seed' = seed /\ stop' = stop /\ line' = line /\ index' = index
      /\ current' = p
  BY <1>1 DEF StepLeft, Visit
<1>3. /\ ByDoc(d) /\ Collected(d) /\ stop[d] = seed /\ current <= start[d]
      /\ start[d] \in 1 .. seed
      /\ IF d \in active THEN OpenLeft(d) ELSE DoneLeft(d)
  BY <1>1 DEF IInv, Expanding, ByDoc, Collected
<1>4. start'[d] = IF d \in active /\ d \in Matched(p) THEN p ELSE start[d]
  BY <1>1 DEF StepLeft
<1>5. (\A g \in matches[d] : <<g, Cardinality(index.docs[g])>> \in frequencies)'
  BY <1>1, <1>2, <1>3, VisitFrequencies DEF ByDoc
<1>6. CASE d \notin active
  <2>1. d \notin active' /\ matches'[d] = matches[d] /\ start'[d] = start[d]
    BY <1>1, <1>4, <1>6, VisitDoc
  <2>2. Collected(d)'
    BY <1>2, <1>3, <2>1 DEF Collected, Occurs, Matched, Known, Total
  <2>3. DoneLeft(d)'
    BY <1>2, <1>3, <1>6, <2>1
       DEF DoneLeft, BeyondLeft, New, Occurs, Matched, Known, Total, Positions
  <2> QED
    BY <1>1, <1>2, <1>3, <1>5, <2>1, <2>2, <2>3 DEF ByDoc
<1>7. CASE d \in active /\ d \in Matched(p)
  <2>1. d \in active' /\ matches'[d] = matches[d] \cup {line[p]} /\ start'[d] = p
    BY <1>1, <1>4, <1>7, VisitDoc
  <2>2. OpenLeft(d)
    BY <1>3, <1>7
  <2>3. Occurs(d, p, seed) = Occurs(d, start[d], seed) \cup {p}
    <3>1. ASSUME NEW k \in p .. seed, k # p, d \in Matched(k)
          PROVE  k \in start[d] .. seed
      BY <1>1, <1>3, <2>2, <3>1 DEF OpenLeft, Positions
    <3> QED
      BY <1>1, <1>3, <1>7, <3>1 DEF Occurs
  <2>4. matches'[d] = {line[k] : k \in Occurs(d, p, seed)}
    BY <1>3, <2>1, <2>3 DEF Collected
  <2>5. Collected(d)'
    <3>1. p \in 1 .. seed /\ stop[d] \in seed .. Total /\ d \in Matched(p) /\ d \in Matched(stop[d])
      BY <1>1, <1>3, <1>7 DEF Collected
    <3>2. matches'[d] = {line[k] : k \in Occurs(d, p, stop[d])}
      BY <1>3, <2>4
    <3> HIDE DEF p
    <3> QED
      BY <1>2, <2>1, <3>1, <3>2 DEF Collected, Occurs, Matched, Known, Total
  <2>6. New(d, p, seed, p) => misses'[d] = 0
    <3>1. SUFFICES ASSUME New(d, p, seed, p) PROVE line[p] \notin matches[d]
      BY <1>1, <1>7, VisitDoc
    <3>2. ASSUME NEW k \in Occurs(d, start[d], seed) PROVE line[k] # line[p]
      BY <1>1, <1>3, <2>3, <3>1 DEF New, Occurs
    <3> QED
      BY <1>3, <3>2 DEF Collected
  <2>7. OpenLeft(d)'
    BY <1>1, <1>2, <2>1, <2>6 DEF OpenLeft, New, Occurs, Matched, Known, Total, Positions
  <2> QED
    BY <1>1, <1>2, <1>3, <1>5, <2>1, <2>5, <2>7 DEF ByDoc
<1>8. CASE d \in active /\ d \notin Matched(p)
  <2>1. /\ matches'[d] = matches[d] /\ start'[d] = start[d] /\ misses'[d] = misses[d] + 1
        /\ d \in active' <=> misses[d] + 1 < MaxMisses
    BY <1>1, <1>4, <1>8, VisitDoc
  <2>2. OpenLeft(d)
    BY <1>3, <1>8
  <2>3. Collected(d)'
    BY <1>2, <1>3, <2>1 DEF Collected, Occurs, Matched, Known, Total
  <2>4. \A k \in Positions : p <= k /\ k < start[d] => d \notin Matched(k)
    BY <1>1, <1>3, <1>8, <2>2 DEF OpenLeft, Positions
  <2>5. New(d, start[d], seed, start[d]) => misses'[d] = start[d] - p
    BY <1>1, <1>3, <2>1, <2>2 DEF OpenLeft
  <2>6. OpenLeft(d)'
    BY <1>1, <1>2, <1>3, <2>1, <2>4, <2>5
       DEF OpenLeft, New, Occurs, Matched, Known, Total, Positions
  <2>7. ASSUME d \notin active' PROVE DoneLeft(d)'
    <3>1. d \notin Matched(start[d] - 1)
      BY <1>1, <1>3, <2>4 DEF Positions
    <3>2. New(d, start[d], seed, start[d]) => start[d] - p >= MaxMisses
      BY <1>1, <1>3, <2>1, <2>5, <2>7, MissesAssumption DEF TypeOK
    <3>3. New(d, start[d], seed, start[d]) => BeyondLeft(d)
      BY <1>1, <1>3, <2>4, <3>2, MissesAssumption DEF BeyondLeft, Positions
    <3> QED
      BY <1>2, <2>1, <3>1, <3>3
         DEF DoneLeft, BeyondLeft, New, Occurs, Matched, Known, Total, Positions
  <2> QED
    BY <1>1, <1>2, <1>3, <1>5, <2>1, <2>3, <2>6, <2>7 DEF ByDoc
<1> QED
  BY <1>6, <1>7, <1>8

LEMMA StepLeftType == IInv /\ StepLeft => TypeOK'
<1> SUFFICES ASSUME IInv, StepLeft PROVE TypeOK'
  OBVIOUS
<1>1. TypeOK /\ phase = "left" /\ current \in Positions /\ current > 1 /\ Total \in Nat
  BY Lookups DEF IInv, StepLeft, TypeOK
<1>2. current - 1 \in Positions
  BY <1>1 DEF Positions
<1>3. Visit(current - 1)
  BY DEF StepLeft
<1>4. start' \in [Docs -> 0 .. Total]
  BY <1>1, <1>2 DEF StepLeft, TypeOK, Positions
<1>5. UNCHANGED <<line, index, phase, i, seed, stop>> /\ Total' = Total /\ Positions' = Positions
  BY DEF StepLeft, Total, Positions
<1> QED
  BY <1>1, <1>2, <1>3, <1>4, <1>5, VisitType DEF TypeOK

-----------------------------------------------------------------------------
(* The right traversal. *)

LEMMA TurnDoc ==
    ASSUME IInv, Turn, NEW d \in Found
    PROVE  ByDoc(d)'
<1>1. TypeOK /\ Total \in Nat /\ phase = "left" /\ current \in Positions /\ seed \in Positions
  BY Lookups DEF IInv, Turn, TypeOK
<1>2. d \in Docs
  BY <1>1, Lookups DEF Found
<1>3. /\ ByDoc(d) /\ Collected(d) /\ stop[d] = seed /\ start[d] \in 1 .. seed
      /\ IF d \in active THEN OpenLeft(d) ELSE DoneLeft(d)
  BY <1>1 DEF IInv, Expanding, ByDoc, Collected
<1>4. UNCHANGED <<line, index, seed, matches, start, stop, frequencies>>
  BY DEF Turn
<1>5. phase' = "right" /\ current' = seed /\ d \in active' /\ misses'[d] = 0
  <2>1. misses' = [e \in Docs |-> IF e \in Matched(seed) THEN 0 ELSE misses[e]]
    BY DEF Turn
  <2>2. phase' = "right" /\ current' = seed /\ active' = Matched(seed)
    BY DEF Turn
  <2> QED
    BY <1>2, <2>1, <2>2 DEF Found
<1>6. DoneLeft(d)
  <2>1. CASE d \in active
    <3>1. OpenLeft(d) /\ current = 1
      BY <1>3, <2>1 DEF Turn
    <3>2. \A k \in Positions : k < start[d] => d \notin Matched(k)
      BY <3>1 DEF OpenLeft, Positions
    <3>3. start[d] = 1 \/ start[d] - 1 \in Positions
      BY <1>1, <1>3 DEF Positions
    <3>4. BeyondLeft(d)
      BY <1>1, <1>3, <3>2, MissesAssumption DEF BeyondLeft, Positions
    <3> QED
      BY <1>1, <1>3, <3>2, <3>3, <3>4 DEF DoneLeft
  <2> QED
    BY <1>3, <2>1
<1>7. DoneLeft(d)'
  BY <1>4, <1>6 DEF DoneLeft, BeyondLeft, New, Occurs, Matched, Known, Total, Positions
<1>8. Collected(d)'
  BY <1>3, <1>4 DEF Collected, Occurs, Matched, Known, Total
<1>9. OpenRight(d)'
  BY <1>1, <1>3, <1>4, <1>5 DEF OpenRight, Positions, Total
<1>10. (\A g \in matches[d] : <<g, Cardinality(index.docs[g])>> \in frequencies)'
  BY <1>3, <1>4 DEF ByDoc
<1>11. stop'[d] <= current'
  BY <1>1, <1>3, <1>4, <1>5 DEF Positions
<1> QED
  BY <1>5, <1>7, <1>8, <1>9, <1>10, <1>11 DEF ByDoc

LEMMA StepRightDoc ==
    ASSUME IInv, StepRight, NEW d \in Found
    PROVE  ByDoc(d)'
<1> DEFINE p == current + 1
<1>0. /\ TypeOK /\ Total \in Nat /\ phase = "right" /\ current < Total
      /\ current \in Positions /\ seed \in Positions
  BY Lookups DEF IInv, StepRight, TypeOK
<1>1. /\ p \in Positions /\ current \in Nat /\ seed \in Nat /\ d \in Docs
      /\ stop \in [Docs -> 0 .. Total] /\ Visit(p) /\ seed <= current
  <2>1. d \in Docs
    BY <1>0, Lookups DEF Found
  <2>2. stop \in [Docs -> 0 .. Total]
    BY <1>0 DEF TypeOK
  <2>3. Visit(p)
    BY DEF StepRight
  <2>4. seed <= current
    BY <1>0 DEF IInv, Expanding
  <2> QED
    BY <1>0, <2>1, <2>2, <2>3, <2>4 DEF Positions
<1>2. /\ phase' = "right" /\ seed' = seed /\ start' = start /\ line' = line /\ index' = index
      /\ current' = p
  BY <1>0, <1>1 DEF StepRight, Visit
<1>3. /\ ByDoc(d) /\ Collected(d) /\ stop[d] <= current /\ start[d] \in 1 .. seed
      /\ stop[d] \in seed .. Total /\ DoneLeft(d)
      /\ IF d \in active THEN OpenRight(d) ELSE DoneRight(d)
  BY <1>0 DEF IInv, Expanding, ByDoc, Collected
<1>4. stop'[d] = IF d \in active /\ d \in Matched(p) THEN p ELSE stop[d]
  BY <1>1 DEF StepRight
<1>5. (\A g \in matches[d] : <<g, Cardinality(index.docs[g])>> \in frequencies)'
  BY <1>0, <1>1, <1>2, <1>3, VisitFrequencies DEF ByDoc
<1>6. DoneLeft(d)'
  BY <1>2, <1>3 DEF DoneLeft, BeyondLeft, New, Occurs, Matched, Known, Total, Positions
<1>7. CASE d \notin active
  <2>1. d \notin active' /\ matches'[d] = matches[d] /\ stop'[d] = stop[d]
    BY <1>0, <1>1, <1>4, <1>7, VisitDoc
  <2>2. Collected(d)'
    BY <1>2, <1>3, <2>1 DEF Collected, Occurs, Matched, Known, Total
  <2>3. DoneRight(d)'
    BY <1>2, <1>3, <1>7, <2>1
       DEF DoneRight, BeyondRight, New, Occurs, Matched, Known, Total, Positions
  <2> QED
    BY <1>0, <1>1, <1>2, <1>3, <1>5, <1>6, <2>1, <2>2, <2>3 DEF ByDoc
<1>8. CASE d \in active /\ d \in Matched(p)
  <2>1. d \in active' /\ matches'[d] = matches[d] \cup {line[p]} /\ stop'[d] = p
    BY <1>0, <1>1, <1>4, <1>8, VisitDoc
  <2>2. OpenRight(d)
    BY <1>3, <1>8
  <2>3. Occurs(d, start[d], p) = Occurs(d, start[d], stop[d]) \cup {p}
    <3>1. ASSUME NEW k \in start[d] .. p, k # p, d \in Matched(k)
          PROVE  k \in start[d] .. stop[d]
      BY <1>0, <1>1, <1>3, <2>2, <3>1 DEF OpenRight, Positions
    <3> QED
      BY <1>0, <1>1, <1>3, <1>8, <3>1 DEF Occurs
  <2>4. matches'[d] = {line[k] : k \in Occurs(d, start[d], p)}
    BY <1>3, <2>1, <2>3 DEF Collected
  <2>5. Collected(d)'
    <3>1. p \in seed .. Total /\ d \in Matched(p) /\ d \in Matched(start[d])
      BY <1>0, <1>1, <1>3, <1>8 DEF Collected, Positions
    <3> HIDE DEF p
    <3> QED
      BY <1>2, <1>3, <2>1, <2>4, <3>1 DEF Collected, Occurs, Matched, Known, Total
  <2>6. New(d, start[d], p, p) => misses'[d] = 0
    <3>1. SUFFICES ASSUME New(d, start[d], p, p) PROVE line[p] \notin matches[d]
      BY <1>0, <1>1, <1>8, VisitDoc
    <3>2. ASSUME NEW k \in Occurs(d, start[d], stop[d]) PROVE line[k] # line[p]
      BY <1>1, <1>3, <2>3, <3>1 DEF New, Occurs
    <3> QED
      BY <1>3, <3>2 DEF Collected
  <2>7. OpenRight(d)'
    BY <1>0, <1>1, <1>2, <2>1, <2>6
       DEF OpenRight, New, Occurs, Matched, Known, Total, Positions
  <2> QED
    BY <1>0, <1>1, <1>2, <1>3, <1>5, <1>6, <2>1, <2>5, <2>7 DEF ByDoc
<1>9. CASE d \in active /\ d \notin Matched(p)
  <2>1. /\ matches'[d] = matches[d] /\ stop'[d] = stop[d] /\ misses'[d] = misses[d] + 1
        /\ d \in active' <=> misses[d] + 1 < MaxMisses
    BY <1>0, <1>1, <1>4, <1>9, VisitDoc
  <2>2. OpenRight(d)
    BY <1>3, <1>9
  <2>3. Collected(d)'
    BY <1>2, <1>3, <2>1 DEF Collected, Occurs, Matched, Known, Total
  <2>4. \A k \in Positions : stop[d] < k /\ k <= p => d \notin Matched(k)
    BY <1>0, <1>1, <1>3, <1>9, <2>2 DEF OpenRight, Positions
  <2>5. New(d, start[d], stop[d], stop[d]) => misses'[d] = p - stop[d]
    BY <1>1, <1>3, <2>1, <2>2 DEF OpenRight
  <2>6. OpenRight(d)'
    BY <1>0, <1>1, <1>2, <1>3, <2>1, <2>4, <2>5
       DEF OpenRight, New, Occurs, Matched, Known, Total, Positions
  <2>7. ASSUME d \notin active' PROVE DoneRight(d)'
    <3>1. d \notin Matched(stop[d] + 1)
      BY <1>0, <1>1, <1>3, <2>4 DEF Positions
    <3>2. New(d, start[d], stop[d], stop[d]) => p - stop[d] >= MaxMisses
      BY <1>0, <1>1, <1>3, <2>1, <2>5, <2>7, MissesAssumption DEF TypeOK
    <3>3. New(d, start[d], stop[d], stop[d]) => BeyondRight(d)
      BY <1>0, <1>1, <1>3, <2>4, <3>2, MissesAssumption DEF BeyondRight, Positions
    <3> QED
      BY <1>2, <2>1, <3>1, <3>3
         DEF DoneRight, BeyondRight, New, Occurs, Matched, Known, Total, Positions
  <2> QED
    BY <1>0, <1>1, <1>2, <1>3, <1>5, <1>6, <2>1, <2>3, <2>6, <2>7 DEF ByDoc
<1> QED
  BY <1>7, <1>8, <1>9

LEMMA StepRightType == IInv /\ StepRight => TypeOK'
<1> SUFFICES ASSUME IInv, StepRight PROVE TypeOK'
  OBVIOUS
<1>1. TypeOK /\ phase = "right" /\ current \in Positions /\ current < Total /\ Total \in Nat
  BY Lookups DEF IInv, StepRight, TypeOK
<1>2. current + 1 \in Positions
  BY <1>1 DEF Positions
<1>3. Visit(current + 1)
  BY DEF StepRight
<1>4. stop' \in [Docs -> 0 .. Total]
  BY <1>1, <1>2 DEF StepRight, TypeOK, Positions
<1>5. UNCHANGED <<line, index, phase, i, seed, start>> /\ Total' = Total /\ Positions' = Positions
  BY DEF StepRight, Total, Positions
<1> QED
  BY <1>1, <1>2, <1>3, <1>4, <1>5, VisitType DEF TypeOK

-----------------------------------------------------------------------------
(* A cluster begins and ends. *)

LEMMA HitDoc ==
    ASSUME IInv, Hit, NEW d \in Matched(i)
    PROVE  ByDoc(d)'
<1>1. TypeOK /\ i \in Positions /\ i \in Nat /\ Total \in Nat /\ 1 <= i /\ i <= Total
  BY Lookups DEF IInv, Hit, TypeOK, Positions
<1>2. d \in Docs /\ line[i] \in Ids /\ index.docs[line[i]] = Matched(i)
  BY <1>1, Lookups
<1>3. /\ line' = line /\ index' = index /\ phase' = "left" /\ seed' = i /\ current' = i
      /\ active' = Matched(i) /\ frequencies' = {<<line[i], Cardinality(Matched(i))>>}
  BY DEF Hit
<1>4. /\ matches'[d] = {line[i]} /\ misses'[d] = 0 /\ start'[d] = i /\ stop'[d] = i
  BY <1>2 DEF Hit
<1>5. Occurs(d, i, i) = {i}
  BY <1>1 DEF Occurs
<1>6. matches'[d] = {line[k] : k \in Occurs(d, i, i)}
  BY <1>4, <1>5
<1>7. Collected(d)'
  BY <1>1, <1>3, <1>4, <1>6 DEF Collected, Occurs, Matched, Known, Total
<1>8. OpenLeft(d)'
  BY <1>1, <1>3, <1>4 DEF OpenLeft, Positions, Total
<1>9. (\A g \in matches[d] : <<g, Cardinality(index.docs[g])>> \in frequencies)'
  BY <1>2, <1>3, <1>4
<1> QED
  BY <1>1, <1>3, <1>4, <1>7, <1>8, <1>9 DEF ByDoc

LEMMA HitType == IInv /\ Hit => TypeOK'
<1> SUFFICES ASSUME IInv, Hit PROVE TypeOK'
  OBVIOUS
<1>1. TypeOK /\ i \in Positions /\ Total \in Nat /\ i \in 0 .. Total
  BY Lookups DEF IInv, Hit, TypeOK, Positions
<1>2. Matched(i) \subseteq Docs /\ line[i] \in Ids /\ Cardinality(Matched(i)) \in Nat
  BY <1>1, Lookups DEF Hit
<1>3. /\ matches' \in [Docs -> SUBSET Ids] /\ misses' \in [Docs -> Nat]
      /\ start' \in [Docs -> 0 .. Total] /\ stop' \in [Docs -> 0 .. Total]
      /\ frequencies' \subseteq Ids \X Nat /\ active' \subseteq Docs
  BY <1>1, <1>2 DEF Hit
<1>4. /\ UNCHANGED <<line, index, i>> /\ Total' = Total /\ Positions' = Positions
      /\ phase' = "left" /\ seed' = i /\ current' = i
  BY DEF Hit, Total, Positions
<1> QED
  BY <1>1, <1>3, <1>4 DEF TypeOK

(* The cluster that Close appends: what the properties say of it, and that  *)
(* none of its documents goes on next to its boundary.                      *)
LEMMA CloseCluster ==
    ASSUME IInv, Close
    PROVE  /\ Cluster \in ClusterSet
           /\ Exact(Cluster) /\ NotCutShort(Cluster) /\ Reaches(Cluster)
<1>1. TypeOK /\ Total \in Nat /\ phase = "right" /\ current \in Positions /\ seed \in Positions
  BY Lookups DEF IInv, Close, TypeOK
<1>2. Found \subseteq Docs
  BY <1>1, Lookups DEF Found
<1>3. Cluster \in ClusterSet
  BY <1>1, <1>2 DEF Cluster, ClusterSet, TypeOK, Found
<1>4. ASSUME NEW d \in Found
      PROVE  /\ Collected(d) /\ DoneLeft(d) /\ DoneRight(d) /\ stop[d] <= current
             /\ \A g \in matches[d] : <<g, Cardinality(index.docs[g])>> \in frequencies
  <2>1. /\ Collected(d) /\ DoneLeft(d) /\ stop[d] <= current /\ stop[d] \in seed .. Total
        /\ IF d \in active THEN OpenRight(d) ELSE DoneRight(d)
        /\ \A g \in matches[d] : <<g, Cardinality(index.docs[g])>> \in frequencies
    BY <1>1 DEF IInv, Expanding, ByDoc, Collected
  <2>2. ASSUME d \in active PROVE DoneRight(d)
    <3>1. OpenRight(d) /\ current = Total
      BY <2>1, <2>2 DEF Close
    <3>2. \A k \in Positions : stop[d] < k => d \notin Matched(k)
      BY <1>1, <3>1 DEF OpenRight, Positions
    <3>3. stop[d] = Total \/ d \notin Matched(stop[d] + 1)
      BY <1>1, <2>1, <3>2 DEF Positions
    <3>4. BeyondRight(d)
      BY <1>1, <2>1, <3>2, MissesAssumption DEF BeyondRight, Positions
    <3> QED
      BY <3>3, <3>4 DEF DoneRight
  <2> QED
    BY <2>1, <2>2
<1>5. /\ Cluster.seed = seed /\ Cluster.docs = Found /\ Cluster.matches = matches
      /\ Cluster.start = start /\ Cluster.stop = stop /\ Cluster.frequencies = frequencies
      /\ Cluster.end = current
  BY DEF Cluster, Found
<1>6. Exact(Cluster)
  <2> SUFFICES ASSUME NEW d \in Found
               PROVE  /\ start[d] \in 1 .. seed /\ stop[d] \in seed .. current
                      /\ d \in Matched(start[d]) /\ d \in Matched(stop[d])
                      /\ matches[d] = {line[k] : k \in Occurs(d, start[d], stop[d])}
                      /\ \A g \in matches[d] : <<g, Cardinality(index.docs[g])>> \in frequencies
    BY <1>5 DEF Exact
  <2>1. Collected(d) /\ stop[d] <= current
    BY <1>4
  <2>2. stop[d] \in seed .. current
    BY <1>1, <2>1 DEF Collected, Positions
  <2> QED
    BY <1>4, <2>1, <2>2 DEF Collected
<1>7. NotCutShort(Cluster)
  BY <1>4, <1>5 DEF NotCutShort, QuietLeft, QuietRight, DoneLeft, DoneRight, BeyondLeft, BeyondRight
<1>8. Reaches(Cluster)
  BY <1>4, <1>5 DEF Reaches, DoneLeft, DoneRight
<1> QED
  BY <1>3, <1>6, <1>7, <1>8

(* A run of Sample n-grams through the seed of an exact cluster that reaches *)
(* as far as its documents go is followed from its first to its last n-gram. *)
LEMMA RunThroughSeed ==
    ASSUME TypeOK, NEW c \in ClusterSet, Exact(c), Reaches(c), c.docs = Matched(c.seed),
           NEW d \in Docs, NEW p \in Positions, Run(d, p),
           p <= c.seed, c.seed <= p + Sample - 1
    PROVE  Follows(c, d, p)
<1> DEFINE q == p + Sample - 1
<1>1. /\ Total \in Nat /\ c.seed \in Nat /\ p \in Nat /\ q \in Nat /\ c.end \in Nat
      /\ 1 <= p /\ p <= c.seed /\ c.seed <= q
  BY Lookups, SampleAssumption DEF ClusterSet, Positions
<1>2. \A k \in p .. q : d \in Matched(k)
  BY DEF Run
<1>3. q <= Total
  BY DEF Run
<1> HIDE DEF q
<1>4. d \in c.docs
  BY <1>1, <1>2
<1>5. /\ c.start[d] \in 1 .. c.seed /\ c.stop[d] \in c.seed .. c.end
      /\ c.start[d] = 1 \/ d \notin Matched(c.start[d] - 1)
      /\ c.stop[d] = Total \/ d \notin Matched(c.stop[d] + 1)
  BY <1>4 DEF Exact, Reaches
<1>6. c.start[d] <= p
  <2> SUFFICES ASSUME c.start[d] > p PROVE FALSE
    BY <1>1, <1>5
  <2>1. c.start[d] - 1 \in p .. q /\ c.start[d] # 1
    BY <1>1, <1>5
  <2> QED
    BY <1>2, <1>5, <2>1
<1>7. q <= c.stop[d]
  <2> SUFFICES ASSUME c.stop[d] < q PROVE FALSE
    BY <1>1, <1>5
  <2>1. c.stop[d] + 1 \in p .. q /\ c.stop[d] # Total
    BY <1>1, <1>3, <1>5
  <2> QED
    BY <1>2, <1>5, <2>1
<1> QED
  BY <1>4, <1>6, <1>7 DEF Follows, q

-----------------------------------------------------------------------------
(* Every action. *)

(* What Close appends keeps the list of clusters sound and catches the runs *)
(* that end between the seed and the cluster's end.                         *)
LEMMA CloseInv == IInv /\ Close => IInv'
<1> SUFFICES ASSUME IInv, Close PROVE IInv'
  OBVIOUS
<1>1. /\ TypeOK /\ Total \in Nat /\ phase = "right" /\ current \in Positions
      /\ seed \in Positions /\ i \in Nat /\ i >= 1
  BY Lookups DEF IInv, Close, TypeOK
<1>2. i = seed /\ seed <= current /\ current \in Nat
  BY <1>1, Lookups DEF IInv, Expanding
<1>3. i' = current + 1
  BY <1>1, <1>2 DEF Close
<1>4. /\ UNCHANGED <<line, index, cursor>> /\ phase' = "scan"
      /\ Total' = Total /\ Positions' = Positions /\ ClusterSet' = ClusterSet
  BY DEF Close, Total, Positions, ClusterSet
<1>5. TypeOK'
  BY <1>1, <1>2, <1>3, <1>4 DEF TypeOK, cursor
<1> DEFINE N == Len(clusters)
<1>6. clusters \in Seq(ClusterSet) /\ N \in Nat
  BY DEF IInv
<1>7. /\ clusters' \in Seq(ClusterSet) /\ Len(clusters') = N + 1
      /\ \A n \in 1 .. N : clusters'[n] = clusters[n]
      /\ clusters'[N + 1] = Cluster
  BY <1>6, CloseCluster DEF Close
<1>8. ExactMatches'
  <2>1. \A n \in 1 .. N + 1 : Exact(clusters'[n]) /\ NotCutShort(clusters'[n])
    BY <1>6, <1>7, CloseCluster DEF IInv, ExactMatches
  <2>2. line' = line /\ index' = index
    BY <1>4
  <2>3. ASSUME NEW n \in 1 .. N + 1
        PROVE  Exact(clusters[n])' /\ NotCutShort(clusters[n])'
    <3>1. Exact(clusters'[n]) /\ NotCutShort(clusters'[n])
      BY <2>1
    <3>2. Exact(clusters[n])'
      BY <2>2, <3>1 DEF Exact, Occurs, Matched, Known
    <3>3. NotCutShort(clusters[n])'
      BY <2>2, <3>1 DEF NotCutShort, QuietLeft, QuietRight, New, Occurs, Matched, Known, Positions, Total
    <3> QED
      BY <3>2, <3>3
  <2> QED
    BY <1>7, <2>3 DEF ExactMatches
<1>9. Caught'
  <2>1. ASSUME NEW d \in Docs, NEW p \in Positions, Run(d, p), p + Sample - 1 <= current
        PROVE  \E n \in 1 .. N + 1 : Follows(clusters'[n], d, p) \/ Covers(clusters'[n], p)
    <3> DEFINE q == p + Sample - 1
    <3>1. p \in Nat /\ q \in Nat /\ p <= q
      BY <1>1, SampleAssumption DEF Positions
    <3>2. Cluster.seed = seed /\ Cluster.end = current /\ Cluster.docs = Matched(Cluster.seed)
      BY DEF Cluster
    <3>3. CASE q < i
      <4>1. PICK n \in 1 .. N : Follows(clusters[n], d, p) \/ Covers(clusters[n], p)
        BY <2>1, <3>3 DEF IInv, Caught
      <4> QED
        BY <1>6, <1>7, <4>1
    <3>4. CASE seed <= q /\ p <= seed
      <4>1. Follows(Cluster, d, p)
        BY <1>1, <2>1, <3>2, <3>4, CloseCluster, RunThroughSeed
      <4> QED
        BY <1>6, <1>7, <4>1
    <3>5. CASE seed < p
      <4>1. Covers(Cluster, p)
        BY <2>1, <3>2, <3>5 DEF Covers
      <4> QED
        BY <1>6, <1>7, <4>1
    <3> QED
      BY <1>1, <1>2, <3>1, <3>3, <3>4, <3>5
  <2>2. \A p \in Positions : p \in Nat
    BY <1>1 DEF Positions
  <2>3. ASSUME NEW d \in Docs, NEW p \in Positions, Run(d, p), p + Sample - 1 < i'
        PROVE  \E n \in 1 .. Len(clusters') : Follows(clusters'[n], d, p) \/ Covers(clusters'[n], p)
    <3>1. p + Sample - 1 <= current
      BY <1>2, <1>3, <2>2, <2>3, SampleAssumption
    <3> QED
      BY <1>7, <2>1, <2>3, <3>1
  <2> QED
    BY <1>4, <2>3 DEF Caught, Run, Follows, Covers, Hot, Matched, Known, Total, Positions
<1>10. Expanding'
  BY <1>4 DEF Expanding
<1> QED
  BY <1>4, <1>5, <1>7, <1>8, <1>9, <1>10 DEF IInv

(* No run of n-grams of a document is lost when sampling steps over p.      *)
LEMMA NoHitCaught == IInv /\ NoHit => Caught'
<1> SUFFICES ASSUME IInv, NoHit PROVE Caught'
  OBVIOUS
<1>1. /\ TypeOK /\ Total \in Nat /\ i \in Nat /\ i >= 1 /\ ~Known(i) /\ i' = i + Sample
      /\ Sample \in Nat
  BY Lookups, SampleAssumption DEF IInv, NoHit, TypeOK
<1>2. ASSUME NEW d \in Docs, NEW p \in Positions, Run(d, p), p + Sample - 1 < i + Sample
      PROVE  p + Sample - 1 < i
  <2> SUFFICES ASSUME i <= p + Sample - 1 PROVE FALSE
    BY <1>1 DEF Positions
  <2>1. i \in p .. p + Sample - 1
    BY <1>1, <1>2 DEF Positions
  <2> QED
    BY <1>1, <1>2, <2>1 DEF Run, Matched
<1> QED
  BY <1>1, <1>2 DEF IInv, NoHit, Caught, Run, Follows, Covers, Hot, Matched, Known, Total, Positions

LEMMA HotHitCaught == IInv /\ HotHit => Caught'
<1> SUFFICES ASSUME IInv, HotHit PROVE Caught'
  OBVIOUS
<1>1. /\ TypeOK /\ Total \in Nat /\ i \in Nat /\ i >= 1 /\ Hot(i) /\ i' = i + 1
      /\ Sample \in Nat
  BY Lookups, SampleAssumption DEF IInv, HotHit, TypeOK
<1>2. ASSUME NEW d \in Docs, NEW p \in Positions, Run(d, p), p + Sample - 1 < i + 1
      PROVE  p + Sample - 1 < i
  BY <1>1, <1>2 DEF Positions, Run
<1> QED
  BY <1>1, <1>2 DEF IInv, HotHit, Caught, Run, Follows, Covers, Hot, Matched, Known, Total, Positions

THEOREM NextInv == IInv /\ [ScanNext]_scanVars => IInv'
<1> SUFFICES ASSUME IInv, [ScanNext]_scanVars PROVE IInv'
  OBVIOUS
<1>1. /\ TypeOK /\ Total \in Nat /\ i \in Nat /\ i >= 1 /\ clusters \in Seq(ClusterSet)
      /\ ExactMatches /\ Caught
      /\ phase = "done" => i > Total
  BY Lookups DEF IInv, TypeOK
<1>2. CASE NoHit
  <2>1. /\ UNCHANGED <<line, index, phase, clusters, cursor>> /\ phase = "scan" /\ i' = i + Sample
        /\ ClusterSet' = ClusterSet /\ Total' = Total /\ Positions' = Positions
    BY <1>2 DEF NoHit, ClusterSet, Total, Positions
  <2>2. TypeOK'
    BY <1>1, <2>1, SampleAssumption DEF TypeOK, cursor
  <2> QED
    BY <1>1, <1>2, <2>1, <2>2, ClustersKept, NoHitCaught DEF IInv, Expanding
<1>3. CASE HotHit
  <2>1. /\ UNCHANGED <<line, index, phase, clusters, cursor>> /\ phase = "scan" /\ i' = i + 1
        /\ ClusterSet' = ClusterSet /\ Total' = Total /\ Positions' = Positions
    BY <1>3 DEF HotHit, ClusterSet, Total, Positions
  <2>2. TypeOK'
    BY <1>1, <2>1 DEF TypeOK, cursor
  <2> QED
    BY <1>1, <1>3, <2>1, <2>2, ClustersKept, HotHitCaught DEF IInv, Expanding
<1>4. CASE Hit
  <2>1. /\ UNCHANGED <<line, index, i, clusters>> /\ phase' = "left" /\ seed' = i
        /\ current' = i /\ active' = Matched(i) /\ ClusterSet' = ClusterSet
    BY <1>4 DEF Hit, ClusterSet, Total, Positions
  <2>2. Found' = Matched(i)
    BY <2>1 DEF Found, Matched, Known
  <2>3. Expanding'
    BY <1>1, <1>4, <2>1, <2>2, HitDoc DEF Expanding
  <2> QED
    BY <1>1, <1>4, <2>1, <2>3, HitType, ClustersKept DEF IInv
<1>5. CASE StepLeft
  <2>1. /\ UNCHANGED <<line, index, phase, i, clusters, seed>> /\ phase = "left"
        /\ Found' = Found /\ ClusterSet' = ClusterSet /\ Total' = Total
    BY <1>5 DEF StepLeft, Found, Matched, Known, ClusterSet, Total, Positions
  <2>2. active' \subseteq active /\ current' = current - 1
    BY <1>5 DEF StepLeft, Visit
  <2>3. current' <= seed
    BY <1>1, <2>1, <2>2, Lookups DEF IInv, Expanding, TypeOK
  <2>4. Expanding'
    BY <1>5, <2>1, <2>2, <2>3, StepLeftDoc DEF IInv, Expanding
  <2> QED
    BY <1>1, <1>5, <2>1, <2>4, StepLeftType, ClustersKept DEF IInv
<1>6. CASE Turn
  <2>1. /\ UNCHANGED <<line, index, i, clusters, seed, matches, start, stop, frequencies>>
        /\ phase = "left" /\ phase' = "right" /\ current' = seed /\ active' = Found
        /\ Found' = Found /\ ClusterSet' = ClusterSet /\ Total' = Total /\ Positions' = Positions
    BY <1>6 DEF Turn, Found, Matched, Known, ClusterSet, Total, Positions
  <2>2. seed \in Positions /\ Found \subseteq Docs /\ seed \in Nat
    BY <1>1, <2>1, Lookups DEF TypeOK, Found
  <2>3. misses' \in [Docs -> Nat]
    BY <1>1, <1>6 DEF Turn, TypeOK
  <2>4. TypeOK'
    BY <1>1, <2>1, <2>2, <2>3 DEF TypeOK
  <2>5. Expanding'
    BY <1>6, <2>1, <2>2, TurnDoc DEF IInv, Expanding
  <2> QED
    BY <1>1, <2>1, <2>4, <2>5, ClustersKept DEF IInv
<1>7. CASE StepRight
  <2>1. /\ UNCHANGED <<line, index, phase, i, clusters, seed>> /\ phase = "right"
        /\ Found' = Found /\ ClusterSet' = ClusterSet /\ Total' = Total
    BY <1>7 DEF StepRight, Found, Matched, Known, ClusterSet, Total, Positions
  <2>2. active' \subseteq active /\ current' = current + 1
    BY <1>7 DEF StepRight, Visit
  <2>3. seed <= current'
    BY <1>1, <2>1, <2>2, Lookups DEF IInv, Expanding, TypeOK
  <2>4. Expanding'
    BY <1>7, <2>1, <2>2, <2>3, StepRightDoc DEF IInv, Expanding
  <2> QED
    BY <1>1, <1>7, <2>1, <2>4, StepRightType, ClustersKept DEF IInv
<1>8. CASE Close
  BY <1>8, CloseInv
<1>9. CASE Finish
  <2>1. /\ UNCHANGED <<line, index, i, clusters, cursor>> /\ phase' = "done" /\ i > Total
        /\ ClusterSet' = ClusterSet /\ Total' = Total /\ Positions' = Positions
    BY <1>9 DEF Finish, ClusterSet, Total, Positions
  <2>2. TypeOK'
    BY <1>1, <2>1 DEF TypeOK, cursor
  <2> QED
    BY <1>1, <2>1, <2>2, ClustersKept DEF IInv, Expanding
<1>10. CASE UNCHANGED scanVars
  <2>1. UNCHANGED scanVars /\ ClusterSet' = ClusterSet /\ Total' = Total /\ Positions' = Positions
    BY <1>10 DEF scanVars, ClusterSet, Total, Positions
  <2>2. TypeOK'
    BY <1>1, <2>1 DEF TypeOK, scanVars
  <2>3. UNCHANGED <<line, index, clusters>> /\ i' = i
    BY <2>1 DEF scanVars
  <2>4. ExactMatches' /\ Caught'
    BY <1>1, <2>3, ClustersKept
  <2>5. Expanding'
    BY <2>1 DEF IInv, scanVars, Expanding, Found, ByDoc, Collected, OpenLeft, OpenRight, DoneLeft,
                DoneRight, BeyondLeft, BeyondRight, New, Occurs, Matched, Known, Total, Positions
  <2> QED
    BY <1>1, <2>1, <2>2, <2>4, <2>5 DEF IInv, scanVars
<1> QED
  BY <1>2, <1>3, <1>4, <1>5, <1>6, <1>7, <1>8, <1>9, <1>10 DEF ScanNext

(* Every state satisfies the invariant.                                     *)
THEOREM Invariant == ScanSpec => []IInv
  BY InitInv, NextInv, PTL DEF ScanSpec

-----------------------------------------------------------------------------
(* The properties of the specification. *)

(* Types are kept, and both cursors stay on the line.                       *)
THEOREM TypeCorrect == ScanSpec => []TypeOK
<1>1. IInv => TypeOK
  BY DEF IInv
<1> QED
  BY <1>1, Invariant, PTL

(* The two traversals (detection.rs, expand_simple_contamination_cluster)   *)
(* collect for every document exactly its n-grams between its boundaries,   *)
(* and leave none of them early, on any line and for any index.             *)
THEOREM ExactMatchesHolds == ScanSpec => []ExactMatches
<1>1. IInv => ExactMatches
  BY DEF IInv
<1> QED
  BY <1>1, Invariant, PTL

(* Sampling (identify_contamination_clusters) misses no run of              *)
(* sample_every_m_tokens n-grams of a document whose last n-gram is not     *)
(* hot, unless the cluster of an earlier hit reaches over it.               *)
THEOREM OnlyBlindSpotHolds == ScanSpec => []OnlyBlindSpot
<1>1. IInv => OnlyBlindSpot
  <2> SUFFICES ASSUME IInv, phase = "done", NEW d \in Docs, NEW p \in Positions, Run(d, p)
               PROVE  \E n \in 1 .. Len(clusters) :
                         Follows(clusters[n], d, p) \/ Covers(clusters[n], p)
    BY DEF OnlyBlindSpot
  <2>1. TypeOK
    BY DEF IInv
  <2>2. p \in Nat /\ Total \in Nat /\ i \in Nat /\ i > Total
    BY <2>1, Lookups DEF IInv, TypeOK
  <2>3. p + Sample - 1 < i
    BY <2>2, SampleAssumption DEF Run
  <2> QED
    BY <2>3 DEF IInv, Caught
<1> QED
  BY <1>1, Invariant, PTL

(* Where the clusters lie on the line of tokens, of which there are         *)
(* NgramSize - 1 more than n-grams and which the code counts from 0.        *)
ClustersFit ==
    \A n \in 1 .. Len(clusters) : \A d \in clusters[n].docs : \A tokens :
        Len(tokens) = Total + NgramSize - 1 =>
            OnLine([first |-> clusters[n].start[d] - 1, last |-> clusters[n].stop[d] - 1], tokens)

(* What LineMatches supposes of the clusters holds of those that            *)
(* identify_contamination_clusters returns: each document's boundaries are  *)
(* n-grams of the line, the first not behind the last.                      *)
THEOREM ClustersOnLine == ScanSpec => []ClustersFit
<1>1. ASSUME IInv, NEW n \in 1 .. Len(clusters), NEW d \in clusters[n].docs, NEW tokens,
             Len(tokens) = Total + NgramSize - 1
      PROVE  OnLine([first |-> clusters[n].start[d] - 1, last |-> clusters[n].stop[d] - 1], tokens)
  <2>1. TypeOK /\ clusters \in Seq(ClusterSet) /\ Exact(clusters[n])
    BY <1>1 DEF IInv, ExactMatches
  <2>2. clusters[n] \in ClusterSet
    BY <1>1, <2>1
  <2>3. Total \in Nat /\ clusters[n].seed \in 1 .. Total /\ clusters[n].end \in 1 .. Total
    BY <2>1, <2>2, Lookups DEF ClusterSet, Positions
  <2>4. /\ clusters[n].start[d] \in 1 .. clusters[n].seed
        /\ clusters[n].stop[d] \in clusters[n].seed .. clusters[n].end
    BY <1>1, <2>1 DEF Exact
  <2>5. ASSUME NEW p, NEW q, NEW c \in 1 .. Total, NEW z \in 1 .. Total, p \in 1 .. c, q \in c .. z
        PROVE  OnLine([first |-> p - 1, last |-> q - 1], tokens)
    <3>1. p - 1 \in Nat /\ q - 1 \in Nat /\ p - 1 <= q - 1
      BY <2>3, <2>5
    <3>2. NgramSize \in Nat
      BY InputsAssumption DEF InputsFit
    <3>3. q - 1 + NgramSize <= Len(tokens)
      BY <1>1, <2>3, <2>5, <3>2
    <3> QED
      BY <3>1, <3>3 DEF OnLine
  <2> QED
    BY <2>3, <2>4, <2>5
<1>2. IInv => ClustersFit
  BY <1>1 DEF ClustersFit
<1> QED
  BY <1>2, Invariant, PTL

-----------------------------------------------------------------------------
(* Induction, and loops: tools for what follows. *)

(* A set that has 0 and, with n, also n + 1, has every natural number.     *)
LEMMA Induction ==
    ASSUME NEW S, 0 \in S, \A n \in S \cap Nat : n + 1 \in S
    PROVE  \A n \in Nat : n \in S
<1> DEFINE T == Nat \ S
<1> SUFFICES ASSUME T # {} PROVE FALSE
  OBVIOUS
<1>1. IsWellFoundedOn(OpToRel(<, Nat), Nat)
  BY NatLessThanWellFounded
<1>2. PICK x \in T : \A y \in T : <<y, x>> \notin OpToRel(<, Nat)
  BY <1>1, WFMin
<1>3. \A y \in T : ~(y < x)
  BY <1>2 DEF OpToRel
<1>4. x # 0 /\ x - 1 \in Nat
  OBVIOUS
<1> QED
  BY <1>3, <1>4

(* A non-empty set of natural numbers has a least one.                     *)
LEMMA LeastNatural ==
    ASSUME NEW T, T \subseteq Nat, T # {}
    PROVE  \E x \in T : \A y \in T : x <= y
<1>1. PICK x \in T : \A y \in T : <<y, x>> \notin OpToRel(<, Nat)
  BY NatLessThanWellFounded, WFMin
<1>2. \A y \in T : ~(y < x)
  BY <1>1 DEF OpToRel
<1> QED
  BY <1>2

(* A loop that begins with b and whose n-th turn is F; its results f.      *)
IsLoop(R, b, F) == b \in R /\ F \in [R \X Nat -> R]
IsRun(f, R, b, F) ==
    f \in [Nat -> R] /\ f[0] = b /\ \A n \in Nat : f[n + 1] = F[<<f[n], n>>]

(* Every loop has a run: f[n] is what n turns make of b.                   *)
LEMMA Loop ==
    ASSUME NEW R, NEW b, NEW F, IsLoop(R, b, F)
    PROVE  \E f : IsRun(f, R, b, F)
<1>0. b \in R /\ F \in [R \X Nat -> R]
  BY DEF IsLoop
<1> DEFINE Runs(n) == {g \in [0 .. n -> R] : g[0] = b /\ \A m \in 0 .. n - 1 : g[m + 1] = F[<<g[m], m>>]}
           S == {n \in Nat : Runs(n) # {}}
<1>1. 0 \in S
  <2> DEFINE g == [m \in 0 .. 0 |-> b]
  <2>1. g \in Runs(0)
    BY <1>0
  <2> QED
    BY <2>1
<1>2. ASSUME NEW n \in S \cap Nat PROVE n + 1 \in S
  <2>1. PICK g \in Runs(n) : TRUE
    OBVIOUS
  <2> DEFINE h == [m \in 0 .. n + 1 |-> IF m = n + 1 THEN F[<<g[n], n>>] ELSE g[m]]
  <2>2. g \in [0 .. n -> R] /\ g[n] \in R
    OBVIOUS
  <2>3. F[<<g[n], n>>] \in R
    BY <1>0, <2>2
  <2>4. h \in [0 .. n + 1 -> R] /\ h[0] = b
    BY <2>1, <2>2, <2>3
  <2>5. ASSUME NEW m \in 0 .. n + 1 - 1 PROVE h[m + 1] = F[<<h[m], m>>]
    <3>1. h[m] = g[m]
      OBVIOUS
    <3>2. CASE m = n
      <4>1. h[n + 1] = F[<<g[n], n>>]
        OBVIOUS
      <4> HIDE DEF h
      <4> QED
        BY <3>1, <3>2, <4>1
    <3>3. CASE m # n
      <4>1. m \in 0 .. n - 1 /\ m + 1 \in 0 .. n /\ h[m + 1] = g[m + 1]
        BY <3>3
      <4> QED
        BY <2>1, <3>1, <4>1
    <3> QED
      BY <3>2, <3>3
  <2>6. h \in Runs(n + 1)
    <3> HIDE DEF h
    <3> QED
      BY <2>4, <2>5
  <2>7. n + 1 \in Nat
    OBVIOUS
  <2> HIDE DEF Runs
  <2> QED
    BY <2>6, <2>7
<1>3. \A n \in Nat : n \in S
  <2> HIDE DEF S
  <2> QED
    BY <1>1, <1>2, Induction
<1>4. ASSUME NEW n \in Nat, NEW m \in Nat, NEW g \in Runs(n), NEW h \in Runs(m)
      PROVE  \A k \in 0 .. n : k \in 0 .. m => g[k] = h[k]
  <2> DEFINE E == {k \in Nat : k \in 0 .. n /\ k \in 0 .. m => g[k] = h[k]}
  <2>1. 0 \in E
    OBVIOUS
  <2>2. ASSUME NEW k \in E \cap Nat PROVE k + 1 \in E
    <3>1. SUFFICES ASSUME k + 1 \in 0 .. n, k + 1 \in 0 .. m PROVE g[k + 1] = h[k + 1]
      OBVIOUS
    <3>2. k \in 0 .. n - 1 /\ k \in 0 .. m - 1 /\ g[k] = h[k]
      BY <3>1
    <3> QED
      BY <3>2
  <2>3. \A k \in Nat : k \in E
    <3> HIDE DEF E
    <3> QED
      BY <2>1, <2>2, Induction
  <2> QED
    BY <2>3
<1> DEFINE Run1(n) == CHOOSE g : g \in Runs(n)
           f == [n \in Nat |-> Run1(n)[n]]
<1>5. \A n \in Nat : Run1(n) \in Runs(n)
  BY <1>3
<1>6. ASSUME NEW n \in Nat PROVE f[n + 1] = F[<<f[n], n>>] /\ f[n] \in R
  <2>1. Run1(n) \in Runs(n) /\ Run1(n + 1) \in Runs(n + 1)
    <3>1. n + 1 \in Nat
      OBVIOUS
    <3> HIDE DEF Runs, Run1
    <3> QED
      BY <1>5, <3>1
  <2>2. Run1(n)[n] = Run1(n + 1)[n]
    <3>1. n + 1 \in Nat /\ n \in 0 .. n /\ n \in 0 .. n + 1
      OBVIOUS
    <3> HIDE DEF Runs, Run1
    <3> QED
      BY <1>4, <2>1, <3>1
  <2>3. f[n] = Run1(n)[n] /\ f[n + 1] = Run1(n + 1)[n + 1]
    <3>1. n + 1 \in Nat
      OBVIOUS
    <3> HIDE DEF Runs, Run1
    <3> QED
      BY <3>1
  <2>4. Run1(n + 1)[n + 1] = F[<<Run1(n + 1)[n], n>>] /\ Run1(n)[n] \in R
    <3> HIDE DEF Run1
    <3> QED
      BY <2>1
  <2> HIDE DEF f, Run1, Runs
  <2> QED
    BY <2>2, <2>3, <2>4
<1>7. f[0] = b
  <2>1. Run1(0) \in Runs(0)
    BY <1>5
  <2> HIDE DEF Run1
  <2> QED
    BY <2>1
<1>8. f \in [Nat -> R]
  BY <1>6
<1> HIDE DEF f
<1> QED
  BY <1>6, <1>7, <1>8 DEF IsRun

-----------------------------------------------------------------------------
(* A line and one of the matches of its clusters. *)
Given == input \in Inputs
Pair(k, d) == k \in 1 .. Len(input.clusters) /\ d \in DOMAIN input.clusters[k]

(* The settings are natural numbers, the n-gram lengths are not 0.         *)
LEMMA Sizes ==
    /\ NgramSize \in Nat \ {0} /\ AnswerNgramSize \in Nat \ {0} /\ PassageNgramSize \in Nat \ {0}
    /\ PassageMisses \in Nat /\ ShortAnswer \in Nat /\ ShortWindow \in Nat
    /\ LongWindow \in Nat /\ MinDistance \in Nat
BY InputsAssumption DEF InputsFit

(* Length and tokens of the texts of a match.                              *)
LEMMA MatchTexts ==
    ASSUME Given, NEW k, NEW d, Pair(k, d)
    PROVE  /\ input.tokens \in Seq(Nat) /\ Length \in Nat
           /\ Doc(d).length \in Nat \ {0}
           /\ Doc(d).answer \in Seq(Nat) /\ Len(Doc(d).answer) \in Nat
           /\ Doc(d).passage \in Seq(Nat) /\ Len(Doc(d).passage) \in Nat
<1>1. d \in DOMAIN input.docs
  BY InputsAssumption DEF Given, Pair, InputsFit
<1>2. /\ input.docs[d].length \in Nat \ {0}
      /\ input.docs[d].answer \in Seq(Nat) /\ input.docs[d].passage \in Seq(Nat)
      /\ input.tokens \in Seq(Nat)
  BY <1>1, InputsAssumption DEF Given, InputsFit, Texts
<1> QED
  BY <1>2 DEF Doc, Length

(* The question of a match lies in the line.                               *)
LEMMA QuestionPlace ==
    ASSUME Given, NEW k, NEW d, Pair(k, d)
    PROVE  /\ QuestionStart(k, d) \in Nat /\ QuestionEnd(k, d) \in Nat
           /\ QuestionStart(k, d) <= QuestionEnd(k, d)
           /\ QuestionEnd(k, d) < Length
<1>1. /\ Match(k, d).first \in Nat /\ Match(k, d).last \in Nat
      /\ Match(k, d).first <= Match(k, d).last
      /\ Match(k, d).last + NgramSize <= Length
  BY InputsAssumption DEF Given, Pair, InputsFit, OnLine, Match, Length
<1> QED
  BY <1>1, Sizes, MatchTexts DEF Given, QuestionStart, QuestionEnd

(* The window of the answer begins behind the question's first token and   *)
(* ends in the line.                                                       *)
LEMMA AnswerPlace ==
    ASSUME Given, NEW k, NEW d, Pair(k, d)
    PROVE  /\ AnswerStart(k, d) \in Nat
           /\ QuestionStart(k, d) < AnswerStart(k, d)
           /\ AnswerStart(k, d) <= QuestionEnd(k, d) + 1
           /\ AnswerStart(k, d) <= QuestionEnd(k, d) =>
                ClusterLength(k, d) > Doc(d).length
           /\ AnswerWindow(d) \in Nat
           /\ AnswerEnd(k, d) \in Nat
           /\ AnswerEnd(k, d) <= Length
           /\ AnswerEnd(k, d) <= AnswerStart(k, d) + AnswerWindow(d)
           /\ AnswerEnd(k, d) = Length \/ AnswerEnd(k, d) = AnswerStart(k, d) + AnswerWindow(d)
<1> DEFINE first == QuestionStart(k, d)
           last == QuestionEnd(k, d)
           length == Doc(d).length
<1>1. first \in Nat /\ last \in Nat /\ first <= last /\ length \in Nat \ {0} /\ Length \in Nat
  BY QuestionPlace, MatchTexts
<1>2. ClusterLength(k, d) = last - first + 1
  BY DEF ClusterLength
<1>3. AnswerStart(k, d) = (IF last - first + 1 > length THEN first + length ELSE last + 1)
  <2>1. Excess(k, d) = IF last - first + 1 > length THEN last - first + 1 - length ELSE 0
    BY <1>1, <1>2 DEF Excess, Below
  <2> HIDE DEF first, last, length
  <2> QED
    BY <1>1, <2>1 DEF AnswerStart, Below, last
<1>4. AnswerWindow(d) \in Nat
  BY Sizes, MatchTexts DEF Given, AnswerWindow, MaxOf
<1> HIDE DEF first, last, length
<1>5. /\ AnswerStart(k, d) \in Nat /\ first < AnswerStart(k, d)
      /\ AnswerStart(k, d) <= last + 1
      /\ AnswerStart(k, d) <= last => last - first + 1 > length
  BY <1>1, <1>3
<1>6. /\ AnswerEnd(k, d) \in Nat
      /\ AnswerEnd(k, d) <= Length
      /\ AnswerEnd(k, d) <= AnswerStart(k, d) + AnswerWindow(d)
      /\ AnswerEnd(k, d) = Length \/ AnswerEnd(k, d) = AnswerStart(k, d) + AnswerWindow(d)
  BY <1>1, <1>4, <1>5 DEF AnswerEnd, MinOf
<1> QED
  BY <1>2, <1>4, <1>5, <1>6 DEF first, last, length

(* The window of the passage ends before the question's first token.       *)
LEMMA PassagePlace ==
    ASSUME Given, NEW k, NEW d, Pair(k, d)
    PROVE  /\ PassageWindow(k, d) \in Nat
           /\ PassageEnd(k, d) \in Nat /\ PassageBegin(k, d) \in Nat
           /\ PassageBegin(k, d) <= PassageEnd(k, d)
           /\ PassageEnd(k, d) = IF QuestionStart(k, d) > 0 THEN QuestionStart(k, d) - 1 ELSE 0
           /\ PassageBegin(k, d) = IF PassageEnd(k, d) > PassageWindow(k, d)
                                       THEN PassageEnd(k, d) - PassageWindow(k, d) ELSE 0
<1>1. QuestionStart(k, d) \in Nat
  BY QuestionPlace
<1>2. PassageWindow(k, d) \in Nat
  BY Sizes, MatchTexts DEF Given, PassageWindow, MaxOf
<1>3. /\ PassageEnd(k, d) = IF QuestionStart(k, d) > 0 THEN QuestionStart(k, d) - 1 ELSE 0
      /\ PassageEnd(k, d) \in Nat
  BY <1>1 DEF PassageEnd, Below
<1> QED
  BY <1>2, <1>3 DEF PassageBegin, Below

-----------------------------------------------------------------------------
(* The traversal of the passage. *)
Seen(d) == [first : Int, last : Int, misses : Nat, hits : SUBSET PassageGrams(d)]

(* One position of the traversal keeps the type of what is seen.           *)
LEMMA LookBackType ==
    ASSUME Given, NEW d, NEW s \in Seen(d), NEW p \in Int
    PROVE  LookBack(PassageGrams(d), s, p) \in Seen(d)
<1>1. CASE s.misses > PassageMisses
  BY <1>1 DEF LookBack
<1>2. CASE ~(s.misses > PassageMisses) /\ Gram(p, PassageNgramSize) \in PassageGrams(d)
  <2>1. MaxOf(s.last, p + PassageNgramSize - 1) \in Int
    BY Sizes DEF Given, Seen, MaxOf
  <2>2. s.hits \cup {Gram(p, PassageNgramSize)} \in SUBSET PassageGrams(d)
    BY <1>2 DEF Seen
  <2> QED
    BY <1>2, <2>1, <2>2 DEF LookBack, Seen
<1>3. CASE ~(s.misses > PassageMisses) /\ ~(Gram(p, PassageNgramSize) \in PassageGrams(d))
  BY <1>3 DEF LookBack, Seen
<1> QED
  BY <1>1, <1>2, <1>3

(* The traversal is the loop of LookBack over its positions.               *)
LEMMA LookedLoop ==
    ASSUME Given, NEW k, NEW d, Pair(k, d)
    PROVE  /\ Looked(k, d)[0] = NothingSeen
           /\ \A j \in Nat : Looked(k, d)[j + 1] =
                  LookBack(PassageGrams(d), Looked(k, d)[j],
                             PassageEnd(k, d) - PassageNgramSize - j)
           /\ \A j \in Nat : Looked(k, d)[j] \in Seen(d)
<1> DEFINE last == PassageEnd(k, d) - PassageNgramSize
           G == PassageGrams(d)
           F == [x \in Seen(d) \X Nat |-> LookBack(G, x[1], last - x[2])]
           Body(s) == [j \in Nat |-> IF j = 0 THEN NothingSeen
                                     ELSE LookBack(G, s[j - 1], last + 1 - j)]
<1>1. last \in Int
  BY Sizes, PassagePlace DEF Given
<1>2. F \in [Seen(d) \X Nat -> Seen(d)]
  <2> HIDE DEF last
  <2>1. ASSUME NEW x \in Seen(d) \X Nat PROVE LookBack(G, x[1], last - x[2]) \in Seen(d)
    BY <1>1, LookBackType
  <2> QED
    BY <2>1
<1>3. NothingSeen \in Seen(d)
  BY DEF NothingSeen, Seen
<1>4. PICK f \in [Nat -> Seen(d)] : f[0] = NothingSeen /\ \A n \in Nat : f[n + 1] = F[<<f[n], n>>]
  <2> HIDE DEF F
  <2>1. IsLoop(Seen(d), NothingSeen, F)
    BY <1>2, <1>3 DEF IsLoop
  <2>2. \E f : IsRun(f, Seen(d), NothingSeen, F)
    BY <2>1, Loop
  <2> QED
    BY <2>2 DEF IsRun
<1>5. \A n \in Nat : f[n + 1] = LookBack(G, f[n], last - n)
  <2> HIDE DEF G, last
  <2> QED
    BY <1>4
<1>6. f = Body(f)
  <2>1. ASSUME NEW j \in Nat PROVE f[j] = Body(f)[j]
    <3>1. CASE j = 0
      BY <1>4, <3>1
    <3>2. CASE j # 0
      <4>1. j - 1 \in Nat /\ last - (j - 1) = last + 1 - j /\ (j - 1) + 1 = j
        BY <1>1, <3>2
      <4>2. f[j] = LookBack(G, f[j - 1], last + 1 - j)
        <5> HIDE DEF last, G
        <5> QED
          BY <1>5, <4>1
      <4> QED
        BY <3>2, <4>2
    <3> QED
      BY <3>1, <3>2
  <2> QED
    BY <2>1
<1>7. Looked(k, d) = CHOOSE s : s = Body(s)
  BY <1>1, <1>5, <1>6 DEF Looked
<1>8. Looked(k, d) = Body(Looked(k, d))
  <2> HIDE DEF Body
  <2> QED
    BY <1>6, <1>7
<1> DEFINE s == Looked(k, d)
<1>9. \A j \in Nat : s[j] = IF j = 0 THEN NothingSeen ELSE LookBack(G, s[j - 1], last + 1 - j)
  <2> HIDE DEF s
  <2>1. s = Body(s)
    BY <1>8 DEF s
  <2> QED
    BY <2>1
<1> HIDE DEF s, F, Body
<1>10. s[0] = NothingSeen
  BY <1>9
<1>11. ASSUME NEW j \in Nat
       PROVE  s[j + 1] = LookBack(G, s[j], last - j)
  <2>1. j + 1 \in Nat /\ j + 1 # 0 /\ (j + 1) - 1 = j /\ last + 1 - (j + 1) = last - j
    BY <1>1
  <2> HIDE DEF G, last
  <2> QED
    BY <1>9, <2>1
<1>12. \A j \in Nat : s[j] \in Seen(d)
  <2> DEFINE S == {j \in Nat : s[j] \in Seen(d)}
  <2>1. 0 \in S
    BY <1>3, <1>10
  <2>2. ASSUME NEW j \in S \cap Nat PROVE j + 1 \in S
    <3>1. last - j \in Int
      BY <1>1
    <3> HIDE DEF last
    <3> QED
      BY <1>11, <3>1, LookBackType
  <2>3. \A j \in Nat : j \in S
    <3> HIDE DEF S
    <3> QED
      BY <2>1, <2>2, Induction
  <2> QED
    BY <2>3
<1> QED
  BY <1>10, <1>11, <1>12 DEF s

(* The least element of a set is its Min, the greatest its Max.            *)
LEMMA Extremes ==
    ASSUME NEW S \in SUBSET Int, NEW x \in S
    PROVE  /\ (\A y \in S : x <= y) => Min(S) = x
           /\ (\A y \in S : y <= x) => Max(S) = x
<1>1. ASSUME \A y \in S : x <= y PROVE Min(S) = x
  <2>1. Min(S) \in S /\ \A y \in S : Min(S) <= y
    BY <1>1 DEF Min
  <2>2. Min(S) \in Int /\ x \in Int /\ Min(S) <= x /\ x <= Min(S)
    BY <1>1, <2>1
  <2> QED
    BY <2>2
<1>2. ASSUME \A y \in S : y <= x PROVE Max(S) = x
  <2>1. Max(S) \in S /\ \A y \in S : Max(S) >= y
    BY <1>2 DEF Max
  <2>2. Max(S) \in Int /\ x \in Int /\ Max(S) >= x /\ Max(S) <= x
    BY <1>2, <2>1
  <2> QED
    BY <2>2
<1> QED
  BY <1>1, <1>2

(* A text has finitely many n-grams.                                       *)
LEMMA GramsFinite ==
    ASSUME NEW text \in Seq(Nat), NEW n \in Nat \ {0}
    PROVE  IsFiniteSet(GramsIn(text, n))
<1> DEFINE I == 1 .. Len(text) - n + 1
           f == [x \in I |-> SubSeq(text, x, x + n - 1)]
<1>1. IsFiniteSet(I)
  BY FS_Interval
<1>2. GramsIn(text, n) = {f[x] : x \in I}
  BY DEF GramsIn
<1>3. f \in Surjection(I, {f[x] : x \in I})
  BY DEF Surjection
<1> QED
  BY <1>1, <1>2, <1>3, FS_Surjection

(* If no n-gram is common, a set of n-grams weighs something.              *)
LEMMA SomeWeight ==
    ASSUME NEW G, IsFiniteSet(G), NEW g \in G, NEW C, C = {}
    PROVE  Weight(G, C) # 0
<1>1. G \ C \subseteq G /\ G \ C # {}
  OBVIOUS
<1>2. IsFiniteSet(G \ C)
  BY <1>1, FS_Subset
<1>3. Cardinality(G \ C) # 0
  BY <1>1, <1>2, FS_EmptySet
<1> QED
  BY <1>3 DEF Weight

(* The first position visited, and the hits among the j visited first.     *)
PassageTop(k, d) == PassageEnd(k, d) - PassageNgramSize
PassageHits(k, d, j) ==
    {q \in PassageTop(k, d) - j + 1 .. PassageTop(k, d) :
        Gram(q, PassageNgramSize) \in PassageGrams(d)}

(* What is known of s when H are the hits from position q on.              *)
SeenFits(s, H, q) ==
    LET top == s.last - PassageNgramSize + 1
    IN  /\ s.hits = {} => s = NothingSeen /\ H = {}
        /\ s.hits # {} =>
             /\ s.first \in H /\ top \in H
             /\ \A h \in H : h <= top
             /\ \A m \in s.first .. top - PassageMisses :
                   \E h \in H : m <= h /\ h <= m + PassageMisses
             /\ s.misses <= PassageMisses =>
                   s.first - s.misses = q /\ \A h \in H : s.first <= h
             /\ s.misses > PassageMisses =>
                   /\ q <= s.first - (PassageMisses + 1)
                   /\ \A h \in H : h < s.first => h < s.first - (PassageMisses + 1)

(* One more position: what is seen still is what SeenFits says of the hits *)
(* so far.                                                                 *)
LEMMA LookBackFits ==
    ASSUME Given, NEW d, NEW s \in Seen(d), NEW H \in SUBSET Int, NEW q \in Nat,
           SeenFits(s, H, q + 1), \A h \in H : q < h
    PROVE  LET hit == Gram(q, PassageNgramSize) \in PassageGrams(d)
           IN  SeenFits(LookBack(PassageGrams(d), s, q), IF hit THEN H \cup {q} ELSE H, q)
<1> DEFINE n == PassageNgramSize
           G == PassageGrams(d)
           g == Gram(q, n)
           t == LookBack(G, s, q)
           N == IF g \in G THEN H \cup {q} ELSE H
           top == s.last - n + 1
<1>1. n \in Nat \ {0} /\ PassageMisses \in Nat
  BY Sizes DEF Given
<1>2. s.first \in Int /\ s.last \in Int /\ s.misses \in Nat /\ top \in Int
  BY <1>1 DEF Seen
<1>3. CASE s.misses > PassageMisses
  <2>1. t = s
    BY <1>3 DEF LookBack
  <2>2. s.hits # {}
    BY <1>1, <1>3 DEF SeenFits, NothingSeen
  <2>3. \A h \in N : h = q \/ h \in H
    OBVIOUS
  <2>4. H \subseteq N
    OBVIOUS
  <2> HIDE DEF t, N
  <2>5. SeenFits(s, N, q)
    BY <1>1, <1>2, <1>3, <2>2, <2>3, <2>4 DEF SeenFits
  <2> QED
    BY <2>1, <2>5 DEF t, N
<1>4. CASE ~(s.misses > PassageMisses) /\ g \in G
  <2>1. /\ t.first = q /\ t.misses = 0 /\ t.hits # {}
        /\ t.last = IF s.last > q + n - 1 THEN s.last ELSE q + n - 1
    BY <1>4 DEF LookBack, MaxOf
  <2>2. N = H \cup {q}
    BY <1>4
  <2> HIDE DEF t, N
  <2>3. CASE s.hits = {}
    <3>1. H = {} /\ s.last = 0
      BY <2>3 DEF SeenFits, NothingSeen
    <3>2. N = {q} /\ t.last = q + n - 1
      BY <1>1, <2>1, <2>2, <3>1
    <3>3. SeenFits(t, N, q)
      BY <1>1, <2>1, <3>2 DEF SeenFits
    <3> QED
      BY <3>3 DEF t, N
  <2>4. CASE s.hits # {}
    <3>1. /\ s.first \in H /\ top \in H /\ s.first - s.misses = q + 1
          /\ \A h \in H : s.first <= h /\ h <= top
          /\ \A m \in s.first .. top - PassageMisses :
                \E h \in H : m <= h /\ h <= m + PassageMisses
      <4>1. /\ s.first \in H /\ top \in H
            /\ \A h \in H : h <= top
            /\ \A m \in s.first .. top - PassageMisses :
                  \E h \in H : m <= h /\ h <= m + PassageMisses
        BY <2>4 DEF SeenFits
      <4>2. s.misses <= PassageMisses
        BY <1>1, <1>2, <1>4
      <4>3. s.first - s.misses = q + 1 /\ \A h \in H : s.first <= h
        BY <2>4, <4>2 DEF SeenFits
      <4> QED
        BY <4>1, <4>3
    <3>2. q < top /\ q < s.first
      BY <3>1
    <3>3. t.last = s.last
      BY <1>1, <1>2, <2>1, <3>2
    <3>4. ASSUME NEW m \in q .. top - PassageMisses
          PROVE  \E h \in N : m <= h /\ h <= m + PassageMisses
      <4>1. CASE m = q
        BY <1>1, <2>2, <4>1
      <4>2. CASE m # q /\ m < s.first
        <5>1. m <= s.first /\ s.first <= m + PassageMisses
          BY <1>1, <1>2, <1>4, <3>1, <4>2
        <5> QED
          BY <2>2, <3>1, <5>1
      <4>3. CASE ~(m < s.first)
        <5>1. m \in s.first .. top - PassageMisses
          BY <1>1, <1>2, <4>3
        <5> QED
          BY <2>2, <3>1, <5>1
      <4> QED
        BY <4>1, <4>2, <4>3
    <3>5. \A h \in N : q <= h /\ h <= top
      BY <1>2, <2>2, <3>1, <3>2
    <3>6. q \in N /\ top \in N
      BY <2>2, <3>1
    <3> HIDE DEF n
    <3>7. SeenFits(t, N, q)
      BY <1>1, <1>2, <2>1, <3>3, <3>4, <3>5, <3>6 DEF SeenFits, n
    <3> QED
      BY <3>7 DEF t, N, n
  <2> QED
    BY <2>3, <2>4
<1>5. CASE ~(s.misses > PassageMisses) /\ g \notin G
  <2>1. N = H
    BY <1>5
  <2>2. CASE s.hits = {}
    <3>1. t = s
      BY <1>5, <2>2 DEF LookBack
    <3>2. SeenFits(s, H, q)
      BY <2>2 DEF SeenFits
    <3> QED
      BY <2>1, <3>1, <3>2
  <2>3. CASE s.hits # {}
    <3>1. /\ t.first = s.first /\ t.last = s.last /\ t.hits = s.hits /\ t.misses = s.misses + 1
      BY <1>5, <2>3 DEF LookBack, Seen
    <3>2. /\ s.first \in H /\ top \in H /\ s.first - s.misses = q + 1
          /\ \A h \in H : s.first <= h /\ h <= top
          /\ \A m \in s.first .. top - PassageMisses :
                \E h \in H : m <= h /\ h <= m + PassageMisses
      <4>1. /\ s.first \in H /\ top \in H
            /\ \A h \in H : h <= top
            /\ \A m \in s.first .. top - PassageMisses :
                  \E h \in H : m <= h /\ h <= m + PassageMisses
        BY <2>3 DEF SeenFits
      <4>2. s.misses <= PassageMisses
        BY <1>1, <1>2, <1>5
      <4>3. s.first - s.misses = q + 1 /\ \A h \in H : s.first <= h
        BY <2>3, <4>2 DEF SeenFits
      <4> QED
        BY <4>1, <4>3
    <3>3. s.first - (s.misses + 1) = q
      BY <1>2, <3>2
    <3>4. s.misses + 1 > PassageMisses => s.misses = PassageMisses
      BY <1>1, <1>2, <1>5
    <3> HIDE DEF t, N
    <3>5. SeenFits(t, H, q)
      BY <1>1, <1>2, <2>3, <3>1, <3>2, <3>3, <3>4 DEF SeenFits
    <3> QED
      BY <2>1, <3>5 DEF t, N
  <2> QED
    BY <2>2, <2>3
<1> QED
  BY <1>3, <1>4, <1>5

(* After j positions, what is seen is what SeenFits says of the hits among *)
(* them.                                                                   *)
LEMMA LookedFits ==
    ASSUME Given, NEW k, NEW d, Pair(k, d)
    PROVE  \A j \in 0 .. PassageTop(k, d) - PassageBegin(k, d) + 1 :
              SeenFits(Looked(k, d)[j], PassageHits(k, d, j), PassageTop(k, d) - j + 1)
<1> DEFINE top == PassageTop(k, d)
           low == PassageBegin(k, d)
           Fits(j) == SeenFits(Looked(k, d)[j], PassageHits(k, d, j), top - j + 1)
           S == {j \in Nat : j <= top - low + 1 => Fits(j)}
<1>1. top \in Int /\ low \in Nat
  BY Sizes, PassagePlace DEF Given, PassageTop
<1>2. 0 \in S
  <2>1. Looked(k, d)[0] = NothingSeen
    BY LookedLoop
  <2>2. PassageHits(k, d, 0) = {}
    BY <1>1 DEF PassageHits
  <2>3. SeenFits(NothingSeen, {}, top - 0 + 1)
    BY DEF SeenFits, NothingSeen
  <2> QED
    BY <2>1, <2>2, <2>3
<1>3. ASSUME NEW j \in S \cap Nat PROVE j + 1 \in S
  <2> DEFINE q == top - j
             s == Looked(k, d)[j]
             H == PassageHits(k, d, j)
             hit == Gram(q, PassageNgramSize) \in PassageGrams(d)
  <2>1. SUFFICES ASSUME j + 1 <= top - low + 1 PROVE Fits(j + 1)
    OBVIOUS
  <2>2. j <= top - low + 1 /\ q \in Nat /\ top - j + 1 = q + 1 /\ top - (j + 1) + 1 = q
    BY <1>1, <2>1
  <2>3. SeenFits(s, H, q + 1)
    <3>1. Fits(j)
      BY <2>2
    <3> QED
      BY <2>2, <3>1
  <2>4. H \in SUBSET Int /\ \A h \in H : q < h
    BY <1>1 DEF PassageHits
  <2>5. s \in Seen(d) /\ Looked(k, d)[j + 1] = LookBack(PassageGrams(d), s, q)
    BY LookedLoop DEF PassageTop
  <2>6. PassageHits(k, d, j + 1) = IF hit THEN H \cup {q} ELSE H
    BY <1>1 DEF PassageHits
  <2>7. SeenFits(LookBack(PassageGrams(d), s, q), IF hit THEN H \cup {q} ELSE H, q)
    <3> HIDE DEF s, H, q
    <3> QED
      BY <2>2, <2>3, <2>4, <2>5, LookBackFits
  <2> HIDE DEF s, H, q, hit
  <2>8. SeenFits(Looked(k, d)[j + 1], PassageHits(k, d, j + 1), q)
    BY <2>5, <2>6, <2>7
  <2> QED
    BY <2>2, <2>8
<1>4. \A j \in Nat : j \in S
  <2> HIDE DEF S
  <2> QED
    BY <1>2, <1>3, Induction
<1> QED
  BY <1>4

(* find_passage_boundaries_with_ngrams: the loop stops where the passage   *)
(* that the positions of its n-grams describe begins.                      *)
LEMMA PassageFound ==
    ASSUME Given, NEW k, NEW d, Pair(k, d), input.common = {}
    PROVE  PassageFits(k, d, PassageMatch(k, d))
<1> DEFINE n == PassageNgramSize
           G == PassageGrams(d)
           first == QuestionStart(k, d)
           low == PassageBegin(k, d)
           top == PassageTop(k, d)
           turns == PassageEnd(k, d) - low - n + 1
           s == Looked(k, d)[turns]
           p == PassageMatch(k, d)
           hits == {q \in 0 .. first - 1 - n :
                      /\ q >= first - 1 - PassageWindow(k, d)
                      /\ Gram(q, n) \in G}
           chained == {q \in hits : \A m \in q .. Max(hits) - PassageMisses :
                                       \E h \in hits : m <= h /\ h <= m + PassageMisses}
<1>1. /\ n \in Nat \ {0} /\ PassageMisses \in Nat /\ first \in Nat /\ low \in Nat
      /\ PassageWindow(k, d) \in Nat /\ PassageEnd(k, d) \in Nat
      /\ PassageEnd(k, d) = IF first > 0 THEN first - 1 ELSE 0
      /\ low = IF PassageEnd(k, d) > PassageWindow(k, d)
                 THEN PassageEnd(k, d) - PassageWindow(k, d) ELSE 0
  BY Sizes, QuestionPlace, PassagePlace DEF Given
<1>2. top = PassageEnd(k, d) - n /\ turns = top - low + 1 /\ top \in Int /\ turns \in Int
  BY <1>1 DEF PassageTop
<1>3. hits = {q \in low .. top : Gram(q, n) \in G}
  <2>1. ASSUME NEW q \in Int
        PROVE  (q \in 0 .. first - 1 - n /\ q >= first - 1 - PassageWindow(k, d)) <=> q \in low .. top
    <3> HIDE DEF n, first, low, top
    <3> QED
      BY <1>1, <1>2
  <2> QED
    BY <2>1
<1>4. PassageFits(k, d, p) = IF hits = {} THEN ~p.found
                               ELSE p.ranges = <<<<Min(chained), Max(hits) + n - 1>>>>
  BY DEF PassageFits
<1>5. p = IF turns < 1 \/ Weight(G, input.common) = 0 \/ s.hits = {} THEN NoMatch
          ELSE [found |-> TRUE, ranges |-> <<<<s.first, s.last>>>>,
                overlap |-> Overlap(s.hits, G, input.common)]
  BY DEF PassageMatch
<1> HIDE DEF turns, s, p, chained, top, low, first
<1>6. CASE turns < 1
  <2>1. hits = {}
    BY <1>1, <1>2, <1>3, <1>6
  <2>2. ~p.found
    BY <1>5, <1>6 DEF NoMatch
  <2> QED
    BY <1>4, <2>1, <2>2 DEF p
<1>7. CASE ~(turns < 1)
  <2>1. turns \in 0 .. top - low + 1 /\ top - turns + 1 = low
    BY <1>1, <1>2, <1>7
  <2>2. PassageHits(k, d, turns) = hits
    BY <1>1, <1>2, <1>3, <2>1 DEF PassageHits, top
  <2>3. SeenFits(s, hits, low)
    <3>1. SeenFits(Looked(k, d)[turns], PassageHits(k, d, turns), PassageTop(k, d) - turns + 1)
      BY <2>1, LookedFits DEF top, low
    <3> HIDE DEF hits
    <3> QED
      BY <2>1, <2>2, <3>1 DEF s, top
  <2>4. s \in Seen(d)
    BY <2>1, LookedLoop DEF s
  <2>5. hits \in SUBSET Int
    BY <1>1
  <2> HIDE DEF hits
  <2>6. CASE s.hits = {}
    <3>1. hits = {}
      BY <2>3, <2>6 DEF SeenFits
    <3>2. ~p.found
      BY <1>5, <2>6 DEF NoMatch
    <3> QED
      BY <1>4, <3>1, <3>2 DEF p
  <2>7. CASE s.hits # {}
    <3> DEFINE last == s.last - n + 1
    <3>1. /\ s.first \in hits /\ last \in hits
          /\ \A h \in hits : h <= last
          /\ \A m \in s.first .. last - PassageMisses :
                \E h \in hits : m <= h /\ h <= m + PassageMisses
          /\ s.misses <= PassageMisses => \A h \in hits : s.first <= h
          /\ s.misses > PassageMisses =>
               \A h \in hits : h < s.first => h < s.first - (PassageMisses + 1)
      BY <2>3, <2>7 DEF SeenFits
    <3>2. s.first \in Int /\ last \in Int /\ s.misses \in Nat /\ s.last \in Int
      BY <1>1, <2>4 DEF Seen
    <3>3. Max(hits) = last
      <4> HIDE DEF last
      <4> QED
        BY <2>5, <3>1, Extremes
    <3>4. s.first \in chained
      BY <3>1, <3>3 DEF chained
    <3>5. ASSUME NEW q \in chained PROVE s.first <= q
      <4>1. q \in hits /\ q \in Int
        BY <2>5 DEF chained
      <4>2. SUFFICES ASSUME q < s.first PROVE FALSE
        BY <3>2, <4>1
      <4> DEFINE m == s.first - (PassageMisses + 1)
      <4>3. s.misses > PassageMisses /\ q < m
        BY <1>1, <3>1, <3>2, <4>1, <4>2
      <4>4. m \in q .. last - PassageMisses
        <5>1. s.first <= last
          BY <3>1
        <5> HIDE DEF last
        <5> QED
          BY <1>1, <3>2, <4>1, <4>3, <5>1
      <4>5. PICK h \in hits : m <= h /\ h <= m + PassageMisses
        <5> HIDE DEF m, last
        <5> QED
          BY <3>3, <4>4 DEF chained
      <4>6. h \in Int
        BY <2>5
      <4> HIDE DEF last
      <4> QED
        BY <1>1, <3>1, <3>2, <4>3, <4>5, <4>6
    <3>6. Min(chained) = s.first
      <4>1. chained \in SUBSET Int
        BY <2>5 DEF chained
      <4> QED
        BY <3>4, <3>5, <4>1, Extremes
    <3>7. Weight(G, input.common) # 0
      <4>1. Gram(s.first, n) \in G
        BY <3>1 DEF hits
      <4>2. IsFiniteSet(G)
        BY Sizes, MatchTexts, GramsFinite DEF Given, PassageGrams
      <4> HIDE DEF G
      <4> QED
        BY <4>1, <4>2, SomeWeight
    <3>8. p.ranges = <<<<s.first, s.last>>>>
      BY <1>5, <1>7, <2>7, <3>7
    <3>9. Max(hits) + n - 1 = s.last
      BY <1>1, <3>2, <3>3
    <3> HIDE DEF last, n
    <3>10. p.ranges = <<<<Min(chained), Max(hits) + n - 1>>>>
      BY <3>6, <3>8, <3>9
    <3>11. hits # {}
      BY <3>1
    <3> QED
      BY <1>4, <3>10, <3>11 DEF p, n
  <2> QED
    BY <2>6, <2>7
<1> QED
  BY <1>6, <1>7

(* The passage ends before the token that precedes the question.           *)
LEMMA PassageRange ==
    ASSUME Given, NEW k, NEW d, Pair(k, d)
    PROVE  LET r == PassageMatch(k, d).ranges
           IN  r = <<>> \/ \E a, z \in Nat : r = <<<<a, z>>>> /\ a <= z /\ z < QuestionStart(k, d)
<1> DEFINE n == PassageNgramSize
           G == PassageGrams(d)
           low == PassageBegin(k, d)
           top == PassageTop(k, d)
           turns == PassageEnd(k, d) - low - n + 1
           s == Looked(k, d)[turns]
           p == PassageMatch(k, d)
<1>1. p = IF turns < 1 \/ Weight(G, input.common) = 0 \/ s.hits = {} THEN NoMatch
          ELSE [found |-> TRUE, ranges |-> <<<<s.first, s.last>>>>,
                overlap |-> Overlap(s.hits, G, input.common)]
  BY DEF PassageMatch
<1>2. /\ n \in Nat \ {0} /\ low \in Nat /\ PassageEnd(k, d) \in Nat /\ QuestionStart(k, d) \in Nat
      /\ low <= PassageEnd(k, d)
      /\ PassageEnd(k, d) = IF QuestionStart(k, d) > 0 THEN QuestionStart(k, d) - 1 ELSE 0
      /\ top = PassageEnd(k, d) - n /\ turns = top - low + 1
  BY Sizes, QuestionPlace, PassagePlace DEF Given, PassageTop
<1> HIDE DEF turns, s, p, G, low, top, n
<1>3. CASE turns < 1 \/ Weight(G, input.common) = 0 \/ s.hits = {}
  BY <1>1, <1>3 DEF NoMatch, p
<1>4. CASE ~(turns < 1 \/ Weight(G, input.common) = 0 \/ s.hits = {})
  <2> DEFINE H == PassageHits(k, d, turns)
  <2>1. turns \in 0 .. top - low + 1 /\ turns \in Nat
    BY <1>2, <1>4
  <2>2. SeenFits(s, H, top - turns + 1)
    BY <2>1, LookedFits DEF s, top, low
  <2>3. s \in Seen(d)
    BY <2>1, LookedLoop DEF s
  <2>4. s.first \in H /\ s.last - n + 1 \in H /\ s.first <= s.last - n + 1
    <3> HIDE DEF H
    <3> QED
      BY <1>4, <2>2 DEF SeenFits, n
  <2>5. /\ s.first \in low .. top
        /\ s.last - n + 1 \in low .. top
    BY <1>2, <2>1, <2>4 DEF PassageHits, top
  <2>6. s.first \in Nat /\ s.last \in Nat /\ s.first <= s.last /\ s.last < QuestionStart(k, d)
    BY <1>2, <2>3, <2>4, <2>5 DEF Seen
  <2>7. p.ranges = <<<<s.first, s.last>>>>
    BY <1>1, <1>4
  <2> QED
    BY <2>6, <2>7 DEF p
<1> QED
  BY <1>3, <1>4

-----------------------------------------------------------------------------
(* The ranges of a long answer. *)
Ranges == Seq(Int \X Int)

(* A hit joined to ranges makes ranges.                                    *)
LEMMA JoinType ==
    ASSUME Given, NEW r \in Ranges, NEW q \in Int
    PROVE  Join(r, q) \in Ranges
<1> DEFINE n == AnswerNgramSize
           last == r[Len(r)]
<1>1. n \in Nat
  BY Sizes DEF Given
<1>2. CASE r # <<>> /\ q <= last[2] + n
  <2> DEFINE z == IF last[2] > q + n - 1 THEN last[2] ELSE q + n - 1
  <2>1. last \in Int \X Int /\ Len(r) \in 1 .. Len(r)
    BY <1>2 DEF Ranges
  <2>2. <<last[1], z>> \in Int \X Int
    BY <1>1, <2>1
  <2>3. Join(r, q) = [r EXCEPT ![Len(r)] = <<last[1], z>>]
    BY <1>2 DEF Join, MaxOf
  <2> HIDE DEF z, last
  <2>4. r \in [1 .. Len(r) -> Int \X Int] /\ Len(r) \in Nat
    BY DEF Ranges
  <2>5. Join(r, q) \in [1 .. Len(r) -> Int \X Int]
    BY <2>2, <2>3, <2>4
  <2> QED
    BY <2>4, <2>5, SeqDef DEF Ranges
<1>3. CASE ~(r # <<>> /\ q <= last[2] + n)
  <2>1. Join(r, q) = Append(r, <<q, q + n - 1>>)
    BY <1>3 DEF Join
  <2>2. <<q, q + n - 1>> \in Int \X Int
    BY <1>1
  <2> QED
    BY <2>1, <2>2 DEF Ranges
<1> QED
  BY <1>2, <1>3

(* The ranges are the loop of Join over the positions of the window.       *)
LEMMA JoinedLoop ==
    ASSUME Given, NEW k, NEW d, Pair(k, d)
    PROVE  /\ Joined(k, d)[0] = <<>>
           /\ \A j \in Nat :
                LET q == AnswerStart(k, d) + j
                    r == Joined(k, d)[j]
                IN  Joined(k, d)[j + 1] = IF q \in AnswerHits(k, d) THEN Join(r, q) ELSE r
           /\ \A j \in Nat : Joined(k, d)[j] \in Ranges
<1> DEFINE begin == AnswerStart(k, d)
           hits == AnswerHits(k, d)
           Turn1(r, q) == IF q \in hits THEN Join(r, q) ELSE r
           F == [x \in Ranges \X Nat |-> Turn1(x[1], begin + x[2])]
           Body(s) == [j \in Nat |-> IF j = 0 THEN <<>> ELSE Turn1(s[j - 1], begin + j - 1)]
<1>1. begin \in Int
  BY AnswerPlace
<1> HIDE DEF begin, hits
<1>2. F \in [Ranges \X Nat -> Ranges]
  <2>1. ASSUME NEW x \in Ranges \X Nat PROVE Turn1(x[1], begin + x[2]) \in Ranges
    BY <1>1, JoinType
  <2> HIDE DEF Turn1
  <2> QED
    BY <2>1
<1>3. <<>> \in Ranges
  BY DEF Ranges
<1>4. PICK f \in [Nat -> Ranges] : f[0] = <<>> /\ \A n \in Nat : f[n + 1] = F[<<f[n], n>>]
  <2> HIDE DEF F
  <2>1. IsLoop(Ranges, <<>>, F)
    BY <1>2, <1>3 DEF IsLoop
  <2>2. \E f : IsRun(f, Ranges, <<>>, F)
    BY <2>1, Loop
  <2> QED
    BY <2>2 DEF IsRun
<1>5. \A n \in Nat : f[n + 1] = Turn1(f[n], begin + n)
  <2> HIDE DEF Turn1
  <2> QED
    BY <1>4
<1>6. f = Body(f)
  <2>1. ASSUME NEW j \in Nat PROVE f[j] = Body(f)[j]
    <3>1. CASE j = 0
      BY <1>4, <3>1
    <3>2. CASE j # 0
      <4>1. j - 1 \in Nat /\ begin + (j - 1) = begin + j - 1 /\ (j - 1) + 1 = j
        BY <1>1, <3>2
      <4>2. f[j] = Turn1(f[j - 1], begin + j - 1)
        <5> HIDE DEF Turn1
        <5> QED
          BY <1>5, <4>1
      <4> HIDE DEF Turn1
      <4> QED
        BY <3>2, <4>2
    <3> QED
      BY <3>1, <3>2
  <2> QED
    BY <2>1
<1> DEFINE s == Joined(k, d)
<1>7. s = CHOOSE t : t = Body(t)
  BY DEF Joined, begin, hits
<1>8. s = Body(s)
  <2> HIDE DEF Body, s
  <2> QED
    BY <1>6, <1>7
<1>9. \A j \in Nat : s[j] = IF j = 0 THEN <<>> ELSE Turn1(s[j - 1], begin + j - 1)
  <2> HIDE DEF s, Turn1
  <2> QED
    BY <1>8
<1> HIDE DEF s, F, Body
<1>10. s[0] = <<>>
  BY <1>9
<1>11. ASSUME NEW j \in Nat
       PROVE  s[j + 1] = Turn1(s[j], begin + j)
  <2>1. j + 1 \in Nat /\ j + 1 # 0 /\ (j + 1) - 1 = j /\ begin + (j + 1) - 1 = begin + j
    BY <1>1
  <2> HIDE DEF Turn1
  <2> QED
    BY <1>9, <2>1
<1>12. \A j \in Nat : s[j] \in Ranges
  <2> DEFINE S == {j \in Nat : s[j] \in Ranges}
  <2>1. 0 \in S
    BY <1>3, <1>10
  <2>2. ASSUME NEW j \in S \cap Nat PROVE j + 1 \in S
    <3>1. s[j + 1] = Turn1(s[j], begin + j) /\ begin + j \in Int /\ s[j] \in Ranges
      BY <1>1, <1>11
    <3>2. s[j + 1] \in Ranges
      BY <3>1, JoinType
    <3> QED
      BY <3>2
  <2>3. \A j \in Nat : j \in S
    <3> HIDE DEF S
    <3> QED
      BY <2>1, <2>2, Induction
  <2> QED
    BY <2>3
<1> QED
  BY <1>10, <1>11, <1>12 DEF s, begin, hits

(* The ranges r cover the hits H and nothing else.                         *)
Cover(r, H) ==
    LET n == AnswerNgramSize
    IN  /\ \A h \in H : \E m \in DOMAIN r : r[m][1] <= h /\ h + n - 1 <= r[m][2]
        /\ \A m \in DOMAIN r : /\ r[m][1] \in H /\ r[m][2] - n + 1 \in H
                               /\ r[m][1] <= r[m][2] - n + 1
        /\ \A m \in DOMAIN r : \A h \in H :
              r[m][1] <= h /\ h + n - 1 < r[m][2] => \E g \in H : h < g /\ g <= h + n - 1 + n
        /\ \A m \in DOMAIN r \ {1} : r[m][1] > r[m - 1][2] + n
        /\ \A h \in H : h + n - 1 <= r[Len(r)][2]

(* A hit behind all others, joined to ranges that cover those, makes       *)
(* ranges that cover all.                                                  *)
LEMMA JoinCovers ==
    ASSUME Given, NEW r \in Ranges, NEW H \in SUBSET Int, NEW q \in Int, Cover(r, H),
           \A h \in H : h < q
    PROVE  Cover(Join(r, q), H \cup {q})
<1> DEFINE n == AnswerNgramSize
           last == r[Len(r)]
           t == Join(r, q)
           N == H \cup {q}
           z == q + n - 1
<1>1. n \in Nat \ {0} /\ z \in Int
  BY Sizes DEF Given
<1>2. /\ Len(r) \in Nat /\ DOMAIN r = 1 .. Len(r)
      /\ \A m \in 1 .. Len(r) : r[m] \in Int \X Int /\ r[m][1] \in Int /\ r[m][2] \in Int
  BY DEF Ranges
<1>3. /\ \A h \in H : h \in Int /\ h < q
      /\ \A h \in H : \E m \in DOMAIN r : r[m][1] <= h /\ h + n - 1 <= r[m][2]
      /\ \A m \in DOMAIN r : r[m][1] \in H /\ r[m][2] - n + 1 \in H /\ r[m][1] <= r[m][2] - n + 1
      /\ \A m \in DOMAIN r : \A h \in H :
            r[m][1] <= h /\ h + n - 1 < r[m][2] => \E g \in H : h < g /\ g <= h + n - 1 + n
      /\ \A m \in DOMAIN r \ {1} : r[m][1] > r[m - 1][2] + n
      /\ \A h \in H : h + n - 1 <= r[Len(r)][2]
  BY DEF Cover
<1>4. \A m \in DOMAIN r : r[m][2] < z
  BY <1>1, <1>2, <1>3
<1>5. CASE r # <<>> /\ q <= last[2] + n
  <2>1. Len(r) \in DOMAIN r /\ last[2] < z /\ last[2] \in Int /\ last[1] \in Int
    BY <1>2, <1>4, <1>5
  <2>2. t = [r EXCEPT ![Len(r)] = <<last[1], z>>]
    <3>1. t = [r EXCEPT ![Len(r)] = <<last[1], IF last[2] > z THEN last[2] ELSE z>>]
      BY <1>5 DEF Join, MaxOf
    <3>2. ~(last[2] > z)
      BY <1>1, <2>1
    <3> HIDE DEF t, z, last
    <3> QED
      BY <3>1, <3>2
  <2>3. /\ DOMAIN t = DOMAIN r /\ Len(t) = Len(r)
        /\ t[Len(r)][1] = last[1] /\ t[Len(r)][2] = z
        /\ \A m \in DOMAIN r : t[m][1] = r[m][1]
        /\ \A m \in DOMAIN r : m # Len(r) => t[m] = r[m]
    <3>1. DOMAIN t = DOMAIN r /\ t[Len(r)] = <<last[1], z>>
      BY <2>1, <2>2
    <3>2. \A m \in DOMAIN r : m # Len(r) => t[m] = r[m]
      BY <2>2
    <3>3. t \in Ranges
      BY JoinType
    <3>4. Len(t) = Len(r)
      BY <1>2, <3>1, <3>3 DEF Ranges
    <3> HIDE DEF t, z
    <3> QED
      BY <3>1, <3>2, <3>4
  <2> HIDE DEF t, N, z
  <2>4. ASSUME NEW h \in N
        PROVE  /\ \E m \in DOMAIN t : t[m][1] <= h /\ h + n - 1 <= t[m][2]
               /\ h + n - 1 <= t[Len(t)][2]
    <3>1. CASE h = q
      <4>1. last[1] <= q
        BY <1>2, <1>3, <2>1
      <4> QED
        BY <1>1, <2>1, <2>3, <3>1, <4>1 DEF z
    <3>2. CASE h \in H
      <4>1. PICK m \in DOMAIN r : r[m][1] <= h /\ h + n - 1 <= r[m][2]
        BY <1>3, <3>2
      <4>2. h + n - 1 <= z
        BY <1>1, <1>3, <3>2 DEF z
      <4>3. t[m][1] <= h /\ h + n - 1 <= t[m][2]
        BY <2>3, <4>1, <4>2
      <4> QED
        BY <2>3, <4>1, <4>2, <4>3
    <3> QED
      BY <3>1, <3>2 DEF N
  <2>5. ASSUME NEW m \in DOMAIN t
        PROVE  /\ t[m][1] \in N /\ t[m][2] - n + 1 \in N /\ t[m][1] <= t[m][2] - n + 1
               /\ m # 1 => t[m][1] > t[m - 1][2] + n
    <3>1. t[m][1] \in H /\ t[m][1] \in N
      BY <1>3, <2>3 DEF N
    <3>2. m # 1 => t[m][1] > t[m - 1][2] + n
      <4>1. SUFFICES ASSUME m # 1 PROVE t[m][1] > t[m - 1][2] + n
        OBVIOUS
      <4>2. m - 1 \in DOMAIN r /\ m - 1 # Len(r) /\ m \in DOMAIN r
        BY <1>2, <2>3, <4>1
      <4> QED
        BY <1>3, <2>3, <4>1, <4>2
    <3>3. CASE m = Len(r)
      <4>1. t[m][2] - n + 1 = q
        BY <1>1, <2>3, <3>3 DEF z
      <4>2. t[m][1] <= q
        <5>1. \A h \in H : h \in Int /\ h <= q
          BY <1>3
        <5> QED
          BY <3>1, <5>1
      <4> QED
        BY <3>1, <3>2, <4>1, <4>2 DEF N
    <3>4. CASE m # Len(r)
      <4>1. t[m][2] - n + 1 \in H /\ t[m][1] <= t[m][2] - n + 1
        BY <1>3, <2>3, <3>4
      <4> QED
        BY <3>1, <3>2, <4>1 DEF N
    <3> QED
      BY <3>3, <3>4
  <2>6. ASSUME NEW m \in DOMAIN t, NEW h \in N, t[m][1] <= h, h + n - 1 < t[m][2]
        PROVE  \E g \in N : h < g /\ g <= h + n - 1 + n
    <3>1. m \in DOMAIN r /\ h # q /\ h \in H
      <4>1. t[m][2] <= z
        BY <1>1, <1>2, <1>4, <2>3 DEF z
      <4>2. t[m][2] \in Int
        BY <1>1, <1>2, <2>3
      <4>3. h # q
        BY <1>1, <2>6, <4>1, <4>2 DEF z
      <4> QED
        BY <2>3, <4>3 DEF N
    <3>2. CASE h + n - 1 < r[m][2]
      <4>1. r[m][1] <= h
        BY <2>3, <2>6, <3>1
      <4>2. \E g \in H : h < g /\ g <= h + n - 1 + n
        BY <1>3, <3>1, <3>2, <4>1
      <4> QED
        BY <4>2 DEF N
    <3>3. CASE ~(h + n - 1 < r[m][2])
      <4>1. m = Len(r)
        BY <2>3, <2>6, <3>1, <3>3
      <4>2. h + n - 1 = last[2]
        <5>1. h \in Int /\ h + n - 1 <= last[2]
          BY <1>3, <3>1
        <5>2. ~(h + n - 1 < last[2])
          BY <3>3, <4>1
        <5> HIDE DEF last
        <5> QED
          BY <1>1, <2>1, <5>1, <5>2
      <4>3. h < q /\ q <= h + n - 1 + n
        BY <1>1, <1>3, <1>5, <3>1, <4>2
      <4> QED
        BY <4>3 DEF N
    <3> QED
      BY <3>2, <3>3
  <2> QED
    BY <2>4, <2>5, <2>6 DEF Cover, t, N
<1>6. CASE ~(r # <<>> /\ q <= last[2] + n)
  <2>1. t = Append(r, <<q, z>>)
    BY <1>6 DEF Join
  <2>2. /\ Len(t) = Len(r) + 1 /\ DOMAIN t = DOMAIN r \cup {Len(t)}
        /\ t[Len(t)][1] = q /\ t[Len(t)][2] = z
        /\ \A m \in DOMAIN r : t[m] = r[m] /\ m # Len(t)
    <3>1. <<q, z>> \in Int \X Int
      BY <1>1
    <3>2. /\ Len(t) = Len(r) + 1 /\ DOMAIN t = 1 .. Len(r) + 1
          /\ t[Len(r) + 1] = <<q, z>> /\ \A m \in 1 .. Len(r) : t[m] = r[m]
      <4> HIDE DEF t, z
      <4> QED
        BY <2>1, <3>1, AppendProperties DEF Ranges
    <3> HIDE DEF t, z
    <3> QED
      BY <1>2, <3>2
  <2>3. Len(r) # 0 => last[2] + n < q /\ last[2] \in Int
    <3>1. Len(r) # 0 => r # <<>> /\ Len(r) \in 1 .. Len(r)
      BY <1>2
    <3> QED
      BY <1>1, <1>2, <1>6, <3>1
  <2> HIDE DEF t, N, z
  <2>4. ASSUME NEW h \in N
        PROVE  /\ \E m \in DOMAIN t : t[m][1] <= h /\ h + n - 1 <= t[m][2]
               /\ h + n - 1 <= t[Len(t)][2]
    <3>1. CASE h = q
      BY <1>1, <2>2, <3>1 DEF z
    <3>2. CASE h \in H
      <4>1. PICK m \in DOMAIN r : r[m][1] <= h /\ h + n - 1 <= r[m][2]
        BY <1>3, <3>2
      <4>2. h + n - 1 <= z
        BY <1>1, <1>3, <3>2 DEF z
      <4> QED
        BY <2>2, <4>1, <4>2
    <3> QED
      BY <3>1, <3>2 DEF N
  <2>5. ASSUME NEW m \in DOMAIN t
        PROVE  /\ t[m][1] \in N /\ t[m][2] - n + 1 \in N /\ t[m][1] <= t[m][2] - n + 1
               /\ m # 1 => t[m][1] > t[m - 1][2] + n
    <3>1. CASE m = Len(t)
      <4>1. t[m][1] = q /\ t[m][2] - n + 1 = q
        BY <1>1, <2>2, <3>1 DEF z
      <4>2. m # 1 => t[m - 1] = last /\ last[2] + n < q
        <5>1. m - 1 = Len(r)
          BY <1>2, <2>2, <3>1
        <5>2. m # 1 => Len(r) # 0 /\ Len(r) \in DOMAIN r
          BY <1>2, <5>1, <2>2, <3>1
        <5> QED
          BY <2>2, <2>3, <5>1, <5>2
      <4> QED
        BY <1>1, <4>1, <4>2, <2>3, <1>2, <2>2, <3>1 DEF N
    <3>2. CASE m # Len(t)
      <4>1. m \in DOMAIN r /\ t[m] = r[m]
        BY <2>2, <3>2
      <4>2. m # 1 => m - 1 \in DOMAIN r /\ t[m - 1] = r[m - 1]
        BY <1>2, <2>2, <4>1
      <4> QED
        BY <1>3, <4>1, <4>2 DEF N
    <3> QED
      BY <3>1, <3>2
  <2>6. ASSUME NEW m \in DOMAIN t, NEW h \in N, t[m][1] <= h, h + n - 1 < t[m][2]
        PROVE  \E g \in N : h < g /\ g <= h + n - 1 + n
    <3>1. CASE m = Len(t)
      <4>1. h \in Int /\ (h = q \/ h \in H)
        BY <1>3 DEF N
      <4>2. q <= h /\ h < q
        BY <1>1, <2>2, <2>6, <3>1, <4>1 DEF z
      <4> QED
        BY <4>1, <4>2
    <3>2. CASE m # Len(t)
      <4>1. m \in DOMAIN r /\ t[m] = r[m]
        BY <2>2, <3>2
      <4>2. h # q /\ h \in H
        <5>1. r[m][2] < z /\ r[m][2] \in Int
          BY <1>2, <1>4, <4>1 DEF z
        <5>2. h # q
          BY <1>1, <2>6, <4>1, <5>1 DEF z
        <5> QED
          BY <5>2 DEF N
      <4>3. \E g \in H : h < g /\ g <= h + n - 1 + n
        BY <1>3, <2>6, <4>1, <4>2
      <4> QED
        BY <4>3 DEF N
    <3> QED
      BY <3>1, <3>2
  <2> QED
    BY <2>4, <2>5, <2>6 DEF Cover, t, N
<1> QED
  BY <1>5, <1>6

(* The hits among the first j positions of the window.                     *)
FirstHits(k, d, j) == {q \in AnswerHits(k, d) : q < AnswerStart(k, d) + j}

(* A hit lies in the window.                                               *)
LEMMA HitPlace ==
    ASSUME Given, NEW k, NEW d, Pair(k, d)
    PROVE  \A q \in AnswerHits(k, d) :
              /\ q \in Nat /\ AnswerStart(k, d) <= q
              /\ q + AnswerNgramSize <= AnswerEnd(k, d) /\ q + AnswerNgramSize <= Length
<1>1. AnswerNgramSize \in Nat \ {0}
  BY Sizes DEF Given
<1>2. /\ AnswerStart(k, d) \in Nat /\ AnswerEnd(k, d) \in Nat /\ Length \in Nat
      /\ AnswerEnd(k, d) <= Length
  BY AnswerPlace, MatchTexts
<1>3. \A q \in AnswerHits(k, d) : q \in AnswerStart(k, d) .. AnswerEnd(k, d) - AnswerNgramSize
  BY DEF AnswerHits
<1> QED
  BY <1>1, <1>2, <1>3

(* After j positions, the ranges cover the hits among them.                *)
LEMMA JoinedCovers ==
    ASSUME Given, NEW k, NEW d, Pair(k, d)
    PROVE  \A j \in Nat : Cover(Joined(k, d)[j], FirstHits(k, d, j))
<1> DEFINE begin == AnswerStart(k, d)
           hits == AnswerHits(k, d)
           S == {j \in Nat : Cover(Joined(k, d)[j], FirstHits(k, d, j))}
<1>1. begin \in Nat /\ \A q \in hits : q \in Nat /\ begin <= q
  BY AnswerPlace, HitPlace
<1>2. 0 \in S
  <2>1. Joined(k, d)[0] = <<>>
    BY JoinedLoop
  <2>2. FirstHits(k, d, 0) = {}
    BY <1>1 DEF FirstHits
  <2>3. Cover(<<>>, {})
    BY DEF Cover
  <2> QED
    BY <2>1, <2>2, <2>3
<1>3. ASSUME NEW j \in S \cap Nat PROVE j + 1 \in S
  <2> DEFINE q == begin + j
             r == Joined(k, d)[j]
             H == FirstHits(k, d, j)
  <2>1. /\ r \in Ranges /\ Cover(r, H) /\ q \in Int
        /\ Joined(k, d)[j + 1] = IF q \in hits THEN Join(r, q) ELSE r
    BY <1>1, JoinedLoop
  <2>2. H \in SUBSET Int /\ \A h \in H : h < q
    BY <1>1 DEF FirstHits
  <2>3. FirstHits(k, d, j + 1) = IF q \in hits THEN H \cup {q} ELSE H
    <3>1. begin + (j + 1) = q + 1
      BY <1>1
    <3> HIDE DEF begin, hits
    <3>2. ASSUME NEW h \in hits PROVE h < q + 1 <=> h < q \/ h = q
      BY <1>1, <2>1
    <3>3. /\ FirstHits(k, d, j + 1) = {h \in hits : h < q + 1}
          /\ H = {h \in hits : h < q}
      BY <3>1 DEF FirstHits, begin, hits
    <3> HIDE DEF q, H
    <3> QED
      BY <3>2, <3>3
  <2>4. CASE q \in hits
    <3>1. Cover(Join(r, q), H \cup {q})
      <4> HIDE DEF r, H, q
      <4> QED
        BY <2>1, <2>2, JoinCovers
    <3> HIDE DEF r, H, q
    <3>2. Cover(Joined(k, d)[j + 1], FirstHits(k, d, j + 1))
      BY <2>1, <2>3, <2>4, <3>1
    <3> QED
      BY <3>2
  <2>5. CASE q \notin hits
    <3> HIDE DEF r, H, q
    <3>1. Cover(Joined(k, d)[j + 1], FirstHits(k, d, j + 1))
      BY <2>1, <2>3, <2>5
    <3> QED
      BY <3>1
  <2> QED
    BY <2>4, <2>5
<1>4. \A j \in Nat : j \in S
  <2> HIDE DEF S
  <2> QED
    BY <1>2, <1>3, Induction
<1> QED
  BY <1>4

(* A long answer has no match, or ranges that cover its hits (see Cover).  *)
LEMMA RangesCover ==
    ASSUME Given, NEW k, NEW d, Pair(k, d)
    PROVE  LET a == RangesMatch(k, d)
           IN  \/ a = NoMatch
               \/ a.found /\ a.ranges \in Ranges /\ Cover(a.ranges, AnswerHits(k, d))
<1> DEFINE n == AnswerNgramSize
           begin == AnswerStart(k, d)
           end == AnswerEnd(k, d)
           hits == AnswerHits(k, d)
           turns == end - begin - n + 1
           a == RangesMatch(k, d)
<1>1. a = IF hits = {} \/ Weight(AnswerGrams(d), input.common) = 0 THEN NoMatch
          ELSE [found |-> TRUE, ranges |-> Joined(k, d)[turns],
                overlap |-> Overlap({Gram(q, n) : q \in hits}, AnswerGrams(d), input.common)]
  BY DEF RangesMatch
<1>2. n \in Nat \ {0} /\ begin \in Nat /\ end \in Nat
  BY Sizes, AnswerPlace DEF Given
<1>3. \A q \in hits : q \in Nat /\ begin <= q /\ q + n <= end
  BY HitPlace
<1> HIDE DEF hits, a, begin, end, n
<1>4. CASE hits = {} \/ Weight(AnswerGrams(d), input.common) = 0
  BY <1>1, <1>4 DEF a
<1>5. CASE ~(hits = {} \/ Weight(AnswerGrams(d), input.common) = 0)
  <2>1. turns \in Nat
    BY <1>2, <1>3, <1>5
  <2>2. FirstHits(k, d, turns) = hits
    <3>1. ASSUME NEW q \in hits PROVE q < begin + turns
      BY <1>2, <1>3
    <3> QED
      BY <3>1 DEF FirstHits, begin, hits
  <2>3. a.found /\ a.ranges = Joined(k, d)[turns]
    BY <1>1, <1>5
  <2> HIDE DEF turns
  <2>4. a.ranges \in Ranges /\ Cover(a.ranges, hits)
    BY <2>1, <2>2, <2>3, JoinedLoop, JoinedCovers
  <2> QED
    BY <2>3, <2>4 DEF a, hits
<1> QED
  BY <1>4, <1>5

(* find_answer_boundaries_with_ngrams: the ranges cover exactly the        *)
(* n-grams of the answer in the window.                                    *)
LEMMA AnswerFound ==
    ASSUME Given, NEW k, NEW d, Pair(k, d), input.common = {}
    PROVE  AnswerFits(k, d, RangesMatch(k, d))
<1> DEFINE n == AnswerNgramSize
           begin == AnswerStart(k, d)
           end == AnswerEnd(k, d)
           a == RangesMatch(k, d)
           hits == {q \in begin .. Length - n :
                      /\ q + n <= begin + AnswerWindow(d)
                      /\ Gram(q, n) \in AnswerGrams(d)}
<1>1. /\ n \in Nat \ {0} /\ begin \in Nat /\ end \in Nat /\ Length \in Nat
      /\ AnswerWindow(d) \in Nat
      /\ end <= Length /\ end <= begin + AnswerWindow(d)
      /\ end = Length \/ end = begin + AnswerWindow(d)
  BY Sizes, AnswerPlace, MatchTexts DEF Given
<1>2. hits = AnswerHits(k, d)
  <2>1. ASSUME NEW q \in Int
        PROVE  (q \in begin .. Length - n /\ q + n <= begin + AnswerWindow(d)) <=> q \in begin .. end - n
    <3> HIDE DEF n, begin, end
    <3> QED
      BY <1>1
  <2>2. AnswerHits(k, d) = {q \in begin .. end - n : Gram(q, n) \in AnswerGrams(d)}
    BY DEF AnswerHits
  <2> HIDE DEF begin, end, n
  <2> QED
    BY <2>1, <2>2
<1>3. AnswerFits(k, d, a) =
        (/\ \A q \in hits : \E m \in DOMAIN a.ranges : a.ranges[m][1] <= q /\ q + n - 1 <= a.ranges[m][2]
         /\ \A m \in DOMAIN a.ranges : a.ranges[m][1] \in hits /\ a.ranges[m][2] - n + 1 \in hits
         /\ \A m \in DOMAIN a.ranges : \A q \in hits :
               a.ranges[m][1] <= q /\ q + n - 1 < a.ranges[m][2] =>
                  \E h \in hits : q < h /\ h <= q + n - 1 + n
         /\ \A m \in DOMAIN a.ranges \ {1} : a.ranges[m][1] > a.ranges[m - 1][2] + n)
  BY DEF AnswerFits
<1>4. CASE a = NoMatch
  <2>1. hits = {}
    <3>1. SUFFICES ASSUME NEW q \in AnswerHits(k, d) PROVE FALSE
      <4> HIDE DEF hits
      <4> QED
        BY <1>2
    <3>2. Gram(q, n) \in AnswerGrams(d)
      BY DEF AnswerHits
    <3>3. IsFiniteSet(AnswerGrams(d))
      BY <1>1, MatchTexts, GramsFinite DEF AnswerGrams
    <3>4. Weight(AnswerGrams(d), input.common) # 0
      BY <3>2, <3>3, SomeWeight
    <3>5. a.found
      BY <3>4 DEF RangesMatch
    <3> HIDE DEF a
    <3> QED
      BY <1>4, <3>5 DEF NoMatch
  <2>2. a.ranges = <<>>
    <3> HIDE DEF a
    <3> QED
      BY <1>4 DEF NoMatch
  <2> HIDE DEF a, hits
  <2> QED
    BY <1>3, <2>1, <2>2 DEF a
<1>5. CASE a # NoMatch
  <2>1. Cover(a.ranges, AnswerHits(k, d))
    BY <1>5, RangesCover
  <2> HIDE DEF a, hits
  <2>2. Cover(a.ranges, hits)
    BY <1>2, <2>1
  <2> QED
    BY <1>3, <2>2 DEF Cover, a
<1> QED
  BY <1>4, <1>5

(* A short answer is found in the line, behind the question's start.       *)
LEMMA ExactPlace ==
    ASSUME Given, NEW k, NEW d, Pair(k, d), HasAnswer(d), ExactStarts(k, d) # {}
    PROVE  /\ Min(ExactStarts(k, d)) \in ExactStarts(k, d)
           /\ \A q \in ExactStarts(k, d) :
                 /\ q \in Nat /\ AnswerStart(k, d) <= q
                 /\ q + Len(Doc(d).answer) <= Length
<1> DEFINE S == ExactStarts(k, d)
<1>1. \A q \in S : q \in Nat /\ AnswerStart(k, d) <= q /\ q + Len(Doc(d).answer) <= Length
  BY AnswerPlace DEF ExactStarts
<1>2. \E q \in S : \A p \in S : q <= p
  <2> HIDE DEF S
  <2>1. S \subseteq Nat /\ S # {}
    BY <1>1 DEF S
  <2> QED
    BY <2>1, LeastNatural
<1>3. Min(S) \in S
  BY <1>2 DEF Min
<1> QED
  BY <1>1, <1>3

(* find_short_answer_exact_match: a short answer is found where it first   *)
(* begins in the window.                                                   *)
LEMMA ExactFound ==
    ASSUME Given, NEW k, NEW d, Pair(k, d), HasAnswer(d), IsShort(d)
    PROVE  ExactFits(k, d, ExactMatch(k, d))
<1> DEFINE t == Doc(d).answer
           begin == AnswerStart(k, d)
           begins == {q \in begin .. begin + ShortWindow - 1 :
                        \A j \in DOMAIN t : q + j <= Length /\ input.tokens[q + j] = t[j]}
           a == ExactMatch(k, d)
<1>1. /\ t \in Seq(Nat) /\ Len(t) \in Nat \ {0} /\ input.tokens \in Seq(Nat)
      /\ Length = Len(input.tokens) /\ Length \in Nat
  BY MatchTexts DEF HasAnswer, Length
<1>2. /\ begin \in Nat /\ ShortWindow \in Nat
      /\ AnswerEnd(k, d) = IF begin + ShortWindow < Length THEN begin + ShortWindow ELSE Length
  BY Sizes, AnswerPlace DEF Given, AnswerEnd, AnswerWindow, MinOf
<1>3. begins = ExactStarts(k, d)
  <2> HIDE DEF t, begin
  <2>1. ExactStarts(k, d) = {q \in begin .. AnswerEnd(k, d) - 1 :
                                 q + Len(t) <= Length /\ SubSeq(input.tokens, q + 1, q + Len(t)) = t}
    BY DEF ExactStarts, Gram, begin, t
  <2>2. ASSUME NEW q \in Nat, q + Len(t) <= Length
        PROVE  SubSeq(input.tokens, q + 1, q + Len(t)) = t <=> \A j \in 1 .. Len(t) : input.tokens[q + j] = t[j]
    <3> DEFINE g == SubSeq(input.tokens, q + 1, q + Len(t))
    <3>1. g \in Seq(Nat) /\ Len(g) = Len(t) /\ \A j \in 1 .. Len(t) : g[j] = input.tokens[q + j]
      BY <1>1, <2>2
    <3> HIDE DEF g
    <3>2. g = t <=> \A j \in 1 .. Len(t) : g[j] = t[j]
      BY <1>1, <3>1, SeqEqual
    <3>3. (\A j \in 1 .. Len(t) : g[j] = t[j]) <=> \A j \in 1 .. Len(t) : input.tokens[q + j] = t[j]
      BY <3>1
    <3> QED
      BY <3>2, <3>3 DEF g
  <2>3. ASSUME NEW q \in begins PROVE q \in ExactStarts(k, d)
    <3>1. /\ q \in begin .. begin + ShortWindow - 1
          /\ \A j \in 1 .. Len(t) : q + j <= Length /\ input.tokens[q + j] = t[j]
      BY <1>1
    <3>2. q \in Nat /\ q + Len(t) <= Length
      BY <1>1, <1>2, <3>1
    <3>3. SubSeq(input.tokens, q + 1, q + Len(t)) = t
      BY <2>2, <3>1, <3>2
    <3>4. q \in begin .. AnswerEnd(k, d) - 1
      BY <1>1, <1>2, <3>1, <3>2
    <3> QED
      BY <2>1, <3>2, <3>3, <3>4
  <2>4. ASSUME NEW q \in ExactStarts(k, d) PROVE q \in begins
    <3>1. q \in begin .. AnswerEnd(k, d) - 1 /\ q + Len(t) <= Length
          /\ SubSeq(input.tokens, q + 1, q + Len(t)) = t
      BY <2>1
    <3>2. q \in Nat /\ q \in begin .. begin + ShortWindow - 1
      BY <1>1, <1>2, <3>1
    <3>3. \A j \in 1 .. Len(t) : input.tokens[q + j] = t[j]
      BY <2>2, <3>1, <3>2
    <3>4. \A j \in 1 .. Len(t) : q + j <= Length
      BY <1>1, <3>1, <3>2
    <3>5. DOMAIN t = 1 .. Len(t)
      BY <1>1
    <3> QED
      BY <3>2, <3>3, <3>4, <3>5
  <2> HIDE DEF begins
  <2> QED
    BY <2>3, <2>4
<1>4. ExactFits(k, d, a) = IF begins = {} THEN ~a.found ELSE a.ranges[1][1] = Min(begins)
  BY DEF ExactFits
<1> HIDE DEF begins
<1>5. CASE begins = {}
  <2>1. a = NoMatch
    BY <1>3, <1>5 DEF ExactMatch
  <2> HIDE DEF a
  <2>2. ~a.found
    BY <2>1 DEF NoMatch
  <2> QED
    BY <1>4, <1>5, <2>2 DEF a
<1>6. CASE begins # {}
  <2>1. a.ranges = <<<<Min(begins), Min(begins) + Len(t) - 1>>>>
    BY <1>3, <1>6 DEF ExactMatch
  <2> HIDE DEF a
  <2>2. a.ranges[1][1] = Min(begins)
    BY <2>1
  <2> QED
    BY <1>4, <1>6, <2>2 DEF a
<1> QED
  BY <1>5, <1>6

(* The ranges of an answer are in the line, from AnswerStart on, in order. *)
LEMMA AnswerRanges ==
    ASSUME Given, NEW k, NEW d, Pair(k, d), HasAnswer(d)
    PROVE  LET a == AnswerMatch(k, d)
               r == a.ranges
           IN  /\ r \in Ranges
               /\ a.found <=> Len(r) # 0
               /\ \A m \in 1 .. Len(r) : /\ AnswerStart(k, d) <= r[m][1] /\ r[m][1] <= r[m][2]
                                         /\ r[m][2] < Length
               /\ \A m \in 2 .. Len(r) : r[m - 1][2] < r[m][1]
<1> DEFINE a == AnswerMatch(k, d)
           r == a.ranges
           n == AnswerNgramSize
           len == Len(Doc(d).answer)
<1>1. n \in Nat \ {0} /\ len \in Nat \ {0} /\ Length \in Nat /\ AnswerStart(k, d) \in Nat
  BY Sizes, MatchTexts, AnswerPlace DEF Given, HasAnswer
<1>2. CASE a = NoMatch
  <2>1. r = <<>> /\ ~a.found
    <3> HIDE DEF a
    <3> QED
      BY <1>2 DEF NoMatch
  <2> HIDE DEF a
  <2> QED
    BY <2>1 DEF Ranges, a
<1>3. CASE a # NoMatch /\ IsShort(d)
  <2> DEFINE q == Min(ExactStarts(k, d))
  <2>1. a.found /\ r = <<<<q, q + len - 1>>>> /\ ExactStarts(k, d) # {}
    BY <1>3 DEF AnswerMatch, ExactMatch
  <2>2. q \in Nat /\ AnswerStart(k, d) <= q /\ q + len <= Length
    BY <2>1, ExactPlace
  <2> HIDE DEF q, len, r
  <2>3. <<q, q + len - 1>> \in Int \X Int
    BY <1>1, <2>2
  <2>4. r \in Ranges /\ Len(r) = 1 /\ r[1][1] = q /\ r[1][2] = q + len - 1
    BY <2>1, <2>3 DEF Ranges
  <2> HIDE DEF a
  <2>5. \A m \in 1 .. Len(r) : /\ AnswerStart(k, d) <= r[m][1] /\ r[m][1] <= r[m][2]
                               /\ r[m][2] < Length
    BY <1>1, <2>2, <2>4
  <2> QED
    BY <2>1, <2>4, <2>5 DEF r, a
<1>4. CASE a # NoMatch /\ ~IsShort(d)
  <2> DEFINE hits == AnswerHits(k, d)
  <2>1. a = RangesMatch(k, d)
    BY <1>4 DEF AnswerMatch
  <2>2. a.found /\ r \in Ranges /\ Cover(r, hits)
    <3> HIDE DEF a
    <3> QED
      BY <1>4, <2>1, RangesCover DEF a
  <2>3. hits # {}
    <3> HIDE DEF a
    <3> QED
      BY <1>4, <2>1 DEF RangesMatch
  <2>4. \A h \in hits : h \in Nat /\ AnswerStart(k, d) <= h /\ h + n <= Length
    BY HitPlace
  <2> HIDE DEF hits, n, a
  <2>5. Len(r) \in Nat /\ DOMAIN r = 1 .. Len(r) /\ \A m \in 1 .. Len(r) : r[m][1] \in Int /\ r[m][2] \in Int
    BY <2>2 DEF Ranges
  <2>6. Len(r) # 0
    BY <2>2, <2>3, <2>5 DEF Cover
  <2>7. ASSUME NEW m \in 1 .. Len(r)
        PROVE  /\ AnswerStart(k, d) <= r[m][1] /\ r[m][1] <= r[m][2] /\ r[m][2] < Length
               /\ m # 1 => r[m - 1][2] < r[m][1]
    <3>1. /\ r[m][1] \in hits /\ r[m][2] - n + 1 \in hits /\ r[m][1] <= r[m][2] - n + 1
          /\ m # 1 => r[m][1] > r[m - 1][2] + n
      BY <2>2, <2>5 DEF Cover, n
    <3>2. AnswerStart(k, d) <= r[m][1] /\ r[m][2] - n + 1 + n <= Length
      BY <2>4, <3>1
    <3>3. m # 1 => r[m - 1][2] \in Int
      BY <2>5
    <3> DEFINE x == r[m][1]
               z == r[m][2]
    <3>4. x <= z /\ z < Length
      <4>1. x \in Int /\ z \in Int
        BY <2>5
      <4>2. x <= z - n + 1 /\ z - n + 1 + n <= Length
        BY <3>1, <3>2
      <4> HIDE DEF x, z
      <4> QED
        BY <1>1, <4>1, <4>2
    <3>5. m # 1 => r[m - 1][2] < r[m][1]
      BY <1>1, <2>5, <3>1, <3>3
    <3> QED
      BY <3>2, <3>4, <3>5
  <2>8. \A m \in 2 .. Len(r) : m \in 1 .. Len(r) /\ m # 1
    BY <2>5
  <2> HIDE DEF r
  <2> QED
    BY <2>2, <2>6, <2>7, <2>8 DEF r, a
<1> QED
  BY <1>2, <1>3, <1>4

-----------------------------------------------------------------------------
(* The entry of a match. *)
PassageOf(k, d) == IF HasPassage(d) THEN PassageMatch(k, d) ELSE NoMatch
AnswerOf(k, d) == IF HasAnswer(d) THEN AnswerMatch(k, d) ELSE NoMatch
EntryOf(k, d) ==
    [doc |-> d, cluster |-> k, start |-> QuestionStart(k, d),
     end |-> EntryEnd(k, d, AnswerOf(k, d)), passage |-> PassageOf(k, d).ranges,
     answers |-> AnswerOf(k, d).ranges]

(* The answer of a match, if it has one, is in the line, its ranges in     *)
(* order.                                                                  *)
LEMMA AnswerOfRanges ==
    ASSUME Given, NEW k, NEW d, Pair(k, d)
    PROVE  LET a == AnswerOf(k, d)
               r == a.ranges
           IN  /\ r \in Ranges
               /\ a.found <=> Len(r) # 0
               /\ \A m \in 1 .. Len(r) : /\ AnswerStart(k, d) <= r[m][1] /\ r[m][1] <= r[m][2]
                                         /\ r[m][2] < Length
               /\ \A m \in 2 .. Len(r) : r[m - 1][2] < r[m][1]
<1>1. CASE HasAnswer(d)
  BY <1>1, AnswerRanges DEF AnswerOf
<1>2. CASE ~HasAnswer(d)
  <2>1. AnswerOf(k, d).ranges = <<>> /\ ~AnswerOf(k, d).found
    BY <1>2 DEF AnswerOf, NoMatch
  <2> QED
    BY <2>1 DEF Ranges
<1> QED
  BY <1>1, <1>2

(* The passage of a match is at most one range, before the question.       *)
LEMMA PassageOfRanges ==
    ASSUME Given, NEW k, NEW d, Pair(k, d)
    PROVE  LET r == PassageOf(k, d).ranges
           IN  r = <<>> \/ \E a, z \in Nat : r = <<<<a, z>>>> /\ a <= z /\ z < QuestionStart(k, d)
<1>1. CASE HasPassage(d)
  BY <1>1, PassageRange DEF PassageOf
<1>2. CASE ~HasPassage(d)
  BY <1>2 DEF PassageOf, NoMatch
<1> QED
  BY <1>1, <1>2

(* The question of an entry: cut where the answer begins.                  *)
LEMMA QuestionRange ==
    ASSUME Given, NEW k, NEW d, Pair(k, d)
    PROVE  LET e == EntryOf(k, d)
           IN  /\ e.start \in Nat /\ e.end \in Nat /\ e.start <= e.end /\ e.end < Length
               /\ Len(e.answers) # 0 => e.end < e.answers[1][1]
<1> DEFINE a == AnswerOf(k, d)
           first == QuestionStart(k, d)
           last == QuestionEnd(k, d)
           begin == AnswerStart(k, d)
           e == EntryOf(k, d)
           b == a.ranges[1][1]
<1>1. /\ first \in Nat /\ last \in Nat /\ first <= last /\ last < Length /\ Length \in Nat
      /\ begin \in Nat /\ first < begin /\ begin <= last + 1
      /\ begin <= last => ClusterLength(k, d) > Doc(d).length
  BY QuestionPlace, AnswerPlace, MatchTexts
<1>2. /\ a.found <=> Len(a.ranges) # 0
      /\ Len(a.ranges) # 0 => b \in Int /\ begin <= b /\ b < Length
  <2>1. /\ a.ranges \in Ranges
        /\ a.found <=> Len(a.ranges) # 0
        /\ \A m \in 1 .. Len(a.ranges) : /\ begin <= a.ranges[m][1] /\ a.ranges[m][1] <= a.ranges[m][2]
                                         /\ a.ranges[m][2] < Length
    BY AnswerOfRanges
  <2> HIDE DEF a, begin
  <2>2. Len(a.ranges) # 0 => /\ 1 \in 1 .. Len(a.ranges)
                             /\ a.ranges[1][1] \in Int /\ a.ranges[1][2] \in Int
    BY <2>1 DEF Ranges
  <2> QED
    BY <1>1, <2>1, <2>2
<1>3. /\ e.start = first /\ e.answers = a.ranges
      /\ e.end = IF a.found /\ b <= last /\ ClusterLength(k, d) > Doc(d).length
                   THEN Below(b, 1) ELSE last
  BY DEF EntryOf, EntryEnd
<1> HIDE DEF a, first, last, begin, e, b
<1>4. CASE a.found /\ b <= last
  <2>1. e.end = Below(b, 1)
    BY <1>1, <1>2, <1>3, <1>4
  <2>2. e.end = b - 1
    BY <1>1, <1>2, <1>4, <2>1 DEF Below
  <2> QED
    BY <1>1, <1>2, <1>3, <1>4, <2>2 DEF e, b, a
<1>5. CASE ~(a.found /\ b <= last)
  <2>1. e.end = last
    BY <1>3, <1>5
  <2> QED
    BY <1>1, <1>2, <1>3, <1>5, <2>1 DEF e, b, a
<1> QED
  BY <1>4, <1>5

(* Passage, question and answers of an entry are in the line, in order.    *)
LEMMA PartsOf ==
    ASSUME Given, NEW k, NEW d, Pair(k, d)
    PROVE  LET e == EntryOf(k, d)
               parts == e.passage \o <<<<e.start, e.end>>>> \o e.answers
           IN  /\ \A m \in DOMAIN parts : 0 <= parts[m][1] /\ parts[m][1] <= parts[m][2]
                                          /\ parts[m][2] < Length
               /\ \A m \in DOMAIN parts \ {1} : parts[m - 1][2] < parts[m][1]
<1> DEFINE e == EntryOf(k, d)
           p == e.passage
           q == <<e.start, e.end>>
           r == e.answers
           parts == p \o <<q>> \o r
           n == Len(p)
<1>1. e.passage = PassageOf(k, d).ranges /\ e.answers = AnswerOf(k, d).ranges
      /\ e.start = QuestionStart(k, d)
  BY DEF EntryOf
<1>2. /\ r \in Ranges /\ Len(r) \in Nat
      /\ \A m \in 1 .. Len(r) : /\ AnswerStart(k, d) <= r[m][1] /\ r[m][1] <= r[m][2]
                                /\ r[m][2] < Length
      /\ \A m \in 2 .. Len(r) : r[m - 1][2] < r[m][1]
  <2>1. LET s == AnswerOf(k, d).ranges
        IN  /\ s \in Ranges
            /\ \A m \in 1 .. Len(s) : /\ AnswerStart(k, d) <= s[m][1] /\ s[m][1] <= s[m][2]
                                      /\ s[m][2] < Length
            /\ \A m \in 2 .. Len(s) : s[m - 1][2] < s[m][1]
    BY AnswerOfRanges
  <2> HIDE DEF e
  <2> QED
    BY <1>1, <2>1 DEF Ranges
<1>3. /\ e.start \in Nat /\ e.end \in Nat /\ e.start <= e.end /\ e.end < Length
      /\ Len(r) # 0 => e.end < r[1][1]
  BY QuestionRange
<1>4. p = <<>> \/ \E a, z \in Nat : p = <<<<a, z>>>> /\ a <= z /\ z < e.start
  <2>1. LET s == PassageOf(k, d).ranges
        IN  s = <<>> \/ \E a, z \in Nat : s = <<<<a, z>>>> /\ a <= z /\ z < QuestionStart(k, d)
    BY PassageOfRanges
  <2> HIDE DEF e
  <2> QED
    BY <1>1, <2>1
<1>5. Length \in Nat /\ AnswerStart(k, d) \in Nat
  BY MatchTexts, AnswerPlace
<1> HIDE DEF e
<1>6. q \in Int \X Int /\ q[1] = e.start /\ q[2] = e.end
  BY <1>3
<1>7. /\ p \in Ranges /\ n \in {0, 1}
      /\ n = 1 => /\ p[1][1] \in Nat /\ p[1][2] \in Nat /\ p[1][1] <= p[1][2] /\ p[1][2] < e.start
  <2>1. CASE p = <<>>
    BY <2>1 DEF Ranges
  <2>2. CASE p # <<>>
    <3>1. PICK a \in Nat, z \in Nat : p = <<<<a, z>>>> /\ a <= z /\ z < e.start
      BY <1>4, <2>2
    <3>2. <<a, z>> \in Int \X Int
      OBVIOUS
    <3> HIDE DEF p
    <3> QED
      BY <3>1, <3>2 DEF Ranges
  <2> QED
    BY <2>1, <2>2
<1> HIDE DEF p, q, r
<1>8. /\ DOMAIN parts = 1 .. n + 1 + Len(r)
      /\ n = 1 => parts[1] = p[1]
      /\ parts[n + 1] = q
      /\ \A m \in 1 .. Len(r) : parts[n + 1 + m] = r[m]
  <2> DEFINE s == p \o <<q>>
  <2>1. <<q>> \in Ranges /\ Len(<<q>>) = 1 /\ <<q>>[1] = q
    BY <1>6 DEF Ranges
  <2>2. s \in Ranges /\ Len(s) = n + 1 /\ s[n + 1] = q /\ (n = 1 => s[1] = p[1])
    <3> DEFINE o == <<q>>
    <3> HIDE DEF o
    <3>1. o \in Ranges /\ Len(o) = 1 /\ o[1] = q
      BY <2>1 DEF o
    <3>2. /\ p \o o \in Ranges /\ Len(p \o o) = Len(p) + Len(o)
          /\ \A m \in 1 .. Len(p) + Len(o) : (p \o o)[m] = IF m <= Len(p) THEN p[m] ELSE o[m - Len(p)]
      BY <1>7, <3>1, ConcatProperties DEF Ranges
    <3> QED
      BY <1>7, <3>1, <3>2 DEF o
  <2> HIDE DEF s
  <2>3. /\ Len(s \o r) = n + 1 + Len(r) /\ s \o r \in Ranges
        /\ \A m \in 1 .. n + 1 + Len(r) : (s \o r)[m] = IF m <= n + 1 THEN s[m] ELSE r[m - (n + 1)]
    <3>1. /\ s \o r \in Ranges /\ Len(s \o r) = Len(s) + Len(r)
          /\ \A m \in 1 .. Len(s) + Len(r) : (s \o r)[m] = IF m <= Len(s) THEN s[m] ELSE r[m - Len(s)]
      BY <1>2, <2>2, ConcatProperties DEF Ranges
    <3> HIDE DEF n
    <3> QED
      BY <2>2, <3>1
  <2>4. parts = s \o r
    BY DEF s
  <2> HIDE DEF parts
  <2>5. DOMAIN parts = 1 .. n + 1 + Len(r)
    BY <2>3, <2>4 DEF Ranges
  <2>6. \A m \in 1 .. Len(r) : parts[n + 1 + m] = r[m]
    <3>1. SUFFICES ASSUME NEW m \in 1 .. Len(r) PROVE parts[n + 1 + m] = r[m]
      OBVIOUS
    <3>2. n + 1 + m \in 1 .. n + 1 + Len(r) /\ ~(n + 1 + m <= n + 1) /\ n + 1 + m - (n + 1) = m
      BY <1>2, <1>7
    <3> QED
      BY <2>3, <2>4, <3>2
  <2> QED
    BY <1>2, <1>7, <2>2, <2>3, <2>4, <2>5, <2>6
<1>9. ASSUME NEW m \in DOMAIN parts
      PROVE  /\ 0 <= parts[m][1] /\ parts[m][1] <= parts[m][2] /\ parts[m][2] < Length
             /\ m # 1 => parts[m - 1][2] < parts[m][1]
  <2> HIDE DEF parts, n
  <2>1. m \in 1 .. n + 1 + Len(r) /\ m \in Int
    BY <1>8
  <2>2. CASE m <= n
    <3>1. m = 1 /\ n = 1
      BY <1>7, <2>1, <2>2
    <3> QED
      BY <1>3, <1>5, <1>7, <1>8, <3>1
  <2>3. CASE m = n + 1
    <3>1. parts[m] = q
      BY <1>8, <2>3
    <3>2. m # 1 => n = 1 /\ m - 1 = 1 /\ parts[m - 1] = p[1]
      BY <1>7, <1>8, <2>3
    <3> QED
      BY <1>3, <1>6, <1>7, <3>1, <3>2
  <2>4. CASE m > n + 1
    <3> DEFINE l == m - (n + 1)
    <3>1. l \in 1 .. Len(r) /\ n + 1 + l = m
      BY <1>2, <1>7, <2>1, <2>4
    <3>2. parts[m] = r[l]
      BY <1>8, <3>1
    <3>3. r[l] \in Int \X Int /\ r[l][1] \in Int /\ r[l][2] \in Int
      <4> HIDE DEF l
      <4> QED
        BY <1>2, <3>1 DEF Ranges
    <3>4. AnswerStart(k, d) <= r[l][1] /\ r[l][1] <= r[l][2] /\ r[l][2] < Length
      BY <1>2, <3>1
    <3>5. CASE l = 1
      <4>1. parts[m - 1] = q
        BY <1>7, <1>8, <3>5
      <4>2. e.end < r[1][1]
        BY <1>3, <3>1, <3>5
      <4> HIDE DEF l
      <4> QED
        BY <1>5, <1>6, <3>2, <3>3, <3>4, <3>5, <4>1, <4>2
    <3>6. CASE l # 1
      <4>1. l - 1 \in 1 .. Len(r) /\ l \in 2 .. Len(r) /\ n + 1 + (l - 1) = m - 1
        BY <1>7, <2>1, <3>1, <3>6
      <4>2. parts[m - 1] = r[l - 1]
        <5> HIDE DEF l
        <5> QED
          BY <1>8, <4>1
      <4>3. r[l - 1][2] < r[l][1]
        <5> HIDE DEF l
        <5> QED
          BY <1>2, <4>1
      <4> HIDE DEF l
      <4> QED
        BY <1>5, <3>2, <3>3, <3>4, <4>2, <4>3
    <3> QED
      BY <3>5, <3>6
  <2> QED
    BY <1>7, <2>1, <2>2, <2>3, <2>4
<1>10. parts = e.passage \o <<<<e.start, e.end>>>> \o e.answers
  BY DEF p, q, r
<1> QED
  BY <1>9, <1>10 DEF e, p, q, r

-----------------------------------------------------------------------------
(* Fractions: Scoring. *)

(* The first n + 1 values of a gcd, as functions of the other number.      *)
Euclid(n) ==
    {g \in [0 .. n -> [Nat -> Nat]] :
        \A m \in 0 .. n : \A k \in Nat : g[m][k] = IF m = 0 THEN k ELSE g[k % m][m]}

(* Division by a positive number.                                          *)
LEMMA Remainder ==
    ASSUME NEW k \in Nat, NEW m \in Nat, m # 0
    PROVE  k % m \in 0 .. m - 1 /\ k \div m \in Nat /\ k = m * (k \div m) + (k % m)
OBVIOUS

(* n + 1 values can be continued by one more,                              *)
LEMMA EuclidNext ==
    ASSUME NEW n \in Nat, NEW g \in Euclid(n)
    PROVE  \E h : h \in Euclid(n + 1)
<1> DEFINE new == [k \in Nat |-> g[k % (n + 1)][n + 1]]
           h == [m \in 0 .. n + 1 |-> IF m = n + 1 THEN new ELSE g[m]]
<1>1. /\ g \in [0 .. n -> [Nat -> Nat]]
      /\ \A m \in 0 .. n : \A k \in Nat : g[m][k] = IF m = 0 THEN k ELSE g[k % m][m]
  BY DEF Euclid
<1>2. n + 1 \in Nat /\ n + 1 # 0 /\ \A k \in Nat : k % (n + 1) \in 0 .. n
  BY Remainder
<1>3. new \in [Nat -> Nat]
  BY <1>1, <1>2
<1>4. \A m \in 0 .. n : h[m] = g[m]
  OBVIOUS
<1>5. h[n + 1] = new /\ h \in [0 .. n + 1 -> [Nat -> Nat]]
  <2>1. n + 1 \in 0 .. n + 1
    BY <1>2
  <2> HIDE DEF new
  <2>2. \A m \in 0 .. n + 1 : m # n + 1 => m \in 0 .. n
    OBVIOUS
  <2>3. \A m \in 0 .. n + 1 : h[m] \in [Nat -> Nat]
    BY <1>1, <1>3, <2>2
  <2>4. h[n + 1] = new
    BY <2>1
  <2> QED
    BY <2>3, <2>4
<1>6. ASSUME NEW m \in 0 .. n + 1, NEW k \in Nat
      PROVE  h[m][k] = IF m = 0 THEN k ELSE h[k % m][m]
  <2>1. CASE m = n + 1
    <3>1. h[m][k] = g[k % (n + 1)][n + 1] /\ k % (n + 1) \in 0 .. n
      BY <1>2, <1>5, <2>1
    <3>2. h[k % (n + 1)] = g[k % (n + 1)]
      BY <1>4, <3>1
    <3> HIDE DEF h
    <3> QED
      BY <1>2, <2>1, <3>1, <3>2
  <2>2. CASE m # n + 1
    <3>1. m \in 0 .. n /\ h[m] = g[m]
      BY <1>4, <2>2
    <3>2. m # 0 => k % m \in 0 .. n
      <4>1. m \in Nat /\ m \in 0 .. n
        BY <3>1
      <4>2. m # 0 => k % m \in 0 .. m - 1
        BY <4>1, Remainder
      <4> QED
        BY <4>1, <4>2
    <3> HIDE DEF h
    <3> QED
      BY <1>1, <1>4, <3>1, <3>2
  <2> QED
    BY <2>1, <2>2
<1>7. n + 1 \in Nat /\ h \in [0 .. n + 1 -> [Nat -> Nat]]
  BY <1>2, <1>5
<1> HIDE DEF h
<1>8. h \in Euclid(n + 1)
  BY <1>6, <1>7 DEF Euclid
<1> QED
  BY <1>8

(* in one way only.                                                        *)
LEMMA EuclidSame ==
    ASSUME NEW n \in Nat, NEW m \in Nat, NEW g \in Euclid(n), NEW h \in Euclid(m)
    PROVE  \A j \in 0 .. n : j \in 0 .. m => g[j] = h[j]
<1> DEFINE S == {j \in Nat : \A w \in 0 .. j : w \in 0 .. n /\ w \in 0 .. m => g[w] = h[w]}
<1>1. /\ g \in [0 .. n -> [Nat -> Nat]] /\ h \in [0 .. m -> [Nat -> Nat]]
      /\ \A j \in 0 .. n : \A k \in Nat : g[j][k] = IF j = 0 THEN k ELSE g[k % j][j]
      /\ \A j \in 0 .. m : \A k \in Nat : h[j][k] = IF j = 0 THEN k ELSE h[k % j][j]
  BY DEF Euclid
<1>2. ASSUME NEW w \in 0 .. n, w \in 0 .. m, \A k \in Nat : g[w][k] = h[w][k] PROVE g[w] = h[w]
  <2>1. g[w] \in [Nat -> Nat] /\ h[w] \in [Nat -> Nat]
    BY <1>1, <1>2
  <2> QED
    BY <1>2, <2>1
<1>3. 0 \in S
  <2>1. g[0] = h[0]
    BY <1>1, <1>2
  <2> QED
    BY <2>1
<1>4. ASSUME NEW j \in S \cap Nat PROVE j + 1 \in S
  <2>1. SUFFICES ASSUME j + 1 \in 0 .. n, j + 1 \in 0 .. m PROVE g[j + 1] = h[j + 1]
    OBVIOUS
  <2>2. ASSUME NEW k \in Nat PROVE g[j + 1][k] = h[j + 1][k]
    <3>1. k % (j + 1) \in 0 .. j
      BY Remainder
    <3>2. g[k % (j + 1)] = h[k % (j + 1)]
      BY <2>1, <3>1
    <3> HIDE DEF S
    <3>3. \A w \in 0 .. n : w # 0 => g[w][k] = g[k % w][w]
      BY <1>1
    <3>0. j + 1 # 0
      OBVIOUS
    <3>4. \A w \in 0 .. m : w # 0 => h[w][k] = h[k % w][w]
      BY <1>1
    <3>5. g[j + 1][k] = g[k % (j + 1)][j + 1] /\ h[j + 1][k] = h[k % (j + 1)][j + 1]
      BY <2>1, <3>0, <3>3, <3>4
    <3> QED
      BY <3>2, <3>5
  <2> QED
    BY <1>2, <2>1, <2>2
<1>5. \A j \in Nat : j \in S
  <2> HIDE DEF S
  <2> QED
    BY <1>3, <1>4, Induction
<1> QED
  BY <1>5

(* The recursion defines a function.                                       *)
LEMMA GcdIs ==
    /\ gcd \in [Nat -> [Nat -> Nat]]
    /\ \A n, m \in Nat : gcd[n][m] = IF n = 0 THEN m ELSE gcd[m % n][n]
<1> DEFINE S == {n \in Nat : Euclid(n) # {}}
           First(n) == CHOOSE g : g \in Euclid(n)
           f == [n \in Nat |-> First(n)[n]]
<1>1. 0 \in S
  <2> DEFINE g == [n \in 0 .. 0 |-> [m \in Nat |-> m]]
  <2>1. g \in Euclid(0)
    BY DEF Euclid
  <2> QED
    BY <2>1
<1>2. \A n \in S \cap Nat : n + 1 \in S
  BY EuclidNext
<1>3. \A n \in Nat : n \in S
  <2> HIDE DEF S
  <2> QED
    BY <1>1, <1>2, Induction
<1>4. \A n \in Nat : First(n) \in Euclid(n)
  BY <1>3
<1> HIDE DEF First
<1>0. \A n \in Nat : /\ First(n) \in [0 .. n -> [Nat -> Nat]] /\ n \in 0 .. n
                     /\ \A m \in Nat : First(n)[n][m] = IF n = 0 THEN m ELSE First(n)[m % n][n]
  <2> SUFFICES ASSUME NEW n \in Nat
               PROVE  /\ First(n) \in [0 .. n -> [Nat -> Nat]] /\ n \in 0 .. n
                      /\ \A m \in Nat : First(n)[n][m] = IF n = 0 THEN m ELSE First(n)[m % n][n]
    OBVIOUS
  <2>1. First(n) \in Euclid(n) /\ n \in 0 .. n
    BY <1>4
  <2>2. First(n) \in [0 .. n -> [Nat -> Nat]]
    BY <2>1 DEF Euclid
  <2>3. \A w \in 0 .. n : \A m \in Nat : First(n)[w][m] = IF w = 0 THEN m ELSE First(n)[m % w][w]
    BY <2>1 DEF Euclid
  <2> QED
    BY <2>1, <2>2, <2>3
<1>5. \A n \in Nat : f[n] \in [Nat -> Nat]
  BY <1>0
<1>6. \A n \in Nat : \A j \in 0 .. n : First(n)[j] = f[j]
  BY <1>4, EuclidSame
<1>7. ASSUME NEW n \in Nat, NEW m \in Nat
      PROVE  f[n][m] = IF n = 0 THEN m ELSE f[m % n][n]
  <2>1. f[n][m] = IF n = 0 THEN m ELSE First(n)[m % n][n]
    BY <1>0
  <2>2. n # 0 => m % n \in 0 .. n
    BY Remainder
  <2>3. n # 0 => First(n)[m % n] = f[m % n]
    BY <1>6, <2>2
  <2> HIDE DEF f
  <2> QED
    BY <2>1, <2>3
<1> DEFINE G(h) == [n \in Nat |-> [m \in Nat |-> IF n = 0 THEN m ELSE h[m % n][n]]]
<1>8. f = G(f)
  <2>1. ASSUME NEW n \in Nat PROVE f[n] = G(f)[n]
    <3>1. f[n] \in [Nat -> Nat] /\ \A m \in Nat : f[n][m] = G(f)[n][m]
      BY <1>5, <1>7
    <3>2. f[n] = [m \in Nat |-> f[n][m]]
      <4> HIDE DEF f
      <4> QED
        BY <3>1
    <3> HIDE DEF f
    <3> QED
      BY <3>1, <3>2
  <2> QED
    BY <2>1
<1>9. gcd = G(gcd)
  <2> HIDE DEF f
  <2>1. \E h : h = G(h)
    BY <1>8
  <2> QED
    BY <2>1 DEF gcd
<1>10. ASSUME NEW n \in Nat, NEW m \in Nat PROVE gcd[n][m] = IF n = 0 THEN m ELSE gcd[m % n][n]
  BY <1>9
<1> DEFINE E == {n \in Nat : \A k \in 0 .. n : gcd[k] \in [Nat -> Nat]}
<1>11. 0 \in E
  BY <1>9, <1>10
<1>12. ASSUME NEW n \in E \cap Nat PROVE n + 1 \in E
  <2>1. \A m \in Nat : m % (n + 1) \in 0 .. n
    BY Remainder
  <2>2. gcd[n + 1] = [m \in Nat |-> gcd[m % (n + 1)][n + 1]]
    <3>1. n + 1 \in Nat /\ n + 1 # 0
      OBVIOUS
    <3>2. gcd[n + 1] = [m \in Nat |-> IF n + 1 = 0 THEN m ELSE gcd[m % (n + 1)][n + 1]]
      BY <1>9, <3>1
    <3> QED
      BY <3>1, <3>2
  <2>3. gcd[n + 1] \in [Nat -> Nat]
    BY <2>1, <2>2
  <2> QED
    BY <2>3
<1>13. \A n \in Nat : n \in E
  <2> HIDE DEF E
  <2> QED
    BY <1>11, <1>12, Induction
<1>14. gcd = [n \in Nat |-> gcd[n]]
  BY <1>9
<1>15. \A n \in Nat : gcd[n] \in [Nat -> Nat]
  BY <1>13
<1> HIDE DEF E, G, f, S
<1> QED
  BY <1>10, <1>14, <1>15

Divides(g, n) == \E k \in Nat : n = g * k

(* The gcd of two numbers divides both.                                    *)
LEMMA GcdDivides ==
    \A n, m \in Nat : n # 0 =>
        /\ gcd[n][m] \in Nat /\ gcd[n][m] # 0
        /\ Divides(gcd[n][m], n) /\ Divides(gcd[n][m], m)
<1> DEFINE Good(n, m) == /\ gcd[n][m] \in Nat /\ gcd[n][m] # 0
                         /\ Divides(gcd[n][m], n) /\ Divides(gcd[n][m], m)
           S == {j \in Nat : \A n \in 0 .. j, m \in Nat : n # 0 => Good(n, m)}
<1>1. 0 \in S
  OBVIOUS
<1>2. ASSUME NEW j \in S \cap Nat PROVE j + 1 \in S
  <2> SUFFICES ASSUME NEW n \in 0 .. j + 1, NEW m \in Nat, n # 0 PROVE Good(n, m)
    BY DEF S
  <2> DEFINE r == m % n
             q == m \div n
             g == gcd[r][n]
  <2>1. n \in Nat /\ r \in 0 .. n - 1 /\ q \in Nat /\ m = n * q + r /\ r \in Nat
    <3>1. n \in Nat
      OBVIOUS
    <3>2. r \in 0 .. n - 1 /\ q \in Nat /\ m = n * q + r
      BY <3>1, Remainder
    <3> HIDE DEF q, r
    <3> QED
      BY <3>1, <3>2
  <2>2. gcd[n][m] = g
    BY <2>1, GcdIs
  <2>3. /\ g \in Nat /\ g # 0
        /\ Divides(g, r) /\ Divides(g, n)
    <3>1. CASE r = 0
      <4>1. g = n
        BY <2>1, <3>1, GcdIs
      <4>2. n = n * 1 /\ 0 = n * 0
        BY <2>1
      <4> QED
        BY <2>1, <3>1, <4>1, <4>2 DEF Divides
    <3>2. CASE r # 0
      <4>1. r \in 0 .. j
        BY <2>1
      <4> QED
        BY <2>1, <3>2, <4>1
    <3> QED
      BY <3>1, <3>2
  <2>4. Divides(g, m)
    <3> HIDE DEF g, q, r
    <3>1. PICK k \in Nat : r = g * k
      BY <2>3 DEF Divides
    <3>2. PICK l \in Nat : n = g * l
      BY <2>3 DEF Divides
    <3>3. m = (g * l) * q + g * k
      BY <2>1, <3>1, <3>2
    <3>4. (g * l) * q + g * k = g * (l * q + k) /\ l * q + k \in Nat
      BY <2>1, <2>3
    <3> QED
      BY <3>3, <3>4 DEF Divides
  <2> HIDE DEF g
  <2> QED
    BY <2>2, <2>3, <2>4
<1>3. \A j \in Nat : j \in S
  <2> HIDE DEF S
  <2> QED
    BY <1>1, <1>2, Induction
<1> QED
  BY <1>3

(* x is the fraction n / d.                                                *)
IsFrac(x) == x \in Nat \X Nat /\ x[2] # 0
Is(x, n, d) == IsFrac(x) /\ n \in Nat /\ d \in Nat /\ d # 0 /\ x[1] * d = n * x[2]

(* A fraction is what it shows.                                            *)
LEMMA Itself ==
    ASSUME NEW x, IsFrac(x)
    PROVE  Is(x, x[1], x[2])
BY DEF IsFrac, Is

(* A factor that is not 0 cancels.                                         *)
LEMMA Cancel ==
    ASSUME NEW a \in Nat, NEW b \in Nat, NEW c \in Nat, c # 0, a * c = b * c
    PROVE  a = b
OBVIOUS

(* n / d and m / e are the same.                                           *)
LEMMA SameFrac ==
    ASSUME NEW x, NEW n, NEW d, Is(x, n, d), NEW m \in Nat, NEW e \in Nat, e # 0, n * e = m * d
    PROVE  Is(x, m, e)
<1>1. PICK p, q : p = x[1] /\ q = x[2]
  OBVIOUS
<1>2. p \in Nat /\ q \in Nat /\ n \in Nat /\ d \in Nat /\ d # 0 /\ p * d = n * q
  BY <1>1 DEF Is, IsFrac
<1>3. (p * e) * d = (p * d) * e
  BY <1>2
<1>4. (n * q) * e = (n * e) * q
  BY <1>2
<1>5. (m * d) * q = (m * q) * d
  BY <1>2
<1>6. (p * e) * d = (m * q) * d
  BY <1>2, <1>3, <1>4, <1>5
<1>7. p * e \in Nat /\ m * q \in Nat
  BY <1>2
<1>8. p * e = m * q
  BY <1>2, <1>6, <1>7, Cancel
<1> QED
  BY <1>1, <1>8 DEF Is

(* Frac reduces n / d.                                                     *)
LEMMA FracIs ==
    ASSUME NEW n \in Nat, NEW d \in Nat, d # 0
    PROVE  Is(Frac(n, d), n, d)
<1> DEFINE g == gcd[d][n]
<1>1. g \in Nat /\ g # 0 /\ Divides(g, n) /\ Divides(g, d)
  BY GcdDivides
<1> HIDE DEF g
<1>2. PICK k \in Nat : n = g * k
  BY <1>1 DEF Divides
<1>3. PICK l \in Nat : d = g * l
  BY <1>1 DEF Divides
<1>4. n \div g = k /\ d \div g = l
  BY <1>1, <1>2, <1>3
<1>5. Frac(n, d) = <<k, l>>
  BY <1>4 DEF Frac, g
<1>6. l # 0
  BY <1>1, <1>3
<1>7. k * d = n * l
  <2>1. k * (g * l) = (g * k) * l
    BY <1>1
  <2> QED
    BY <1>2, <1>3, <2>1
<1> QED
  BY <1>5, <1>6, <1>7 DEF Is, IsFrac

(* The operations on fractions of one denominator or of two.               *)
LEMMA AtMostIs ==
    ASSUME NEW x, NEW n, NEW d, Is(x, n, d), NEW y, NEW m, Is(y, m, d)
    PROVE  AtMost(x, y) <=> n <= m
<1>1. PICK p, q : p = x[1] /\ q = x[2]
  OBVIOUS
<1>2. PICK r, s : r = y[1] /\ s = y[2]
  OBVIOUS
<1>3. /\ p \in Nat /\ q \in Nat /\ q # 0 /\ r \in Nat /\ s \in Nat /\ s # 0
      /\ n \in Nat /\ m \in Nat /\ d \in Nat /\ d # 0 /\ p * d = n * q /\ r * d = m * s
  BY <1>1, <1>2 DEF Is, IsFrac
<1>4. (p * s) * d = n * (q * s) /\ (r * q) * d = m * (q * s)
  <2>1. (p * s) * d = (p * d) * s /\ (n * q) * s = n * (q * s)
    BY <1>3
  <2>2. (r * q) * d = (r * d) * q /\ (m * s) * q = m * (q * s)
    BY <1>3
  <2> QED
    BY <1>3, <2>1, <2>2
<1>5. p * s \in Nat /\ r * q \in Nat /\ q * s \in Nat /\ q * s # 0
  BY <1>3
<1>6. p * s <= r * q <=> n <= m
  <2>1. PICK a, b, c : a = p * s /\ b = r * q /\ c = q * s
    OBVIOUS
  <2>2. /\ a \in Nat /\ b \in Nat /\ c \in Nat /\ c # 0 /\ a * d = n * c /\ b * d = m * c
    BY <1>4, <1>5, <2>1
  <2>3. a <= b <=> a * d <= b * d
    BY <1>3, <2>2
  <2>4. n <= m <=> n * c <= m * c
    BY <1>3, <2>2
  <2> QED
    BY <2>1, <2>2, <2>3, <2>4
<1> QED
  BY <1>1, <1>2, <1>6 DEF AtMost

(* A fraction in other units.                                              *)
LEMMA Scaling ==
    ASSUME NEW x, NEW n, NEW d, Is(x, n, d), NEW k \in Nat, k # 0
    PROVE  Is(x, n * k, d * k) /\ Is(x, k * n, k * d)
<1>1. n \in Nat /\ d \in Nat /\ d # 0
  BY DEF Is
<1>2. n * k \in Nat /\ d * k \in Nat /\ d * k # 0 /\ n * (d * k) = (n * k) * d
  BY <1>1
<1>3. k * n = n * k /\ k * d = d * k
  BY <1>1
<1> QED
  BY <1>2, <1>3, SameFrac

(* The sum, the difference, the product and the quotient.                  *)
LEMMA PlusIs ==
    ASSUME NEW x, NEW n, NEW d, Is(x, n, d), NEW y, NEW m, Is(y, m, d)
    PROVE  Is(Plus(x, y), n + m, d)
<1>1. PICK p, q : p = x[1] /\ q = x[2]
  OBVIOUS
<1>2. PICK r, s : r = y[1] /\ s = y[2]
  OBVIOUS
<1>3. /\ p \in Nat /\ q \in Nat /\ q # 0 /\ r \in Nat /\ s \in Nat /\ s # 0
      /\ n \in Nat /\ m \in Nat /\ d \in Nat /\ d # 0 /\ p * d = n * q /\ r * d = m * s
  BY <1>1, <1>2 DEF Is, IsFrac
<1>4. p * s + r * q \in Nat /\ q * s \in Nat /\ q * s # 0 /\ n + m \in Nat
  BY <1>3
<1>5. Is(Plus(x, y), p * s + r * q, q * s)
  BY <1>1, <1>2, <1>4, FracIs DEF Plus
<1>6. (p * s + r * q) * d = (n + m) * (q * s)
  <2>1. (p * s + r * q) * d = (p * d) * s + (r * d) * q
    BY <1>3
  <2>2. (n * q) * s + (m * s) * q = (n + m) * (q * s)
    BY <1>3
  <2> QED
    BY <1>3, <2>1, <2>2
<1> QED
  BY <1>3, <1>4, <1>5, <1>6, SameFrac

LEMMA MinusIs ==
    ASSUME NEW x, NEW n, NEW d, Is(x, n, d), NEW y, NEW m, Is(y, m, d), m <= n
    PROVE  Is(Minus(x, y), n - m, d)
<1>1. PICK p, q : p = x[1] /\ q = x[2]
  OBVIOUS
<1>2. PICK r, s : r = y[1] /\ s = y[2]
  OBVIOUS
<1>3. /\ p \in Nat /\ q \in Nat /\ q # 0 /\ r \in Nat /\ s \in Nat /\ s # 0
      /\ n \in Nat /\ m \in Nat /\ d \in Nat /\ d # 0 /\ p * d = n * q /\ r * d = m * s
  BY <1>1, <1>2 DEF Is, IsFrac
<1>0. r * q <= p * s
  BY <1>1, <1>2, AtMostIs DEF AtMost
<1>4. p * s - r * q \in Nat /\ q * s \in Nat /\ q * s # 0 /\ n - m \in Nat
  BY <1>0, <1>3
<1>5. Is(Minus(x, y), p * s - r * q, q * s)
  BY <1>1, <1>2, <1>4, FracIs DEF Minus
<1>6. (p * s - r * q) * d = (n - m) * (q * s)
  <2>1. (p * s - r * q) * d = (p * d) * s - (r * d) * q
    BY <1>3
  <2>2. (n * q) * s - (m * s) * q = (n - m) * (q * s)
    BY <1>3
  <2> QED
    BY <1>3, <2>1, <2>2
<1> QED
  BY <1>3, <1>4, <1>5, <1>6, SameFrac

LEMMA TimesIs ==
    ASSUME NEW x, NEW n, NEW d, Is(x, n, d), NEW y, NEW m, NEW e, Is(y, m, e)
    PROVE  Is(Times(x, y), n * m, d * e)
<1>1. PICK p, q : p = x[1] /\ q = x[2]
  OBVIOUS
<1>2. PICK r, s : r = y[1] /\ s = y[2]
  OBVIOUS
<1>3. /\ p \in Nat /\ q \in Nat /\ q # 0 /\ r \in Nat /\ s \in Nat /\ s # 0
      /\ n \in Nat /\ m \in Nat /\ d \in Nat /\ d # 0 /\ e \in Nat /\ e # 0
      /\ p * d = n * q /\ r * e = m * s
  BY <1>1, <1>2 DEF Is, IsFrac
<1>4. p * r \in Nat /\ q * s \in Nat /\ q * s # 0 /\ n * m \in Nat /\ d * e \in Nat /\ d * e # 0
  BY <1>3
<1>5. Is(Times(x, y), p * r, q * s)
  BY <1>1, <1>2, <1>4, FracIs DEF Times
<1>6. (p * r) * (d * e) = (n * m) * (q * s)
  <2>1. (p * r) * (d * e) = (p * d) * (r * e)
    BY <1>3
  <2>2. (n * q) * (m * s) = (n * m) * (q * s)
    BY <1>3
  <2> QED
    BY <1>3, <2>1, <2>2
<1> QED
  BY <1>4, <1>5, <1>6, SameFrac

LEMMA OverIs ==
    ASSUME NEW x, NEW n, NEW d, Is(x, n, d), NEW y, NEW m, NEW e, Is(y, m, e), m # 0
    PROVE  Is(Over(x, y), n * e, d * m)
<1>1. PICK p, q : p = x[1] /\ q = x[2]
  OBVIOUS
<1>2. PICK r, s : r = y[1] /\ s = y[2]
  OBVIOUS
<1>3. /\ p \in Nat /\ q \in Nat /\ q # 0 /\ r \in Nat /\ s \in Nat /\ s # 0
      /\ n \in Nat /\ m \in Nat /\ d \in Nat /\ d # 0 /\ e \in Nat /\ e # 0
      /\ p * d = n * q /\ r * e = m * s
  BY <1>1, <1>2 DEF Is, IsFrac
<1>4. r # 0
  <2>1. m * s # 0
    BY <1>3
  <2> QED
    BY <1>3, <2>1
<1>5. p * s \in Nat /\ q * r \in Nat /\ q * r # 0 /\ n * e \in Nat /\ d * m \in Nat /\ d * m # 0
  BY <1>3, <1>4
<1>6. Is(Over(x, y), p * s, q * r)
  BY <1>1, <1>2, <1>5, FracIs DEF Over
<1>7. (p * s) * (d * m) = (n * e) * (q * r)
  <2>1. (p * s) * (d * m) = (p * d) * (m * s)
    BY <1>3
  <2>2. (n * q) * (r * e) = (n * e) * (q * r)
    BY <1>3
  <2> QED
    BY <1>3, <2>1, <2>2
<1> QED
  BY <1>5, <1>6, <1>7, SameFrac

(* The fractions that are written down.                                    *)
LEMMA Constants ==
    /\ \A d \in Nat : d # 0 => Is(One, d, d) /\ Is(Zero, 0, d)
    /\ \A n, d \in Nat : d # 0 => Is(<<n, d>>, n, d)
BY DEF One, Zero, Is, IsFrac

-----------------------------------------------------------------------------
(* Weights and thresholds as fractions. *)

Option(x) == x = Unset \/ x \in Nat

(* Interpolate takes the target t / d the part h / j of the way from 1.    *)
LEMMA InterpolateIs ==
    ASSUME NEW length \in Nat, NEW from, NEW end, Option(from), Option(end)
    PROVE  \E h, j \in Nat :
              /\ j # 0 /\ h <= j
              /\ \A target, t, d : Is(target, t, d) /\ t <= d =>
                    /\ d * j - (d - t) * h \in Nat /\ d * j # 0
                    /\ Is(Interpolate(length, from, end, target), d * j - (d - t) * h, d * j)
<1>1. CASE from = Unset
  <2>1. ASSUME NEW target, NEW t, NEW d, Is(target, t, d)
        PROVE  /\ d * 1 - (d - t) * 1 \in Nat /\ d * 1 # 0
               /\ Is(Interpolate(length, from, end, target), d * 1 - (d - t) * 1, d * 1)
    <3>1. t \in Nat /\ d \in Nat /\ d # 0
      BY <2>1 DEF Is
    <3>2. d * 1 - (d - t) * 1 = t /\ d * 1 = d
      BY <3>1
    <3> QED
      BY <1>1, <2>1, <3>1, <3>2 DEF Interpolate
  <2> QED
    BY <2>1
<1>2. CASE from # Unset /\ length <= from
  <2>1. ASSUME NEW target, NEW t, NEW d, Is(target, t, d)
        PROVE  /\ d * 1 - (d - t) * 0 \in Nat /\ d * 1 # 0
               /\ Is(Interpolate(length, from, end, target), d * 1 - (d - t) * 0, d * 1)
    <3>1. t \in Nat /\ d \in Nat /\ d # 0
      BY <2>1 DEF Is
    <3>2. d * 1 - (d - t) * 0 = d /\ d * 1 = d
      BY <3>1
    <3> QED
      BY <1>2, <3>1, <3>2, Constants DEF Interpolate
  <2> QED
    BY <2>1
<1>3. CASE from # Unset /\ ~(length <= from) /\ (end = Unset \/ length >= end)
  <2>1. ASSUME NEW target, NEW t, NEW d, Is(target, t, d)
        PROVE  /\ d * 1 - (d - t) * 1 \in Nat /\ d * 1 # 0
               /\ Is(Interpolate(length, from, end, target), d * 1 - (d - t) * 1, d * 1)
    <3>1. t \in Nat /\ d \in Nat /\ d # 0
      BY <2>1 DEF Is
    <3>2. d * 1 - (d - t) * 1 = t /\ d * 1 = d
      BY <3>1
    <3> QED
      BY <1>3, <2>1, <3>1, <3>2 DEF Interpolate
  <2> QED
    BY <2>1
<1>4. CASE from # Unset /\ ~(length <= from) /\ end # Unset /\ ~(length >= end)
  <2>1. from \in Nat /\ end \in Nat /\ length - from \in Nat /\ end - from \in Nat
        /\ end - from # 0 /\ length - from <= end - from
    BY <1>4 DEF Option
  <2>2. PICK h, j : h = length - from /\ j = end - from
    OBVIOUS
  <2>3. h \in Nat /\ j \in Nat /\ j # 0 /\ h <= j
    BY <2>1, <2>2
  <2>4. Is(Frac(length - from, end - from), h, j)
    BY <2>2, <2>3, FracIs
  <2>5. ASSUME NEW target, NEW t, NEW d, Is(target, t, d), t <= d
        PROVE  /\ d * j - (d - t) * h \in Nat /\ d * j # 0
               /\ Is(Interpolate(length, from, end, target), d * j - (d - t) * h, d * j)
    <3>1. t \in Nat /\ d \in Nat /\ d # 0
      BY <2>5 DEF Is
    <3>2. Is(Minus(One, target), d - t, d)
      BY <2>5, <3>1, Constants, MinusIs
    <3>3. Is(Times(Minus(One, target), Frac(length - from, end - from)), (d - t) * h, d * j)
      BY <2>4, <3>2, TimesIs
    <3>4. d * j \in Nat /\ d * j # 0 /\ (d - t) * h <= d * j /\ (d - t) * h \in Nat
      <4>1. PICK c : c = d - t
        OBVIOUS
      <4>2. c \in Nat /\ c <= d
        BY <2>5, <3>1, <4>1
      <4>3. c * h <= d * h /\ d * h <= d * j /\ c * h \in Nat /\ d * h \in Nat
        BY <2>3, <3>1, <4>2
      <4>4. d * j \in Nat /\ d * j # 0
        BY <2>3, <3>1
      <4> QED
        BY <4>1, <4>3, <4>4
    <3>5. Is(Minus(One, Times(Minus(One, target), Frac(length - from, end - from))),
             d * j - (d - t) * h, d * j)
      BY <3>3, <3>4, Constants, MinusIs
    <3> QED
      BY <1>4, <3>4, <3>5 DEF Interpolate
  <2> QED
    BY <2>3, <2>5
<1> QED
  BY <1>1, <1>2, <1>3, <1>4

(* A question of g n-grams counts for u / 40 of its weight, an answer of t *)
(* tokens for v / 8.                                                       *)
Sure(g) == IF g < 20 THEN 20 + g ELSE 40
Safe(t) == IF t < 4 THEN 4 + t ELSE 8
LEMMA ConfidenceIs ==
    ASSUME NEW g \in Nat, NEW t \in Nat
    PROVE  /\ Sure(g) \in 0 .. 40 /\ Is(QuestionConfidence(g), Sure(g), 40)
           /\ Safe(t) \in 0 .. 8 /\ Is(AnswerConfidence(t), Safe(t), 8)
<1>1. Is(One, 40, 40) /\ Is(One, 8, 8)
  BY Constants
<1>2. Is(Frac(20 + g, 40), 20 + g, 40) /\ Is(Frac(4 + t, 8), 4 + t, 8)
  BY FracIs
<1> QED
  BY <1>1, <1>2 DEF Sure, Safe, QuestionConfidence, AnswerConfidence

(* The weights are parts of one whole.                                     *)
PartsAre(w, x, y, z, n) ==
    /\ Is(w.question, x, n) /\ Is(w.answer, y, n) /\ Is(w.passage, z, n)
    /\ n \in Nat /\ n # 0 /\ x + y + z = n

(* The three cases of Weights: answer and passage,                         *)
LEMMA ThreeParts ==
    ASSUME NEW s, s.grams \in Nat, s.answerTokens \in Nat, s.hasAnswer, s.hasPassage
    PROVE  \E x, y, z, n \in Nat :
              PartsAre(Weights(s), x, y, z, n) /\ (s.grams >= 20 => 10 * x >= 7 * n)
<1> DEFINE u == Sure(s.grams)
           v == Safe(s.answerTokens)
           sure == QuestionConfidence(s.grams)
           c == AnswerConfidence(s.answerTokens)
           lost == Times(<<7, 10>>, Minus(One, sure))
           a == Plus(<<1, 5>>, Times(<<1, 2>>, lost))
           p == Plus(<<1, 10>>, Times(<<1, 2>>, lost))
<1>1. /\ u \in 0 .. 40 /\ Is(sure, u, 40) /\ v \in 0 .. 8 /\ Is(c, v, 8)
      /\ s.grams >= 20 => u = 40
  BY ConfidenceIs DEF Sure
<1> HIDE DEF u, v, sure, c
<1>2. Is(Minus(One, sure), 40 - u, 40) /\ Is(Minus(One, c), 8 - v, 8)
  <2>1. Is(One, 40, 40) /\ Is(One, 8, 8)
    BY Constants
  <2>2. Is(Minus(One, sure), 40 - u, 40)
    BY <1>1, <2>1, MinusIs
  <2>3. Is(Minus(One, c), 8 - v, 8)
    BY <1>1, <2>1, MinusIs
  <2> QED
    BY <2>2, <2>3
<1>3. Is(lost, 7 * (40 - u), 400)
  <2>1. Is(<<7, 10>>, 7, 10)
    BY DEF Is, IsFrac
  <2>2. Is(lost, 7 * (40 - u), 10 * 40)
    BY <1>2, <2>1, TimesIs
  <2> QED
    BY <2>2
<1> HIDE DEF lost
<1>4. Is(Times(<<1, 2>>, lost), 7 * (40 - u), 800)
  <2>1. Is(Times(<<1, 2>>, lost), 1 * (7 * (40 - u)), 2 * 400)
    <3>1. Is(<<1, 2>>, 1, 2)
      BY DEF Is, IsFrac
    <3> QED
      BY <1>3, <3>1, TimesIs
  <2> QED
    BY <1>1, <2>1
<1>5. Is(<<1, 5>>, 160, 800) /\ Is(<<1, 10>>, 80, 800)
  BY DEF Is, IsFrac
<1>6. Is(a, 160 + 7 * (40 - u), 800) /\ Is(p, 80 + 7 * (40 - u), 800)
  BY <1>4, <1>5, PlusIs
<1> HIDE DEF a, p
<1>7. Is(Times(<<7, 10>>, sure), 112 * u, 6400)
  <2>1. Is(Times(<<7, 10>>, sure), 7 * u, 10 * 40)
    <3>1. Is(<<7, 10>>, 7, 10)
      BY DEF Is, IsFrac
    <3> QED
      BY <1>1, <3>1, TimesIs
  <2>2. Is(Times(<<7, 10>>, sure), (7 * u) * 16, (10 * 40) * 16)
    BY <2>1, Scaling
  <2> QED
    BY <1>1, <2>2
<1>8. Is(Times(a, c), (160 + 7 * (40 - u)) * v, 6400)
  <2>1. Is(Times(a, c), (160 + 7 * (40 - u)) * v, 800 * 8)
    <3>1. PICK k, h, j : k = 160 + 7 * (40 - u) /\ h = 800 /\ j = 8
      OBVIOUS
    <3>2. Is(a, k, h) /\ Is(c, v, j)
      BY <1>1, <1>6, <3>1
    <3>3. Is(Times(a, c), k * v, h * j)
      BY <3>2, TimesIs
    <3> QED
      BY <3>1, <3>3
  <2> QED
    BY <2>1
<1>9. Is(Plus(p, Times(a, Minus(One, c))),
         (80 + 7 * (40 - u)) * 8 + (160 + 7 * (40 - u)) * (8 - v), 6400)
  <2>1. Is(Times(a, Minus(One, c)), (160 + 7 * (40 - u)) * (8 - v), 800 * 8)
    BY <1>2, <1>6, TimesIs
  <2>2. Is(p, (80 + 7 * (40 - u)) * 8, 800 * 8)
    BY <1>6, Scaling
  <2>3. 800 * 8 = 6400
    OBVIOUS
  <2> QED
    BY <2>1, <2>2, <2>3, PlusIs
<1>10. Weights(s) = [question |-> Times(<<7, 10>>, sure), answer |-> Times(a, c),
                     passage |-> Plus(p, Times(a, Minus(One, c)))]
  BY DEF Weights, sure, c, a, p, lost
<1> DEFINE x == 112 * u
           y == (160 + 7 * (40 - u)) * v
           z == (80 + 7 * (40 - u)) * 8 + (160 + 7 * (40 - u)) * (8 - v)
<1>11. x \in Nat /\ y \in Nat /\ z \in Nat /\ x + y + z = 6400
  <2>1. PICK k : k = 7 * (40 - u)
    OBVIOUS
  <2>2. k \in Nat /\ k = 280 - 7 * u
    BY <1>1, <2>1
  <2>3. (160 + k) * v \in Nat /\ (80 + k) * 8 + (160 + k) * (8 - v) \in Nat
    BY <1>1, <2>2
  <2>4. (160 + k) * v + (160 + k) * (8 - v) = (160 + k) * 8
    BY <1>1, <2>2
  <2>5. (160 + k) * v \in Nat /\ (160 + k) * (8 - v) \in Nat
    BY <1>1, <2>2
  <2>6. 112 * u + (160 + k) * v + ((80 + k) * 8 + (160 + k) * (8 - v)) = 6400
    BY <1>1, <2>2, <2>4, <2>5
  <2> QED
    BY <1>1, <2>1, <2>3, <2>6
<1>12. s.grams >= 20 => 10 * x >= 7 * 6400
  BY <1>1
<1>13. PartsAre(Weights(s), x, y, z, 6400)
  BY <1>7, <1>8, <1>9, <1>10, <1>11 DEF PartsAre
<1> QED
  BY <1>11, <1>12, <1>13

(* answer or passage,                                                      *)
LEMMA TwoParts ==
    ASSUME NEW s, s.grams \in Nat, s.hasAnswer \in BOOLEAN, s.hasPassage = ~s.hasAnswer
    PROVE  \E x, y, z, n \in Nat :
              /\ PartsAre(Weights(s), x, y, z, n)
              /\ s.grams >= (IF s.hasAnswer THEN 18 ELSE 13) => 10 * x >= 7 * n
<1> DEFINE u == Sure(s.grams)
           sure == QuestionConfidence(s.grams)
           lost(w) == Times(w, Minus(One, sure))
<1>1. /\ u \in 0 .. 40 /\ Is(sure, u, 40)
      /\ s.grams >= 13 => u >= 33
      /\ s.grams >= 18 => u >= 38
  <2>1. u \in 0 .. 40 /\ Is(sure, u, 40)
    BY ConfidenceIs
  <2> QED
    BY <2>1 DEF Sure
<1> HIDE DEF u, sure
<1>2. Is(Minus(One, sure), 40 - u, 40)
  <2>1. Is(One, 40, 40)
    BY Constants
  <2> QED
    BY <1>1, <2>1, MinusIs
<1>3. CASE s.hasAnswer
  <2>1. Is(Times(<<3, 4>>, sure), 3 * u, 160)
    <3>1. Is(Times(<<3, 4>>, sure), 3 * u, 4 * 40)
      <4>1. Is(<<3, 4>>, 3, 4)
        BY DEF Is, IsFrac
      <4> QED
        BY <1>1, <4>1, TimesIs
    <3> QED
      BY <3>1
  <2>2. Is(Plus(<<1, 4>>, lost(<<3, 4>>)), 40 + 3 * (40 - u), 160)
    <3>1. Is(lost(<<3, 4>>), 3 * (40 - u), 4 * 40)
      <4>1. Is(<<3, 4>>, 3, 4)
        BY DEF Is, IsFrac
      <4> QED
        BY <1>2, <4>1, TimesIs
    <3>2. Is(<<1, 4>>, 40, 160) /\ 4 * 40 = 160
      BY DEF Is, IsFrac
    <3> HIDE DEF lost
    <3> QED
      BY <3>1, <3>2, PlusIs
  <2>3. Is(Zero, 0, 160)
    BY Constants
  <2>4. Weights(s) = [question |-> Times(<<3, 4>>, sure), answer |-> Plus(<<1, 4>>, lost(<<3, 4>>)),
                      passage |-> Zero]
    BY <1>3 DEF Weights, sure
  <2>5. 3 * u \in Nat /\ 40 + 3 * (40 - u) \in Nat /\ 3 * u + (40 + 3 * (40 - u)) + 0 = 160
    BY <1>1
  <2>6. PartsAre(Weights(s), 3 * u, 40 + 3 * (40 - u), 0, 160)
    BY <2>1, <2>2, <2>3, <2>4, <2>5 DEF PartsAre
  <2>7. s.grams >= 18 => 10 * (3 * u) >= 7 * 160
    BY <1>1
  <2> QED
    BY <1>3, <2>5, <2>6, <2>7
<1>4. CASE ~s.hasAnswer
  <2>1. Is(Times(<<17, 20>>, sure), 17 * u, 800)
    <3>1. Is(Times(<<17, 20>>, sure), 17 * u, 20 * 40)
      <4>1. Is(<<17, 20>>, 17, 20)
        BY DEF Is, IsFrac
      <4> QED
        BY <1>1, <4>1, TimesIs
    <3> QED
      BY <3>1
  <2>2. Is(Plus(<<3, 20>>, lost(<<17, 20>>)), 120 + 17 * (40 - u), 800)
    <3>1. Is(lost(<<17, 20>>), 17 * (40 - u), 20 * 40)
      <4>1. Is(<<17, 20>>, 17, 20)
        BY DEF Is, IsFrac
      <4> QED
        BY <1>2, <4>1, TimesIs
    <3>2. Is(<<3, 20>>, 120, 800) /\ 20 * 40 = 800
      BY DEF Is, IsFrac
    <3> HIDE DEF lost
    <3> QED
      BY <3>1, <3>2, PlusIs
  <2>3. Is(Zero, 0, 800)
    BY Constants
  <2>4. Weights(s) = [question |-> Times(<<17, 20>>, sure), answer |-> Zero,
                      passage |-> Plus(<<3, 20>>, lost(<<17, 20>>))]
    BY <1>4 DEF Weights, sure
  <2>5. 17 * u \in Nat /\ 120 + 17 * (40 - u) \in Nat /\ 17 * u + 0 + (120 + 17 * (40 - u)) = 800
    BY <1>1
  <2>6. PartsAre(Weights(s), 17 * u, 0, 120 + 17 * (40 - u), 800)
    BY <2>1, <2>2, <2>3, <2>4, <2>5 DEF PartsAre
  <2>7. s.grams >= 13 => 10 * (17 * u) >= 7 * 800
    BY <1>1
  <2> QED
    BY <1>4, <2>5, <2>6, <2>7
<1> QED
  BY <1>3, <1>4

(* The n-grams from which on a question keeps a weight of 0.7.             *)
Enough(s) ==
    s.grams >= (CASE s.hasAnswer /\ s.hasPassage -> 20
                  [] s.hasAnswer /\ ~s.hasPassage -> 18
                  [] ~s.hasAnswer /\ s.hasPassage -> 13
                  [] OTHER -> 0)

(* What the code can ask a score for.                                      *)
Scorable(s) ==
    /\ s.grams \in Nat /\ s.answerTokens \in Nat /\ s.questionLength \in Nat /\ s.passageLength \in Nat
    /\ s.hasAnswer \in BOOLEAN /\ s.hasPassage \in BOOLEAN
    /\ \A x \in {s.question, s.answer, s.passage} : IsFrac(x) /\ AtMost(x, One)

(* or the question alone.                                                  *)
LEMMA WeightsAre ==
    ASSUME NEW s, Scorable(s)
    PROVE  \E x, y, z, n \in Nat :
              PartsAre(Weights(s), x, y, z, n) /\ (Enough(s) => 10 * x >= 7 * n)
<1>1. CASE s.hasAnswer /\ s.hasPassage
  BY <1>1, ThreeParts DEF Scorable, Enough
<1>2. CASE s.hasPassage = ~s.hasAnswer
  <2>1. Enough(s) => s.grams >= (IF s.hasAnswer THEN 18 ELSE 13)
    BY <1>2 DEF Enough, Scorable
  <2>2. s.grams \in Nat /\ s.hasAnswer \in BOOLEAN
    BY DEF Scorable
  <2> QED
    BY <1>2, <2>1, <2>2, TwoParts
<1>3. CASE ~s.hasAnswer /\ ~s.hasPassage
  <2>1. Weights(s) = [question |-> One, answer |-> Zero, passage |-> Zero]
    BY <1>3 DEF Weights
  <2>2. Is(One, 1, 1) /\ Is(Zero, 0, 1)
    BY Constants
  <2>3. PartsAre(Weights(s), 1, 0, 0, 1)
    BY <2>1, <2>2 DEF PartsAre
  <2> QED
    BY <2>3
<1> QED
  BY <1>1, <1>2, <1>3 DEF Scorable

-----------------------------------------------------------------------------
(* Scores. *)

(* Three fractions have a common denominator.                              *)
LEMMA ThreeUnits ==
    ASSUME NEW x, NEW y, NEW z, IsFrac(x), IsFrac(y), IsFrac(z)
    PROVE  \E n, m, k, d \in Nat : Is(x, n, d) /\ Is(y, m, d) /\ Is(z, k, d)
<1>1. PICK a, b, c : a = x[2] /\ b = y[2] /\ c = z[2]
  OBVIOUS
<1>2. PICK n, m, k : n = x[1] /\ m = y[1] /\ k = z[1]
  OBVIOUS
<1>3. /\ n \in Nat /\ m \in Nat /\ k \in Nat /\ a \in Nat /\ b \in Nat /\ c \in Nat
      /\ a # 0 /\ b # 0 /\ c # 0
  BY <1>1, <1>2 DEF IsFrac
<1>4. Is(x, n, a) /\ Is(y, m, b) /\ Is(z, k, c)
  BY <1>1, <1>2, Itself
<1>5. b * c \in Nat /\ b * c # 0 /\ a * c \in Nat /\ a * c # 0 /\ a * b \in Nat /\ a * b # 0
  BY <1>3
<1>6. Is(x, n * (b * c), a * (b * c))
  BY <1>4, <1>5, Scaling
<1>7. Is(y, m * (a * c), b * (a * c))
  BY <1>4, <1>5, Scaling
<1>8. Is(z, k * (a * b), c * (a * b))
  BY <1>4, <1>5, Scaling
<1>9. a * (b * c) = b * (a * c) /\ a * (b * c) = c * (a * b) /\ a * (b * c) \in Nat
  BY <1>3
<1>10. n * (b * c) \in Nat /\ m * (a * c) \in Nat /\ k * (a * b) \in Nat
  BY <1>3
<1> QED
  BY <1>6, <1>7, <1>8, <1>9, <1>10

Sum3(s) ==
    Plus(Times(Weights(s).question, s.question),
         Plus(Times(Weights(s).answer, s.answer), Times(Weights(s).passage, s.passage)))

(* A score is the mean of the three overlaps by their weights.             *)
LEMMA SumIs3 ==
    ASSUME NEW s, Scorable(s), NEW x \in Nat, NEW y \in Nat, NEW z \in Nat, NEW n \in Nat,
           PartsAre(Weights(s), x, y, z, n)
    PROVE  \E q, a, p, d \in Nat :
              /\ Is(s.question, q, d) /\ d # 0 /\ q <= d /\ a <= d /\ p <= d
              /\ n * d \in Nat /\ n * d # 0
              /\ Is(Sum3(s), x * q + (y * a + z * p), n * d)
<1>1. IsFrac(s.question) /\ IsFrac(s.answer) /\ IsFrac(s.passage)
  BY DEF Scorable
<1>2. PICK q \in Nat, a \in Nat, p \in Nat, d \in Nat :
         Is(s.question, q, d) /\ Is(s.answer, a, d) /\ Is(s.passage, p, d)
  BY <1>1, ThreeUnits
<1>3. d # 0
  BY <1>2 DEF Is
<1>4. Is(One, d, d)
  BY <1>3, Constants
<1>5. AtMost(s.question, One) /\ AtMost(s.answer, One) /\ AtMost(s.passage, One)
  BY DEF Scorable
<1>6. q <= d /\ a <= d /\ p <= d
  <2>1. q <= d
    BY <1>2, <1>4, <1>5, AtMostIs
  <2>2. a <= d
    BY <1>2, <1>4, <1>5, AtMostIs
  <2>3. p <= d
    BY <1>2, <1>4, <1>5, AtMostIs
  <2> QED
    BY <2>1, <2>2, <2>3
<1>7. Is(Weights(s).question, x, n) /\ Is(Weights(s).answer, y, n) /\ Is(Weights(s).passage, z, n) /\ n # 0
  BY DEF PartsAre
<1>8. Is(Times(Weights(s).question, s.question), x * q, n * d)
  BY <1>2, <1>7, TimesIs
<1>9. Is(Times(Weights(s).answer, s.answer), y * a, n * d)
  BY <1>2, <1>7, TimesIs
<1>10. Is(Times(Weights(s).passage, s.passage), z * p, n * d)
  BY <1>2, <1>7, TimesIs
<1>11. Is(Plus(Times(Weights(s).answer, s.answer), Times(Weights(s).passage, s.passage)), y * a + z * p, n * d)
  BY <1>9, <1>10, PlusIs
<1>12. Is(Sum3(s), x * q + (y * a + z * p), n * d)
  BY <1>8, <1>11, PlusIs DEF Sum3
<1>13. n * d \in Nat /\ n * d # 0
  BY <1>3, <1>7
<1> QED
  BY <1>2, <1>3, <1>6, <1>12, <1>13

(* It is at most 1.                                                        *)
LEMMA BaseIs ==
    ASSUME NEW s, Scorable(s)
    PROVE  /\ IsFrac(Base(s)) /\ AtMost(Base(s), One)
           /\ AtMost(Sum3(s), One) => Base(s) = Sum3(s)
           /\ IsFrac(Sum3(s))
<1>1. IsFrac(Sum3(s))
  <2>1. PICK x \in Nat, y \in Nat, z \in Nat, n \in Nat : PartsAre(Weights(s), x, y, z, n)
    BY WeightsAre
  <2> QED
    BY <2>1, SumIs3 DEF Is
<1>2. Base(s) = IF AtMost(Sum3(s), One) THEN Sum3(s) ELSE One
  BY DEF Base, Sum3
<1>3. IsFrac(One) /\ AtMost(One, One)
  BY DEF One, IsFrac, AtMost
<1> QED
  BY <1>1, <1>2, <1>3

(* A question of weight 0.7 or more that has less than (v / e - 0.3) / 0.7 *)
(* keeps the score under v / e, whatever answer and passage have.          *)
LEMMA LowQuestion ==
    ASSUME NEW s, Scorable(s), Enough(s), NEW R, NEW v, NEW e, Is(R, v, e), v <= e,
           \A q, d \in Nat : Is(s.question, q, d) => e * (7 * q + 3 * d) < 10 * (d * v)
    PROVE  ~AtMost(R, Base(s))
<1>1. PICK x \in Nat, y \in Nat, z \in Nat, n \in Nat :
         PartsAre(Weights(s), x, y, z, n) /\ 10 * x >= 7 * n
  BY WeightsAre
<1>2. PICK q \in Nat, a \in Nat, p \in Nat, d \in Nat :
         /\ Is(s.question, q, d) /\ d # 0 /\ q <= d /\ a <= d /\ p <= d
         /\ n * d \in Nat /\ n * d # 0
         /\ Is(Sum3(s), x * q + (y * a + z * p), n * d)
  BY <1>1, SumIs3
<1>3. e * (7 * q + 3 * d) < 10 * (d * v)
  BY <1>2
<1>4. n # 0 /\ x + y + z = n /\ v \in Nat /\ e \in Nat /\ e # 0
  BY <1>1 DEF PartsAre, Is
<1> DEFINE N == x * q + (y * a + z * p)
<1>5. N \in Nat /\ 10 * N <= n * (7 * q + 3 * d)
  <2>1. y * a <= y * d /\ z * p <= z * d /\ y * a \in Nat /\ z * p \in Nat /\ x * q \in Nat
    BY <1>2
  <2>2. y * d + z * d = (n - x) * d
    <3>1. y + z = n - x
      BY <1>4
    <3>2. y * d + z * d = (y + z) * d
      OBVIOUS
    <3> QED
      BY <3>1, <3>2
  <2>3. (n - x) * d = n * d - x * d /\ x * d \in Nat /\ n * d \in Nat /\ n * q \in Nat
    BY <1>4
  <2>4. 10 * (x * d - x * q) >= 7 * (n * d - n * q)
    <3>1. PICK c : c = d - q
      OBVIOUS
    <3>2. c \in Nat
      BY <1>2, <3>1
    <3>3. (10 * x) * c >= (7 * n) * c
      BY <1>1, <1>4, <3>2
    <3>4. x * c = x * d - x * q /\ n * c = n * d - n * q
      BY <3>1
    <3>5. (10 * x) * c = 10 * (x * c) /\ (7 * n) * c = 7 * (n * c)
      BY <3>2
    <3> QED
      BY <3>3, <3>4, <3>5
  <2>5. n * (7 * q + 3 * d) = 7 * (n * q) + 3 * (n * d)
    OBVIOUS
  <2>6. y * d \in Nat /\ z * d \in Nat
    OBVIOUS
  <2> QED
    BY <2>1, <2>2, <2>3, <2>4, <2>5, <2>6
<1> HIDE DEF N
<1>6. N * e < v * (n * d)
  <2>1. (10 * N) * e <= (n * (7 * q + 3 * d)) * e
    <3>1. PICK b : b = n * (7 * q + 3 * d)
      OBVIOUS
    <3>2. b \in Nat
      BY <3>1
    <3> QED
      BY <1>4, <1>5, <3>1, <3>2
  <2>2. (n * (7 * q + 3 * d)) * e = n * (e * (7 * q + 3 * d))
    BY <1>4
  <2>3. n * (e * (7 * q + 3 * d)) < n * (10 * (d * v))
    <3>1. PICK b, c : b = e * (7 * q + 3 * d) /\ c = 10 * (d * v)
      OBVIOUS
    <3>2. b \in Nat /\ c \in Nat /\ b < c
      BY <1>3, <1>4, <3>1
    <3>3. n * b < n * c
      BY <1>4, <3>2
    <3> QED
      BY <3>1, <3>3
  <2>4. n * (10 * (d * v)) = 10 * (v * (n * d)) /\ (10 * N) * e = 10 * (N * e)
    BY <1>4, <1>5
  <2>5. N * e \in Nat /\ v * (n * d) \in Nat
    BY <1>4, <1>5
  <2>6. PICK b, c : b = N * e /\ c = v * (n * d)
    OBVIOUS
  <2>7. 10 * b <= n * (e * (7 * q + 3 * d)) /\ n * (e * (7 * q + 3 * d)) < 10 * c
    BY <2>1, <2>2, <2>3, <2>4, <2>6
  <2>8. n * (e * (7 * q + 3 * d)) \in Nat /\ b \in Nat /\ c \in Nat
    BY <1>4, <2>5, <2>6
  <2> QED
    BY <2>6, <2>7, <2>8
<1>7. Is(Sum3(s), N * e, (n * d) * e) /\ Is(R, v * (n * d), e * (n * d)) /\ e * (n * d) = (n * d) * e
  <2>1. Is(Sum3(s), N * e, (n * d) * e)
    BY <1>2, <1>4, Scaling DEF N
  <2>2. Is(R, v * (n * d), e * (n * d))
    BY <1>2, Scaling
  <2>3. e * (n * d) = (n * d) * e
    BY <1>4
  <2> QED
    BY <2>1, <2>2, <2>3
<1>8. ~AtMost(R, Sum3(s))
  <2>1. AtMost(R, Sum3(s)) <=> v * (n * d) <= N * e
    BY <1>7, AtMostIs
  <2>2. N * e \in Nat /\ v * (n * d) \in Nat
    BY <1>4, <1>5
  <2> QED
    BY <1>6, <2>1, <2>2
<1>9. AtMost(Sum3(s), One)
  <2>1. Is(One, (n * d) * e, (n * d) * e)
    <3>1. (n * d) * e \in Nat /\ (n * d) * e # 0
      BY <1>2, <1>4
    <3> QED
      BY <3>1, Constants
  <2>2. v * (n * d) <= (n * d) * e
    BY <1>2, <1>4
  <2>3. N * e <= (n * d) * e
    <3>1. N * e \in Nat /\ v * (n * d) \in Nat /\ (n * d) * e \in Nat
      BY <1>4, <1>5
    <3> QED
      BY <1>6, <2>2, <3>1
  <2> QED
    BY <1>7, <2>1, <2>3, AtMostIs
<1> QED
  BY <1>8, <1>9, BaseIs

-----------------------------------------------------------------------------
(* Thresholds. *)

(* What the configuration can ask for.                                     *)
Askable(c) == IsFrac(c.threshold) /\ AtMost(c.threshold, One) /\ Option(c.start) /\ Option(c.end)

(* A threshold is t / d, at most 1.                                        *)
LEMMA ThresholdIs ==
    ASSUME NEW T, IsFrac(T), AtMost(T, One)
    PROVE  \E t, d \in Nat : d # 0 /\ Is(T, t, d) /\ t <= d
<1>1. PICK t, d : t = T[1] /\ d = T[2]
  OBVIOUS
<1>2. Is(T, t, d) /\ t \in Nat /\ d \in Nat /\ d # 0
  BY <1>1, Itself DEF IsFrac
<1>3. Is(One, d, d)
  BY <1>2, Constants
<1>4. t <= d
  BY <1>2, <1>3, AtMostIs
<1> QED
  BY <1>2, <1>4

(* AtMost is transitive.                                                   *)
LEMMA AtMostTransitive ==
    ASSUME NEW x, NEW y, NEW z, IsFrac(x), IsFrac(y), IsFrac(z), AtMost(x, y), AtMost(y, z)
    PROVE  AtMost(x, z)
<1>1. PICK n \in Nat, m \in Nat, k \in Nat, d \in Nat : Is(x, n, d) /\ Is(y, m, d) /\ Is(z, k, d)
  BY ThreeUnits
<1>2. n <= m
  BY <1>1, AtMostIs
<1>3. m <= k
  BY <1>1, AtMostIs
<1>4. n <= k
  BY <1>2, <1>3
<1> QED
  BY <1>1, <1>4, AtMostIs

(* What is required lies between the threshold and 1.                      *)
LEMMA RequiredIs ==
    ASSUME NEW s, Scorable(s), NEW c, Askable(c)
    PROVE  LET R == Required(s, c)
           IN  IsFrac(R) /\ AtMost(R, One) /\ AtMost(c.threshold, R)
<1> DEFINE l == s.questionLength + (IF s.hasAnswer THEN s.answerTokens ELSE 0)
                  + (IF s.hasPassage THEN s.passageLength ELSE 0)
           R == Interpolate(l, c.start, c.end, c.threshold)
<1>1. l \in Nat
  BY DEF Scorable
<1>2. Required(s, c) = R
  BY DEF Required
<1> HIDE DEF l
<1>3. PICK t \in Nat, d \in Nat : d # 0 /\ Is(c.threshold, t, d) /\ t <= d
  BY ThresholdIs DEF Askable
<1>4. PICK h \in Nat, j \in Nat :
         /\ j # 0 /\ h <= j
         /\ \A target, x, y : Is(target, x, y) /\ x <= y =>
               /\ y * j - (y - x) * h \in Nat /\ y * j # 0
               /\ Is(Interpolate(l, c.start, c.end, target), y * j - (y - x) * h, y * j)
  BY <1>1, InterpolateIs DEF Askable
<1> HIDE DEF R
<1>5. /\ d * j - (d - t) * h \in Nat /\ d * j # 0
      /\ Is(R, d * j - (d - t) * h, d * j)
  BY <1>3, <1>4 DEF R
<1>6. t * j <= d * j - (d - t) * h /\ d * j - (d - t) * h <= d * j
  <2>1. PICK k : k = d - t
    OBVIOUS
  <2>2. k \in Nat /\ k * h \in Nat /\ k * h <= k * j
    BY <1>3, <1>4, <2>1
  <2>3. k * j = d * j - t * j /\ d * j \in Nat /\ t * j \in Nat
    BY <2>1
  <2> QED
    BY <2>1, <2>2, <2>3
<1>7. IsFrac(R)
  BY <1>5 DEF Is
<1>8. AtMost(R, One)
  <2>1. Is(One, d * j, d * j)
    BY <1>5, Constants
  <2> QED
    BY <1>5, <1>6, <2>1, AtMostIs
<1>9. AtMost(c.threshold, R)
  <2>1. Is(c.threshold, t * j, d * j)
    BY <1>3, <1>4, Scaling
  <2> QED
    BY <1>5, <1>6, <2>1, AtMostIs
<1> QED
  BY <1>2, <1>7, <1>8, <1>9

(* Scaling and comparing with the threshold comes to comparing with what   *)
(* is required.                                                            *)
LEMMA ScaledReaches ==
    ASSUME NEW B, NEW R, NEW T, IsFrac(B), IsFrac(R), IsFrac(T),
           AtMost(R, One), AtMost(T, R), Less(Zero, T)
    PROVE  AtMost(T, Scaled(B, R, T)) <=> AtMost(R, B)
<1>1. PICK b \in Nat, r \in Nat, t \in Nat, d \in Nat : Is(B, b, d) /\ Is(R, r, d) /\ Is(T, t, d)
  BY ThreeUnits
<1>2. d # 0 /\ Is(Zero, 0, d) /\ Is(One, d, d)
  BY <1>1, Constants DEF Is
<1>3. r <= d
  BY <1>1, <1>2, AtMostIs
<1>4. t <= r
  BY <1>1, AtMostIs
<1>5. t # 0
  <2>1. AtMost(T, Zero) <=> t <= 0
    BY <1>1, <1>2, AtMostIs
  <2> QED
    BY <2>1 DEF Less
<1>6. AtMost(R, B) <=> r <= b
  BY <1>1, AtMostIs
<1>7. AtMost(R, T) <=> r <= t
  BY <1>1, AtMostIs
<1>8. AtMost(T, B) <=> t <= b
  BY <1>1, AtMostIs
<1>9. CASE AtMost(R, T)
  <2>1. r = t
    BY <1>4, <1>7, <1>9
  <2> QED
    BY <1>6, <1>8, <1>9, <2>1 DEF Scaled
<1>10. CASE ~AtMost(R, T) /\ B = One
  <2>1. AtMost(T, One)
    <3>1. t <= d
      BY <1>3, <1>4
    <3> QED
      BY <1>1, <1>2, <3>1, AtMostIs
  <2> QED
    BY <1>10, <2>1 DEF Scaled
<1>11. CASE ~AtMost(R, T) /\ B # One
  <2>1. Scaled(B, R, T) = Times(B, Over(T, R)) /\ r # 0
    BY <1>4, <1>5, <1>11 DEF Scaled
  <2>2. Is(Over(T, R), t * d, d * r)
    BY <1>1, <2>1, OverIs
  <2>3. Is(Times(B, Over(T, R)), b * (t * d), d * (d * r))
    BY <1>1, <2>2, TimesIs
  <2>4. Is(T, t * (d * r), d * (d * r))
    <3>1. d * r \in Nat /\ d * r # 0
      BY <1>2, <2>1
    <3> QED
      BY <1>1, <3>1, Scaling
  <2>5. AtMost(T, Times(B, Over(T, R))) <=> t * (d * r) <= b * (t * d)
    BY <2>3, <2>4, AtMostIs
  <2>6. t * (d * r) <= b * (t * d) <=> r <= b
    <3>1. PICK k : k = t * d
      OBVIOUS
    <3>2. k \in Nat /\ k # 0
      BY <1>2, <1>5, <3>1
    <3>3. t * (d * r) = k * r /\ b * (t * d) = k * b
      BY <3>1
    <3>4. k * r <= k * b <=> r <= b
      BY <3>2
    <3> QED
      BY <3>3, <3>4
  <2> QED
    BY <1>6, <2>1, <2>5, <2>6
<1> QED
  BY <1>9, <1>10, <1>11

LEMMA CombinedReaches ==
    ASSUME NEW s, Scorable(s), NEW c, Askable(c), Less(Zero, c.threshold)
    PROVE  AtMost(c.threshold, Combined(s, c)) <=> AtMost(Required(s, c), Base(s))
<1>1. PICK R, B, T : R = Required(s, c) /\ B = Base(s) /\ T = c.threshold
  OBVIOUS
<1>2. IsFrac(R) /\ AtMost(R, One) /\ AtMost(T, R)
  BY <1>1, RequiredIs
<1>3. IsFrac(B) /\ IsFrac(T) /\ Less(Zero, T)
  BY <1>1, BaseIs DEF Askable
<1>4. AtMost(T, Scaled(B, R, T)) <=> AtMost(R, B)
  BY <1>2, <1>3, ScaledReaches
<1> QED
  BY <1>1, <1>4 DEF Combined

(* The minimum of a threshold from 0.3 on.                                 *)
LEMMA MinimumIs ==
    ASSUME NEW T, NEW t \in Nat, NEW d \in Nat, d # 0, Is(T, t, d), t <= d, AtMost(<<3, 10>>, T)
    PROVE  /\ 3 * d <= 10 * t /\ t # 0 /\ Less(Zero, T)
           /\ Is(MinimumQuestion(T), 10 * t - 3 * d, 7 * d)
<1>1. Is(<<3, 10>>, 3, 10) /\ Is(<<7, 10>>, 7, 10)
  BY DEF Is, IsFrac
<1>2. Is(<<3, 10>>, 3 * d, 10 * d) /\ Is(T, 10 * t, 10 * d)
  BY <1>1, Scaling
<1>3. 3 * d <= 10 * t
  BY <1>2, AtMostIs
<1>4. t # 0
  BY <1>3
<1>5. Less(Zero, T)
  <2>1. Is(Zero, 0, d)
    BY Constants
  <2>2. AtMost(T, Zero) <=> t <= 0
    BY <2>1, AtMostIs
  <2> QED
    BY <1>4, <2>2 DEF Less
<1>6. Is(MinimumQuestion(T), 10 * t - 3 * d, 7 * d)
  <2>1. AtMost(T, <<3, 10>>) <=> 10 * t <= 3 * d
    BY <1>2, AtMostIs
  <2>2. CASE AtMost(T, <<3, 10>>)
    <3>1. 10 * t - 3 * d = 0 /\ 7 * d \in Nat /\ 7 * d # 0
      BY <1>3, <2>1, <2>2
    <3>2. Is(Zero, 0, 7 * d)
      BY <3>1, Constants
    <3> QED
      BY <2>2, <3>1, <3>2 DEF MinimumQuestion
  <2>3. CASE ~AtMost(T, <<3, 10>>)
    <3>1. PICK n, m : n = 10 * t - 3 * d /\ m = 10 * d
      OBVIOUS
    <3>2. n \in Nat /\ m \in Nat /\ m # 0
      BY <1>3, <3>1
    <3>3. Is(Minus(T, <<3, 10>>), n, m)
      BY <1>2, <1>3, <3>1, MinusIs
    <3>4. Is(Over(Minus(T, <<3, 10>>), <<7, 10>>), n * 10, m * 7)
      BY <1>1, <3>3, OverIs
    <3>5. 7 * d \in Nat /\ 7 * d # 0 /\ (n * 10) * (7 * d) = n * (m * 7)
      BY <3>1, <3>2
    <3>6. Is(Over(Minus(T, <<3, 10>>), <<7, 10>>), n, 7 * d)
      BY <3>2, <3>4, <3>5, SameFrac
    <3> QED
      BY <2>3, <3>1, <3>6 DEF MinimumQuestion
  <2> QED
    BY <2>2, <2>3
<1> QED
  BY <1>3, <1>4, <1>5, <1>6

(* A question under the minimum fails with any answer and passage.         *)
LEMMA MinimumFails ==
    ASSUME NEW s, Scorable(s), Enough(s), NEW c, Askable(c),
           Less(s.question, MinimumQuestion(c.threshold))
    PROVE  ~AtMost(c.threshold, Combined(s, c))
<1> DEFINE T == c.threshold
<1>1. PICK t \in Nat, d \in Nat : d # 0 /\ Is(T, t, d) /\ t <= d
  BY ThresholdIs DEF Askable
<1>2. IsFrac(s.question)
  BY DEF Scorable
<1>3. ~AtMost(T, <<3, 10>>) /\ AtMost(<<3, 10>>, T)
  <2>1. AtMost(Zero, s.question)
    BY <1>2 DEF AtMost, Zero, IsFrac
  <2>2. ~AtMost(T, <<3, 10>>)
    BY <2>1 DEF MinimumQuestion, Less
  <2>3. T[1] \in Nat /\ T[2] \in Nat
    BY DEF Askable, IsFrac
  <2> QED
    BY <2>2, <2>3 DEF AtMost
<1> HIDE DEF T
<1>4. /\ 3 * d <= 10 * t /\ Less(Zero, T)
      /\ Is(MinimumQuestion(T), 10 * t - 3 * d, 7 * d)
  BY <1>1, <1>3, MinimumIs
<1>5. ASSUME NEW q \in Nat, NEW D \in Nat, Is(s.question, q, D)
      PROVE  d * (7 * q + 3 * D) < 10 * (D * t)
  <2>1. D # 0
    BY <1>5 DEF Is
  <2>2. PICK n, m : n = 10 * t - 3 * d /\ m = 7 * d
    OBVIOUS
  <2>3. n \in Nat /\ m \in Nat /\ m # 0 /\ Is(MinimumQuestion(T), n, m)
    BY <1>1, <1>4, <2>2
  <2>4. Is(s.question, q * m, D * m) /\ Is(MinimumQuestion(T), D * n, D * m)
    BY <1>5, <2>1, <2>3, Scaling
  <2>5. ~(D * n <= q * m)
    <3>1. AtMost(MinimumQuestion(T), s.question) <=> D * n <= q * m
      BY <2>4, AtMostIs
    <3> QED
      BY <3>1 DEF Less, T
  <2>6. D * n = 10 * (D * t) - 3 * (D * d) /\ q * m = 7 * (q * d)
    BY <2>2
  <2>7. d * (7 * q + 3 * D) = 7 * (q * d) + 3 * (D * d)
    OBVIOUS
  <2>8. PICK a, b, g : a = D * t /\ b = D * d /\ g = q * d
    OBVIOUS
  <2>9. a \in Nat /\ b \in Nat /\ g \in Nat
    BY <2>8
  <2>10. ~(10 * a - 3 * b <= 7 * g)
    BY <2>5, <2>6, <2>8
  <2> QED
    BY <2>7, <2>8, <2>9, <2>10
<1>6. ~AtMost(T, Base(s))
  BY <1>1, <1>5, LowQuestion
<1>7. AtMost(T, Required(s, c)) /\ IsFrac(Required(s, c)) /\ IsFrac(Base(s)) /\ IsFrac(T)
  BY RequiredIs, BaseIs DEF T, Askable
<1>8. ~AtMost(Required(s, c), Base(s))
  BY <1>6, <1>7, AtMostTransitive
<1> QED
  BY <1>4, <1>8, CombinedReaches DEF T

(* So does one under the minimum for its length, if the length requires    *)
(* nothing else of the whole.                                              *)
LEMMA LengthFails ==
    ASSUME NEW s, Scorable(s), Enough(s), NEW c, Askable(c), AtMost(<<3, 10>>, c.threshold),
           NEW l \in Nat, Required(s, c) = Interpolate(l, c.start, c.end, c.threshold),
           Less(s.question, Interpolate(l, c.start, c.end, MinimumQuestion(c.threshold)))
    PROVE  ~AtMost(c.threshold, Combined(s, c))
<1> DEFINE T == c.threshold
           Part(x) == Interpolate(l, c.start, c.end, x)
<1>1. PICK t \in Nat, d \in Nat : d # 0 /\ Is(T, t, d) /\ t <= d
  BY ThresholdIs DEF Askable
<1>2. PICK h \in Nat, j \in Nat :
         /\ j # 0 /\ h <= j
         /\ \A target, x, y : Is(target, x, y) /\ x <= y =>
               /\ y * j - (y - x) * h \in Nat /\ y * j # 0
               /\ Is(Part(target), y * j - (y - x) * h, y * j)
  BY InterpolateIs DEF Askable
<1>3. AtMost(<<3, 10>>, T) /\ Less(s.question, Part(MinimumQuestion(T))) /\ Required(s, c) = Part(T)
  OBVIOUS
<1> HIDE DEF T, Part
<1>4. /\ 3 * d <= 10 * t /\ Less(Zero, T)
      /\ Is(MinimumQuestion(T), 10 * t - 3 * d, 7 * d)
  BY <1>1, <1>3, MinimumIs
<1> DEFINE U == d * j
           K == (d - t) * h
           D7 == 7 * d
           N7 == 10 * t - 3 * d
<1>5. /\ U - K \in Nat /\ U # 0 /\ U \in Nat /\ K \in Int
      /\ Is(Part(T), U - K, U)
  <2>1. U - K \in Nat /\ U # 0 /\ Is(Part(T), U - K, U)
    BY <1>1, <1>2
  <2>2. U \in Nat /\ K \in Int
    BY <1>1, <1>2
  <2> QED
    BY <2>1, <2>2
<1>6. Is(Part(MinimumQuestion(T)), 7 * U - 10 * K, 7 * U) /\ 7 * U - 10 * K \in Nat
  <2>1. N7 <= D7 /\ Is(MinimumQuestion(T), N7, D7)
    BY <1>1, <1>4
  <2> HIDE DEF N7, D7
  <2>2. D7 * j - (D7 - N7) * h \in Nat /\ Is(Part(MinimumQuestion(T)), D7 * j - (D7 - N7) * h, D7 * j)
    BY <1>2, <2>1
  <2>3. D7 * j = 7 * U
    BY DEF D7
  <2>4. (D7 - N7) * h = 10 * K
    BY DEF D7, N7
  <2> QED
    BY <2>2, <2>3, <2>4
<1> HIDE DEF U, K, D7, N7
<1>7. ASSUME NEW q \in Nat, NEW D \in Nat, Is(s.question, q, D)
      PROVE  U * (7 * q + 3 * D) < 10 * (D * (U - K))
  <2>1. D # 0
    BY <1>7 DEF Is
  <2>2. PICK n, m : n = 7 * U - 10 * K /\ m = 7 * U
    OBVIOUS
  <2>3. n \in Nat /\ m \in Nat /\ m # 0 /\ Is(Part(MinimumQuestion(T)), n, m)
    BY <1>5, <1>6, <2>2
  <2>4. Is(s.question, q * m, D * m) /\ Is(Part(MinimumQuestion(T)), D * n, D * m)
    BY <1>7, <2>1, <2>3, Scaling
  <2>5. ~(D * n <= q * m)
    <3>1. AtMost(Part(MinimumQuestion(T)), s.question) <=> D * n <= q * m
      BY <2>4, AtMostIs
    <3> QED
      BY <1>3, <3>1 DEF Less
  <2>6. D * n = 7 * (D * U) - 10 * (D * K) /\ q * m = 7 * (q * U)
    BY <1>5, <2>2
  <2>7. U * (7 * q + 3 * D) = 7 * (q * U) + 3 * (D * U) /\ D * (U - K) = D * U - D * K
    BY <1>5
  <2>8. PICK a, b, g : a = D * U /\ b = D * K /\ g = q * U
    OBVIOUS
  <2>9. a \in Int /\ b \in Int /\ g \in Int
    BY <1>5, <2>8
  <2>10. ~(7 * a - 10 * b <= 7 * g)
    BY <2>5, <2>6, <2>8
  <2> QED
    BY <2>7, <2>8, <2>9, <2>10
<1>8. ~AtMost(Part(T), Base(s))
  <2>1. U - K <= U
    <3>1. K \in Nat
      <4>1. PICK k : k = d - t
        OBVIOUS
      <4>2. k \in Nat /\ k * h \in Nat
        BY <1>1, <1>2, <4>1
      <4> QED
        BY <4>1, <4>2 DEF K
    <3> QED
      BY <1>5, <3>1
  <2> QED
    BY <1>5, <1>7, <2>1, LowQuestion
<1> QED
  BY <1>3, <1>4, <1>8, CombinedReaches DEF T

-----------------------------------------------------------------------------
(* The states of process_simple_training_file. *)
OnMatch == step \in {"question", "answer", "score", "finalize"}

Cursor ==
    /\ input \in Inputs
    /\ step \in {"prepare", "pick", "question", "answer", "score", "finalize", "done"}
    /\ cluster \in 0 .. Len(input.clusters)
    /\ cluster = 0 => left = {}
    /\ cluster # 0 => left \subseteq DOMAIN input.clusters[cluster]
    /\ OnMatch => Pair(cluster, doc) /\ doc \notin left
    /\ step \in {"answer", "score", "finalize"} => passage = PassageOf(cluster, doc)
    /\ step \in {"score", "finalize"} => answer = AnswerOf(cluster, doc)
    /\ step = "prepare" => cluster = 0
    /\ step = "done" /\ cluster # 0 => cluster = Len(input.clusters) /\ left = {}

(* The report holds entries of matches of the clusters so far.             *)
AllEntries == {EntryOf(x[1], x[2]) : x \in {y \in Nat \X DOMAIN input.docs : Pair(y[1], y[2])}}
Entries ==
    /\ reported \in Seq(AllEntries)
    /\ \A j \in DOMAIN reported : reported[j].cluster <= cluster

(* keys are those of the report, which has no key twice.                   *)
ReportKey(j) == KeyOf(reported[j].cluster, reported[j].doc)
Keys ==
    /\ \A j \in DOMAIN reported : ReportKey(j) \in keys
    /\ \A key \in keys : \E j \in DOMAIN reported : ReportKey(j) = key
    /\ \A j, l \in DOMAIN reported : ReportKey(j) = ReportKey(l) => j = l

(* A match that is behind the cursor was left out for what it is, or its   *)
(* key has been reported from its cluster or one before it.                *)
Past(k, d) ==
    /\ Pair(k, d)
    /\ k < cluster \/ (k = cluster /\ d \notin left /\ ~(OnMatch /\ d = doc))
Settled(k, d) ==
    \/ \E y \in dropped : y[3] # "repeat" /\ y[1] = k /\ y[2] = d
    \/ \E j \in DOMAIN reported : ReportKey(j) = KeyOf(k, d) /\ reported[j].cluster <= k

LineInv ==
    /\ Cursor /\ Entries /\ Keys
    /\ \A k, d : Past(k, d) => Settled(k, d)

(* No match is behind the cursor before the line is read.                  *)
LEMMA LineInit == Init => LineInv
<1> SUFFICES ASSUME Init PROVE LineInv
  OBVIOUS
<1>1. /\ input \in Inputs /\ step = "prepare" /\ cluster = 0 /\ left = {}
      /\ reported = <<>> /\ keys = {}
  BY DEF Init
<1>2. Len(input.clusters) \in Nat
  BY <1>1, InputsAssumption DEF InputsFit
<1>3. Cursor
  BY <1>1, <1>2 DEF Cursor, OnMatch
<1>4. Entries /\ Keys
  BY <1>1 DEF Entries, Keys
<1>5. ASSUME NEW k, NEW d, Past(k, d) PROVE FALSE
  BY <1>1, <1>2, <1>5 DEF Past, Pair
<1> QED
  BY <1>3, <1>4, <1>5 DEF LineInv

(* What is said of a match depends on the input alone.                     *)
LEMMA SameInput ==
    ASSUME input' = input
    PROVE  /\ \A k, d : Pair(k, d)' <=> Pair(k, d)
           /\ \A k, d : KeyOf(k, d)' = KeyOf(k, d)
           /\ \A k, d : PassageOf(k, d)' = PassageOf(k, d)
           /\ \A k, d : AnswerOf(k, d)' = AnswerOf(k, d)
           /\ AllEntries' = AllEntries
<1>1. \A k, d : Pair(k, d)' <=> Pair(k, d)
  BY DEF Pair
<1>2. \A k, d : KeyOf(k, d)' = KeyOf(k, d)
  BY DEF KeyOf, Doc, QuestionStart, Match
<1>3. \A k, d : PassageOf(k, d)' = PassageOf(k, d)
  BY DEF PassageOf, QuestionStart, Doc, Match, HasPassage, PassageMatch, Gram,
         PassageGrams, PassageEnd, PassageBegin, PassageWindow, Looked, LookBack
<1>4. \A k, d : AnswerOf(k, d)' = AnswerOf(k, d)
  BY DEF AnswerOf, QuestionStart, QuestionEnd, ClusterLength, Doc, Match,
         HasAnswer, AnswerMatch, IsShort, ExactMatch, RangesMatch, ExactStarts,
         AnswerHits, AnswerStart, AnswerEnd, AnswerWindow, Excess, Length, Gram,
         AnswerGrams, Joined
<1>5. AllEntries' = AllEntries
  BY <1>1, <1>3, <1>4 DEF AllEntries, EntryOf, Pair, QuestionStart, EntryEnd, QuestionEnd,
         ClusterLength, Doc, Match
<1> QED
  BY <1>1, <1>2, <1>3, <1>4, <1>5

(* The report is a sequence of entries.                                    *)
LEMMA EntryClusters ==
    ASSUME LineInv
    PROVE  /\ Len(reported) \in Nat /\ DOMAIN reported = 1 .. Len(reported)
           /\ \A j \in DOMAIN reported : reported[j] \in AllEntries /\ reported[j].cluster \in Nat
<1>1. reported \in Seq(AllEntries)
  BY DEF LineInv, Entries
<1>2. ASSUME NEW e \in AllEntries PROVE e.cluster \in Nat
  BY DEF AllEntries, EntryOf
<1>3. /\ Len(reported) \in Nat /\ DOMAIN reported = 1 .. Len(reported)
      /\ \A j \in DOMAIN reported : reported[j] \in AllEntries
  BY <1>1
<1> QED
  BY <1>2, <1>3

(* The clusters are counted.                                               *)
LEMMA ClusterCount ==
    ASSUME Cursor
    PROVE  /\ Given /\ Len(input.clusters) \in Nat /\ cluster \in Nat
           /\ DOMAIN input.clusters = 1 .. Len(input.clusters)
BY InputsAssumption DEF InputsFit, Cursor, Given

(* A step that reports nothing, and settles the matches it puts behind the *)
(* cursor.                                                                 *)
LEMMA SilentStep ==
    ASSUME LineInv, input' = input, reported' = reported, keys' = keys, Cursor',
           cluster' \in Nat, cluster <= cluster', dropped \subseteq dropped',
           \A k, d : Past(k, d)' => Past(k, d) \/ Settled(k, d)'
    PROVE  LineInv'
<1>1. Cursor /\ cluster \in Nat
  BY ClusterCount DEF LineInv
<1>2. Entries'
  <2>1. AllEntries' = AllEntries
    BY SameInput
  <2>2. \A j \in DOMAIN reported : reported[j].cluster <= cluster'
    BY <1>1, EntryClusters DEF LineInv, Entries
  <2> QED
    BY <2>1, <2>2 DEF LineInv, Entries
<1>3. \A j : ReportKey(j)' = ReportKey(j)
  BY SameInput DEF ReportKey
<1>4. Keys'
  BY <1>3 DEF LineInv, Keys
<1>5. ASSUME NEW k, NEW d, Past(k, d)' PROVE Settled(k, d)'
  <2>1. CASE Past(k, d)
    <3>1. Settled(k, d) /\ KeyOf(k, d)' = KeyOf(k, d)
      BY <2>1, SameInput DEF LineInv
    <3> QED
      BY <1>3, <3>1 DEF Settled
  <2> QED
    BY <1>5, <2>1
<1> QED
  BY <1>2, <1>4, <1>5 DEF LineInv

(* A line that is skipped has nothing behind the cursor.                   *)
LEMMA PrepareStep == ASSUME LineInv, Prepare PROVE LineInv'
<1>1. /\ Cursor /\ cluster \in Nat /\ Len(input.clusters) \in Nat
  BY ClusterCount DEF LineInv
<1>2. /\ input' = input /\ reported' = reported /\ keys' = keys /\ dropped' = dropped
      /\ cluster' = cluster /\ left' = left /\ step = "prepare" /\ step' \in {"pick", "done"}
  BY DEF Prepare, scan
<1>3. Cursor'
  BY <1>1, <1>2 DEF Cursor, OnMatch
<1>4. ASSUME NEW k, NEW d, Past(k, d)' PROVE FALSE
  BY <1>1, <1>2, <1>4 DEF Cursor, Past, Pair
<1> QED
  BY <1>1, <1>2, <1>3, <1>4, SilentStep

(* A cluster ends when it has no document left, so its matches were behind *)
(* the cursor before.                                                      *)
LEMMA NextClusterStep == ASSUME LineInv, NextCluster PROVE LineInv'
<1>1. /\ Cursor /\ cluster \in Nat /\ Len(input.clusters) \in Nat
  BY ClusterCount DEF LineInv
<1>2. /\ input' = input /\ reported' = reported /\ keys' = keys /\ dropped' = dropped
      /\ step = "pick" /\ left = {}
      /\ IF cluster < Len(input.clusters)
           THEN step' = "pick" /\ cluster' = cluster + 1 /\ left' = DOMAIN input.clusters[cluster + 1]
           ELSE step' = "done" /\ cluster' = cluster /\ left' = left
  BY DEF NextCluster
<1>3. Cursor'
  BY <1>1, <1>2 DEF Cursor, OnMatch
<1>4. ASSUME NEW k, NEW d, Past(k, d)' PROVE Past(k, d)
  <2>1. Pair(k, d) /\ k \in Nat
    BY <1>1, <1>2, <1>4, SameInput DEF Past, Pair
  <2>2. CASE cluster < Len(input.clusters)
    <3>1. k < cluster + 1
      BY <1>1, <1>2, <1>4, <2>1, <2>2 DEF Past, Pair
    <3> QED
      BY <1>1, <1>2, <2>1, <3>1 DEF Past, OnMatch
  <2>3. CASE ~(cluster < Len(input.clusters))
    BY <1>1, <1>2, <1>4, <2>1, <2>3 DEF Past, OnMatch
  <2> QED
    BY <2>2, <2>3
<1>5. cluster' \in Nat /\ cluster <= cluster'
  BY <1>1, <1>2
<1> QED
  BY <1>2, <1>3, <1>4, <1>5, SilentStep

(* The document picked leaves those still to come and is at hand.          *)
LEMMA PickStep == ASSUME LineInv, Pick PROVE LineInv'
<1>1. /\ Cursor /\ cluster \in Nat /\ Len(input.clusters) \in Nat
  BY ClusterCount DEF LineInv
<1>2. /\ input' = input /\ reported' = reported /\ keys' = keys /\ dropped' = dropped
      /\ step = "pick" /\ step' = "question" /\ cluster' = cluster
      /\ doc' \in left /\ left' = left \ {doc'}
  BY DEF Pick
<1>3. Cursor'
  <2>1. cluster # 0 /\ Pair(cluster, doc')
    BY <1>1, <1>2 DEF Cursor, Pair
  <2>2. (OnMatch => Pair(cluster, doc) /\ doc \notin left)'
    BY <1>2, <2>1, SameInput
  <2> QED
    BY <1>1, <1>2, <2>1, <2>2 DEF Cursor
<1>4. ASSUME NEW k, NEW d, Past(k, d)' PROVE Past(k, d)
  BY <1>2, <1>4, SameInput DEF Past, OnMatch
<1> QED
  BY <1>1, <1>2, <1>3, <1>4, SilentStep

(* The document at hand is left out.                                       *)
LEMMA DropStep ==
    ASSUME LineInv, OnMatch, NEW why, Drop(why),
           why # "repeat" \/ Settled(cluster, doc)
    PROVE  LineInv'
<1>1. /\ Cursor /\ cluster \in Nat /\ Len(input.clusters) \in Nat
  BY ClusterCount DEF LineInv
<1>2. /\ input' = input /\ reported' = reported /\ keys' = keys
      /\ dropped' = dropped \cup {<<cluster, doc, why>>}
      /\ step' = "pick" /\ cluster' = cluster /\ left' = left /\ doc' = doc
  BY DEF Drop, scan
<1>3. Cursor'
  BY <1>1, <1>2 DEF Cursor, OnMatch
<1>4. ASSUME NEW k, NEW d, Past(k, d)' PROVE Past(k, d) \/ Settled(k, d)'
  <2>1. CASE k = cluster /\ d = doc
    <3>1. CASE why # "repeat"
      <4>1. <<cluster, doc, why>> \in dropped'
        BY <1>2
      <4> QED
        BY <2>1, <3>1, <4>1 DEF Settled
    <3>2. CASE why = "repeat"
      <4>1. Settled(k, d) /\ KeyOf(k, d)' = KeyOf(k, d)
        BY <1>2, <2>1, <3>2, SameInput
      <4>2. \A j : ReportKey(j)' = ReportKey(j)
        BY <1>2, SameInput DEF ReportKey
      <4> QED
        BY <1>2, <4>1, <4>2 DEF Settled
    <3> QED
      BY <3>1, <3>2
  <2>2. CASE ~(k = cluster /\ d = doc)
    BY <1>2, <1>4, <2>2, SameInput DEF Past
  <2> QED
    BY <2>1, <2>2
<1> QED
  BY <1>1, <1>2, <1>3, <1>4, SilentStep

(* Passage, answer and verdict of the document at hand.                    *)
LEMMA CheckStep ==
    ASSUME LineInv, FindPassage \/ FindAnswer \/ Convict
    PROVE  LineInv'
<1>1. /\ Cursor /\ cluster \in Nat
  BY ClusterCount DEF LineInv
<1>2. /\ input' = input /\ reported' = reported /\ keys' = keys /\ dropped' = dropped
      /\ cluster' = cluster /\ left' = left /\ doc' = doc /\ OnMatch /\ OnMatch'
  BY DEF FindPassage, FindAnswer, Convict, scan, OnMatch
<1>3. PassageOf(cluster, doc)' = PassageOf(cluster, doc) /\ AnswerOf(cluster, doc)' = AnswerOf(cluster, doc)
  <2>1. PICK k, d : k = cluster /\ d = doc
    OBVIOUS
  <2>2. PassageOf(k, d)' = PassageOf(k, d) /\ AnswerOf(k, d)' = AnswerOf(k, d)
    BY <1>2, SameInput
  <2> QED
    BY <1>2, <2>1, <2>2
<1>4. /\ step' \in {"answer", "score", "finalize"} => passage' = PassageOf(cluster, doc)
      /\ step' \in {"score", "finalize"} => answer' = AnswerOf(cluster, doc)
      /\ step' \in {"answer", "score", "finalize"}
  <2>1. CASE FindPassage
    BY <2>1 DEF FindPassage, PassageOf
  <2>2. CASE FindAnswer
    BY <1>1, <2>2 DEF FindAnswer, AnswerOf, Cursor
  <2>3. CASE Convict
    BY <1>1, <2>3 DEF Convict, Cursor
  <2> QED
    BY <2>1, <2>2, <2>3
<1>5. Cursor'
  <2>1. (Pair(cluster, doc) /\ doc \notin left)'
    BY <1>1, <1>2 DEF Cursor, Pair
  <2> QED
    BY <1>1, <1>2, <1>3, <1>4, <2>1 DEF Cursor
<1>6. ASSUME NEW k, NEW d, Past(k, d)' PROVE Past(k, d)
  BY <1>2, <1>6, SameInput DEF Past
<1> QED
  BY <1>1, <1>2, <1>5, <1>6, SilentStep

(* The new entry settles its match, has a key of its own and leaves the    *)
(* older entries as they are.                                              *)
LEMMA ReportStep == ASSUME LineInv, Report PROVE LineInv'
<1>0. PICK n : n = Len(reported)
  OBVIOUS
<1>1. /\ Cursor /\ Given /\ cluster \in Nat /\ Len(input.clusters) \in Nat
  BY ClusterCount DEF LineInv
<1>2. /\ input' = input /\ dropped' = dropped /\ step = "finalize" /\ step' = "pick"
      /\ cluster' = cluster /\ left' = left /\ doc' = doc
      /\ Key \notin keys /\ keys' = keys \cup {Key}
      /\ reported' = Append(reported, Entry)
  BY DEF Report, scan
<1>3. Cursor'
  BY <1>1, <1>2 DEF Cursor, OnMatch
<1>4. Pair(cluster, doc) /\ passage = PassageOf(cluster, doc) /\ answer = AnswerOf(cluster, doc)
  BY <1>1, <1>2 DEF Cursor, OnMatch
<1>5. /\ Entry = EntryOf(cluster, doc) /\ Entry \in AllEntries
      /\ Entry.cluster = cluster /\ Entry.doc = doc
  <2>1. Entry = EntryOf(cluster, doc)
    BY <1>4 DEF Entry, EntryOf
  <2>2. <<cluster, doc>> \in {y \in Nat \X DOMAIN input.docs : Pair(y[1], y[2])}
    BY <1>1, <1>4, InputsAssumption DEF Given, Pair, InputsFit
  <2>3. EntryOf(cluster, doc) \in AllEntries
    BY <2>2 DEF AllEntries
  <2> QED
    BY <2>1, <2>3 DEF Entry
<1>6. Key = KeyOf(cluster, doc)
  BY DEF Key, KeyOf
<1>7. /\ n \in Nat /\ DOMAIN reported = 1 .. n
      /\ reported' \in Seq(AllEntries) /\ DOMAIN reported' = 1 .. n + 1
      /\ reported'[n + 1] = Entry /\ \A j \in 1 .. n : reported'[j] = reported[j]
  <2>1. reported \in Seq(AllEntries)
    BY DEF LineInv, Entries
  <2> QED
    BY <1>0, <1>2, <1>5, <2>1, AppendProperties
<1>8. AllEntries' = AllEntries
  BY <1>2, SameInput
<1>9. Entries'
  <2>1. \A j \in 1 .. n : reported[j].cluster <= cluster
    BY <1>7 DEF LineInv, Entries
  <2>2. ASSUME NEW j \in 1 .. n + 1 PROVE reported'[j].cluster <= cluster
    <3>1. CASE j = n + 1
      BY <1>1, <1>5, <1>7, <3>1
    <3>2. CASE j # n + 1
      <4>1. j \in 1 .. n
        BY <1>7, <3>2
      <4> QED
        BY <1>7, <2>1, <4>1
    <3> QED
      BY <3>1, <3>2
  <2> QED
    BY <1>2, <1>7, <1>8, <2>2 DEF Entries
<1>10. PICK f : /\ \A j \in 1 .. n + 1 : ReportKey(j)' = f[j]
                /\ \A j \in 1 .. n : ReportKey(j) = f[j]
                /\ f[n + 1] = KeyOf(cluster, doc)
  <2>1. ASSUME NEW j PROVE ReportKey(j)' = KeyOf(reported'[j].cluster, reported'[j].doc)
    <3>1. PICK k, d : k = reported'[j].cluster /\ d = reported'[j].doc
      OBVIOUS
    <3>2. KeyOf(k, d)' = KeyOf(k, d)
      BY <1>2, SameInput
    <3> QED
      BY <1>2, <3>1, <3>2 DEF ReportKey, KeyOf, Doc, QuestionStart, Match
  <2>2. PICK f : f = [j \in 1 .. n + 1 |-> KeyOf(reported'[j].cluster, reported'[j].doc)]
    OBVIOUS
  <2>3. \A j \in 1 .. n + 1 : f[j] = KeyOf(reported'[j].cluster, reported'[j].doc)
    BY <2>2
  <2>4. \A j \in 1 .. n + 1 : ReportKey(j)' = f[j]
    BY <2>1, <2>3
  <2>5. ASSUME NEW j \in 1 .. n PROVE ReportKey(j) = f[j]
    <3>1. j \in 1 .. n + 1 /\ reported'[j] = reported[j]
      BY <1>7
    <3> QED
      BY <2>3, <3>1 DEF ReportKey
  <2>6. f[n + 1] = KeyOf(cluster, doc)
    <3>1. n + 1 \in 1 .. n + 1
      BY <1>7
    <3> QED
      BY <1>5, <1>7, <2>3, <3>1
  <2> QED
    BY <2>4, <2>5, <2>6
<1>11. Keys'
  <2>1. /\ \A j \in 1 .. n : f[j] \in keys
        /\ \A key \in keys : \E j \in 1 .. n : f[j] = key
        /\ \A j, l \in 1 .. n : f[j] = f[l] => j = l
    <3>1. /\ \A j \in 1 .. n : ReportKey(j) \in keys
          /\ \A key \in keys : \E j \in 1 .. n : ReportKey(j) = key
          /\ \A j, l \in 1 .. n : ReportKey(j) = ReportKey(l) => j = l
      BY <1>7 DEF LineInv, Keys
    <3> QED
      BY <1>10, <3>1
  <2>2. /\ \A j \in 1 .. n : j \in 1 .. n + 1
        /\ n + 1 \in 1 .. n + 1
        /\ \A j \in 1 .. n + 1 : j \in 1 .. n \/ j = n + 1
    BY <1>7
  <2>3. f[n + 1] \notin keys /\ keys' = keys \cup {f[n + 1]}
    BY <1>2, <1>6, <1>10
  <2>4. \A j \in 1 .. n + 1 : f[j] \in keys'
    BY <2>1, <2>2, <2>3
  <2>5. \A key \in keys' : \E j \in 1 .. n + 1 : f[j] = key
    BY <2>1, <2>2, <2>3
  <2>6. \A j, l \in 1 .. n + 1 : f[j] = f[l] => j = l
    BY <2>1, <2>2, <2>3
  <2>7. \A j \in 1 .. n + 1 : ReportKey(j)' \in keys'
    BY <1>10, <2>4
  <2>8. \A key \in keys' : \E j \in 1 .. n + 1 : ReportKey(j)' = key
    BY <1>10, <2>5
  <2>9. \A j, l \in 1 .. n + 1 : ReportKey(j)' = ReportKey(l)' => j = l
    BY <1>10, <2>6
  <2> QED
    BY <1>7, <2>7, <2>8, <2>9 DEF Keys
<1>12. ASSUME NEW k, NEW d, Past(k, d)' PROVE Settled(k, d)'
  <2>1. KeyOf(k, d)' = KeyOf(k, d)
    BY <1>2, SameInput
  <2>2. CASE k = cluster /\ d = doc
    <3>1. n + 1 \in DOMAIN reported' /\ reported'[n + 1].cluster <= k
      BY <1>1, <1>5, <1>7, <2>2
    <3>2. ReportKey(n + 1)' = KeyOf(k, d)'
      <4>1. n + 1 \in 1 .. n + 1
        BY <1>7
      <4> QED
        BY <1>10, <2>1, <2>2, <4>1
    <3>3. \E j \in DOMAIN reported' : ReportKey(j)' = KeyOf(k, d)' /\ reported'[j].cluster <= k
      BY <3>1, <3>2
    <3> QED
      BY <3>3 DEF Settled
  <2>3. CASE ~(k = cluster /\ d = doc)
    <3>1. Past(k, d)
      BY <1>2, <1>12, <2>3, SameInput DEF Past
    <3>2. Settled(k, d)
      BY <3>1 DEF LineInv
    <3>3. CASE \E y \in dropped : y[3] # "repeat" /\ y[1] = k /\ y[2] = d
      BY <1>2, <3>3 DEF Settled
    <3>4. CASE \E j \in DOMAIN reported : ReportKey(j) = KeyOf(k, d) /\ reported[j].cluster <= k
      <4>1. PICK j \in DOMAIN reported : ReportKey(j) = KeyOf(k, d) /\ reported[j].cluster <= k
        BY <3>4
      <4>2. j \in 1 .. n /\ j \in 1 .. n + 1
        BY <1>7, <4>1
      <4>3. j \in DOMAIN reported' /\ reported'[j] = reported[j]
        BY <1>7, <4>2
      <4>4. ReportKey(j)' = KeyOf(k, d)'
        BY <1>10, <2>1, <4>1, <4>2
      <4>5. \E l \in DOMAIN reported' : ReportKey(l)' = KeyOf(k, d)' /\ reported'[l].cluster <= k
        BY <4>1, <4>3, <4>4
      <4> QED
        BY <4>5 DEF Settled
    <3> QED
      BY <3>2, <3>3, <3>4 DEF Settled
  <2> QED
    BY <2>2, <2>3
<1> QED
  BY <1>3, <1>9, <1>11, <1>12 DEF LineInv

(* A match whose key is known was settled by an entry of this cluster or   *)
(* an earlier one.                                                         *)
LEMMA RepeatStep == ASSUME LineInv, Repeat PROVE LineInv'
<1>1. /\ Cursor /\ cluster \in Nat
  BY ClusterCount DEF LineInv
<1>2. OnMatch /\ Drop("repeat") /\ Key \in keys
  BY DEF Repeat, OnMatch
<1>3. PICK j \in DOMAIN reported : ReportKey(j) = Key
  BY <1>2 DEF LineInv, Keys
<1>4. reported[j].cluster <= cluster
  BY DEF LineInv, Entries
<1>5. Settled(cluster, doc)
  BY <1>3, <1>4 DEF Settled, Key, KeyOf
<1> QED
  BY <1>2, <1>5, DropStep

(* Every step of the line keeps LineInv.                                   *)
LEMMA LineStep == LineInv /\ [Next]_vars => LineInv'
<1> SUFFICES ASSUME LineInv, [Next]_vars PROVE LineInv'
  OBVIOUS
<1>1. CASE TooRare \/ TooRareForLength \/ Acquit
  <2>1. OnMatch /\ \E why \in {"minimum", "length", "score"} : Drop(why)
    BY <1>1 DEF TooRare, TooRareForLength, Acquit, OnMatch
  <2>2. PICK why \in {"minimum", "length", "score"} : Drop(why)
    BY <2>1
  <2> QED
    BY <2>1, <2>2, DropStep
<1>2. CASE UNCHANGED vars
  <2>1. /\ input' = input /\ reported' = reported /\ keys' = keys /\ dropped' = dropped
        /\ step' = step /\ cluster' = cluster /\ left' = left /\ doc' = doc
        /\ passage' = passage /\ answer' = answer
    BY <1>2 DEF vars, scan
  <2>2. Cursor /\ cluster \in Nat
    BY ClusterCount DEF LineInv
  <2>3. PassageOf(cluster, doc)' = PassageOf(cluster, doc) /\ AnswerOf(cluster, doc)' = AnswerOf(cluster, doc)
    <3>1. PICK k, d : k = cluster /\ d = doc
      OBVIOUS
    <3>2. PassageOf(k, d)' = PassageOf(k, d) /\ AnswerOf(k, d)' = AnswerOf(k, d)
      BY <2>1, SameInput
    <3> QED
      BY <2>1, <3>1, <3>2
  <2>4. Cursor'
    BY <2>1, <2>2, <2>3 DEF Cursor, OnMatch, Pair
  <2>5. ASSUME NEW k, NEW d, Past(k, d)' PROVE Past(k, d)
    BY <2>1, <2>5 DEF Past, OnMatch, Pair
  <2> QED
    BY <2>1, <2>2, <2>4, <2>5, SilentStep
<1> QED
  BY <1>1, <1>2, PrepareStep, NextClusterStep, PickStep, CheckStep, ReportStep, RepeatStep
     DEF Next

(* LineInv holds of every line.                                            *)
LEMMA LineInvariant == Spec => []LineInv
<1>1. Init => LineInv
  BY LineInit
<1>2. LineInv /\ [Next]_vars => LineInv'
  BY LineStep
<1> QED
  BY <1>1, <1>2, PTL DEF Spec

(* The line is finished: every match is behind the cursor.                 *)
LEMMA AllSettled ==
    ASSUME LineInv, step = "done", cluster > 0, NEW k, NEW d, Pair(k, d)
    PROVE  Settled(k, d)
<1>1. cluster = Len(input.clusters) /\ left = {} /\ ~OnMatch /\ cluster \in Nat
  BY ClusterCount DEF LineInv, Cursor, OnMatch
<1>2. k < cluster \/ k = cluster
  BY <1>1 DEF Pair
<1> QED
  BY <1>1, <1>2 DEF LineInv, Past

(* A key in the report has one entry.                                      *)
LEMMA OneEntry ==
    ASSUME LineInv, NEW key, NEW j \in DOMAIN reported, ReportKey(j) = key
    PROVE  Cardinality({l \in DOMAIN reported : KeyOf(reported[l].cluster, reported[l].doc) = key}) = 1
<1> DEFINE own == {l \in DOMAIN reported : KeyOf(reported[l].cluster, reported[l].doc) = key}
<1>1. own = {j}
  <2>1. \A l \in DOMAIN reported : ReportKey(l) = key => l = j
    BY DEF LineInv, Keys
  <2> QED
    BY <2>1 DEF ReportKey
<1>2. Cardinality({j}) = 1
  BY FS_Singleton
<1> QED
  BY <1>1, <1>2

(* In whatever order the hash map gives the documents of a cluster, every  *)
(* key of a contaminated match is in the finished report once, from the    *)
(* first cluster that has it (processed_contaminations).                   *)
THEOREM KeysReportedOnce == Spec => []EachKeyOnce
<1>1. LineInv => EachKeyOnce
  <2>1. SUFFICES ASSUME LineInv, step = "done", cluster > 0, NEW x \in Guilty
                 PROVE  LET own == {j \in DOMAIN reported :
                                      KeyOf(reported[j].cluster, reported[j].doc) = KeyOf(x[1], x[2])}
                        IN  Cardinality(own) = 1 /\ \A j \in own : reported[j].cluster <= x[1]
    BY DEF EachKeyOnce
  <2>2. PICK k, d : x = <<k, d>> /\ Pair(k, d) /\ \A y \in dropped : y[3] # "repeat" => <<y[1], y[2]>> # x
    <3>1. Len(input.clusters) \in Nat /\ DOMAIN input.clusters = 1 .. Len(input.clusters)
      BY <2>1, ClusterCount DEF LineInv
    <3> QED
      BY <2>1, <3>1 DEF Guilty, Pair
  <2>3. Settled(k, d)
    BY <2>1, <2>2, AllSettled
  <2>4. PICK j \in DOMAIN reported : ReportKey(j) = KeyOf(k, d) /\ reported[j].cluster <= k
    BY <2>2, <2>3 DEF Settled
  <2>5. \A l \in DOMAIN reported : ReportKey(l) = KeyOf(k, d) => l = j
    BY <2>1, <2>4 DEF LineInv, Keys
  <2>6. Cardinality({l \in DOMAIN reported : KeyOf(reported[l].cluster, reported[l].doc) = KeyOf(k, d)}) = 1
    BY <2>1, <2>4, OneEntry
  <2> QED
    BY <2>2, <2>4, <2>5, <2>6 DEF ReportKey
<1> QED
  BY <1>1, LineInvariant, PTL

(* Passage, question and answers of every entry are in the line and stand  *)
(* in this order without overlap, also when the cluster has run into the   *)
(* answer (finalize_contaminated_entry, calculate_excess_tokens).          *)
THEOREM PartsStandInOrder == Spec => []PartsInOrder
<1>1. LineInv => PartsInOrder
  <2>1. SUFFICES ASSUME LineInv, NEW j \in DOMAIN reported
                 PROVE  LET e == reported[j]
                            parts == e.passage \o <<<<e.start, e.end>>>> \o e.answers
                        IN  /\ \A m \in DOMAIN parts : 0 <= parts[m][1] /\ parts[m][1] <= parts[m][2]
                                                       /\ parts[m][2] < Length
                            /\ \A m \in DOMAIN parts \ {1} : parts[m - 1][2] < parts[m][1]
    BY DEF PartsInOrder
  <2>2. Given
    BY <2>1, ClusterCount DEF LineInv
  <2>3. reported[j] \in AllEntries
    BY <2>1, EntryClusters
  <2>4. PICK k, d : Pair(k, d) /\ reported[j] = EntryOf(k, d)
    BY <2>3 DEF AllEntries
  <2> QED
    BY <2>2, <2>4, PartsOf
<1> QED
  BY <1>1, LineInvariant, PTL

(* The traversals of passage_boundary.rs and answer_boundary.rs find what  *)
(* PassageFits, AnswerFits and ExactFits say without them: the hits that   *)
(* are chained to the last one before the question, the joined hits of a   *)
(* long answer, the first place of a short one.                            *)
THEOREM BoundariesFound == Spec => []BoundariesFit
<1>1. LineInv => BoundariesFit
  <2> SUFFICES ASSUME LineInv PROVE BoundariesFit
    OBVIOUS
  <2>1. Given /\ Cursor
    BY ClusterCount DEF LineInv
  <2>2. ASSUME step \in {"answer", "score", "finalize"}, HasPassage(doc), input.common = {}
        PROVE  PassageFits(cluster, doc, passage)
    <3>1. Pair(cluster, doc) /\ passage = PassageMatch(cluster, doc)
      BY <2>1, <2>2 DEF Cursor, OnMatch, PassageOf
    <3> QED
      BY <2>1, <2>2, <3>1, PassageFound
  <2>3. ASSUME step \in {"score", "finalize"}, HasAnswer(doc), input.common = {}
        PROVE  IF IsShort(doc) THEN ExactFits(cluster, doc, answer)
                                 ELSE AnswerFits(cluster, doc, answer)
    <3>1. Pair(cluster, doc) /\ answer = AnswerMatch(cluster, doc)
      BY <2>1, <2>3 DEF Cursor, OnMatch, AnswerOf
    <3>2. CASE IsShort(doc)
      BY <2>1, <2>3, <3>1, <3>2, ExactFound DEF AnswerMatch
    <3>3. CASE ~IsShort(doc)
      BY <2>1, <2>3, <3>1, <3>3, AnswerFound DEF AnswerMatch
    <3> QED
      BY <3>2, <3>3
  <2> QED
    BY <2>2, <2>3 DEF BoundariesFit
<1> QED
  BY <1>1, LineInvariant, PTL

-----------------------------------------------------------------------------
(* The verdicts on the documents. *)

(* An overlap is a fraction of 1.                                          *)
LEMMA OverlapIs ==
    ASSUME NEW part, NEW whole, IsFiniteSet(whole), NEW common
    PROVE  IsFrac(Overlap(part, whole, common)) /\ AtMost(Overlap(part, whole, common), One)
<1> DEFINE W == whole \ common
           P == (part \cap whole) \ common
<1>1. IsFiniteSet(W) /\ Cardinality(W) \in Nat
  BY FS_Subset, FS_CardinalityType
<1>2. P \in SUBSET W
  OBVIOUS
<1>3. Cardinality(P) \in Nat /\ Cardinality(P) <= Cardinality(W)
  BY <1>1, <1>2, FS_Subset, FS_CardinalityType
<1>4. PICK n, d : n = Cardinality(P) /\ d = Cardinality(W)
  OBVIOUS
<1>5. Overlap(part, whole, common) = IF d > 0 THEN Frac(n, d) ELSE Zero
  BY <1>4 DEF Overlap, Weight
<1>6. n \in Nat /\ d \in Nat /\ n <= d
  BY <1>1, <1>3, <1>4
<1> HIDE DEF W, P
<1>7. CASE d > 0
  <2>1. d # 0 /\ Is(Frac(n, d), n, d)
    BY <1>6, <1>7, FracIs
  <2>2. Is(One, d, d)
    BY <1>6, <2>1, Constants
  <2> QED
    BY <1>5, <1>6, <1>7, <2>1, <2>2, AtMostIs DEF Is
<1>8. CASE ~(d > 0)
  BY <1>5, <1>8 DEF IsFrac, AtMost, Zero, One
<1> QED
  BY <1>7, <1>8

(* So are those of a match's passage and answer.                           *)
LEMMA PartOverlaps ==
    ASSUME Given, NEW k, NEW d, Pair(k, d)
    PROVE  /\ IsFrac(PassageOf(k, d).overlap) /\ AtMost(PassageOf(k, d).overlap, One)
           /\ IsFrac(AnswerOf(k, d).overlap) /\ AtMost(AnswerOf(k, d).overlap, One)
<1>1. IsFrac(NoMatch.overlap) /\ AtMost(NoMatch.overlap, One)
  BY DEF NoMatch, IsFrac, AtMost, Zero, One
<1>2. IsFiniteSet(PassageGrams(d)) /\ IsFiniteSet(AnswerGrams(d)) /\ IsFiniteSet(GramsIn(Doc(d).answer, 1))
  BY MatchTexts, Sizes, GramsFinite DEF PassageGrams, AnswerGrams
<1>3. \/ PassageMatch(k, d) = NoMatch
      \/ \E hits : PassageMatch(k, d).overlap = Overlap(hits, PassageGrams(d), input.common)
  BY DEF PassageMatch
<1>4. IsFrac(PassageMatch(k, d).overlap) /\ AtMost(PassageMatch(k, d).overlap, One)
  BY <1>1, <1>2, <1>3, OverlapIs
<1>5. \/ AnswerMatch(k, d) = NoMatch
      \/ \E hits : AnswerMatch(k, d).overlap = Overlap(hits, AnswerGrams(d), input.common)
      \/ \E hits : AnswerMatch(k, d).overlap = Overlap(hits, GramsIn(Doc(d).answer, 1), input.common)
  BY DEF AnswerMatch, ExactMatch, RangesMatch
<1>6. IsFrac(AnswerMatch(k, d).overlap) /\ AtMost(AnswerMatch(k, d).overlap, One)
  BY <1>1, <1>2, <1>5, OverlapIs
<1> QED
  BY <1>1, <1>4, <1>6 DEF PassageOf, AnswerOf

(* What is scored of a match.                                              *)
LEMMA FullIs ==
    ASSUME NEW k, NEW d
    PROVE  Full(k, d) = [question |-> QuestionOverlap(k, d), answer |-> AnswerOf(k, d).overlap,
                         passage |-> PassageOf(k, d).overlap,
                         hasAnswer |-> HasAnswer(d), hasPassage |-> HasPassage(d),
                         grams |-> Cardinality(Doc(d).grams), questionLength |-> Doc(d).length,
                         answerTokens |-> Cardinality(GramsIn(Doc(d).answer, 1)),
                         passageLength |-> Len(Doc(d).passage)]
BY DEF Full, ScoreInput, PassageOf, AnswerOf

(* The score of a match is asked for within the lemmas on scores.          *)
LEMMA FullScorable ==
    ASSUME Given, NEW k, NEW d, Pair(k, d)
    PROVE  Scorable(Full(k, d))
<1> DEFINE s == Full(k, d)
<1>1. IsFiniteSet(Doc(d).grams)
  <2>1. d \in DOMAIN input.docs
    BY InputsAssumption DEF Given, Pair, InputsFit
  <2> QED
    BY <2>1, InputsAssumption DEF Given, InputsFit, Doc
<1>2. s.grams \in Nat
  BY <1>1, FullIs, FS_CardinalityType
<1>3. s.answerTokens \in Nat
  <2>1. IsFiniteSet(GramsIn(Doc(d).answer, 1))
    BY MatchTexts, GramsFinite
  <2> QED
    BY <2>1, FullIs, FS_CardinalityType
<1>4. s.questionLength \in Nat /\ s.passageLength \in Nat
  BY MatchTexts, FullIs
<1>5. s.hasAnswer \in BOOLEAN /\ s.hasPassage \in BOOLEAN
  BY FullIs DEF HasAnswer, HasPassage
<1>6. IsFrac(s.question) /\ AtMost(s.question, One)
  BY <1>1, FullIs, OverlapIs DEF QuestionOverlap
<1>7. IsFrac(s.answer) /\ AtMost(s.answer, One) /\ IsFrac(s.passage) /\ AtMost(s.passage, One)
  BY FullIs, PartOverlaps
<1> QED
  BY <1>2, <1>3, <1>4, <1>5, <1>6, <1>7 DEF Scorable

(* So are the settings.                                                    *)
LEMMA ConfigAskable == ASSUME Given PROVE Askable(input.config)
<1>1. SettingsFit(input.config)
  BY InputsAssumption DEF Given, InputsFit
<1> QED
  BY <1>1 DEF SettingsFit, Askable, IsFrac, Option

(* Why a document may be left out.                                         *)
Reason(k, d, why) ==
    /\ Pair(k, d)
    /\ why = "minimum" => Less(QuestionOverlap(k, d), Minimum)
    /\ why = "length" =>
          Less(QuestionOverlap(k, d),
               Interpolate(Doc(d).length, input.config.start, input.config.end, Minimum))
    /\ why = "score" => ~Contaminated(Full(k, d))

Verdict(k, d) == Pair(k, d) /\ Contaminated(Full(k, d))

(* What stands in the report has been found contaminated, and what was     *)
(* left out, was left out for a reason.                                    *)
Judged == \A j \in DOMAIN reported : Verdict(reported[j].cluster, reported[j].doc)
Verdicts ==
    /\ step = "finalize" => Verdict(cluster, doc)
    /\ Judged
    /\ \A x \in dropped : Reason(x[1], x[2], x[3])

(* Verdicts and reasons depend on the input alone.                         *)
LEMMA SameVerdict ==
    ASSUME input' = input
    PROVE  /\ \A k, d : Verdict(k, d)' <=> Verdict(k, d)
           /\ \A k, d, why : Reason(k, d, why)' <=> Reason(k, d, why)
<1>1. ASSUME NEW k, NEW d PROVE Full(k, d)' = Full(k, d)
  <2>1. PassageOf(k, d)' = PassageOf(k, d) /\ AnswerOf(k, d)' = AnswerOf(k, d)
    BY SameInput
  <2> QED
    BY <2>1 DEF Full, ScoreInput, PassageOf, AnswerOf, QuestionOverlap, Match, Doc,
                HasAnswer, HasPassage
<1>2. ASSUME NEW s PROVE Contaminated(s)' <=> Contaminated(s)
  BY DEF Contaminated
<1>3. ASSUME NEW k, NEW d PROVE Verdict(k, d)' <=> Verdict(k, d)
  BY <1>1, SameInput DEF Verdict, Contaminated
<1>4. ASSUME NEW k, NEW d, NEW why PROVE Reason(k, d, why)' <=> Reason(k, d, why)
  BY <1>1, SameInput DEF Reason, Contaminated, QuestionOverlap, Minimum, Match, Doc
<1> QED
  BY <1>3, <1>4

(* A document is left out for the reason given.                            *)
LEMMA DropReason ==
    ASSUME Verdicts, NEW why, Drop(why), Reason(cluster, doc, why)
    PROVE  Verdicts'
<1>1. /\ input' = input /\ reported' = reported /\ step' = "pick"
      /\ dropped' = dropped \cup {<<cluster, doc, why>>}
  BY DEF Drop
<1>2. \A x \in dropped' : Reason(x[1], x[2], x[3])
  BY <1>1 DEF Verdicts
<1>3. \A x \in dropped' : Reason(x[1], x[2], x[3])'
  BY <1>1, <1>2, SameVerdict
<1>4. Judged'
  BY <1>1, SameVerdict DEF Verdicts, Judged
<1> QED
  BY <1>1, <1>3, <1>4 DEF Verdicts

(* A step that leaves out nothing and reports nothing.                     *)
LEMMA QuietStep ==
    ASSUME Verdicts, input' = input, reported' = reported, dropped' = dropped,
           step' = "finalize" => Verdict(cluster', doc')
    PROVE  Verdicts'
<1>1. \A x \in dropped' : Reason(x[1], x[2], x[3])'
  BY SameVerdict DEF Verdicts
<1>2. Judged'
  BY SameVerdict DEF Verdicts, Judged
<1>3. (step = "finalize" => Verdict(cluster, doc))'
  BY SameVerdict DEF Verdict
<1> QED
  BY <1>1, <1>2, <1>3 DEF Verdicts

(* Every step of the line keeps them.                                      *)
LEMMA VerdictStep == LineInv /\ Verdicts /\ [Next]_vars => Verdicts'
<1> SUFFICES ASSUME LineInv, Verdicts, [Next]_vars PROVE Verdicts'
  OBVIOUS
<1>1. Cursor /\ Given
  BY ClusterCount DEF LineInv
<1>2. OnMatch => Pair(cluster, doc)
  BY <1>1 DEF Cursor
<1>3. step = "score" => ScoreInput(cluster, doc, passage, answer) = Full(cluster, doc)
  BY <1>1 DEF Cursor, Full, PassageOf, AnswerOf
<1>4. CASE TooRare
  <2>1. Reason(cluster, doc, "minimum") /\ Drop("minimum")
    BY <1>2, <1>4 DEF TooRare, Reason, OnMatch
  <2> QED
    BY <2>1, DropReason
<1>5. CASE TooRareForLength
  <2>1. Reason(cluster, doc, "length") /\ Drop("length")
    BY <1>2, <1>5 DEF TooRareForLength, LengthMinimum, Reason, OnMatch
  <2> QED
    BY <2>1, DropReason
<1>6. CASE Acquit
  <2>1. Reason(cluster, doc, "score") /\ Drop("score")
    BY <1>2, <1>3, <1>6 DEF Acquit, Reason, OnMatch
  <2> QED
    BY <2>1, DropReason
<1>7. CASE Repeat
  <2>1. Reason(cluster, doc, "repeat") /\ Drop("repeat")
    BY <1>2, <1>7 DEF Repeat, Reason, OnMatch
  <2> QED
    BY <2>1, DropReason
<1>8. CASE Report
  <2>1. /\ input' = input /\ dropped' = dropped /\ step = "finalize" /\ step' = "pick"
        /\ reported' = Append(reported, Entry) /\ Entry.cluster = cluster /\ Entry.doc = doc
    BY <1>8 DEF Report, Entry
  <2>2. reported \in Seq(AllEntries)
    BY DEF LineInv, Entries
  <2>3. Verdict(cluster, doc)
    BY <2>1 DEF Verdicts
  <2>4. /\ DOMAIN reported' = 1 .. Len(reported) + 1 /\ DOMAIN reported = 1 .. Len(reported)
        /\ \A j \in 1 .. Len(reported) : reported'[j] = reported[j]
        /\ reported'[Len(reported) + 1] = Entry
        /\ Len(reported) \in Nat
    BY <2>1, <2>2
  <2>5. ASSUME NEW j \in DOMAIN reported' PROVE Verdict(reported'[j].cluster, reported'[j].doc)
    <3>1. CASE j \in DOMAIN reported
      BY <2>4, <3>1 DEF Verdicts, Judged
    <3>2. CASE j = Len(reported) + 1
      BY <2>1, <2>3, <2>4, <3>2
    <3> QED
      BY <2>4, <3>1, <3>2
  <2>6. Judged'
    BY <2>1, <2>5, SameVerdict DEF Judged
  <2>7. \A x \in dropped' : Reason(x[1], x[2], x[3])'
    BY <2>1, SameVerdict DEF Verdicts
  <2> QED
    BY <2>1, <2>6, <2>7 DEF Verdicts
<1>9. CASE Convict
  <2>1. /\ input' = input /\ reported' = reported /\ dropped' = dropped
        /\ cluster' = cluster /\ doc' = doc /\ Verdict(cluster, doc)
    BY <1>2, <1>3, <1>9 DEF Convict, scan, Verdict, OnMatch
  <2> QED
    BY <2>1, QuietStep
<1>10. CASE Prepare \/ NextCluster \/ Pick \/ FindPassage \/ FindAnswer
  <2>1. /\ input' = input /\ reported' = reported /\ dropped' = dropped /\ step' # "finalize"
    BY <1>10 DEF Prepare, NextCluster, Pick, FindPassage, FindAnswer
  <2> QED
    BY <2>1, QuietStep
<1>11. CASE UNCHANGED vars
  <2>1. /\ input' = input /\ reported' = reported /\ dropped' = dropped /\ step' = step
        /\ cluster' = cluster /\ doc' = doc
    BY <1>11 DEF vars, scan
  <2> QED
    BY <2>1, QuietStep DEF Verdicts
<1> QED
  BY <1>4, <1>5, <1>6, <1>7, <1>8, <1>9, <1>10, <1>11 DEF Next

(* Verdicts holds of every line.                                           *)
LEMMA VerdictsInvariant == Spec => [](Given /\ Verdicts)
<1>1. Init => Verdicts
  BY DEF Init, Verdicts, Judged
<1>2. LineInv /\ Verdicts /\ [Next]_vars => Verdicts'
  BY VerdictStep
<1>3. LineInv => Given
  BY ClusterCount DEF LineInv
<1> QED
  BY <1>1, <1>2, <1>3, LineInvariant, PTL DEF Spec

(* The two early exits (minimum_question_idf_threshold, and the same       *)
(* adjusted to the question's length) leave out no match that answer and   *)
(* passage could have brought to the threshold, under the conditions that  *)
(* EarlyExitsSound states.                                                 *)
THEOREM EarlyExitsHold == Spec => []EarlyExitsSound
<1>1. Given /\ Verdicts => EarlyExitsSound
  <2>1. SUFFICES ASSUME Given, Verdicts, NEW x \in Early, LongQuestion(x[2]),
                        x[3] = "length" => LengthOfQuestion(x[1], x[2])
                 PROVE  ~Contaminated(Full(x[1], x[2]))
    BY DEF EarlyExitsSound
  <2>2. PICK k, d, why : k = x[1] /\ d = x[2] /\ why = x[3]
    OBVIOUS
  <2>3. Reason(k, d, why) /\ why \in {"minimum", "length"}
    BY <2>1, <2>2 DEF Early, Verdicts
  <2>4. Pair(k, d)
    BY <2>3 DEF Reason
  <2>5. PICK s, c : s = Full(k, d) /\ c = input.config
    OBVIOUS
  <2>6. Scorable(s) /\ Askable(c)
    BY <2>1, <2>4, <2>5, FullScorable, ConfigAskable
  <2>7. Enough(s)
    BY <2>1, <2>2, <2>5, FullIs DEF LongQuestion, Enough
  <2>8. s.question = QuestionOverlap(k, d)
    BY <2>5, FullIs
  <2>9. CASE why = "minimum"
    <3>1. Less(s.question, MinimumQuestion(c.threshold))
      BY <2>3, <2>5, <2>8, <2>9 DEF Reason, Minimum
    <3>2. ~AtMost(c.threshold, Combined(s, c))
      BY <2>6, <2>7, <3>1, MinimumFails
    <3> QED
      BY <2>2, <2>5, <3>2 DEF Contaminated
  <2>10. CASE why = "length"
    <3>1. PICK l : l = Doc(d).length
      OBVIOUS
    <3>2. l \in Nat
      BY <2>1, <2>4, <3>1, MatchTexts
    <3>3. Less(s.question, Interpolate(l, c.start, c.end, MinimumQuestion(c.threshold)))
      BY <2>3, <2>5, <2>8, <2>10, <3>1 DEF Reason, Minimum
    <3>4. AtMost(<<3, 10>>, c.threshold) /\ Required(s, c) = Interpolate(l, c.start, c.end, c.threshold)
      BY <2>1, <2>2, <2>5, <2>10, <3>1 DEF LengthOfQuestion
    <3>5. ~AtMost(c.threshold, Combined(s, c))
      BY <2>6, <2>7, <3>2, <3>3, <3>4, LengthFails
    <3> QED
      BY <2>2, <2>5, <3>5 DEF Contaminated
  <2> QED
    BY <2>3, <2>9, <2>10
<1> QED
  BY <1>1, VerdictsInvariant, PTL

(* An entry is in the report exactly if its unscaled score reaches what    *)
(* its length requires: scaling the score and comparing it with the        *)
(* threshold decides the same (calculate_combined_contamination_score,     *)
(* is_contaminated).                                                       *)
THEOREM ReportedAsRequiredHolds == Spec => []ReportedAsRequired
<1>1. Given /\ Verdicts => ReportedAsRequired
  <2>1. SUFFICES ASSUME Given, Verdicts, Less(Zero, input.config.threshold)
                 PROVE  /\ \A j \in DOMAIN reported :
                              LET s == Full(reported[j].cluster, reported[j].doc)
                              IN  AtMost(Required(s, input.config), Base(s))
                        /\ \A x \in dropped : x[3] = "score" =>
                              LET s == Full(x[1], x[2]) IN Less(Base(s), Required(s, input.config))
    BY DEF ReportedAsRequired
  <2>2. ASSUME NEW k, NEW d, Pair(k, d)
        PROVE  Contaminated(Full(k, d)) <=> AtMost(Required(Full(k, d), input.config), Base(Full(k, d)))
    <3>1. PICK s, c : s = Full(k, d) /\ c = input.config
      OBVIOUS
    <3>2. Scorable(s) /\ Askable(c) /\ Less(Zero, c.threshold)
      BY <2>1, <2>2, <3>1, FullScorable, ConfigAskable
    <3>3. AtMost(c.threshold, Combined(s, c)) <=> AtMost(Required(s, c), Base(s))
      BY <3>2, CombinedReaches
    <3> QED
      BY <3>1, <3>3 DEF Contaminated
  <2>3. ASSUME NEW j \in DOMAIN reported
        PROVE  AtMost(Required(Full(reported[j].cluster, reported[j].doc), input.config),
                      Base(Full(reported[j].cluster, reported[j].doc)))
    BY <2>1, <2>2 DEF Verdicts, Judged, Verdict
  <2>4. ASSUME NEW x \in dropped, x[3] = "score"
        PROVE  Less(Base(Full(x[1], x[2])), Required(Full(x[1], x[2]), input.config))
    BY <2>1, <2>2, <2>4 DEF Verdicts, Reason, Less
  <2> QED
    BY <2>3, <2>4
<1> QED
  BY <1>1, VerdictsInvariant, PTL

=============================================================================
