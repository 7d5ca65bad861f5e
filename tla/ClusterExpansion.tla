-------------------------- MODULE ClusterExpansion --------------------------
(***************************************************************************)
(* identify_contamination_clusters and expand_simple_contamination_cluster *)
(* on one line of training text: the line is sampled every                 *)
(* sample_every_m_tokens n-grams; a hit seeds a cluster, which is expanded *)
(* to the left and then to the right, each document that contains the seed *)
(* being followed until it misses too often.                               *)
(*                                                                         *)
(* A line is the sequence of its n-grams, each the id the reference index  *)
(* gives it or NoId; positions count from 1 where the code counts from 0.  *)
(* The index is a record: docs maps an id to the documents that contain    *)
(* it, hot are the ids whose set was replaced by the sentinel document.    *)
(***************************************************************************)
EXTENDS Naturals, Sequences, FiniteSets

CONSTANTS
    Ids, NoId,   \* n-gram ids; an n-gram that is in no reference document
    Docs,        \* reference documents
    Lines,       \* sequences over Ids and NoId
    Indexes,     \* [docs : [Ids -> SUBSET Docs], hot : SUBSET Ids]
    Sample,      \* sample_every_m_tokens
    MaxMisses    \* question_max_consecutive_misses

ASSUME NoIdAssumption    == NoId \notin Ids
ASSUME DocsAssumption    == IsFiniteSet(Docs)
ASSUME LinesAssumption   == Lines \subseteq Seq(Ids \cup {NoId})
ASSUME IndexAssumption   ==
    \A x \in Indexes : /\ x.docs \in [Ids -> SUBSET Docs]
                       /\ x.hot \subseteq Ids
                       /\ \A g \in Ids : x.docs[g] # {}
ASSUME SampleAssumption  == Sample \in Nat \ {0}   \* the configuration sees to it
ASSUME MissesAssumption  == MaxMisses \in Nat

VARIABLES
    line, index,   \* the input
    phase,         \* "scan", "left", "right", "done"
    i,             \* the next position to sample
    clusters,      \* the clusters found
    seed,          \* the hit being expanded
    current,       \* current_idx of the traversal
    active,        \* active_documents
    matches,       \* document_matches: the ids found for each document
    misses,        \* document_misses
    start, stop,   \* document_boundaries
    frequencies    \* ngram_doc_frequencies: <<id, number of documents>>

scanVars == <<line, index, phase, i, clusters, seed, current, active, matches,
              misses, start, stop, frequencies>>

Total == Len(line)
Known(p) == line[p] # NoId
Matched(p) == IF Known(p) THEN index.docs[line[p]] ELSE {}
Hot(p) == Known(p) /\ line[p] \in index.hot

ScanInit ==
    /\ line \in Lines /\ index \in Indexes
    /\ phase = "scan" /\ i = 1 /\ clusters = <<>>
    /\ seed = 0 /\ current = 0
    /\ active = {} /\ frequencies = {}
    /\ matches = [d \in Docs |-> {}]
    /\ misses = [d \in Docs |-> 0]
    /\ start = [d \in Docs |-> 0] /\ stop = [d \in Docs |-> 0]

cursor == <<seed, current, active, matches, misses, start, stop, frequencies>>

-----------------------------------------------------------------------------
(* Sampling. *)

NoHit ==
    /\ phase = "scan" /\ i <= Total
    /\ ~Known(i)
    /\ i' = i + Sample
    /\ UNCHANGED <<line, index, phase, clusters, cursor>>

\* Mutant of HotHit: sampling goes on at its usual rate.
MutHotHit ==
    /\ phase = "scan" /\ i <= Total
    /\ Hot(i)
    /\ i' = i + Sample
    /\ UNCHANGED <<line, index, phase, clusters, cursor>>

(* A hot n-gram seeds no cluster; the next position is looked at. *)
HotHit ==
    /\ phase = "scan" /\ i <= Total
    /\ Hot(i)
    /\ i' = i + 1
    /\ UNCHANGED <<line, index, phase, clusters, cursor>>

Hit ==
    /\ phase = "scan" /\ i <= Total
    /\ Known(i) /\ ~Hot(i)
    /\ phase' = "left"
    /\ seed' = i /\ current' = i
    /\ active' = Matched(i)
    /\ matches' = [d \in Docs |-> IF d \in Matched(i) THEN {line[i]} ELSE {}]
    /\ misses' = [d \in Docs |-> 0]
    /\ start' = [d \in Docs |-> i] /\ stop' = [d \in Docs |-> i]
    /\ frequencies' = {<<line[i], Cardinality(Matched(i))>>}
    /\ UNCHANGED <<line, index, i, clusters>>

-----------------------------------------------------------------------------
(* Traversal. *)

(* The miss counts after position p: a document that matches starts again  *)
(* from 0 if the n-gram is new for it, one that does not has one more miss. *)
Counted(p) ==
    [d \in Docs |->
        IF d \notin active THEN misses[d]
        ELSE IF d \notin Matched(p) THEN misses[d] + 1
        ELSE IF line[p] \in matches[d] THEN misses[d] ELSE 0]

(* What both traversals do at position p, whether or not a document of the *)
(* active set matches there.                                               *)
Visit(p) ==
    LET found == active \cap Matched(p)
    IN  /\ current' = p
        /\ matches' = [d \in Docs |->
                         IF d \in found THEN matches[d] \cup {line[p]} ELSE matches[d]]
        /\ misses' = Counted(p)
        /\ active' = {d \in active : d \in found \/ Counted(p)[d] < MaxMisses}
        /\ frequencies' =
             IF Known(p) THEN frequencies \cup {<<line[p], Cardinality(Matched(p))>>}
                         ELSE frequencies

StepLeft ==
    /\ phase = "left" /\ active # {} /\ current > 1
    /\ Visit(current - 1)
    /\ start' = [d \in Docs |->
                   IF d \in active \cap Matched(current - 1) THEN current - 1
                                                            ELSE start[d]]
    /\ UNCHANGED <<line, index, phase, i, clusters, seed, stop>>

(* The right traversal begins at the hit again, with every document of the *)
(* hit and no misses.                                                      *)
Turn ==
    /\ phase = "left" /\ (active = {} \/ current = 1)
    /\ phase' = "right"
    /\ current' = seed
    /\ active' = Matched(seed)
    /\ misses' = [d \in Docs |-> IF d \in Matched(seed) THEN 0 ELSE misses[d]]
    /\ UNCHANGED <<line, index, i, clusters, seed, matches, start, stop, frequencies>>

\* Mutant of StepRight: the boundary moves with every position visited.
MutStepRight ==
    /\ phase = "right" /\ active # {} /\ current < Total
    /\ Visit(current + 1)
    /\ stop' = [d \in Docs |-> IF d \in active THEN current + 1 ELSE stop[d]]
    /\ UNCHANGED <<line, index, phase, i, clusters, seed, start>>

StepRight ==
    /\ phase = "right" /\ active # {} /\ current < Total
    /\ Visit(current + 1)
    /\ stop' = [d \in Docs |->
                  IF d \in active \cap Matched(current + 1) THEN current + 1
                                                           ELSE stop[d]]
    /\ UNCHANGED <<line, index, phase, i, clusters, seed, start>>

Cluster == [seed |-> seed, docs |-> Matched(seed), matches |-> matches,
            start |-> start, stop |-> stop, frequencies |-> frequencies,
            end |-> current]

(* i = i.max(cluster_end + 1): sampling goes on behind the cluster. *)
Close ==
    /\ phase = "right" /\ (active = {} \/ current = Total)
    /\ clusters' = Append(clusters, Cluster)
    /\ i' = IF i > current + 1 THEN i ELSE current + 1
    /\ phase' = "scan"
    /\ UNCHANGED <<line, index, cursor>>

Finish ==
    /\ phase = "scan" /\ i > Total
    /\ phase' = "done"
    /\ UNCHANGED <<line, index, i, clusters, cursor>>

ScanNext ==
    \/ NoHit \/ HotHit \/ Hit
    \/ StepLeft \/ Turn \/ StepRight \/ Close
    \/ Finish

ScanSpec == ScanInit /\ [][ScanNext]_scanVars

-----------------------------------------------------------------------------
(* Properties. *)

Positions == 1 .. Total

TypeOK ==
    /\ line \in Lines /\ index \in Indexes
    /\ phase \in {"scan", "left", "right", "done"}
    /\ i \in Nat \ {0}
    /\ phase \in {"left", "right"} => seed \in Positions /\ current \in Positions
    /\ active \subseteq Docs
    /\ matches \in [Docs -> SUBSET Ids]
    /\ misses \in [Docs -> Nat]
    /\ start \in [Docs -> 0 .. Total] /\ stop \in [Docs -> 0 .. Total]
    /\ frequencies \subseteq Ids \X Nat

(* Where document d occurs in the positions from p to q. *)
Occurs(d, p, q) == {k \in p .. q : d \in Matched(k)}

(* What the two traversals compute, stated without them: the ids collected *)
(* for a document are those of all its n-grams between its boundaries, the *)
(* boundaries are n-grams of the document and lie on the two sides of the  *)
(* hit and within the cluster, and the frequency of every collected id is  *)
(* known to the scoring.  Holds however the documents of a cluster drop    *)
(* out at different positions.                                             *)
Exact(c) ==
    \A d \in c.docs :
        /\ c.start[d] \in 1 .. c.seed /\ c.stop[d] \in c.seed .. c.end
        /\ d \in Matched(c.start[d]) /\ d \in Matched(c.stop[d])
        /\ c.matches[d] = {line[k] : k \in Occurs(d, c.start[d], c.stop[d])}
        /\ \A g \in c.matches[d] : <<g, Cardinality(index.docs[g])>> \in c.frequencies

(* A document is not left early: if its last n-gram on a side occurs there *)
(* for the first time, the next MaxMisses positions do not contain the     *)
(* document (or the line ends).                                            *)
QuietLeft(c, d) ==
    \A k \in Positions : c.start[d] - k \in 1 .. MaxMisses => d \notin Matched(k)
QuietRight(c, d) ==
    \A k \in Positions : k - c.stop[d] \in 1 .. MaxMisses => d \notin Matched(k)
New(d, p, q, k) ==
    \A l \in Occurs(d, p, q) : line[l] = line[k] => l = k

NotCutShort(c) ==
    \A d \in c.docs :
        /\ New(d, c.start[d], c.seed, c.start[d]) => QuietLeft(c, d)
        /\ New(d, c.start[d], c.stop[d], c.stop[d]) => QuietRight(c, d)

(* The two traversals of every hit compute their declarative reading: each *)
(* cluster is exact, and no document has left it early.                    *)
ExactMatches == \A n \in 1 .. Len(clusters) : Exact(clusters[n]) /\ NotCutShort(clusters[n])

(* The documented blind spot is the only one: a run of Sample n-grams of a *)
(* document, of which the last is not hot, is inside a cluster that        *)
(* follows the document, or an earlier hit's cluster reaches over its end  *)
(* (LIMITATION, detection.rs lines 684-716).                               *)
Run(d, p) ==
    /\ p + Sample - 1 <= Total
    /\ \A k \in p .. p + Sample - 1 : d \in Matched(k)
    /\ ~Hot(p + Sample - 1)
Follows(c, d, p) == d \in c.docs /\ c.start[d] <= p /\ p + Sample - 1 <= c.stop[d]
Covers(c, p) == c.seed < p /\ p + Sample - 1 <= c.end

OnlyBlindSpot ==
    phase = "done" =>
        \A d \in Docs, p \in Positions :
            Run(d, p) => \E n \in 1 .. Len(clusters) :
                            Follows(clusters[n], d, p) \/ Covers(clusters[n], p)

=============================================================================
