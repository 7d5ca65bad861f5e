---------------------------- MODULE DetectReview ----------------------------
(***************************************************************************)
(* A detection run and the commands that read its reports: DetectBatch     *)
(* with decon review and decon compare (Reports) run over its report       *)
(* directory when the detection has ended.                                 *)
(***************************************************************************)
EXTENDS DetectBatch, Reports

CONSTANTS
    Evals,      \* what a report says of an evaluation instance
    Options     \* the filters a reader may set

(* An instance before it is found somewhere, by its name in the findings.  *)
(* An entry has at least one n-gram of the question.                       *)
Instance ==
    [training_file : {""}, training_line : {0}, eval_dataset : STRING, eval_line : Nat,
     eval_instance_index : Nat, split : STRING, contamination_score : Nat,
     ngram_match_cnt : Nat \ {0}, fingerprint : STRING \cup {NoFingerprint}]

ASSUME FilesAssumption == IsFiniteSet(Files)
ASSUME EvalsAssumption ==
    \A e \in AllEntries : e[2] \in DOMAIN Evals /\ Evals[e[2]] \in Instance

(* The entries of a line come from hash maps: a report may list its        *)
(* results in any order.  One whose writing failed ends anywhere.          *)
Result(f, e) ==
    [Evals[e[2]] EXCEPT !.training_file = BaseName(f), !.training_line = e[1]]
ASSUME TornAssumption == \A f \in Files, e \in AllEntries : Result(f, e) # Torn
Orders(f) == {[k \in DOMAIN s |-> Result(f, s[k])] : s \in SetToSeqs(hits[f])}
MayHold(f) ==
    LET report == reports[ReportName(f)]
    IN  IF report = Absent THEN {<<>>}
        ELSE IF report.whole THEN Orders(f)
        ELSE {<<Torn>>} \cup UNION {{SubSeq(s, 1, n) : n \in 0 .. Len(s)} : s \in Orders(f)}

\* What the reports may contain, and what is loaded of it in any listing.
Directories ==
    {x \in [Files -> UNION {MayHold(f) : f \in Files}] : \A f \in Files : x[f] \in MayHold(f)}
Loads(x) == {LoadDirectory([k \in DOMAIN listing |-> x[listing[k]]]) : listing \in SetToSeqs(Files)}
AllLoads == UNION {Loads(x) : x \in Directories}

(* When the detection has ended the reports are final: the copies that are  *)
(* made afterwards change none, so that one look, before them, is enough.  *)
ReportsFinal == IF Purify THEN phase = "purify" /\ todo = Files ELSE phase = "done"

AllWhole == \A n \in ReportNames : reports[n] = Absent \/ reports[n].whole
NoFilter == [eval |-> Unfiltered, min_score |-> Unfiltered, min_length |-> Unfiltered]

-----------------------------------------------------------------------------
(* Properties. *)

\* decon review tells the same run that decon detect has summed up and that the
\* purified copies were made from: its instances are the contaminations shown,
\* its documents and the removals of --dataset-counts the lines taken out, and
\* its tables add up to its totals.  Only a report whose writing failed may be
\* seen in part although the run did not count it.
ReviewTellsRun ==
    ReportsFinal =>
        \A x \in Directories : \A loaded \in Loads(x) :
            LET v == Review(loaded, NoFilter)
                removals == SumOfRows(DatasetCounts(x, [f \in Files |-> f.dir]))
            IN  /\ v.instances >= summary.contaminations /\ v.documents >= summary.lines
                /\ AllWhole => /\ v.instances = summary.contaminations
                               /\ v.documents = summary.lines /\ removals = summary.lines
                /\ SumOfRows(v.evals_by_suite) = v.evals
                /\ SumOfRows(v.histogram) = v.instances /\ v.filtered = 0

\* Two runs over the same data differ in nothing that decon compare counts by
\* key, whatever the order of the results in a report and of the files in the
\* listing, and with every filter.  A fingerprint is shown as new only if its
\* result shares its key with another one, of which compare keeps the last.
SameRunCompares ==
    ReportsFinal /\ AllWhole =>
        LET first == CHOOSE l \in AllLoads : TRUE
        IN  \A second \in AllLoads, o \in Options :
                LET c == Compare(first, second, o)
                    results == ToSet(first)
                IN  /\ c.only_in_1 = {} /\ c.only_in_2 = {}
                    /\ c.first.documents = c.second.documents
                    /\ \A s \in DOMAIN c.documents : c.documents[s] = 0
                    /\ c.improved + c.worsened + c.unchanged = Cardinality(c.in_both)
                    /\ \A r \in OnlyIn(Compared(second, o), Compared(first, o)) :
                          \E other \in results \ {r} : Key(other) = Key(r)

\* Results with one key are one instance to compare, but no document is lost by
\* it: compare and review count the same documents, in all and for each suite,
\* and the rows of compare add up to its totals.
CollapseKeepsDocuments ==
    ReportsFinal =>
        \A loaded \in AllLoads, o \in Options :
            LET v == Review(loaded, CompareOptions(o))
                m == Compared(loaded, o)
            IN  /\ Metrics(m).documents = v.documents
                /\ DocumentRows(Values(m)) = v.by_suite
                /\ Metrics(m).instances <= v.instances
                /\ SumOfRows(EvalRows(Values(m), ComparedEvals(Values(m)))) = Metrics(m).evals
                /\ SumOfRows(TopCounts(Filter(loaded, o))) = Review(loaded, o).instances

=============================================================================
