------------------------------ MODULE Reports -------------------------------
(***************************************************************************)
(* decon review and decon compare: what the two commands make of           *)
(* directories of reports.  Everything here is a function of what was      *)
(* read; the files of a directory are read one after the other, in the     *)
(* order in which the directory lists them.                                *)
(*                                                                         *)
(* A result is a record of the fields of ContaminationResult that the      *)
(* commands tell results apart by; the eval_key of a report is its         *)
(* eval_dataset.                                                           *)
(***************************************************************************)
EXTENDS Integers, SequencesExt, FiniteSetsExt

CONSTANTS
    Torn,          \* a line that does not parse
    NoFingerprint,
    Unfiltered     \* an option that is not given

-----------------------------------------------------------------------------
(* Loading and filtering. *)

(* load_contamination_results: one bad line, and the file is skipped.      *)
LoadFile(lines) == IF Torn \in ToSet(lines) THEN <<>> ELSE lines

\* Mutant of LoadDirectory: a file replaces those before it.
MutLoadDirectory(files) == IF files = <<>> THEN <<>> ELSE LoadFile(Last(files))

(* load_contamination_results_from_directory *)
LoadDirectory(files) == FlattenSeq([k \in DOMAIN files |-> LoadFile(files[k])])

(* filter_contamination_results_by_thresholds *)
Passes(r, o) ==
    /\ o.eval = Unfiltered \/ r.eval_dataset = o.eval
    /\ o.min_score = Unfiltered \/ r.contamination_score >= o.min_score
    /\ o.min_length = Unfiltered \/ r.ngram_match_cnt >= o.min_length
Filter(results, o) ==
    FlattenSeq([k \in DOMAIN results |->
                  IF Passes(results[k], o) THEN <<results[k]>> ELSE <<>>])

-----------------------------------------------------------------------------
(* Counting. *)

Document(r) == <<r.training_file, r.training_line>>
Documents(R) == {Document(r) : r \in R}
Suites(R) == {r.eval_dataset : r \in R}
OfSuite(R, s) == {r \in R : r.eval_dataset = s}

(* compare tells the splits of a suite apart, review does not. *)
ComparedEvals(R) == {<<r.eval_dataset, r.split, r.eval_instance_index>> : r \in R}
ReviewedEvals(R) == {<<r.eval_dataset, r.eval_instance_index>> : r \in R}

(* The rows of a table: suite -> a number of documents or instances. *)
DocumentRows(R) == [s \in Suites(R) |-> Cardinality(Documents(OfSuite(R, s)))]
EvalRows(R, evals) == [s \in Suites(R) |-> Cardinality({e \in evals : e[1] = s})]
SumOfRows(rows) == MapThenSumSet(LAMBDA s : rows[s], DOMAIN rows)

-----------------------------------------------------------------------------
(* review *)

Buckets == {<<1, 5>>, <<6, 10>>, <<11, 20>>, <<21, 50>>, <<51, 100>>, <<101, 200>>, <<201, 500>>}

(* display_ngram_match_distribution *)
Histogram(results) ==
    [b \in Buckets \cup {<<501, 501>>} |->
       Cardinality({k \in DOMAIN results :
                      /\ results[k].ngram_match_cnt >= b[1]
                      /\ b[1] = 501 \/ results[k].ngram_match_cnt <= b[2]})]

(* review_contamination with --stats *)
Review(loaded, o) ==
    LET results == Filter(loaded, o)
        R == ToSet(results)
    IN  [documents |-> Cardinality(Documents(R)), instances |-> Len(results),
         evals |-> Cardinality(ReviewedEvals(R)), filtered |-> Len(loaded) - Len(results),
         by_suite |-> DocumentRows(R), evals_by_suite |-> EvalRows(R, ReviewedEvals(R)),
         histogram |-> Histogram(results)]

(* --dataset-counts: a training data set is a directory of reports; the    *)
(* filters do not apply.                                                   *)
DatasetCounts(files, dataset) ==
    [d \in {dataset[f] : f \in DOMAIN files} |->
       Cardinality(UNION {Documents(ToSet(LoadFile(files[f]))) :
                            f \in {g \in DOMAIN files : dataset[g] = d}})]

(* --top-eval-examples: how often each line of a suite was met. *)
TopCounts(results) ==
    [e \in {<<r.eval_dataset, r.eval_line>> : r \in ToSet(results)} |->
       Cardinality({k \in DOMAIN results :
                      <<results[k].eval_dataset, results[k].eval_line>> = e})]

-----------------------------------------------------------------------------
(* compare *)

\* Mutant of Key: the line of the training file is left out.
MutKey(r) == <<r.training_file, r.eval_dataset, r.eval_line>>

(* ContaminationKey *)
Key(r) == <<r.training_file, r.training_line, r.eval_dataset, r.eval_line>>

(* collect into a HashMap: of results with one key the last is kept. *)
ByKey(results) ==
    [k \in {Key(r) : r \in ToSet(results)} |->
       results[Max({n \in DOMAIN results : Key(results[n]) = k})]]

(* compare has no filter for the length. *)
CompareOptions(o) == [o EXCEPT !.min_length = Unfiltered]

\* Mutant of Compared: the filter sees only the results that were kept.
MutCompared(loaded, o) ==
    LET m == ByKey(loaded)
    IN  [k \in {j \in DOMAIN m : Passes(m[j], CompareOptions(o))} |-> m[k]]

(* execute_compare, for one of the directories *)
Compared(loaded, o) == ByKey(Filter(loaded, CompareOptions(o)))

Values(m) == {m[k] : k \in DOMAIN m}
Metrics(m) ==
    [documents |-> Cardinality(Documents(Values(m))), instances |-> Cardinality(DOMAIN m),
     evals |-> Cardinality(ComparedEvals(Values(m)))]

Row(rows, s) == IF s \in DOMAIN rows THEN rows[s] ELSE 0
Deltas(rows1, rows2) ==
    [s \in DOMAIN rows1 \cup DOMAIN rows2 |-> Row(rows2, s) - Row(rows1, s)]

(* display_comparison_stats; scores less than the resolution apart are one *)
(* score here.                                                             *)
Compare(loaded1, loaded2, o) ==
    LET m1 == Compared(loaded1, o)
        m2 == Compared(loaded2, o)
        both == DOMAIN m1 \cap DOMAIN m2
        Score(m, k) == m[k].contamination_score
        Rows(m) == EvalRows(Values(m), ComparedEvals(Values(m)))
    IN  [first |-> Metrics(m1), second |-> Metrics(m2),
         only_in_1 |-> DOMAIN m1 \ DOMAIN m2, only_in_2 |-> DOMAIN m2 \ DOMAIN m1, in_both |-> both,
         improved  |-> Cardinality({k \in both : Score(m2, k) < Score(m1, k)}),
         worsened  |-> Cardinality({k \in both : Score(m2, k) > Score(m1, k)}),
         unchanged |-> Cardinality({k \in both : Score(m2, k) = Score(m1, k)}),
         documents |-> Deltas(DocumentRows(Values(m1)), DocumentRows(Values(m2))),
         evals     |-> Deltas(Rows(m1), Rows(m2))]

(* display_only_in_first, and _second with the maps exchanged: by          *)
(* fingerprint, not by key.                                                *)
OnlyIn(m1, m2) ==
    {r \in Values(m1) : /\ r.fingerprint # NoFingerprint
                        /\ \A s \in Values(m2) : s.fingerprint # r.fingerprint}

=============================================================================
