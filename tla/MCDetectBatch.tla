--------------------------- MODULE MCDetectBatch ----------------------------
(* Instances of DetectBatch and DetectReview for TLC. *)
EXTENDS DetectReview

FileAt(dir, stem, ext, zip) == [dir |-> dir, stem |-> stem, ext |-> ext, zip |-> zip]

(* Names that none of the naming rules confuses. *)
DistinctFiles ==
    {FileAt("x", "a", "jsonl", "gz"), FileAt("x", "b", "jsonl", "none"),
     FileAt("y", "c", "json", "zst")}

(* One base name in two directories. *)
SameName == {FileAt("x", "a", "jsonl", "gz"), FileAt("y", "a", "jsonl", "gz")}

(* No file is cut into more than two. *)
TwoPieces  == [f \in Files |-> 2]

(* No finding, one instance on two lines, and two on one line with one key. *)
SomeFindings == {{}, {<<0, "r">>, <<1, "r">>}, {<<1, "p">>, <<1, "q">>}}

(* q is on the line of p in the file of another split. *)
Eval(suite, line, instance, split, score, matches, fingerprint) ==
    [training_file |-> "", training_line |-> 0, eval_dataset |-> suite, eval_line |-> line,
     eval_instance_index |-> instance, split |-> split, contamination_score |-> score,
     ngram_match_cnt |-> matches, fingerprint |-> fingerprint]
SomeEvals ==
    [p |-> Eval("mmlu", 1, 0, "test", 9, 12, "a"), q |-> Eval("mmlu", 1, 1, "dev", 5, 501, "b"),
     r |-> Eval("gsm8k", 1, 0, "test", 8, 5, NoFingerprint)]
SomeOptions ==
    {NoFilter, [NoFilter EXCEPT !.min_score = 8, !.min_length = 6], [NoFilter EXCEPT !.eval = "mmlu"]}

CONSTANTS t1, t2

Symm == Permutations({t1, t2})

=============================================================================
