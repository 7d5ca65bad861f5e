---------------------------- MODULE MCDownloads ----------------------------
(* Instances of Downloads for TLC. *)
EXTENDS Downloads

Old(e, n, ids) ==
    [file |-> [suite |-> e, split |-> "train", number |-> n],
     lines |-> [k \in DOMAIN ids |->
                  [suite |-> e, split |-> "train", example |-> k, size |-> 1,
                   doc_id |-> ids[k], command |-> 0]]]

\* agi_eval is copied from two bundled files.  gsm8k has an example that is
\* expanded to two records, one without a prompt, and lines that fill a chunk
\* exactly; mmlu has a line as long as a chunk and a split that is missing.
Order  == <<"agi_eval", "gsm8k", "mmlu">>
Config0 == [agi_eval |-> <<"train">>, gsm8k |-> <<"train", "test">>, mmlu |-> <<"gone", "test">>]
Data   == [gsm8k |-> [train |-> <<<<1>>, <<1, 1>>, <<0>>, <<1>>>>, test |-> <<<<1, 0>>>>],
           mmlu  |-> [test |-> <<<<3>>, <<1>>>>]]
Copied == [agi_eval |-> {Old("agi_eval", 1, <<1, 2>>), Old("agi_eval", 2, <<3>>)}]

=============================================================================
