----------------------------- MODULE MCSettings -----------------------------
(* Instances of Settings for TLC. *)
EXTENDS Settings, TLC

Values ==
    [mode |-> {"other"}, ngram_size |-> {3}, training_dir |-> {"t"}, evals_dir |-> {"e"},
     report_output_dir |-> {"r"}, cleaned_output_dir |-> {"c"}, purify |-> {TRUE},
     sample_every_m_tokens |-> {0, 1}, contamination_score_threshold |-> {<<3, 10>>, <<1, 2>>},
     perfect_match_decay_start |-> {60}, perfect_match_decay_end |-> {10, 70},
     eval_dedup |-> {TRUE}, verbose |-> {TRUE}]
InFile == [Values EXCEPT !.purify = {FALSE, TRUE}, !.eval_dedup = {FALSE},
                         !.perfect_match_decay_start = {60, Unset}]

Single(values, o) == {o :> v : v \in values[o]}
Pair(values, o, p) == {x @@ y : x \in Single(values, o), y \in Single(values, p)}
Directories == [training_dir |-> "t", evals_dir |-> "bundled-evals", report_output_dir |-> "r"]

\* A file has the three directories and one more option, or two; or lacks one
\* of the directories.
Files == {NoFile, Broken}
           \cup {f @@ Directories : f \in UNION {Single(InFile, o) : o \in DOMAIN InFile}}
           \cup {f @@ Directories : f \in Pair(InFile, "purify", "cleaned_output_dir")}
           \cup {[Directories EXCEPT !.training_dir = ""]}
           \cup {[o \in DOMAIN Directories \ {d} |-> Directories[o]] : d \in DOMAIN Directories}

\* Up to two options, or one with the three directories; mode is none.
Named == DOMAIN Values \ {"mode"}
Args ==
    {<<>>} \cup UNION {Pair(Values, o, p) : o, p \in Named}
      \cup {f @@ [Directories EXCEPT !.evals_dir = "e"] :
               f \in UNION {Single(Values, o) : o \in Named}}

Good == [d \in {"", ".", "t", "e", "bundled-evals", "references"} |->
            IF d \in {"", "references"} THEN "missing" ELSE "data"]
Disks == {Good} \cup {[Good EXCEPT ![d] = x] :
            d \in {"t", "bundled-evals", "references"},
            x \in {"missing", "file", "empty", "data", "nested", "archive"}}

Input(command, file, args, disk, unwritable) ==
    [command |-> command, file |-> file, args |-> args, disk |-> disk, unwritable |-> unwritable]

Commands == {"detect", "server"}

\* Every file with all options, every disk with some of them.
Cases ==
    {Input(c, f, a, Good, {}) : c \in Commands, f \in Files, a \in Args}
      \cup {Input(c, f, a, d, u) :
               c \in Commands, d \in Disks, u \in {{}, {"c"}, {"r"}},
               f \in {NoFile, Directories, [purify |-> TRUE] @@ Directories},
               a \in {<<>>} \cup Pair(Values, "purify", "cleaned_output_dir")
                       \cup Pair(Values, "evals_dir", "training_dir")}

=============================================================================
