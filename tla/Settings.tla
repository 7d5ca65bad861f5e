------------------------------ MODULE Settings ------------------------------
(***************************************************************************)
(* How a run comes by its settings.  There are two front ends, written     *)
(* apart: the command line (execute_detect, execute_server) and the Python *)
(* bindings (decon-py).  Both take the same configuration file and the     *)
(* same options here, and the module follows them side by side up to the   *)
(* start of the run.                                                       *)
(*                                                                         *)
(* Settings are records of options.  ngram_size stands for the options     *)
(* that are only copied, a path for the directory it names.                *)
(***************************************************************************)
EXTENDS Scoring

CONSTANTS
    Inputs,      \* command, file, options, and what is on the disk
    NoFile,      \* no configuration file is given
    Broken,      \* it cannot be read, or is no record of options
    None         \* no cleaned_output_dir, no run yet

VARIABLES
    input,      \* command, file, args, disk, unwritable
    phase,      \* of each front end
    settings,   \* the Config it has in hand
    todo,       \* options that the Python program has not set yet
    run,        \* the Config that the run is given
    made        \* parents of output directories that exist for the run

vars == <<input, phase, settings, todo, run, made>>

FrontEnds == {"cli", "python"}

-----------------------------------------------------------------------------
(* create_default_config; both front ends compute the minimum later. *)
Default ==
    [mode |-> "simple", ngram_size |-> 5, training_dir |-> "", evals_dir |-> "bundled-evals",
     report_output_dir |-> "temporary", cleaned_output_dir |-> None, purify |-> FALSE,
     sample_every_m_tokens |-> 10, contamination_score_threshold |-> <<4, 5>>,
     minimum_question_idf_threshold |-> Zero, perfect_match_decay_start |-> 20,
     perfect_match_decay_end |-> 50, eval_dedup |-> TRUE, verbose |-> FALSE]

Options == DOMAIN Default

ASSUME NamesAssumption == NoFile # Broken /\ None # "temporary-cleaned"

(* What a caller may submit to both front ends: not the derived minimum,   *)
(* and purify only to turn it on.  Counts are not negative.                *)
ASSUME InputsAssumption ==
    \A i \in Inputs :
        /\ i.command \in {"detect", "server"}
        /\ \A given \in {i.args} \cup ({i.file} \ {NoFile, Broken}) :
             /\ "sample_every_m_tokens" \in DOMAIN given => given.sample_every_m_tokens \in Nat
             /\ "purify" \in DOMAIN given => given.purify \in BOOLEAN
        /\ DOMAIN i.args \subseteq Options \ {"minimum_question_idf_threshold"}
        /\ "purify" \in DOMAIN i.args => i.args.purify = TRUE
        /\ "training_dir" \in DOMAIN i.args => i.args.training_dir # ""
        /\ "cleaned_output_dir" \in DOMAIN i.args => i.args.cleaned_output_dir # None

(* The settings s with the values that given has. *)
With(s, given) == [o \in Options |-> IF o \in DOMAIN given THEN given[o] ELSE s[o]]

(* read_config, whose error is a panic: a file without one of the three    *)
(* directories does not parse; what else it leaves out has its default.    *)
RequiredDirs == {"training_dir", "evals_dir", "report_output_dir"}
Unreadable ==
    \/ input.file = Broken
    \/ input.file # NoFile /\ ~(RequiredDirs \subseteq DOMAIN input.file)
FromFile == With(Default, input.file)

(* update_minimum_question_idf_threshold *)
Current(s) ==
    [s EXCEPT !.minimum_question_idf_threshold =
                  MinimumQuestion(s.contamination_score_threshold)]

(* normalize_sample_every_m_tokens *)
Sampled(s) == [s EXCEPT !.sample_every_m_tokens = IF @ < 1 THEN 1 ELSE @]

(* A run that removes lines needs a place for the cleaned files. *)
WithCleanedDir(s) ==
    [s EXCEPT !.cleaned_output_dir = IF s.purify /\ @ = None THEN "temporary-cleaned" ELSE @]

(* check_dir_for_data_files: also in the directories below. *)
HasData(dir) == input.disk[dir] \in {"data", "nested"}

(* Files .jsonl or .gz directly in the user's references, whatever is in   *)
(* the archive.                                                            *)
HasReferences == input.disk["references"] \in {"data", "archive"}

(* validate_config *)
Valid(s) ==
    /\ HasData(s.training_dir) /\ HasData(s.evals_dir)
    /\ s.sample_every_m_tokens >= 1
    /\ Unset \in {s.perfect_match_decay_start, s.perfect_match_decay_end}
         \/ s.perfect_match_decay_end >= s.perfect_match_decay_start

Outputs(s) == {s.report_output_dir}
                \cup (IF s.purify /\ s.cleaned_output_dir # None THEN {s.cleaned_output_dir}
                                                                 ELSE {})

(* validate_server_config *)
ValidServer(s) == HasData(s.evals_dir) /\ Outputs(s) \cap input.unwritable = {}

(* The parent of the report directory is made first, then the other one.   *)
Made(s) == IF HasData(s.evals_dir) /\ s.report_output_dir \notin input.unwritable
             THEN Outputs(s) \ input.unwritable ELSE {}

-----------------------------------------------------------------------------
Init ==
    /\ input \in Inputs
    /\ phase = [f \in FrontEnds |-> "load"]
    /\ settings = [f \in FrontEnds |-> Default]
    /\ todo = DOMAIN input.args
    /\ run = [f \in FrontEnds |-> None]
    /\ made = [f \in FrontEnds |-> {}]

Becomes(f, p) == phase' = [phase EXCEPT ![f] = p]
Holds(f, s) == settings' = [settings EXCEPT ![f] = s]

(* The front end gives the settings s to a run, or refuses them. *)
Give(f, s, valid) ==
    /\ Becomes(f, IF valid THEN "given" ELSE "refused")
    /\ run' = [run EXCEPT ![f] = IF valid THEN s ELSE None]
    /\ UNCHANGED <<input, settings, todo>>

-----------------------------------------------------------------------------
(* The command line. *)

CliLoad ==
    /\ phase["cli"] = "load"
    /\ Becomes("cli", IF Unreadable THEN "panic" ELSE "override")
    /\ Holds("cli", IF input.file = NoFile \/ Unreadable THEN Default ELSE FromFile)
    /\ UNCHANGED <<input, todo, run, made>>

(* The directory of the references: the option, or what the user has       *)
(* downloaded, or what the file or the default says.                       *)
EvalsDir(s) ==
    IF "evals_dir" \in DOMAIN input.args THEN input.args.evals_dir
    ELSE IF HasReferences THEN "references" ELSE s.evals_dir

\* Mutant of Overridden: the minimum is computed before the options.
MutOverridden(s) ==
    [Sampled(With(Current(s), input.args)) EXCEPT
        !.evals_dir = EvalsDir(s), !.purify = "purify" \in DOMAIN input.args]

(* apply_common_detection_overrides: purify is what the option says also   *)
(* when it is not submitted.                                               *)
Overridden(s) ==
    Current([Sampled(With(s, input.args)) EXCEPT
                !.evals_dir = EvalsDir(s), !.purify = "purify" \in DOMAIN input.args])

CliOverride ==
    /\ phase["cli"] = "override"
    /\ Holds("cli", Overridden(settings["cli"]))
    /\ Becomes("cli", "check")
    /\ UNCHANGED <<input, todo, run, made>>

(* execute_detect *)
CliDetect ==
    /\ phase["cli"] = "check" /\ input.command = "detect"
    /\ LET s == settings["cli"]
       IN  Give("cli", WithCleanedDir(s), s.training_dir # "" /\ Valid(s))
    /\ UNCHANGED made

\* A server needs no training directory; "." is only a placeholder.
Placed(s) == [s EXCEPT !.training_dir = IF @ = "" THEN "." ELSE @]

(* execute_server *)
CliServer ==
    /\ phase["cli"] = "check" /\ input.command = "server"
    /\ LET s == Placed(settings["cli"])
       IN  /\ Give("cli", s, ValidServer(s))
           /\ made' = [made EXCEPT !["cli"] = Made(s)]

-----------------------------------------------------------------------------
(* The Python bindings. *)

\* Mutant of PyRead: the minimum is left as the file's reader leaves it.
MutPyRead ==
    /\ phase["python"] = "load" /\ input.file # NoFile
    /\ Becomes("python", IF Unreadable THEN "panic" ELSE "set")
    /\ Holds("python", IF Unreadable THEN Current(Default) ELSE FromFile)
    /\ UNCHANGED <<input, todo, run, made>>

(* read_config *)
PyRead ==
    /\ phase["python"] = "load" /\ input.file # NoFile
    /\ Becomes("python", IF Unreadable THEN "panic" ELSE "set")
    /\ Holds("python", Current(IF Unreadable THEN Default ELSE FromFile))
    /\ UNCHANGED <<input, todo, run, made>>

(* default_config *)
PyDefault ==
    /\ phase["python"] = "load" /\ input.file = NoFile
    /\ Becomes("python", "set")
    /\ Holds("python", Current(Default))
    /\ UNCHANGED <<input, todo, run, made>>

(* Config(...): the three directories are required. *)
PyNew ==
    /\ phase["python"] = "load" /\ input.file = NoFile
    /\ RequiredDirs \subseteq DOMAIN input.args
    /\ Becomes("python", "set")
    /\ Holds("python", Current(With(Default, input.args)))
    /\ todo' = {}
    /\ UNCHANGED <<input, run, made>>

\* The caller has set option o.
IsSet(o) ==
    /\ phase["python"] = "set" /\ o \in todo
    /\ todo' = todo \ {o}
    /\ UNCHANGED <<input, phase, run, made>>

(* A setter of Config. *)
PySet ==
    \E o \in todo \ {"contamination_score_threshold"} :
        /\ IsSet(o)
        /\ Holds("python", [settings["python"] EXCEPT ![o] = input.args[o]])

(* That of the threshold also sets the minimum. *)
PySetThreshold ==
    LET o == "contamination_score_threshold"
    IN  /\ IsSet(o)
        /\ Holds("python", Current([settings["python"] EXCEPT ![o] = input.args[o]]))

(* The copy of the Config that a call works on. *)
Copy == Sampled(Current(settings["python"]))

\* Mutant of PyDetect: validated before the copy is normalized.
MutPyDetect ==
    /\ phase["python"] = "set" /\ todo = {} /\ input.command = "detect"
    /\ Give("python", WithCleanedDir(Copy),
            Copy.training_dir # "" /\ Valid(settings["python"]))
    /\ UNCHANGED made

(* run_detection *)
PyDetect ==
    /\ phase["python"] = "set" /\ todo = {} /\ input.command = "detect"
    /\ LET s == WithCleanedDir(Copy)
       IN  Give("python", s, s.training_dir # "" /\ Valid(s))
    /\ UNCHANGED made

(* server *)
PyServer ==
    /\ phase["python"] = "set" /\ todo = {} /\ input.command = "server"
    /\ LET s == Placed(Copy)
       IN  /\ Give("python", s, ValidServer(s))
           /\ made' = [made EXCEPT !["python"] = Made(s)]

-----------------------------------------------------------------------------
(* contamination_detect_with_config, run_detect_with_config, run_server:   *)
(* the mode is looked at last, and the server has its cleaned directory    *)
(* from here.                                                              *)
Start(f) ==
    /\ phase[f] = "given"
    /\ Becomes(f, IF run[f].mode = "simple" THEN "running" ELSE "unsupported")
    /\ run' = [run EXCEPT ![f] = IF input.command = "server" THEN WithCleanedDir(@) ELSE @]
    /\ UNCHANGED <<input, settings, todo, made>>

Next ==
    \/ CliLoad \/ CliOverride \/ CliDetect \/ CliServer
    \/ PyRead \/ PyDefault \/ PyNew \/ PySet \/ PySetThreshold
    \/ PyDetect \/ PyServer
    \/ \E f \in FrontEnds : Start(f)

Spec == Init /\ [][Next]_vars

-----------------------------------------------------------------------------
(* Properties. *)

(* Whatever is read, set and copied in whatever order: the derived         *)
(* minimum_question_idf_threshold that a Python program can read from its  *)
(* Config fits the threshold that it can read.                             *)
NeverStale ==
    phase["python"] # "load" =>
        LET s == settings["python"]
        IN  s.minimum_question_idf_threshold = MinimumQuestion(s.contamination_score_threshold)

(* What the detection relies on, from whichever front end a run comes: it  *)
(* samples, its minimum fits its threshold, it has references, it does not *)
(* put cleaned files among the reports, and the values that the caller     *)
(* submitted are the ones in force.                                        *)
Runnable ==
    \A f \in FrontEnds : phase[f] = "running" =>
        LET r == run[f]
        IN  /\ r.sample_every_m_tokens >= 1
            /\ r.minimum_question_idf_threshold = MinimumQuestion(r.contamination_score_threshold)
            /\ HasData(r.evals_dir)
            /\ input.command = "detect" => HasData(r.training_dir)
            /\ r.purify => r.cleaned_output_dir # None
            /\ \A o \in DOMAIN input.args :
                  r[o] = input.args[o] \/ (o = "sample_every_m_tokens" /\ input.args[o] = 0)

\* The two front ends part ways: the command line prefers references that
\* the user has downloaded, and forgets purify in the file.
Parted ==
    \/ HasReferences /\ "evals_dir" \notin DOMAIN input.args
    \/ /\ input.file # NoFile /\ ~Unreadable /\ FromFile.purify
       /\ "purify" \notin DOMAIN input.args

Done(f) == phase[f] \in {"running", "refused", "unsupported", "panic"}

(* The same file and the same options, set in any order, lead both front   *)
(* ends to the same end and to the same settings, but where they part ways *)
(* (execute_detect and execute_server against run_detection and server).   *)
SameRun ==
    Done("cli") /\ Done("python") /\ ~Parted =>
        phase["cli"] = phase["python"] /\ run["cli"] = run["python"] /\ made["cli"] = made["python"]

=============================================================================
