----------------------------- MODULE DetectRun ------------------------------
(***************************************************************************)
(* What decon detect promises its user, without threads, file names and    *)
(* intermediate states: every training file is dealt with once, alone and  *)
(* at one moment; then the sums of what was reported are shown; then every *)
(* file is copied once, without the lines reported for it.                 *)
(* DetectBatch.tla is shown to implement it.                               *)
(***************************************************************************)
EXTENDS FiniteSets

CONSTANTS
    Files, Findings,
    Purify,      \* config.purify
    Faults       \* a file may fail

VARIABLES
    hits,        \* what there is to find in each file
    left,        \* files still to be dealt with in this stage
    reported,    \* files with a finished report
    copies,      \* the finished copies: {} or {<<the file, the lines left out>>}
    stage,       \* "detect", "purify", "done"
    shown        \* the sums displayed

rvars == <<hits, left, reported, copies, stage, shown>>

Lines(found) == {e[1] : e \in found}

Sums(R) ==
    [contaminations |-> Cardinality(UNION {{f} \X hits[f] : f \in R}),
     documents      |-> Cardinality(R),
     lines          |-> Cardinality(UNION {{f} \X Lines(hits[f]) : f \in R})]

RunInit ==
    /\ hits \in [Files -> Findings]
    /\ left = Files
    /\ reported = {}
    /\ copies = [f \in Files |-> {}]
    /\ stage = "detect"
    /\ shown = [contaminations |-> 0, documents |-> 0, lines |-> 0]

DealWith(f) == f \in left /\ left' = left \ {f}

(* A contaminated file gets its report, unless it fails. *)
Report(f) ==
    /\ stage = "detect" /\ DealWith(f)
    /\ \/ hits[f] # {} /\ reported' = reported \cup {f}
       \/ (hits[f] = {} \/ Faults) /\ UNCHANGED reported
    /\ UNCHANGED <<hits, copies, stage, shown>>

Show ==
    /\ stage = "detect" /\ left = {}
    /\ shown' = Sums(reported)
    /\ stage' = IF Purify THEN "purify" ELSE "done"
    /\ left' = IF Purify THEN Files ELSE {}
    /\ UNCHANGED <<hits, reported, copies>>

Copy(f) ==
    /\ stage = "purify" /\ DealWith(f)
    /\ \/ copies' = [copies EXCEPT ![f] =
                       {<<f, IF f \in reported THEN Lines(hits[f]) ELSE {}>>}]
       \/ Faults /\ UNCHANGED copies
    /\ UNCHANGED <<hits, reported, stage, shown>>

Finish ==
    /\ stage = "purify" /\ left = {}
    /\ stage' = "done"
    /\ UNCHANGED <<hits, left, reported, copies, shown>>

RunNext == (\E f \in Files : Report(f) \/ Copy(f)) \/ Show \/ Finish

RunSpec == RunInit /\ [][RunNext]_rvars

=============================================================================
