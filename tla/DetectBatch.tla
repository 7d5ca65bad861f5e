---------------------------- MODULE DetectBatch -----------------------------
(***************************************************************************)
(* decon detect over a directory (detect_simple_contamination): the        *)
(* training files are processed in parallel, each contaminated one gets a  *)
(* report and an entry in contaminated_files, and after all of them, with  *)
(* --purify, every file is copied without the lines recorded there.        *)
(*                                                                         *)
(* What detection finds in a file is a constant of the run (hits); the     *)
(* naming rules of reports, purified files and contaminated_files are      *)
(* those of the code, on names split into their parts.                     *)
(***************************************************************************)
EXTENDS Naturals, FiniteSets

CONSTANTS
    Files,     \* training_files: [dir, stem, ext, zip]; zip is "none" or gz, ...
    Findings,  \* what detection may find in a file: sets of <<line, eval>>
    Pieces,    \* into how many pieces newline bytes cut each file as it is stored
    Threads,   \* the rayon workers
    Purify,    \* config.purify
    Faults,    \* reading, reporting or purifying a file may fail
    NoFile

ASSUME NoFileAssumption  == NoFile \notin Files
ASSUME PiecesAssumption  == Pieces \in [Files -> Nat]
ASSUME PurifyAssumption  == Purify \in BOOLEAN
ASSUME FindingAssumption ==
    \A found \in Findings : IsFiniteSet(found) /\ found \subseteq Nat \X STRING

VARIABLES
    hits,          \* what detection finds in each file
    todo,          \* files of the parallel loop that no thread has begun
    pc, file,      \* where each thread stands, and with which file
    phase,         \* "detect", "purify", "done"
    reports,       \* report_output_dir: content by name
    purified,      \* cleaned_output_dir: content by name
    contaminated,  \* contaminated_files: base name -> lines
    total,         \* total_contaminations
    summary,       \* what contamination_detect displays
    faulted        \* history: files whose processing met an error

vars == <<hits, todo, pc, file, phase, reports, purified, contaminated, total,
          summary, faulted>>

-----------------------------------------------------------------------------
(* Names. *)

\* extract_base_filename: only gz, zst and zstd are taken off; no directory.
BaseName(f) ==
    [stem |-> f.stem, ext |-> f.ext,
     zip  |-> IF f.zip \in {"gz", "zst", "zstd"} THEN "none" ELSE f.zip]

\* generate_report_filename keeps the directory and takes off one extension.
ReportName(f) ==
    [dir |-> f.dir, name |-> IF f.zip = "none" THEN <<f.stem>> ELSE <<f.stem, f.ext>>]

\* generate_purified_filename cuts at ".jsonl", else takes off one extension.
PurifiedName(f) ==
    [dir  |-> f.dir,
     name |-> IF f.ext = "jsonl" \/ f.zip = "none" THEN <<f.stem>> ELSE <<f.stem, f.ext>>]

BaseNames     == {BaseName(f) : f \in Files}
ReportNames   == {ReportName(f) : f \in Files}
PurifiedNames == {PurifiedName(f) : f \in Files}

LinesOf(found) == {e[1] : e \in found}
AllLines == UNION {LinesOf(found) : found \in Findings}
AllEntries == UNION Findings

(* The content of an output file: which copies went into it, as pairs of   *)
(* the input and its lines, and whether the last writer finished: every    *)
(* line is handed over and flushed.  The trailer of a gz copy is written   *)
(* when the encoder is dropped, which tells nobody of an error, and is not *)
(* part of it.                                                             *)
Absent == [by |-> {}, whole |-> FALSE]

-----------------------------------------------------------------------------

Init ==
    /\ hits \in [Files -> Findings]
    /\ todo = Files
    /\ pc = [t \in Threads |-> "idle"]
    /\ file = [t \in Threads |-> NoFile]
    /\ phase = "detect"
    /\ reports = [n \in ReportNames |-> Absent]
    /\ purified = [n \in PurifiedNames |-> Absent]
    /\ contaminated = [n \in BaseNames |-> {}]
    /\ total = 0
    /\ summary = [contaminations |-> 0, documents |-> 0, lines |-> 0]
    /\ faulted = {}

Goto(t, place) == pc' = [pc EXCEPT ![t] = place]

Idle(t) ==
    /\ Goto(t, "idle")
    /\ file' = [file EXCEPT ![t] = NoFile]

(* An error is printed and the thread goes on with another file. *)
Fail(t) ==
    /\ Faults
    /\ faulted' = faulted \cup {file[t]}
    /\ Idle(t)

Begin(t, place) ==
    /\ pc[t] = "idle"
    /\ \E f \in todo :
         /\ todo' = todo \ {f}
         /\ file' = [file EXCEPT ![t] = f]
    /\ Goto(t, place)

(* Files that other threads have open under the same name. *)
Writing(t, place, Name(_)) ==
    {u \in Threads \ {t} : pc[u] = place /\ Name(file[u]) = Name(file[t])}

BeginDetect(t) ==
    /\ phase = "detect"
    /\ Begin(t, "detect")
    /\ UNCHANGED <<hits, phase, reports, purified, contaminated, total, summary,
                   faulted>>

(* process_simple_training_file and the test for an empty result. *)
Detect(t) ==
    /\ pc[t] = "detect"
    /\ \/ /\ IF hits[file[t]] = {} THEN Idle(t)
                                  ELSE Goto(t, "report") /\ UNCHANGED file
          /\ UNCHANGED faulted
       \/ Fail(t)
    /\ UNCHANGED <<hits, todo, phase, reports, purified, contaminated, total, summary>>

(* save_contamination_results creates the report, which empties a report   *)
(* of that name, and writes it.                                            *)
Report(f) == <<f, LinesOf(hits[f])>>

OpenReport(t) ==
    /\ pc[t] = "report"
    /\ \/ /\ reports' = [reports EXCEPT ![ReportName(file[t])] =
                 [by    |-> {Report(file[u]) : u \in {t} \cup Writing(t, "reporting", ReportName)},
                  whole |-> FALSE]]
          /\ Goto(t, "reporting")
          /\ UNCHANGED <<file, faulted>>
       \/ Fail(t) /\ UNCHANGED reports
    /\ UNCHANGED <<hits, todo, phase, purified, contaminated, total, summary>>

\* Mutant of FinishReport: an error in writing the report is ignored.
MutFinishReport(t) ==
    /\ pc[t] = "reporting"
    /\ \/ /\ reports' = [reports EXCEPT ![ReportName(file[t])].whole = TRUE]
          /\ UNCHANGED faulted
       \/ Faults /\ faulted' = faulted \cup {file[t]} /\ UNCHANGED reports
    /\ Goto(t, "count")
    /\ UNCHANGED <<hits, todo, file, phase, purified, contaminated, total, summary>>

FinishReport(t) ==
    /\ pc[t] = "reporting"
    /\ \/ /\ reports' = [reports EXCEPT ![ReportName(file[t])].whole = TRUE]
          /\ Goto(t, "count")
          /\ UNCHANGED <<file, faulted>>
       \/ Fail(t) /\ UNCHANGED reports
    /\ UNCHANGED <<hits, todo, phase, purified, contaminated, total, summary>>

\* Mutant of Count: the entries are counted as add_contaminations_found does,
\* one for the file.
MutCount(t) ==
    /\ pc[t] = "count"
    /\ total' = total + 1
    /\ Goto(t, "record")
    /\ UNCHANGED <<hits, todo, file, phase, reports, purified, contaminated,
                   summary, faulted>>

(* update_contamination_count: one atomic addition. *)
Count(t) ==
    /\ pc[t] = "count"
    /\ total' = total + Cardinality(hits[file[t]])
    /\ Goto(t, "record")
    /\ UNCHANGED <<hits, todo, file, phase, reports, purified, contaminated,
                   summary, faulted>>

(* contaminated_files.insert, which replaces an entry of the same name. *)
Record(t) ==
    /\ pc[t] = "record"
    /\ contaminated' =
         [contaminated EXCEPT ![BaseName(file[t])] = LinesOf(hits[file[t]])]
    /\ Idle(t)
    /\ UNCHANGED <<hits, todo, phase, reports, purified, total, summary, faulted>>

AllIdle == \A t \in Threads : pc[t] = "idle"
Recorded == {n \in BaseNames : contaminated[n] # {}}
RecordedLines == {p \in BaseNames \X AllLines : p[2] \in contaminated[p[1]]}

\* Mutant of EndDetection: the summary and the purification start when the last
\* file has been begun.
MutEndDetection ==
    /\ phase = "detect" /\ todo = {}
    /\ phase' = IF Purify THEN "purify" ELSE "done"
    /\ todo' = IF Purify THEN Files ELSE todo
    /\ summary' = [contaminations |-> total,
                   documents      |-> Cardinality(Recorded),
                   lines          |-> Cardinality(RecordedLines)]
    /\ UNCHANGED <<hits, pc, file, reports, purified, contaminated, total, faulted>>

(* The parallel loop has ended: the sums are read, then the copies begin. *)
EndDetection ==
    /\ phase = "detect" /\ todo = {} /\ AllIdle
    /\ phase' = IF Purify THEN "purify" ELSE "done"
    /\ todo' = IF Purify THEN Files ELSE todo
    /\ summary' = [contaminations |-> total,
                   documents      |-> Cardinality(Recorded),
                   lines          |-> Cardinality(RecordedLines)]
    /\ UNCHANGED <<hits, pc, file, reports, purified, contaminated, total, faulted>>

-----------------------------------------------------------------------------
(* create_purified_files_streaming: a parallel loop over all files again.  *)

BeginPurify(t) ==
    /\ phase = "purify"
    /\ Begin(t, "purify")
    /\ UNCHANGED <<hits, phase, reports, purified, contaminated, total, summary,
                   faulted>>

\* Mutant of Copy: contaminated_files is asked for the full name.
MutCopy(f) == <<f, IF f.zip = "none" THEN contaminated[BaseName(f)] ELSE {}>>

(* The lines left out: those recorded for the base name.  A bz2 or xz file *)
(* is not decompressed here: what is left out is pieces of the compressed  *)
(* bytes, counted as the lines are, after which no line can be read; if it *)
(* has no piece of those numbers the copy is all of it, compressed.        *)
Packed(f) == f.zip \in {"bz2", "xz"}
Cut(f) == \E line \in contaminated[BaseName(f)] : line < Pieces[f]
Copy(f) == <<f, CASE ~Packed(f)          -> contaminated[BaseName(f)]
                  [] Packed(f) /\ Cut(f) -> AllLines
                  [] OTHER               -> {}>>

OpenPurified(t) ==
    /\ pc[t] = "purify"
    /\ \/ /\ purified' = [purified EXCEPT ![PurifiedName(file[t])] =
                 [by    |-> {Copy(file[u]) : u \in {t} \cup Writing(t, "purifying", PurifiedName)},
                  whole |-> FALSE]]
          /\ Goto(t, "purifying")
          /\ UNCHANGED <<file, faulted>>
       \/ Fail(t) /\ UNCHANGED purified
    /\ UNCHANGED <<hits, todo, phase, reports, contaminated, total, summary>>

FinishPurified(t) ==
    /\ pc[t] = "purifying"
    /\ \/ /\ purified' = [purified EXCEPT ![PurifiedName(file[t])].whole = TRUE]
          /\ Idle(t)
          /\ UNCHANGED faulted
       \/ Fail(t) /\ UNCHANGED purified
    /\ UNCHANGED <<hits, todo, phase, reports, contaminated, total, summary>>

EndPurify ==
    /\ phase = "purify" /\ todo = {} /\ AllIdle
    /\ phase' = "done"
    /\ UNCHANGED <<hits, todo, pc, file, reports, purified, contaminated, total,
                   summary, faulted>>

Thread(t) ==
    \/ BeginDetect(t) \/ Detect(t) \/ OpenReport(t) \/ FinishReport(t)
    \/ Count(t) \/ Record(t)
    \/ BeginPurify(t) \/ OpenPurified(t) \/ FinishPurified(t)

Next == (\E t \in Threads : Thread(t)) \/ EndDetection \/ EndPurify

Spec == Init /\ [][Next]_vars

-----------------------------------------------------------------------------
(* Properties. *)

Places == {"idle", "detect", "report", "reporting", "count", "record",
           "purify", "purifying"}
Contents == [by : SUBSET (Files \X SUBSET AllLines), whole : BOOLEAN]

TypeOK ==
    /\ hits \in [Files -> Findings]
    /\ todo \subseteq Files
    /\ pc \in [Threads -> Places]
    /\ file \in [Threads -> Files \cup {NoFile}]
    /\ \A t \in Threads : pc[t] = "idle" <=> file[t] = NoFile
    /\ phase \in {"detect", "purify", "done"}
    /\ reports \in [ReportNames -> Contents]
    /\ purified \in [PurifiedNames -> Contents]
    /\ contaminated \in [BaseNames -> SUBSET AllLines]
    /\ total \in Nat
    /\ faulted \subseteq Files

DistinctNames ==
    \A f, g \in Files : \/ BaseName(f) = BaseName(g)
                        \/ ReportName(f) = ReportName(g)
                        \/ PurifiedName(f) = PurifiedName(g)
                       => f = g

Reported(f) == reports[ReportName(f)] = [by |-> {Report(f)}, whole |-> TRUE]

(* What a reader sees of a run is one story: a purified file lacks exactly *)
(* the lines that the file's report lists, whatever the threads did at the *)
(* same time and wherever an error struck; a file without a report (clean, *)
(* or met by an error) is copied in full.  So no clean line is ever lost.  *)
PurifiedMatchesReport ==
    \A f \in Files :
        purified[PurifiedName(f)].whole =>
            purified[PurifiedName(f)].by =
                {<<f, IF Reported(f) THEN LinesOf(hits[f]) ELSE {}>>}

(* The displayed sums are those of the reports on disk, of all of them:    *)
(* the parallel additions and insertions are complete when they are read.  *)
SummaryMatchesReports ==
    LET files == {f \in Files : Reported(f)}
    IN  phase # "detect" =>
            summary = [contaminations |-> Cardinality({p \in files \X AllEntries :
                                                         p[2] \in hits[p[1]]}),
                       documents      |-> Cardinality(files),
                       lines          |-> Cardinality({p \in files \X AllLines :
                                                         p[2] \in LinesOf(hits[p[1]])})]

(* "It is deterministic": a run without errors ends with the same reports, *)
(* copies and sums whatever the order of the threads: every contaminated   *)
(* file has its report and every file its copy.                            *)
Deterministic ==
    phase = "done" =>
        \A f \in Files \ faulted :
            /\ IF hits[f] = {} THEN reports[ReportName(f)] = Absent ELSE Reported(f)
            /\ Purify => purified[PurifiedName(f)] =
                            [by |-> {<<f, LinesOf(hits[f])>>}, whole |-> TRUE]

(* "Create a clean copy (contaminated documents removed) of your dataset"  *)
(* (README.md line 106): after a run without errors every file has a copy  *)
(* from which its contaminated lines are gone.                             *)
CleanCopy ==
    phase = "done" /\ Purify /\ faulted = {} =>
        \A f \in Files : \E c \in purified[PurifiedName(f)].by :
            c[1] = f /\ LinesOf(hits[f]) \subseteq c[2]

(* Files that no thread has brought to their report, or to their copy.     *)
AtWork == {"detect", "report", "reporting", "purify", "purifying"}
Left == todo \cup {file[t] : t \in {u \in Threads : pc[u] \in AtWork}}

Run == INSTANCE DetectRun
         WITH left <- Left, reported <- {f \in Files : Reported(f)}, stage <- phase,
              shown <- summary,
              copies <- [f \in Files |-> IF purified[PurifiedName(f)].whole
                                         THEN purified[PurifiedName(f)].by ELSE {}]

(* The parallel run is one in which the files are dealt with one after the *)
(* other: a report is finished once and stays, none after the sums are     *)
(* shown, no copy before, and what the threads do to other files at the    *)
(* same time, or an error leaves half done, is not seen in either.         *)
ImplementsRun == Run!RunSpec

=============================================================================
