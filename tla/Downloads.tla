----------------------------- MODULE Downloads -----------------------------
(***************************************************************************)
(* decon evals: the reference directory and the commands that fill it.     *)
(* execute_evals starts python/evals.py, which goes through the configured *)
(* suites: it copies the bundled ones and writes the others in chunks with *)
(* a ChunkedFileWriter, giving every record the next document id.          *)
(*                                                                         *)
(* One command runs at a time.  It may be killed at any step, a suite may  *)
(* fail to load, and an example may raise an exception.  A record stands   *)
(* for a line: its suite, split and example, its document id and its size. *)
(*                                                                         *)
(* A chunk's name is suite_split-number.  That no two suites and splits    *)
(* meet in one name holds of the shipped evals.yaml; the module takes it   *)
(* for every configuration.                                                *)
(***************************************************************************)
EXTENDS Integers, SequencesExt, FiniteSetsExt

CONSTANTS
    SuiteOrder,    \* the suites in the order of config/evals.yaml
    BundledConfig, \* suite -> the sequence of its configured splits
    Examples,      \* suite -> split -> its examples
    BundledFiles,  \* suite -> the files that are copied for it
    ChunkSize,     \* CHUNK_SIZE_BYTES
    FlushAt,       \* buffered lines that are written at once, 1000
    MaxCommands, MaxKills, MaxEdits,    \* bounds of the model
    NoConfig

(* Sums, and what a list has of the members of a set, in its order.        *)
SumOf(f) == MapThenSumSet(LAMBDA x : f[x], DOMAIN f)
Bytes(lines) == SumOf([k \in DOMAIN lines |-> lines[k].size])
Chosen(s, S) == FlattenSeq([k \in DOMAIN s |-> IF s[k] \in S THEN <<s[k]>> ELSE <<>>])

(* The bundled files were written by one download, so no id occurs twice,  *)
(* and are named for their suite.                                          *)
ASSUME BundledAssumption ==
    LET files == UNION {BundledFiles[e] : e \in DOMAIN BundledFiles}
    IN  /\ \A f \in files :
             /\ f.lines \in Seq(ToSet(f.lines))
             /\ \A k \in DOMAIN f.lines : f.lines[k].command = 0 /\ f.lines[k].doc_id \in Nat
        /\ \A f, g \in files : \A k \in DOMAIN f.lines, l \in DOMAIN g.lines :
             f.lines[k].doc_id = g.lines[l].doc_id => f.file = g.file /\ k = l
        /\ \A f, g \in files : f.file = g.file => f = g
ASSUME BundleAssumption ==
    \A e \in DOMAIN BundledFiles :
        /\ IsFiniteSet(BundledFiles[e])
        /\ \A f \in BundledFiles[e] :
             /\ f.file.suite = e
             /\ \A k \in DOMAIN f.lines : f.lines[k].suite = e /\ f.lines[k].size \in Nat
             /\ Len(f.lines) > 1 => Bytes(f.lines) <= ChunkSize

(* The configuration lists no suite and no split of a suite twice; mode    *)
(* tells --download from the name of a suite.                              *)
ASSUME ConfigAssumption ==
    /\ SuiteOrder \in Seq(DOMAIN BundledConfig) /\ IsInjective(SuiteOrder)
    /\ ToSet(SuiteOrder) = DOMAIN BundledConfig /\ "download" \notin DOMAIN BundledConfig
    /\ \A e \in DOMAIN BundledConfig :
          BundledConfig[e] \in Seq(ToSet(BundledConfig[e])) /\ IsInjective(BundledConfig[e])
ASSUME ExamplesAssumption ==
    /\ DOMAIN BundledConfig \subseteq DOMAIN BundledFiles \cup DOMAIN Examples
    /\ \A e \in DOMAIN Examples : \A s \in DOMAIN Examples[e] : Examples[e][s] \in Seq(Seq(Nat))

ASSUME NumbersAssumption == FlushAt \in Nat /\ ChunkSize \in Nat /\ MaxCommands \in Nat

VARIABLES
    dir,       \* the reference directory: file -> its lines
    userConfig,\* ~/.local/share/decon/evals.yaml
    pc,        \* where the running command stands
    mode,      \* "download", or the suite of --eval
    todo,      \* suites still to be processed
    splits,    \* splits of the suite still to be processed
    copies,    \* bundled files still to be copied
    rest,      \* records of the split still to be made
    counter,   \* document_id_counter
    writer,    \* the ChunkedFileWriter
    failed,    \* failed_datasets
    result,    \* of the last command
    command,   \* number of the command
    kills, edits

place  == <<mode, todo, splits, copies, rest, failed>>
bounds == <<kills, edits>>
vars == <<dir, userConfig, pc, place, counter, writer, result, command, bounds>>

Config == IF userConfig = NoConfig THEN BundledConfig ELSE userConfig
Suite == Head(todo)
Bundled(e) == e \in DOMAIN BundledFiles

(* process_answers makes one record or more of an example; size 0 stands   *)
(* for one without a prompt.                                               *)
Entries(e, s) ==
    FlattenSeq([k \in DOMAIN Examples[e][s] |->
                  [j \in DOMAIN Examples[e][s][k] |->
                     [example |-> k, size |-> Examples[e][s][k][j]]]])

-----------------------------------------------------------------------------
(* ChunkedFileWriter, as functions of the directory and the writer.        *)

NewWriter(e, s) == [suite |-> e, split |-> s, chunk |-> 0, size |-> 0, buffer |-> <<>>]
Chunk(w) == [suite |-> w.suite, split |-> w.split, number |-> w.chunk]
Opened(w) == w.chunk > 0

With(d, f, lines) == [g \in DOMAIN d \cup {f} |-> IF g = f THEN lines ELSE d[g]]

(* _flush_buffer *)
Flush(x) ==
    IF Opened(x.writer)
      THEN [dir |-> With(x.dir, Chunk(x.writer), x.dir[Chunk(x.writer)] \o x.writer.buffer),
            writer |-> [x.writer EXCEPT !.buffer = <<>>]]
      ELSE x

\* Mutant: the last chunk is closed with its lines still in the buffer.
MutClose(x) == x

(* close *)
Close(x) == Flush(x)

(* _start_new_chunk; a file of that name is truncated. *)
StartNewChunk(x) ==
    LET y == Flush(x)
        w == [y.writer EXCEPT !.chunk = @ + 1, !.size = 0]
    IN  [dir |-> With(y.dir, Chunk(w), <<>>), writer |-> w]

(* write *)
Write(x, r) ==
    LET y == IF x.writer.size + r.size > ChunkSize \/ ~Opened(x.writer)
               THEN StartNewChunk(x) ELSE x
        z == [y EXCEPT !.writer.buffer = Append(@, r), !.writer.size = @ + r.size]
    IN  IF Len(z.writer.buffer) >= FlushAt THEN Flush(z) ELSE z

Files == [dir |-> dir, writer |-> writer]
Become(x) == dir' = x.dir /\ writer' = x.writer

-----------------------------------------------------------------------------
Init ==
    /\ dir = <<>> /\ userConfig = NoConfig
    /\ pc = "idle" /\ result = "none" /\ mode = "none"
    /\ todo = <<>> /\ splits = <<>> /\ copies = {} /\ rest = <<>> /\ failed = {}
    /\ counter = 1 /\ writer = NewWriter("none", "none")
    /\ command = 0 /\ kills = 0 /\ edits = 0

(* download_evals: the first command makes the user's copy of the          *)
(* configuration, if it can.                                               *)
CopyConfig ==
    \/ userConfig = NoConfig /\ userConfig' = BundledConfig
    \/ UNCHANGED userConfig

Begin(m, first, list) ==
    /\ pc = "idle" /\ command < MaxCommands
    /\ CopyConfig
    /\ command' = command + 1 /\ counter' = 1 /\ failed' = {}
    /\ mode' = m /\ pc' = first /\ todo' = list
    /\ UNCHANGED <<dir, splits, copies, rest, writer, bounds>>

(* --download comes first: a suite named beside it is ignored. *)
StartDownload ==
    /\ Begin("download", "clear", Chosen(SuiteOrder, DOMAIN Config))
    /\ result' = "running"

(* An unknown suite is reported and the script ends with status 0. *)
StartEval ==
    \E e \in ToSet(SuiteOrder) :
        IF e \in DOMAIN Config
          THEN Begin(e, "suite", <<e>>) /\ result' = "running"
          ELSE Begin(e, "idle", <<>>) /\ result' = "ok"

(* The user takes a suite or a split out of the copied configuration. *)
EditConfig ==
    /\ pc = "idle" /\ userConfig # NoConfig /\ edits < MaxEdits
    /\ \E e \in DOMAIN userConfig :
          \/ userConfig' = [d \in DOMAIN userConfig \ {e} |-> userConfig[d]]
          \/ Len(userConfig[e]) > 1 /\ userConfig' = [userConfig EXCEPT ![e] = Tail(@)]
    /\ edits' = edits + 1 /\ result' = "none"
    /\ UNCHANGED <<dir, pc, place, counter, writer, command, kills>>

\* Mutant: the old files stay.
MutClear ==
    /\ pc = "clear" /\ pc' = "suite"
    /\ UNCHANGED <<dir, userConfig, place, counter, writer, result, command, bounds>>

(* --download removes the whole directory and makes it again. *)
Clear ==
    /\ pc = "clear" /\ pc' = "suite" /\ dir' = <<>>
    /\ UNCHANGED <<userConfig, place, counter, writer, result, command, bounds>>

NextSuite ==
    /\ pc = "suite"
    /\ IF todo = <<>> THEN pc' = "idle" /\ result' = "ok" ELSE pc' = "load" /\ UNCHANGED result
    /\ UNCHANGED <<dir, userConfig, place, counter, writer, command, bounds>>

Load ==
    /\ pc = "load"
    /\ IF Bundled(Suite)
         THEN pc' = "copy" /\ copies' = BundledFiles[Suite] /\ UNCHANGED splits
         ELSE pc' = "split" /\ splits' = Config[Suite] /\ UNCHANGED copies
    /\ UNCHANGED <<dir, userConfig, mode, todo, rest, failed, counter, writer, result,
                   command, bounds>>

LoadFails ==
    /\ pc = "load" /\ pc' = "suite"
    /\ failed' = failed \cup {Suite} /\ todo' = Tail(todo)
    /\ UNCHANGED <<dir, userConfig, mode, splits, copies, rest, counter, writer, result,
                   command, bounds>>

(* Bundled files are copied as they are, with the ids they were given once.*)
Copy ==
    /\ pc = "copy"
    /\ IF copies = {}
         THEN pc' = "suite" /\ todo' = Tail(todo) /\ UNCHANGED <<dir, copies>>
         ELSE \E f \in copies : /\ dir' = With(dir, f.file, f.lines) /\ copies' = copies \ {f}
                                /\ UNCHANGED <<pc, todo>>
    /\ UNCHANGED <<userConfig, mode, splits, rest, failed, counter, writer, result, command,
                   bounds>>

\* Mutant: every split counts from one.
MutNextSplit ==
    /\ pc = "split"
    /\ \/ /\ splits = <<>> /\ pc' = "suite" /\ todo' = Tail(todo)
          /\ UNCHANGED <<splits, writer, rest, counter>>
       \/ /\ splits # <<>> /\ Head(splits) \notin DOMAIN Examples[Suite]
          /\ splits' = Tail(splits) /\ UNCHANGED <<pc, todo, writer, rest, counter>>
       \/ /\ splits # <<>> /\ Head(splits) \in DOMAIN Examples[Suite]
          /\ pc' = "record" /\ writer' = NewWriter(Suite, Head(splits)) /\ counter' = 1
          /\ rest' = Entries(Suite, Head(splits)) /\ UNCHANGED <<splits, todo>>
    /\ UNCHANGED <<dir, userConfig, mode, copies, failed, result, command, bounds>>

(* A split that the data set does not have is passed over. *)
NextSplit ==
    /\ pc = "split"
    /\ \/ /\ splits = <<>> /\ pc' = "suite" /\ todo' = Tail(todo)
          /\ UNCHANGED <<splits, writer, rest>>
       \/ /\ splits # <<>> /\ Head(splits) \notin DOMAIN Examples[Suite]
          /\ splits' = Tail(splits) /\ UNCHANGED <<pc, todo, writer, rest>>
       \/ /\ splits # <<>> /\ Head(splits) \in DOMAIN Examples[Suite]
          /\ pc' = "record" /\ writer' = NewWriter(Suite, Head(splits))
          /\ rest' = Entries(Suite, Head(splits)) /\ UNCHANGED <<splits, todo>>
    /\ UNCHANGED <<dir, userConfig, mode, copies, failed, counter, result, command, bounds>>

SkipEntry ==
    /\ pc = "record" /\ rest # <<>> /\ Head(rest).size = 0
    /\ rest' = Tail(rest)
    /\ UNCHANGED <<dir, userConfig, pc, mode, todo, splits, copies, failed, counter, writer,
                   result, command, bounds>>

WriteRecord ==
    /\ pc = "record" /\ rest # <<>> /\ Head(rest).size > 0
    /\ Become(Write(Files, [suite |-> Suite, split |-> Head(splits),
                              example |-> Head(rest).example, size |-> Head(rest).size,
                              doc_id |-> counter, command |-> command]))
    /\ counter' = counter + 1 /\ rest' = Tail(rest)
    /\ UNCHANGED <<userConfig, pc, mode, todo, splits, copies, failed, result, command, bounds>>

EndSplit ==
    /\ pc = "record" /\ rest = <<>>
    /\ Become(Close(Files))
    /\ pc' = "split" /\ splits' = Tail(splits)
    /\ UNCHANGED <<userConfig, mode, todo, copies, rest, failed, counter, result, command, bounds>>

(* An exception: on a local file that does not parse, or on an example,   *)
(* where the writer is closed before the script ends.                      *)
Raise ==
    /\ \/ pc = "load" /\ ~Bundled(Suite) /\ UNCHANGED <<dir, writer>>
       \/ pc = "record" /\ rest # <<>> /\ Become(Close(Files))
    /\ pc' = "idle" /\ result' = "error"
    /\ UNCHANGED <<userConfig, place, counter, command, bounds>>

(* The process is killed: the removal is half done, or the file being      *)
(* copied or written keeps the first of its lines.                         *)
Partial ==
    CASE pc = "clear" -> {[f \in keep |-> dir[f]] : keep \in SUBSET DOMAIN dir}
      [] pc = "copy"  -> {dir} \cup UNION {{With(dir, f.file, SubSeq(f.lines, 1, n)) :
                                       n \in 0 .. Len(f.lines)} : f \in copies}
      [] pc = "record" /\ Opened(writer) ->
            {With(dir, Chunk(writer), SubSeq(dir[Chunk(writer)], 1, n)) :
               n \in 0 .. Len(dir[Chunk(writer)])}
      [] OTHER -> {dir}

Kill ==
    /\ pc # "idle" /\ kills < MaxKills
    /\ dir' \in Partial
    /\ pc' = "idle" /\ result' = "error" /\ kills' = kills + 1
    /\ UNCHANGED <<userConfig, place, counter, writer, command, edits>>

Next ==
    \/ StartDownload \/ StartEval \/ EditConfig
    \/ Clear \/ NextSuite \/ Load \/ LoadFails \/ Copy
    \/ NextSplit \/ SkipEntry \/ WriteRecord \/ EndSplit
    \/ Raise \/ Kill

Spec == Init /\ [][Next]_vars

-----------------------------------------------------------------------------
(* decon evals without --download: the questions of each suite. *)

Records == UNION {{<<f, k>> : k \in DOMAIN dir[f]} : f \in DOMAIN dir}
Line(p) == dir[p[1]][p[2]]

(* collect_eval_stats *)
QuestionsOf(e) == Cardinality({p \in Records : Line(p).suite = e})

-----------------------------------------------------------------------------
(* Properties. *)

Ended == pc = "idle" /\ result = "ok"
Done  == {e \in DOMAIN Config : mode \in {"download", e} /\ e \notin failed}

Splits(e)   == ToSet(Config[e]) \cap DOMAIN Examples[e]
Made(e, s)  == Chosen(Entries(e, s), [example : Nat, size : Nat \ {0}])
Lines(f)    == IF f \in DOMAIN dir THEN dir[f] ELSE <<>>
Current(lines) == Chosen(lines, {r \in ToSet(lines) : r.command = command})
Total(e)    == IF Bundled(e) THEN SumOf([f \in BundledFiles[e] |-> Len(f.lines)])
               ELSE SumOf([s \in Splits(e) |-> Len(Made(e, s))])

\* What the last command has written of a split, chunk after chunk.
Kept(e, s) ==
    FlattenSeq([n \in 1 .. Cardinality(DOMAIN dir) |->
                  Current(Lines([suite |-> e, split |-> s, number |-> n]))])

\* One command gives no document id twice, over all its suites, splits, chunks
\* and expanded examples (document_id_counter, evals.py:845); ids can meet only
\* between two commands, or with the bundled files (command 0).
IdsUnique ==
    \A p, q \in Records :
        p # q /\ Line(p).doc_id = Line(q).doc_id => Line(p).command # Line(q).command

\* evals.py:16 says of doc_id "Unique document ID (incremental across all
\* processed datasets)", and the index keeps one document for an id.
DocIdsUnique ==
    \A p, q \in Records : p # q => Line(p).doc_id # Line(q).doc_id

Strip(lines) == [k \in DOMAIN lines |-> [example |-> lines[k].example, size |-> lines[k].size]]
LinesWhole ==
    Ended => \A e \in Done :
        IF Bundled(e) THEN \A f \in BundledFiles[e] : Lines(f.file) = f.lines
        ELSE \A s \in Splits(e) : Strip(Kept(e, s)) = Made(e, s)

ChunksFit ==
    \A f \in DOMAIN dir : Len(dir[f]) > 1 => Bytes(dir[f]) <= ChunkSize

\* A suite that a finished command has processed is there as a whole: no line is
\* lost or out of order where a buffer is flushed or a chunk ends, whatever
\* commands and kills came before, and no chunk outgrows CHUNK_SIZE_BYTES by more
\* than its first line, also when lines are still in the buffer as it is opened.
ChunksWhole == LinesWhole /\ ChunksFit

\* After --download, decon evals counts for every suite the records of this
\* download and nothing older, and none for a suite that failed or that the
\* configuration no longer has.  It holds because main removes the directory first
\* (evals.py:949-955).  doc/eval-datasets.md:121 says otherwise: "decon does not
\* provide any facility for overwriting or deleting eval datasets.  So you must
\* manually clear a directory ... if you want to remove entries already present."
StatsComplete ==
    Ended /\ mode = "download" =>
        \A e \in ToSet(SuiteOrder) : QuestionsOf(e) = IF e \in Done THEN Total(e) ELSE 0

=============================================================================
