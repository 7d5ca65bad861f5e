# A TLA+ model of decon

decon finds evaluation data ("contamination") in training data. This directory holds TLA+ models
of its parts, TLC configurations that check them on small instances, and proofs checked by TLAPS.
Every definition is written from the source; `PROJECT.json` ("map") says from which lines.

## 1. The system

| part | code | state | operations | hard behaviour |
|---|---|---|---|---|
| job server | `crates/decon-core/src/server/core.rs` | table of jobs, bounded channel (100), one receiver behind a mutex, output files | POST /submit, GET /status, one task per worker, a blocking detection per job | suspension at every `await`, dropped requests, panics and errors half-way through the files, restarts that forget the table |
| orchestrator pipeline | `python/orchestration.py`, `_process_files` and its threads | two bounded queues, `active_jobs`, `files_remaining`, `threads_running`, S3, clean markers | batch download, submission, polling, batch upload, cleanup, shutdown | three threads with unsynchronised flags and counters, failing downloads and uploads, lost answers, signals |
| orchestrator workspace | `python/orchestration.py`, lock, listing, markers | lock file, `clean_markers.txt`, listing of the input, results in S3 | acquire, release, skip what is done, partition over hosts | two processes at once, crashes and restarts, names that do not round-trip |
| detection batch | `detect/detection.rs`, `detect/reporting.rs`, `common/file_io.rs` | `contaminated_files`, counters, reports, purified files | parallel processing of the files, a report per contaminated file, then a purified copy of each | parallel updates keyed by base name, errors between report and record |
| clusters | `detect/detection.rs` 717-800, `detect/cluster.rs` | scan position, per document matches, misses and boundaries | sampling, left and right traversal | interplay of sampling, jumps behind a cluster, hot n-grams and miss counts |
| boundaries and scoring | `detect/scoring.rs`, `answer_boundary.rs`, `passage_boundary.rs`, `contamination_entry.rs` | keys reported for a line | early exits, search for passage and answer, combined score, entries | off-by-one windows, early exits that must not acquit what the full score convicts, hash map order |
| reference index | `detect/reference_index.rs` | n-gram ids, document sets, frequencies, hot buckets, duplicates seen | parallel build, filters, deduplication, assembly | id allocation and deduplication raced by parallel files |
| configuration | `common/detection_config.rs`, `detect/config.rs`, `detect/args.rs`, `detect/common_args.rs`, `decon-py/src/lib.rs` | the settings each front end has in hand | file, defaults, options, setters, validation, start | a derived value stored beside its source, two front ends written apart |
| reference data | `python/evals.py`, `evals/core.rs` | the reference directory, the user's copy of the configuration, the id counter, the chunked writer | `--download`, `--eval`, statistics | buffers against chunk boundaries, kills, ids of several commands in one directory |
| compare and review | `compare/`, `review/` | none (functions of report files) | loading, filters, counts, differences | results that share a key, listing order, reports cut off |
| the rest | tokenizer, text normalisation, display | none | conversion, printing | none a model would show |

The orchestrator talks to the server by HTTP and through the local file system: it submits the
path of a downloaded file, polls the job's status and uploads the files that a completed answer
names. The server and the command line run the same detection on one file; the command line runs
it on all files in parallel and purifies afterwards. Detection reads the index, which is built from
the reference directory that `decon evals` fills. Compare and review read the reports that
detection leaves.

What makes each part correct:

* job server: every accepted job is in exactly one place, is run once and ends; a completed answer
  names whole files, all of them; a full channel delays clients and never loses them.
* orchestrator pipeline: no file is submitted twice or forgotten, the loop ends exactly when
  nothing is left, nothing is unlinked or marked clean before what it depends on is in S3.
* orchestrator workspace: one process per input at a time; what was found clean is skipped by the
  next run, and nothing else.
* detection batch: reports, purified copies and displayed sums agree, whatever the order of the
  threads and whatever fails; review and compare tell the same story of them.
* clusters: for each document the cluster holds exactly its n-grams between its boundaries; no
  document is dropped early; only the documented blind spot is missed.
* boundaries and scoring: the early exits exclude no entry that the full score would accept; the
  parts of an entry stand in order; each key is reported once.
* reference index: one id per n-gram, a document in every set it belongs to, one of a group of
  duplicates, the same index from every order of the files.
* configuration: a run never starts with a stale derived value or without what it relies on, and
  the same request starts the same run from both front ends.
* reference data: no id twice in one command, chunks whole, nothing older counted after a download.

## 2. The modules

### JobService, JobServer, JobServerProofs

`JobService` is what a client may rely on: answers of GET /status only advance (pending,
processing, completed or failed), a completed answer names exactly the whole files of the job, a
restart forgets every job and no file. Its state is what can be seen from outside: issued ids,
answers, output files.

`JobServer` is `server/core.rs` with one action per stretch of code between two awaits:

| code | state and actions |
|---|---|
| `submit_job`: insert, then `send().await` | `Submit`, `Enqueue` (waits while `queue` is full), `Disconnect` (axum drops the future of a closed connection: the job stays pending in the table) |
| `worker_loop`: lock the receiver, `recv().await`, first status update | `LockReceiver`, `Receive`, `MarkProcessing` |
| `process_single_file` in `spawn_blocking` | `Detect`, `OpenReport`, `FinishReport`, `OpenPurified`, `FinishPurified`; each may return an error, detection may panic |
| second status update | `Publish` with `Outcome` |
| `get_job_status` | `Reply`, an operator: it changes nothing |
| the process dies and is started again | `Crash`: table, channel, tasks are lost; files and ids stay |

The files' names contain the job id (a UUID never drawn twice), so `disk` maps a job to the state
of its two outputs: absent, partly written, whole.

### Orchestrator, OrchestratorProofs

The three threads of one run. `main`, `down` and `up` hold where each thread stands and its
locals; `downloadQueue` and `uploadQueue` are the two `queue.Queue`s, `remaining` is
`files_remaining`, `running` is `threads_running`. A `put` and the counter's decrement are two
actions, as are the two halves of the loop condition that reads the counter and then the queues.
Environment: s5cmd fails or leaves files out (`DownloadFaults`), POST /submit fails before or
after the server sees it, jobs end clean, with a report or failed, uploads fail after any part,
the server restarts (`ServerRestart`: its jobs become "unknown", whose answer has no status),
an output that the server has named is not on the disk (`OutputFaults`), SIGTERM comes at any time.
`Named` are the outputs that the server names, `Uploads` those of them that are there: what is
gone is logged and left out, and a job without a report to upload gets a clean marker (`CleanJobs`)
whatever was found. A file stands for its S3 key, its base name and its local path; the
sets the code fills with base names or keys hold files here. Ids, metrics and counters that are
only logged are left out. `Picked` is what a loop over a list keeps of it, in its order, `Without` a
`dict.pop`; they are stated by positions so that they can be reasoned about.

### Workspace, WorkspaceProofs

The directory that the processes of one input share on one host: the lock file, the choice of the
files and `clean_markers.txt`, over any number of processes that follow or meet each other.

| code | state and actions |
|---|---|
| `_acquire_lock`: exists, read, probe the pid, unlink, create, write | `Start`, `Test`, `Read`, `Probe`, `RemoveStale`, `Invalid`, `Discard`, `OpenLock`, `WriteLock`; `lock` is the file's content, `opened` says whose open file has not been unlinked since |
| `run` | `Health`, `List`, `Finish`, `DeleteMarkers`, `Release`, `Exit` |
| `_process_job_batch` | `Uploaded` or `UploadFailed` for a batch, then `Mark` for one clean file after the other |
| `_signal_handler` | `Signal`, which unlinks the lock file whoever's it is |
| SIGKILL, loss of the host | `Kill` at any place |

The pipeline in between is reduced to `Complete` (a job's result reaches the upload thread) and
`Fail`; that the main loop ends only when no file is on its way is `LoopExitComplete` of
`Orchestrator`. (A failed download makes the real loop endless; here such a run may also end,
which only adds behaviours.) Names are records of a directory, the parts of the file name between
dots, the extension and the compression; `MarkerOf`, `Processed`, `ReportKey` and `CleanedKey` do
with them what the code does with strings. `Outputs` are what the server names; a batch is uploaded
without those that are not on the disk, and each of its files without a report to upload gets a
marker (`CleanOf`). `done`, `marked`, `missing`, `raced` and `stray` are history variables: no action reads them except to extend them.

### DetectRun, DetectBatch, DetectBatchProofs, Reports, DetectReview

`DetectRun` is what `decon detect` promises, without threads, names and unfinished files: each file
is dealt with once, at one moment (`Report`); the sums of the reports are shown; each file is
copied, at one moment, without the lines reported for it (`Copy`).

`DetectBatch` is `decon detect`: `Threads` are the rayon workers, which take files from `todo` in
any order. For a contaminated file a thread writes the report, adds to the total and inserts the
file's lines into `contaminated_files`, in this order and as separate actions; an error at any
step leaves the rest out. `EndDetection` is the end of the parallel loop, where the sums are read.
The naming rules (`BaseName`, `ReportName`, `PurifiedName`) are those of the code on names split
into directory, stem, extension and compression. `Copy` is what the purifier makes of a file: it
decompresses gz and zst only, so that of a bz2 or xz file (`Packed`) it leaves out pieces of the
compressed bytes (`Cut`; `Pieces` says how many a file has). Two writers of one path are modelled as what they
are: the content is marked with both.

`Reports` is `decon review` and `decon compare` as functions of the report files: loading (one bad
line, and the file is skipped), the filters, every count that review shows, and compare's map by
`ContaminationKey`, its metrics, differences by key and differences by fingerprint.

`DetectReview` composes the two: the readers' functions are applied to the reports that a
detection run left behind, in every order of the results within a report (they come from hash
maps) and of the files in the listing; a report whose writing failed ends anywhere. A report has
one line for each entry, also when two of them are equal (`Orders`). What a report says of an
instance is a constant of the run (`Instance`), in the types in which the code writes it, an
evaluation without a split having "" for it.

### ClusterExpansion

The scan of one line and the expansion of each hit, one action per iteration of the code's loops.
A line is the sequence of the ids that the index gives its n-grams; the index maps ids to document
sets and names the hot ones. `Visit` is the common body of `traverse_left` and `traverse_right`
(both branches of the code do the same to the documents that do not match). Which ids can follow
each other on a real line is not restricted: the model has every line of the code and more. Its
specification is `ScanSpec`; `TrainingLineProofs` proves it together with `LineMatches`.

### Scoring, LineMatches, TrainingLineProofs

`Scoring` has the formulas of `scoring.rs` over exact fractions: n-gram and token overlap, the
interpolated threshold, the minimum of the question's score derived from the threshold, the
redistribution of weights for short questions and answers, the combined score and its scaling.
N-grams that all documents share weigh nothing (their ln(1) is 0), the others weigh 1 each.

`LineMatches` is `process_simple_training_file` after a line's clusters are known: documents of a
cluster in any order (`Pick`), the two early exits (`TooRare`, `TooRareForLength`), the passage
backwards from the question (`FindPassage`, with `LookBack` for one position), the answer forwards
(`FindAnswer`: exact for short ones, ranges of n-grams for long ones), the verdict (`Convict`,
`Acquit`), the boundaries of the entry, and one report per key (`Report`, `Repeat`). The loops over
positions and over hits are the recursive functions `Looked` and `Joined`. Clusters are inputs
here; `InputsFit` says what is supposed of them (each document's boundaries are n-grams of the line,
`OnLine`), and the theorem `ClustersOnLine` that those of `ClusterExpansion` are so.

### ReferenceIndex, ReferenceIndexProofs

The parallel build of the index. Threads take files; per line: comment, a line that does not parse
(the file is given up, `Broken`), `Filter`, `Duplicate` or `Accept` (which marks the key in the
same step, before it looks whether there is a question at all). Then the question
(`BeginQuestion`, per n-gram `Lookup`, `Allocate`, `AddDoc`, at the end `StoreDocument`), answer
and passage (`BeginField`, `FieldId`, `StoreField`). DashMap's entry lock is `Held`. `Assemble` is
everything after the join: frequencies, hot n-grams, the sentinel. Ids and document ids have a
width (`IdWidth`, `DocWidth`) and wrap; `Overflow` is the limit at which the code panics. An idf
ln(total / frequency) is kept as its two operands.

### Settings, SettingsProofs

How a run comes by its settings, for the two front ends side by side: `CliLoad`, `CliOverride`,
`CliDetect`, `CliServer` are the command line, `PyRead`, `PyDefault`, `PyNew`, `PySet`,
`PySetThreshold`, `PyDetect`, `PyServer` the Python bindings, and `Start` the entry of the
detection that both call. Settings are records of options; options that are only copied are
represented by one of them. A file that lacks one of the three directories does not parse
(`Unreadable`). What lies on the disk (directories with, without and with nested data,
the user's downloaded references, directories that cannot be made) is part of the input.

### Downloads, DownloadsProofs

`decon evals`: a sequence of commands on one reference directory. `StartDownload` (which makes the
user's copy of the configuration and clears the directory, `Clear`) and `StartEval`; suites and
splits in the order of the configuration (`NextSuite`, `Load`, `LoadFails`, `NextSplit`); bundled
files are copied with the ids they have (`Copy`), others written record by record (`WriteRecord`,
`SkipEntry`, `EndSplit`) by the `ChunkedFileWriter`, whose `write`, `_flush_buffer`,
`_start_new_chunk` and `close` are the operators `Write`, `Flush`, `StartNewChunk` and `Close` on
the directory and the writer. `Raise` is an exception, `Kill` the end of the process, which leaves
a file or the removal half done, and `EditConfig` the user's edit between two commands. `Chosen` is
what a list has of the members of a set, in its order: the suites of a command, and in the
properties the records that are not skipped.

### MC modules

`MCJobServer`, `MCOrchestrator`, `MCWorkspace`, `MCDetectBatch`, `MCClusterExpansion`,
`MCLineMatches`, `MCReferenceIndex`, `MCSettings` and `MCDownloads` extend the modules with the
definitions their .cfg files give to constants.

## 3. The runs

| run | instance | shows |
|---|---|---|
| `server` | 3 jobs, 2 workers, channel of 1, purification, 1 restart, fairness | `OnePlace`, `PublishedOutputs`, refinement of `JobService`, `SentFinishes`, `SubmitAnswers` |
| `orchestrator_safety` | 3 files, download batches of 2, queues of 1, 2 jobs at a time, 2 attempts, all faults but the server's restart, any output may be missing | `OnePlaceFile`, `NoFileForgotten`, `LoopExitComplete`, `UploadsFirst` |
| `orchestrator_live` | 2 files, 1 attempt, all faults and a restart of the server, fairness | `QueuedCollected`, `EndsUnlessLost` |
| `workspace_safety` | 2 processes, 2 files of this host and one of another, a kill, two signals, any upload may fail, outputs of one file may be missing | `LockExcludes`, `SkipsOnlyDone`, `AllAccounted`, `ResultsKept`, `ResumeSkips` |
| `detect_safety` | 3 files with distinct names, 2 threads, 3 possible findings per file, errors anywhere; then review and compare with 3 sets of filters | `PurifiedMatchesReport`, `SummaryMatchesReports`, `Deterministic`, `ReviewTellsRun`, `SameRunCompares`, `CollapseKeepsDocuments`, refinement of `DetectRun` |
| `detect_names` | 2 files of one base name, no errors | violation of `CleanCopy` |
| `cluster_safety` | every line of up to 6 n-grams over 3 ids, 2 documents, 3 indexes, sampling 2, 2 misses | `ExactMatches`, `OnlyBlindSpot` |
| `entries` | 26,604 lines of up to 11 tokens with one to three documents, n-grams of 2 | `EarlyExitsSound`, `ReportedAsRequired`, `PartsInOrder`, `BoundariesFit`, `EachKeyOnce` |
| `index_safety` | 11 sets of two or three reference files, 2 threads, ids that overflow at 6, fairness | `OneId`, `Survivors`, `IndexMatches`, `BuildEnds` |
| `settings` | no file, unreadable files, every file with up to one option besides the directories, every pair of options, every state of the disk, both commands | `NeverStale`, `Runnable`, `SameRun` |
| `downloads` | 3 suites (one bundled), chunks of 3, buffers of 2 lines, 3 commands, a kill, an edit | `IdsUnique`, `ChunksWhole`, `StatsComplete` |
| `downloads_ids` | one `--download` | violation of `DocIdsUnique` |

Why the bounds are enough.

* Server: with a channel of 1 and two workers three jobs fill every place that hinders another
  (with a worker, in the channel, waiting in its handler); a second restart meets nothing the
  first did not. The proofs cover the rest.
* Orchestrator: queues of 1 with batches of 2 make both `put`s block, two jobs at a time make polls
  that find some and not others, three files leave one in the listing while the others are ahead.
* Workspace: two processes meet in every pair of places, or one resumes after the other was killed
  or signalled; two files make a batch of which a part is sent or marked. Outputs are missing of the
  uncompressed file only, the one that its marker makes the next run skip; the proofs cover more.
* Batch: two threads are enough for every race of two updates; three files let a thread come back
  while the other is still in its file. The findings hold an instance met twice, two instances with
  one key, and a result without a fingerprint, at the borders of the filters.
* Clusters: six positions hold two clusters with a gap, a cluster whose tail runs over another
  document, hot n-grams next to a run, and repeated n-grams on both sides of a hit.
* Entries: every text of up to seven tokens before and of seven after the question (windows of 3
  and 5 tokens, so that they end inside and beyond the text); questions of 1 to 20 n-grams, matched
  in part, against thresholds from 0 to 1 and every kind of decay; three documents of two instances
  in one and two clusters.
* Index: each of the eleven sets makes one case that a race or a boundary could break (named in
  `MCReferenceIndex`): duplicates in two files and in one, with and without a question, a broken
  line behind an entry, empty questions, equal document ids, ids beyond the width, overflow.
* Settings: two submitted options are enough for the order of two setters and for one option that
  shadows another; each option occurs with every file.
* Downloads: three commands make download, `--eval` into what it left, and download again; chunks
  of 3 with lines of 1 and 3 fill exactly, overflow, and hold buffered lines at a chunk's end.

A bound on a counter is a constant of the module: `MaxCrashes`, `MaxRestarts`, `Attempts`,
`MaxKills`, `MaxSignals`, `MaxCommands`, `MaxEdits`.

`CHECK_DEADLOCK FALSE` is set everywhere: each of these programs may come to rest (no more
requests, the process has ended, the line has been scanned, the index is built).

## 4. Fairness

* `JobServer`: tokio polls every task that can go on (weak fairness of a worker's steps and of a
  sender when the channel has room); its mutex is fair, which lets each worker take the receiver
  in turn although others take it too (strong fairness of `LockReceiver`); a blocking task ends.
  No fairness for clients, closed connections or crashes.
* `Orchestrator`: the operating system schedules the three threads (weak fairness of each); a job
  on the server ends (`ServerFinish`); a job that has ended is found by some later round of polls
  (strong fairness: a round may come too early, not every one); a partial upload batch is not held
  longer than `upload_batch_timeout` (strong fairness of `UploadBegin`). No fairness for faults,
  restarts or signals.
* `ReferenceIndex`: rayon runs each of its threads, and the caller goes on after the join (weak
  fairness). A thread that waits for a map entry waits only for one that is inside `entry()`.

The other modules state safety only; their specifications have no fairness.

## 5. Proofs

TLC checks instances; the following hold for every value of the constants that satisfies the named
ASSUMEs. A property alone is seldom inductive; each proof names its strengthening, which was
checked with TLC before it was proved. Each action is one step of each proof.

`JobServerProofs`, for every set of jobs and workers, every capacity, any number of restarts:

* `TypeCorrect`, `OnePlaceHolds`, `ReceiverFreeHolds`, `PublishedOutputsHolds`,
  `WholeFilesStayHolds` (no run checks this one by itself: the refinement contains it);
* `JobServerRefines`: `Spec` implements `JobService!ServiceSpec` under the mapping of the module's
  end.

That `Receive` does not take a job twice needs that a worker outside `lock` and `recv` has a job,
and that an id not drawn has no entry. These are `Accounts`, and `PlaceInv` is their conjunction
with the types. `PublishedOutputs` needs how far a worker's two files are at each of its places
(`FilesOf`), because what is published was collected over several steps; `Inv` is both together.
The refinement follows from `Inv`: `Publish` is `Complete` because `FilesOf` says that the paths
collected are the files that are whole and that none is partial. Assumptions: `Capacity` is a
positive number, `Purify` a truth value, `MaxCrashes` a number, `NoJob` and `NoWorker` are not
members of their sets.

`WorkspaceProofs`, for any number of processes, files, kills and signals: `TypeCorrect`,
`LockExcludesHolds`; and for every set of names without clashes (`DistinctNames`)
`SkipsOnlyDoneHolds`, `ResultsKeptHolds`, `AllAccountedHolds`, `ResumeSkipsHolds`. `LockExcludes`
follows from `LockInv`: while no two acquisitions have overlapped and no handler has unlinked
another's lock, the lock names the process that works, a process past the test of the file finds
nobody at work, and one that still probes a pid probes the one at work. The overlap is needed in
every part: each of them is broken by two processes between `Test` and `WriteLock`, which is the
weakness of a lock that is tested and then created. The file properties follow from `FileInv`:
each marker is that of a marked file, each marked file or file about to be marked is clean or had
lost its report, its other outputs are uploaded as far as they were on the disk, and no upload replaces another name's results (`PutKeeps`, where the names' distinctness
is used); `AllAccounted` also needs where each file is between the listing and the end (`Placed`).

`ReferenceIndexProofs`, for any number of threads and any reference files with no more n-grams
than there are ids: `NgramIds` (`OneId`), and `IdsStable`: no step takes an id away or changes it,
so a thread may use the id it read after the map entry is released. The ids in use are counted:
`Numbered` says that they are all below the number of n-grams that have one, and that the counter
is that number, or 0 when the width is used up. It is inductive only with `Claims`: the n-gram
that a thread is about to number has no id yet, and no other thread is numbering it.

What an entry leaves in the index is followed from there. `EntriesInv` says which candidates a
thread has put behind it (`Done`), that the keys marked are those of the candidates that are done
or at work (`Marks`), of which exactly one owns each key, and that the documents are the usable
ones of them (`Docs`); from it follows `SurvivorsKept` (`Survivors`). `IndexInv` adds the sets
(`Sets`: a document is under an id exactly when it has stored it, or is storing it and has passed
it) and the sums (`Tally`: a frequency is the cardinality of the documents that count the id, so
that the increments of racing threads are additions to a set). From it follow `FrequenciesCounted`
and `NothingLost` (`IndexMatches`), the latter while the sentinel, `max_doc_id + 1`, does not wrap
(`RoomForSentinel`): with a document of the highest id the sentinel is 0 and may be a document.

`OrchestratorProofs`, for any list of files, any sizes of batches and queues, any faults: `Inductive`
(`IInv`), `TypeCorrect`, `OneFileOnePlace` (`OnePlaceFile`), `NoneForgotten` (`NoFileForgotten`),
`ExitComplete` (`LoopExitComplete`), `UploadsComeFirst` (`UploadsFirst`). `IInv` treats the places of
the pipeline as sets: every file is in one of them (`Accounted`), in only one (`PlacesApart`, `Distinct`),
and `files_remaining` is what is not yet listed, not yet subtracted, or lost (`Counted`). `Closing` is
why the loop condition may be read in two halves: what the first has found empty the other threads can
no longer fill. `UpPlaces` says how far the upload thread's batch is, with the outputs that it has missed
(`missing`); that they stay missed keeps the markers true (`MarkersStay`).

`DetectBatchProofs`, for any files, findings and threads, and an error at any step: `TypeCorrect`;
when names are distinct `SummaryMatchesReportsHolds`; and, when besides no input is bz2 or xz
(`Cleanable`), `PurifiedMatchesReportHolds` and `DeterministicHolds`. `BatchInv` follows a file through both loops: untouched while it waits
(`Untouched`), what its report and its entry hold at each place of the thread that has it
(`DetectHeld`), that after detection the entry has the report's lines or neither is there
(`Outcome`), and the same for the copies (`PurifyHeld`, `CopyOK`). It needs that no file is with
two threads (`Alone`) and that the loops do not overlap (`Phases`). Both halves of `Cleanable` are
needed: with a clash of names the lines of another file are removed (`detect_names`), and a bz2 or
xz input with a report is cut in pieces or copied in full. The sums are cardinalities of sets of pairs
(`EntriesIn`): `total` is that of the reported files but those whose thread is about to add
(`SumsInv`), so that it is that of all of them when the loop has ended.

`DetectBatchImplements` (`Cleanable`): `Spec` implements `DetectRun!RunSpec`, where a file is left
while it waits or a thread has not come to its report or copy (`Left`), reported when its report is
whole, and copied when its copy is whole. A file is dealt with when its thread finishes the report,
finds nothing or meets an error; `Count` and `Record` stutter, and `EndDetection` shows the right
sums because none of them is still to come (`SumsInv`). The copy made at one moment needs `Outcome`.

The readers of the reports: `CollapseKeepsDocumentsHolds` and `SameRunComparesHolds`, for any names
and filters, and when names are distinct `ReviewTellsRunHolds`. Review and compare are functions of
lists, so the proofs count. A flat list has the elements of its parts, each once: `IsLayout` gives
each position the part and the position it comes from (`FlattenFacts`, by induction over the
parts), and what a directory gives is therefore counted by file and position whatever the order of
the listing (`LoadFacts`). A table whose rows count the classes of a finite set adds up to the set
(`RowsAddUp`, by induction over the set of rows); it serves the tables by suite, by line, by bucket
of the histogram and by directory. Compare keeps a result for each key (`KeptByKey`), and a key has
its document and suite in it (`SameKeysAgree`), hence `CollapseKeepsDocuments`; two listings of
whole reports have the same results (`WholeLoads`), hence `SameRunCompares`. `ReviewTellsRun` adds
the run to it: a report that is whole is that of its file (`WholeOwn`, inductive together with
`BatchInv`), so that the results read are, one to one, the findings that were counted
(`EntriesLoaded`), and their documents the lines recorded (`LinesLoaded`, `DatasetsAddUp`).
Assumptions: there are finitely many files (`FilesAssumption`); every finding is of an instance
whose fields have their types and at least one n-gram matched (`EvalsAssumption`: an entry comes
from a hit, `unique_matches`), scores being natural numbers of some resolution; a line that does
not parse is no result (`TornAssumption`).

`SettingsProofs`, for any file, any options that a caller may submit (`InputsAssumption`) and any
disk: `NeverStaleHolds`, `RunnableHolds`, `SameRunHolds`. `FrontEndInv` is a closed form: which
settings each front end has in hand after any sequence of reads and setters (`Submitted`, `Final`),
which it is given to start with (`Given`), and whether the checks let it pass (`Accepted`).
`SameRun` then is a statement about two closed forms: they agree unless the command line prefers
downloaded references or forgets `purify` (`Parted`).

`DownloadsProofs`, for any suites, any sizes of chunks and buffers, any number of commands, kills,
exceptions and edits: `IdsUniqueHolds`, `ChunksWholeHolds`, `StatsCompleteHolds`. For the ids: the
lines of a command are partly on disk and partly in the writer's buffer; `FilesOK` says that
together they have each id once and all below the counter, and is preserved by each operator of
the writer (`FlushOK`, `StartNewChunkOK`, `WriteOK`). A bundled line may also be cut off and copied
again: `DirOK` keeps bundled files apart from everything else.

The other two follow from `WholeInv`, which is inductive together with `IdInv`. Its core is `Given`,
again about disk and buffer: what the writer was given so far is what its chunks have, one after
the other, and then the buffer, and the bytes of the last chunk with the buffer are the writer's
`size`, so that a chunk is opened before it grows too large although part of it is not yet written
(`FlushGiven`, `NewChunkGiven`, `WriteGiven`). `Writing` says so of the records that the loop has
gone through; when the buffer is flushed at the end of a split, its chunks are the whole split
(`SplitWhole`). `Processed` keeps that for all that the command has behind it. It needs `Unbegun`:
what is still to come has no line of this command, so that a chunk is new or empties an older one
of that name and no other line of the command is lost; and this needs that the lists of the
command have nothing twice (`Course`). `DirFits` bounds every chunk in any directory, also after a
kill. `Fresh`, for `StatsComplete`, is what the removal makes true: the directory has nothing but
what this download wrote. The counts then are cardinalities of disjoint sets of lines
(`RowsCount`, `SplitCount`, `WrittenCount`), and an older chunk left behind by a shorter split does
not count, because there is none. That sums and flattened lists are what one expects of them is
proved in the first part of the module (`SumIs`, `FlatIs`, `ListInduction`).

Assumptions, which the files of the repository satisfy: the ids of the bundled files are distinct
and each file is of its suite and no larger than a chunk (`BundledAssumption`, `BundleAssumption`;
those under `bundled-evals` have 86,133 records with distinct ids); `config/evals.yaml` lists no
suite and no split of a suite twice, and no suite is named "download" (`ConfigAssumption`; it has
206 suites with 411 splits); a suite that is not bundled is found somewhere, with what splits it
has (`ExamplesAssumption`).

`TrainingLineProofs` holds the proofs of both stages of a training line. Clusters first, for lines
of any length, any index, sampling rate and miss limit: `TypeCorrect`, `ExactMatchesHolds`,
`OnlyBlindSpotHolds`, `ClustersOnLine`. `ByDoc` says for each document of the
seed where its two boundaries are (`Collected`), what a side still being traversed has seen
(`OpenLeft`, `OpenRight`: nothing of the document lies between its boundary and the cursor, and
the misses are that distance when the last n-gram was new) and what is true of a side that is
finished (`DoneLeft`, `DoneRight`). Exactness needs the gaps, `NotCutShort` the misses.
`OnlyBlindSpot` needs one fact more, that a document reaches as far as it occurs without a gap
(`Reaches`), so that a run through the seed is followed to both its ends (`RunThroughSeed`);
`Caught` then says of every run that sampling has passed that a cluster has it. Assumptions: the
documents are finitely many, `NoId` is not an id, `Sample` is positive, the index maps ids to sets
of documents.

Then the entries, for texts of any length, any documents and any clusters on the line:
`KeysReportedOnce` (`EachKeyOnce`), `PartsStandInOrder` (`PartsInOrder`), `BoundariesFound`
(`BoundariesFit`). What the two loops compute is proved by induction, which is derived from the
well-foundedness of < for sets of numbers (`Induction`) and for recursive functions (`Loop`):
`LookedFits` says that the traversal has seen exactly the n-grams of the passage down to where the
misses end it (`SeenFits`), `JoinedCovers` that the ranges made of the hits cover those and nothing
else and are further apart than an n-gram (`Cover`). `PartsOf` puts the boundaries of an entry
together. `LineInv` is the state: where the cursor is (`Cursor`), that the entries are those of
matches behind it (`Entries`), that `keys` are their keys, each once (`Keys`), and that every match
behind the cursor was left out for what it is or has its key reported (`Settled`). Assumptions: the
clusters are on the line (`InputsAssumption`), the sizes of n-grams are positive.

The scores, for any overlaps, thresholds and decay lengths: `EarlyExitsHold` (`EarlyExitsSound`) and
`ReportedAsRequiredHolds` (`ReportedAsRequired`). That `Frac` reduces a fraction without changing
it follows from what Euclid's algorithm computes (`GcdIs`, `GcdDivides`); from then on `Is(x, n, d)`
says that `x` is n / d in whatever units, and sums, products and comparisons are those of natural
numbers. The three weights are parts of one whole, of which the question has 0.7 at least when it
has enough n-grams (`WeightsAre`, `ThreeParts`, `TwoParts`); hence a question below the minimum
cannot be made up for (`LowQuestion`), which gives `MinimumFails` and, since both thresholds are
interpolated by the same part of the way from 1 (`InterpolateIs`), `LengthFails`. `ScaledReaches`
is the other theorem's core: the score that is scaled reaches the threshold exactly if the score
reaches what is required. `Verdicts` carries both to the states: an entry was found contaminated, a
document was left out for the reason it was left out with. Assumptions (`SettingsFit`,
`InputsFit`): a threshold is a score, 0 to 1 (the code takes any number; the configurations of the
repository are in that range), decay lengths are natural numbers or left out, a document has
finitely many n-grams.

Only model-checked is all liveness (`SentFinishes`, `SubmitAnswers`, `QueuedCollected`,
`EndsUnlessLost`, `BuildEnds`): fairness and ENABLED are out of the prover's reach.

## 6. What the checks found

Two places where the program does not do what its documentation or a comment says have a run that
ends in a counterexample; "findings" in `PROJECT.json` quotes both sides:

1. `contaminated_files` is keyed by base name, and of two contaminated files with one base name the
   entry of the second replaces that of the first: in the run x/a.jsonl.gz has findings on lines 0
   and 1, y/a.jsonl.gz on line 1, and the copy of the first keeps line 0 (`detect_names`). The
   copies of clean files lose the lines of a file of the same base name;
2. one `--download` gives document ids twice: bundled files keep theirs, which start at 1, and the
   counter starts at 1 too; the index keeps documents by id (`downloads_ids`).

Three more contradict what the repository says of itself; the models have them, and a property says
what still holds:

* a contaminated file whose report is not on the disk where the server says gets a clean marker
  (orchestration.py:949-951, 976-988, where the comment at line 977 says "No contamination found"):
  nothing of the report is in S3, and the next run skips the file. A purified copy that is missing
  is passed over in the same way, and if anything of the batch was uploaded the local files of
  all of it are unlinked. Only an error is logged
  (`missing` in `UploadsFirst`, `SkipsOnlyDone` and `AllAccounted`);
* `--download` removes what the reference directory has before it downloads anything
  (evals.py:949-955), where doc/eval-datasets.md:121 says that "decon does not provide any facility
  for overwriting or deleting eval datasets" and that a user must clear the directory by hand.
  `StatsComplete` is about the code: it holds because of the removal. If the code did as the manual
  says, a second download could leave older records to be counted, and this is the mutant
  `MutClear`. When suites then fail to load, what the directory had of them is gone;
* bz2 and xz files are decompressed for detection (detect/utils.rs:25-32) and not for `--purify`
  (file_io.rs:145-149): with findings the copy lacks pieces of the compressed bytes and can no longer
  be read, or it keeps all that was found (`Copy`); the comment at line 157 says "preserve data
  exactly as-is". The properties of copies exclude such files (`Cleanable`), and no run has one.

Others are delimited by a property that says where the promise ends:

* a download that fails is never subtracted from `files_remaining`, and the orchestrator's main
  loop goes on for ever; after a restart of the server its answers have no status and the job stays
  in `active_jobs` for ever (both: the disjuncts of `EndsUnlessLost`);
* after a signal the other threads go on and the process does not exit (`QueuedCollected` holds
  because of it);
* the lock is tested and then created, so that two orchestrators started together both go on
  (`raced` in `LockExcludes`); a signal to a process that has ended its main loop unlinks its
  successor's lock (`stray`);
* the marker of a.json also stands for a.jsonl (`DistinctNames`), and the marker of a compressed
  file is never found again, so that it is processed anew after a crash (`Plain` in `ResumeSkips`);
  the purified copy of a.jsonl is uploaded as a.gz, where the comment says `.json[l].gz`, and so is
  that of a.json (`DistinctNames`);
* misses of a traversal that are not consecutive add up when an n-gram is repeated (`New` in
  `NotCutShort`; cluster.rs:222 against doc/simple.md:31);
* a question of fewer than 20 n-grams has a lower weight than the first early exit assumes, which
  therefore drops documents that a perfect answer and passage would convict (`LongQuestion` in
  `EarlyExitsSound`; detection.rs:470);
* the window of the passage misses the token just before the question (`PassageFits`,
  passage_boundary.rs:16 against the comment at line 40);
* the command line forgets a `purify: true` of the configuration file and prefers downloaded
  references over the file's `evals_dir`; the Python bindings do neither (`Parted` in `SameRun`);
* an entry without a question takes the key of its duplicates with it (the condition in
  `Survivors`);
* results with one key collapse to the one listed last, so that comparing a run with itself may
  show another score or an "only in" fingerprint, and compare's "contamination_instances" counts
  keys where metrics.rs:7 says "Total number of report lines" (`SameRunCompares`,
  `CollapseKeepsDocuments`); compare tells the splits of a suite apart, review does not;
* `decon evals --download --eval X` ignores the name, clears the directory and downloads
  everything; a suite that fails or is unknown ends with status 0 (`StartDownload`, `LoadFails`,
  `StartEval`); a download that is killed leaves a partial directory, which the command line then
  prefers to the bundled one; the user's copy of the configuration is made once and never refreshed.

Further hazards are listed in `PROJECT.json` with the properties that watch them.

## 7. What is not modelled

* Tokens, text normalisation, hashing (an n-gram stands for its hash; collisions of the 64-bit
  hash are left out), JSON, compression, file contents beyond their lines.
* Rounding: scores are exact fractions, and all n-grams that are not shared by every document
  weigh the same.
* Logging, progress and timing statistics, layout and sorting of what is displayed, the texts and
  ratios that only a report shows.
* What happens to a file after its last line was flushed: a copy counts as whole then, but the
  trailer of a gz copy is only written when the encoder is dropped, where an error is not reported
  (file_io.rs:175-177).
* Chunk names in `Downloads` are taken to tell suites and splits apart (evals.py:105 and
  810 put suite, split and number together as suite_split-number); those of the shipped evals.yaml do.
* HTTP below requests and answers. GET /health is a constant. A `worker_threads` of 0 is excluded
  by having workers.
* How an example of a data set becomes a record (`process_answers` and the extractors of
  `evals.py`): only the number and the size of the records count.
* Options of review, compare and evals on the command line, and the bindings that pass arguments
  on (tokenizer, review, compare, evals).

## 8. What could follow

1. `Orchestrator` composed with `JobServer` instead of its abstraction of a server.
2. `LineMatches` driven by the clusters of `ClusterExpansion` instead of enumerated ones;
   `ClustersOnLine` is the interface of the two.
