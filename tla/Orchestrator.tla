---------------------------- MODULE Orchestrator ----------------------------
(***************************************************************************)
(* One run of ContaminationOrchestrator in python/orchestration.py: the    *)
(* main thread (_process_files), the download thread (_download_worker)    *)
(* and the upload thread (_upload_worker), which share two bounded queues, *)
(* a counter and the flag threads_running.  S3 and the detection server    *)
(* are the environment; of the server only what JobService promises is     *)
(* used, reduced to what the orchestrator tells apart.                     *)
(*                                                                         *)
(* Locks of Queue make each put and get one action; files_remaining and    *)
(* threads_running are plain attributes, read and written on their own.    *)
(***************************************************************************)
EXTENDS Naturals, Sequences, FiniteSets, SequencesExt

CONSTANTS
    FileList,       \* files_to_process: the listing, largest file first
    DownloadBatch,  \* config.download_batch_size
    DownloadMax,    \* config.download_queue_max
    UploadBatch,    \* config.upload_batch_size
    UploadMax,      \* config.upload_queue_max
    MaxJobs,        \* config.max_concurrent_jobs
    Attempts,       \* config.download_retry_attempts
    Purify,         \* server_purify
    DownloadFaults, \* s5cmd may fail, or leave files missing or empty
    OutputFaults,   \* files with outputs that may not be where the server says
    MaxRestarts     \* bound on restarts of the server

Files == ToSet(FileList)

ASSUME FileListAssumption == FileList \in Seq(Files) /\ IsInjective(FileList)
ASSUME BoundsAssumption ==
    /\ \A n \in {DownloadBatch, DownloadMax, UploadBatch, UploadMax, MaxJobs, Attempts} :
         n \in Nat \ {0}
    /\ MaxRestarts \in Nat

VARIABLES
    main,           \* where the main thread stands
    finished,       \* completed_jobs of _poll_and_process_jobs still to be put
    down,           \* the download thread: place, rest of its batch, attempt
    up,             \* the upload thread: place, job_batch, last batch or not,
                    \* upload_successful
    index,          \* download_index
    remaining,      \* files_remaining
    downloadQueue, uploadQueue,
    active,         \* active_jobs, a dict: keys in order of submission
    running,        \* threads_running
    status,         \* Job.status, "none" before the file has a Job
    server,         \* what GET /status answers for the file's job
    restarts,
    remote,         \* files uploaded to S3: <<file, kind>>
    markers,        \* clean_markers.txt
    failed,         \* failed_files
    completed,      \* completed_files
    cleaned,        \* files whose local input and outputs were unlinked
    missing,        \* history: outputs not found where the server says
    lost            \* history: files the download thread has given up

downVars  == <<down, index, remaining, lost>>
upVars    == <<up, remote, completed, cleaned, missing>>
mainVars  == <<main, finished, active, running, status>>
envVars   == <<server, restarts>>
vars == <<downVars, upVars, mainVars, envVars, downloadQueue, uploadQueue,
          markers, failed>>

Final == {"clean", "dirty", "failed"}   \* dirty: completed with a report
Unlisted == SubSeq(FileList, index + 1, Len(FileList))

(* The loops that keep some elements of a list, in its order: those of s   *)
(* that are in S; and the list without its element e.                      *)
Rank(I, i) == Cardinality({j \in I : j <= i})
Picked(s, S) ==
    LET I == {i \in DOMAIN s : s[i] \in S}
    IN  [k \in 1 .. Cardinality(I) |-> s[CHOOSE i \in I : Rank(I, i) = k]]
Without(s, e) == RemoveAt(s, CHOOSE i \in DOMAIN s : s[i] = e)

Init ==
    /\ main = "test"
    /\ finished = <<>>
    /\ down = [pc |-> "pick", batch |-> <<>>, attempt |-> 0]
    /\ up = [pc |-> "get", batch |-> <<>>, last |-> FALSE, ok |-> FALSE]
    /\ index = 0
    /\ remaining = Len(FileList)
    /\ downloadQueue = <<>> /\ uploadQueue = <<>>
    /\ active = <<>>
    /\ running = TRUE
    /\ status = [f \in Files |-> "none"]
    /\ server = [f \in Files |-> "none"]
    /\ restarts = 0
    /\ remote = {} /\ markers = {} /\ failed = {} /\ completed = {}
    /\ cleaned = {} /\ missing = {} /\ lost = {}

-----------------------------------------------------------------------------
(* The download thread. *)

(* The head of _download_worker's loop.  While the queue is three quarters *)
(* full the thread sleeps and looks again: no step.                        *)
DownloadPick ==
    /\ down.pc = "pick"
    /\ \/ /\ ~running
          /\ down' = [down EXCEPT !.pc = "ended"]
          /\ UNCHANGED index
       \/ /\ running /\ 4 * Len(downloadQueue) < 3 * DownloadMax
          /\ IF Unlisted = <<>>
             THEN down' = [down EXCEPT !.pc = "ended"] /\ UNCHANGED index
             ELSE LET n == IF Len(Unlisted) < DownloadBatch
                           THEN Len(Unlisted) ELSE DownloadBatch
                  IN  /\ down' = [pc |-> "fetch", attempt |-> 1,
                                  batch |-> SubSeq(Unlisted, 1, n)]
                      /\ index' = index + n
    /\ UNCHANGED <<remaining, lost, upVars, mainVars, envVars, downloadQueue,
                   uploadQueue, markers, failed>>

(* _download_batch when s5cmd exits with 0: files that are missing or empty *)
(* are logged and left out; nothing else records them.                      *)
DownloadFetched ==
    /\ down.pc = "fetch"
    /\ \E present \in SUBSET ToSet(down.batch) :
         /\ DownloadFaults \/ present = ToSet(down.batch)
         /\ LET got == Picked(down.batch, present)
            IN  down' = [down EXCEPT !.batch = got,
                           !.pc = IF got = <<>> THEN "pick" ELSE "put"]
         /\ lost' = lost \cup (ToSet(down.batch) \ present)
    /\ UNCHANGED <<index, remaining, upVars, mainVars, envVars, downloadQueue,
                   uploadQueue, markers, failed>>

(* s5cmd exits with an error: another attempt, or the whole batch is marked *)
(* failed, the exception is raised and logged by _download_worker.          *)
DownloadFailed ==
    /\ down.pc = "fetch" /\ DownloadFaults
    /\ IF down.attempt < Attempts
       THEN /\ down' = [down EXCEPT !.attempt = @ + 1]
            /\ UNCHANGED <<lost, failed>>
       ELSE /\ down' = [pc |-> "pick", batch |-> <<>>, attempt |-> 0]
            /\ lost' = lost \cup ToSet(down.batch)
            /\ failed' = failed \cup ToSet(down.batch)
    /\ UNCHANGED <<index, remaining, upVars, mainVars, envVars, downloadQueue,
                   uploadQueue, markers>>

\* Mutant of DownloadPut: the counter is lowered before the put that it stands for.
MutDownloadCountFirst ==
    /\ down.pc = "put"
    /\ remaining' = remaining - 1
    /\ down' = [down EXCEPT !.pc = "count"]
    /\ UNCHANGED <<index, lost, upVars, mainVars, envVars, downloadQueue,
                   uploadQueue, markers, failed>>

(* download_queue.put, which waits while the queue is full ... *)
DownloadPut ==
    /\ down.pc = "put"
    /\ Len(downloadQueue) < DownloadMax
    /\ downloadQueue' = Append(downloadQueue, Head(down.batch))
    /\ down' = [down EXCEPT !.pc = "count"]
    /\ UNCHANGED <<index, remaining, lost, upVars, mainVars, envVars,
                   uploadQueue, markers, failed>>

(* ... and only then files_remaining -= 1. *)
DownloadCount ==
    /\ down.pc = "count"
    /\ remaining' = remaining - 1
    /\ LET rest == Tail(down.batch)
       IN  down' = [down EXCEPT !.batch = rest,
                      !.pc = IF rest = <<>> THEN "pick" ELSE "put"]
    /\ UNCHANGED <<index, lost, upVars, mainVars, envVars, downloadQueue,
                   uploadQueue, markers, failed>>

Download ==
    DownloadPick \/ DownloadFetched \/ DownloadFailed \/ DownloadPut \/ DownloadCount

-----------------------------------------------------------------------------
(* The main thread. *)

\* Mutant of TestRemaining: the loop goes on at zero.
MutTestRemaining ==
    /\ main = "test"
    /\ main' = IF remaining >= 0 THEN "submit" ELSE "test queues"
    /\ UNCHANGED <<finished, active, running, status, downVars, upVars, envVars,
                   downloadQueue, uploadQueue, markers, failed>>

(* The loop condition reads files_remaining first and the queues after it. *)
TestRemaining ==
    /\ main = "test"
    /\ main' = IF remaining > 0 THEN "submit" ELSE "test queues"
    /\ UNCHANGED <<finished, active, running, status, downVars, upVars, envVars,
                   downloadQueue, uploadQueue, markers, failed>>

TestQueues ==
    /\ main = "test queues"
    /\ main' = IF downloadQueue # <<>> \/ active # <<>> \/ uploadQueue # <<>>
               THEN "submit" ELSE "stop"
    /\ UNCHANGED <<finished, active, running, status, downVars, upVars, envVars,
                   downloadQueue, uploadQueue, markers, failed>>

CanSubmit == Len(active) < MaxJobs /\ downloadQueue # <<>>

(* get_nowait and POST /submit.  The request may fail before the server    *)
(* sees it or after it (the response is lost): the file is marked failed   *)
(* and not tried again, in the second case the job runs unobserved.        *)
Submit ==
    /\ main = "submit" /\ CanSubmit
    /\ downloadQueue' = Tail(downloadQueue)
    /\ LET f == Head(downloadQueue)
       IN  \/ /\ active' = Append(active, f)
              /\ status' = [status EXCEPT ![f] = "submitted"]
              /\ server' = [server EXCEPT ![f] = "working"]
              /\ UNCHANGED failed
           \/ /\ failed' = failed \cup {f}
              /\ \/ server' = [server EXCEPT ![f] = "working"]
                 \/ UNCHANGED server
              /\ UNCHANGED <<active, status>>
    /\ UNCHANGED <<main, finished, running, restarts, downVars, upVars,
                   uploadQueue, markers>>

SubmitDone ==
    /\ main = "submit" /\ ~CanSubmit
    /\ main' = "poll"
    /\ UNCHANGED <<finished, active, running, status, downVars, upVars, envVars,
                   downloadQueue, uploadQueue, markers, failed>>

(* GET /status of every active job, one after the other: the jobs that     *)
(* ended before their turn are found, others not; an answer without        *)
(* "status" raises KeyError, which _poll_job_status turns into False.      *)
Poll ==
    /\ main = "poll"
    /\ \E seen \in SUBSET {f \in ToSet(active) : server[f] \in Final} :
         /\ status' = [f \in Files |->
                         IF f \in seen THEN server[f] ELSE status[f]]
         /\ finished' = Picked(active, seen)
    /\ main' = "put"
    /\ UNCHANGED <<active, running, downVars, upVars, envVars, downloadQueue,
                   uploadQueue, markers, failed>>

\* Mutant of PutUpload: the job stays in active_jobs.
MutPutUpload ==
    /\ main = "put" /\ finished # <<>>
    /\ Len(uploadQueue) < UploadMax
    /\ uploadQueue' = Append(uploadQueue, Head(finished))
    /\ finished' = Tail(finished)
    /\ UNCHANGED <<main, active, running, status, downVars, upVars, envVars,
                   downloadQueue, markers, failed>>

(* active_jobs.pop and upload_queue.put, which waits while it is full. *)
PutUpload ==
    /\ main = "put" /\ finished # <<>>
    /\ Len(uploadQueue) < UploadMax
    /\ uploadQueue' = Append(uploadQueue, Head(finished))
    /\ active' = Without(active, Head(finished))
    /\ finished' = Tail(finished)
    /\ UNCHANGED <<main, running, status, downVars, upVars, envVars,
                   downloadQueue, markers, failed>>

PutDone ==
    /\ main = "put" /\ finished = <<>>
    /\ main' = "test"
    /\ UNCHANGED <<finished, active, running, status, downVars, upVars, envVars,
                   downloadQueue, uploadQueue, markers, failed>>

Stop ==
    /\ main = "stop"
    /\ running' = FALSE
    /\ main' = "join down"
    /\ UNCHANGED <<finished, active, status, downVars, upVars, envVars,
                   downloadQueue, uploadQueue, markers, failed>>

(* join(timeout=30): the thread has ended, or is held up by s5cmd or by a  *)
(* full queue; from its other places it is out in time.                    *)
JoinDown ==
    /\ main = "join down"
    /\ down.pc \in {"fetch", "put", "ended"}
    /\ main' = "join up"
    /\ UNCHANGED <<finished, active, running, status, downVars, upVars, envVars,
                   downloadQueue, uploadQueue, markers, failed>>

(* join(timeout=60): the thread has ended, or s5cmd takes longer. *)
JoinUp ==
    /\ main = "join up"
    /\ up.pc \in {"upload", "ended"}
    /\ main' = "finish"
    /\ UNCHANGED <<finished, active, running, status, downVars, upVars, envVars,
                   downloadQueue, uploadQueue, markers, failed>>

(* The end of run: clean_markers.txt is deleted, the lock released and     *)
(* "WORK COMPLETE EXITING" logged.                                         *)
Finish ==
    /\ main = "finish"
    /\ markers' = {}
    /\ main' = "done"
    /\ UNCHANGED <<finished, active, running, status, downVars, upVars, envVars,
                   downloadQueue, uploadQueue, failed>>

(* SIGINT or SIGTERM: _signal_handler unlinks the lock and raises          *)
(* SystemExit in the main thread, wherever it is; threads_running stays.   *)
(* A file already taken from download_queue or active_jobs goes with it.   *)
Signal ==
    /\ main \notin {"done", "killed"}
    /\ main' = "killed"
    /\ finished' = <<>>
    /\ \/ UNCHANGED <<active, downloadQueue, server>>
       \/ /\ main = "submit" /\ CanSubmit
          /\ downloadQueue' = Tail(downloadQueue)
          /\ \/ UNCHANGED server
             \/ server' = [server EXCEPT ![Head(downloadQueue)] = "working"]
          /\ UNCHANGED active
       \/ /\ main = "put" /\ finished # <<>>
          /\ active' = Without(active, Head(finished))
          /\ UNCHANGED <<downloadQueue, server>>
    /\ UNCHANGED <<running, status, restarts, downVars, upVars, uploadQueue,
                   markers, failed>>

Loop == \/ TestRemaining \/ TestQueues \/ Submit \/ SubmitDone
        \/ Poll \/ PutUpload \/ PutDone \/ Stop \/ Finish

-----------------------------------------------------------------------------
(* The upload thread. *)

UploadGet ==
    /\ up.pc = "get"
    /\ running \/ uploadQueue # <<>>
    /\ IF uploadQueue # <<>>
       THEN /\ up' = [up EXCEPT !.pc = "decide", !.batch = Append(@, Head(uploadQueue))]
            /\ uploadQueue' = Tail(uploadQueue)
       ELSE /\ up' = [up EXCEPT !.pc = "decide"]      \* Empty after the timeout
            /\ UNCHANGED uploadQueue
    /\ UNCHANGED <<remote, completed, cleaned, missing, downVars, mainVars, envVars,
                   downloadQueue, markers, failed>>

(* should_process: a full batch, a partial one whose time is up, or the    *)
(* shutdown; the clock may or may not have passed the limit.               *)
UploadWait ==
    /\ up.pc = "decide"
    /\ up.batch = <<>> \/ (Len(up.batch) < UploadBatch /\ running)
    /\ up' = [up EXCEPT !.pc = "get"]
    /\ UNCHANGED <<remote, completed, cleaned, missing, downVars, mainVars, envVars,
                   downloadQueue, uploadQueue, markers, failed>>

UploadBegin ==
    /\ up.pc = "decide" /\ up.batch # <<>>
    /\ up' = [up EXCEPT !.pc = "collect"]
    /\ UNCHANGED <<remote, completed, cleaned, missing, downVars, mainVars, envVars,
                   downloadQueue, uploadQueue, markers, failed>>

\* Mutant of UploadLeave: what the last look at the queue left in job_batch is
\* forgotten.
MutUploadLeave ==
    /\ up.pc = "get" /\ ~running /\ uploadQueue = <<>>
    /\ up' = [up EXCEPT !.last = TRUE, !.pc = "ended", !.batch = <<>>]
    /\ UNCHANGED <<remote, completed, cleaned, missing, downVars, mainVars, envVars,
                   downloadQueue, uploadQueue, markers, failed>>

(* The loop ends; jobs taken after the last look at the flag are processed. *)
UploadLeave ==
    /\ up.pc = "get" /\ ~running /\ uploadQueue = <<>>
    /\ up' = [up EXCEPT !.last = TRUE,
                !.pc = IF up.batch = <<>> THEN "ended" ELSE "collect"]
    /\ UNCHANGED <<remote, completed, cleaned, missing, downVars, mainVars, envVars,
                   downloadQueue, uploadQueue, markers, failed>>

Batch == ToSet(up.batch)
At(pc) == [up EXCEPT !.pc = pc]
BatchDone == [up EXCEPT !.pc = IF up.last THEN "ended" ELSE "get",
                        !.batch = <<>>, !.ok = FALSE]

(* The outputs of a batch that the server names: the report of a           *)
(* contaminated file and, when it makes them, the purified copy of every   *)
(* completed one.                                                          *)
Named(S) ==
    {<<f, "report">> : f \in {g \in S : status[g] = "dirty"}}
      \cup {<<f, "purified">> : f \in {g \in S : Purify /\ status[g] \in {"clean", "dirty"}}}

(* _collect_upload_commands, where the outputs gone are not on the disk    *)
(* (os.path.exists): the others are uploaded.  A completed job without a   *)
(* report to upload gets a clean marker, whatever its report was.          *)
Uploads(S, gone) == Named(S) \ gone

CleanJobs(S, gone) ==
    {f \in S : status[f] \in {"clean", "dirty"} /\ <<f, "report">> \notin Uploads(S, gone)}

UploadCollect ==
    /\ up.pc = "collect"
    /\ completed' = completed \cup Batch
    /\ \E gone \in SUBSET Named(Batch \cap OutputFaults) :
         /\ missing' = missing \cup gone
         /\ up' = CASE Uploads(Batch, gone) # {} -> At("upload")
                    [] Uploads(Batch, gone) = {} /\ CleanJobs(Batch, gone) # {} -> At("mark")
                    [] OTHER -> BatchDone
    /\ UNCHANGED <<remote, cleaned, downVars, mainVars, envVars, downloadQueue,
                   uploadQueue, markers, failed>>

(* _batch_upload_files: everything is uploaded, by the batch or by the     *)
(* fallback to single uploads ...                                          *)
UploadSucceeded ==
    /\ up.pc = "upload"
    /\ remote' = remote \cup Uploads(Batch, missing)
    /\ up' = [up EXCEPT !.pc = "mark", !.ok = TRUE]
    /\ UNCHANGED <<completed, cleaned, missing, downVars, mainVars, envVars,
                   downloadQueue, uploadQueue, markers, failed>>

(* ... or the fallback fails too, after any part of it was uploaded: every *)
(* job of the batch is marked failed, nothing is marked clean or removed.  *)
UploadFailed ==
    /\ up.pc = "upload"
    /\ \E sent \in SUBSET Uploads(Batch, missing) : remote' = remote \cup sent
    /\ failed' = failed \cup Batch
    /\ up' = BatchDone
    /\ UNCHANGED <<completed, cleaned, missing, downVars, mainVars, envVars,
                   downloadQueue, uploadQueue, markers>>

\* Mutant of UploadMark: a failed job, too, has no report.
MutUploadMark ==
    /\ up.pc = "mark"
    /\ markers' = markers \cup {f \in Batch : <<f, "report">> \notin Uploads(Batch, missing)}
    /\ up' = IF up.ok THEN At("clean") ELSE BatchDone
    /\ UNCHANGED <<remote, completed, cleaned, missing, downVars, mainVars, envVars,
                   downloadQueue, uploadQueue, failed>>

UploadMark ==
    /\ up.pc = "mark"
    /\ markers' = markers \cup CleanJobs(Batch, missing)
    /\ up' = IF up.ok THEN At("clean") ELSE BatchDone
    /\ UNCHANGED <<remote, completed, cleaned, missing, downVars, mainVars, envVars,
                   downloadQueue, uploadQueue, failed>>

(* _cleanup_job_files of the whole batch, failed jobs included. *)
UploadClean ==
    /\ up.pc = "clean"
    /\ cleaned' = cleaned \cup Batch
    /\ up' = BatchDone
    /\ UNCHANGED <<remote, completed, missing, downVars, mainVars, envVars, downloadQueue,
                   uploadQueue, markers, failed>>

Upload == \/ UploadGet \/ UploadBegin \/ UploadWait \/ UploadLeave \/ UploadCollect
          \/ UploadSucceeded \/ UploadFailed \/ UploadMark \/ UploadClean

-----------------------------------------------------------------------------
(* The detection server, as JobService lets a client see it. *)

ServerFinish(f) ==
    /\ server[f] = "working"
    /\ \E result \in Final : server' = [server EXCEPT ![f] = result]
    /\ UNCHANGED <<restarts, downVars, upVars, mainVars, downloadQueue,
                   uploadQueue, markers, failed>>

ServerRestart ==
    /\ restarts < MaxRestarts
    /\ restarts' = restarts + 1
    /\ server' = [f \in Files |-> IF server[f] = "none" THEN "none" ELSE "unknown"]
    /\ UNCHANGED <<downVars, upVars, mainVars, downloadQueue, uploadQueue,
                   markers, failed>>

Next ==
    \/ Download \/ Loop \/ JoinDown \/ JoinUp \/ Signal \/ Upload
    \/ \E f \in Files : ServerFinish(f)
    \/ ServerRestart

Spec == Init /\ [][Next]_vars

(* The three threads are scheduled; a running job ends; a job that ended   *)
(* is found by some later round of polling; the partial batch of the       *)
(* upload thread is not held back longer than upload_batch_timeout.        *)
Fairness ==
    /\ WF_vars(Download)
    /\ WF_vars(Loop \/ JoinDown \/ JoinUp)
    /\ WF_vars(Upload)
    /\ SF_vars(UploadBegin)
    /\ \A f \in Files : /\ WF_vars(ServerFinish(f))
                        /\ SF_vars(Poll /\ status'[f] # status[f])

FairSpec == Spec /\ Fairness

-----------------------------------------------------------------------------
(* Properties. *)

(* What each thread still has to put into the next queue. *)
Fetched  == IF down.pc = "count" THEN Tail(down.batch) ELSE down.batch
Uncounted == down.batch
InFlight == Unlisted \o Fetched \o downloadQueue \o active \o uploadQueue \o up.batch

MainPlaces == {"test", "test queues", "submit", "poll", "put", "stop",
               "join down", "join up", "finish", "done", "killed"}
DownType == [pc : {"pick", "fetch", "put", "count", "ended"},
             batch : Seq(Files), attempt : 0 .. Attempts]
UpType == [pc : {"get", "decide", "collect", "upload", "mark", "clean", "ended"},
           batch : Seq(Files), last : BOOLEAN, ok : BOOLEAN]

(* The variables keep their types and the queues of queue.Queue(maxsize)   *)
(* and active_jobs their bounds.                                           *)
TypeOK ==
    /\ main \in MainPlaces /\ down \in DownType /\ up \in UpType
    /\ running \in BOOLEAN
    /\ finished \in Seq(Files) /\ active \in Seq(Files)
    /\ downloadQueue \in Seq(Files) /\ uploadQueue \in Seq(Files)
    /\ Len(down.batch) <= DownloadBatch
    /\ Len(up.batch) <= UploadBatch
    /\ Len(downloadQueue) <= DownloadMax
    /\ Len(uploadQueue) <= UploadMax
    /\ Len(active) <= MaxJobs
    /\ index \in 0 .. Len(FileList) /\ remaining \in 0 .. Len(FileList)
    /\ status \in [Files -> {"none", "submitted"} \cup Final]
    /\ server \in [Files -> {"none", "working", "unknown"} \cup Final]
    /\ restarts \in 0 .. MaxRestarts
    /\ remote \cup missing \subseteq Files \X {"report", "purified"}
    /\ markers \subseteq Files /\ failed \subseteq Files /\ completed \subseteq Files
    /\ cleaned \subseteq Files /\ lost \subseteq Files

(* No file is in two places of the pipeline, or twice in one: nothing is   *)
(* submitted or uploaded twice.  files_remaining counts, at every instant, *)
(* the files not yet put into download_queue and the ones given up before: *)
(* the counter and the queue are updated apart, by another thread than the *)
(* one that tests them.                                                    *)
OnePlaceFile ==
    /\ IsInjective(InFlight)
    /\ ToSet(finished) \subseteq ToSet(active)
    /\ lost \cap ToSet(InFlight) = {}
    /\ remaining = Len(Unlisted) + Len(Uncounted) + Cardinality(lost)

(* Until a signal ends the main thread, every file is in flight, was given *)
(* up by the download thread, failed, or its result was collected.         *)
NoFileForgotten ==
    main # "killed" => Files \subseteq ToSet(InFlight) \cup lost \cup failed \cup completed

(* When the main loop has ended, whatever the three threads did while its  *)
(* condition was read piece by piece, no file was given up and each one    *)
(* has failed or reached the upload thread's job_batch.                    *)
LoopExitComplete ==
    main \in {"stop", "join down", "join up", "finish", "done"}
      => /\ lost = {}
         /\ Files \subseteq Batch \cup completed \cup failed

(* A file listed in clean_markers.txt, which the next run skips, was found *)
(* clean, or its report was not on the disk when it was to be uploaded;    *)
(* its purified copy, if there is one on the disk, is in S3.               *)
MarkersClean ==
    \A f \in markers :
        /\ status[f] = "clean" \/ (status[f] = "dirty" /\ <<f, "report">> \in missing)
        /\ Uploads({f}, missing) \subseteq remote

(* Local files are unlinked only when the results of the job that were on  *)
(* the disk are in S3 ("DO NOT clean up files if upload failed!").         *)
CleanedUploaded == Uploads(cleaned, missing) \subseteq remote

(* What the next run relies on is in S3 first, whatever uploads fail and   *)
(* whenever the run is interrupted: markers and unlinks follow the uploads *)
(* (_process_job_batch).                                                   *)
UploadsFirst == MarkersClean /\ CleanedUploaded

(* A job that reached upload_queue is collected, also when the loop flag   *)
(* drops while it waits in a partial batch, and after a signal.            *)
QueuedCollected == \A f \in Files : f \in ToSet(uploadQueue) ~> f \in completed

(* The main thread ends, unless the download thread gave up a file or the  *)
(* server forgot a job: queues full in both directions never block it.     *)
EndsUnlessLost ==
    <>(\/ main \in {"done", "killed"}
       \/ lost # {}
       \/ \E f \in ToSet(active) : server[f] = "unknown")

=============================================================================
