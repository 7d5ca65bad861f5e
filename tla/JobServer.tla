----------------------------- MODULE JobServer ------------------------------
(***************************************************************************)
(* The detection server of crates/decon-core/src/server/core.rs: HTTP      *)
(* handlers that register a job and send it into a bounded channel,        *)
(* worker tasks that share one receiver behind a mutex, the blocking       *)
(* detection of one file, and the in-memory table GET /status reads.       *)
(*                                                                         *)
(* Every await point of the code separates two actions: submit_job may be  *)
(* suspended (or dropped with its connection) between the insertion and    *)
(* the send; worker_loop between recv, the first status update, the        *)
(* blocking task and the second status update.                             *)
(***************************************************************************)
EXTENDS Naturals, Sequences, FiniteSets

CONSTANTS
    Jobs,        \* job ids (Uuid::new_v4: one per request, never reused)
    Workers,     \* worker tasks, config.worker_threads of them
    Capacity,    \* mpsc::channel::<Job>(100)
    Purify,      \* config.purify
    MaxCrashes,  \* bound on server restarts
    NoJob, NoWorker

ASSUME CapacityAssumption == Capacity \in Nat \ {0}
ASSUME PurifyAssumption   == Purify \in BOOLEAN
ASSUME CrashAssumption    == MaxCrashes \in Nat
ASSUME NoneAssumption     == NoJob \notin Jobs /\ NoWorker \notin Workers

VARIABLES
    jobs,      \* AppState.jobs: the table of tracked jobs
    handler,   \* the submit_job future of each id
    queue,     \* the channel's content
    receiver,  \* the holder of job_receiver's mutex
    pc,        \* where each worker_loop stands
    current,   \* the job a worker has taken out of the channel
    local,     \* what the blocking task of a worker has produced so far
    disk,      \* report_output_dir and cleaned_output_dir; survives a crash
    crashes    \* restarts so far

vars == <<jobs, handler, queue, receiver, pc, current, local, disk, crashes>>

Kinds == {"report", "purified"}

\* "whole": every line is handed over and flushed without an error.  The trailer
\* of a gz copy is written when the encoder is dropped, which tells nobody of an
\* error, and is not part of it.
FileStates == {"none", "partial", "whole"}

\* An entry of the table; "untracked" stands for an id that is not a key.
Statuses == {"untracked", "pending", "processing", "completed", "failed"}
Untracked == [status |-> "untracked", paths |-> {}]

\* "idle": id not yet drawn; "sending": inserted, waiting in send().await;
\* "sent": response returned; "gone": the future was dropped.
HandlerStates == {"idle", "sending", "sent", "gone"}

\* "lock": waiting for the receiver's mutex; "recv": in recv().await with the
\* mutex; "taken": has a job whose status is still pending; "detect".."purify":
\* inside process_single_file; "done": the blocking task has returned.
BlockingStates == {"detect", "report", "reporting", "purify", "purifying"}
WorkerStates == {"lock", "recv", "taken", "done"} \cup BlockingStates

Results == {"none", "ok", "err", "panic"}
Fresh == [paths |-> {}, result |-> "none"]

-----------------------------------------------------------------------------

Init ==
    /\ jobs = [j \in Jobs |-> Untracked]
    /\ handler = [j \in Jobs |-> "idle"]
    /\ queue = <<>>
    /\ receiver = NoWorker
    /\ pc = [w \in Workers |-> "lock"]
    /\ current = [w \in Workers |-> NoJob]
    /\ local = [w \in Workers |-> Fresh]
    /\ disk = [j \in Jobs |-> [k \in Kinds |-> "none"]]
    /\ crashes = 0

(* submit_job up to the send: the id is drawn and the job is inserted. *)
Submit(j) ==
    /\ handler[j] = "idle"
    /\ handler' = [handler EXCEPT ![j] = "sending"]
    /\ jobs' = [jobs EXCEPT ![j] = [status |-> "pending", paths |-> {}]]
    /\ UNCHANGED <<queue, receiver, pc, current, local, disk, crashes>>

\* Mutant of Enqueue: the channel holds one request fewer than asked for.
MutEnqueue(j) ==
    /\ handler[j] = "sending" /\ Len(queue) < Capacity - 1
    /\ queue' = Append(queue, j)
    /\ handler' = [handler EXCEPT ![j] = "sent"]
    /\ UNCHANGED <<jobs, receiver, pc, current, local, disk, crashes>>

(* job_sender.send(job).await: waits while the channel is full.  Its error *)
(* branch needs a dropped receiver; run_server keeps one for its lifetime. *)
Enqueue(j) ==
    /\ handler[j] = "sending"
    /\ Len(queue) < Capacity
    /\ queue' = Append(queue, j)
    /\ handler' = [handler EXCEPT ![j] = "sent"]
    /\ UNCHANGED <<jobs, receiver, pc, current, local, disk, crashes>>

(* The connection closes while submit_job waits in send: axum drops the    *)
(* future, the job stays in the table and never reaches the channel.       *)
Disconnect(j) ==
    /\ handler[j] = "sending"
    /\ handler' = [handler EXCEPT ![j] = "gone"]
    /\ UNCHANGED <<jobs, queue, receiver, pc, current, local, disk, crashes>>

-----------------------------------------------------------------------------

LockReceiver(w) ==
    /\ pc[w] = "lock"
    /\ receiver = NoWorker
    /\ receiver' = w
    /\ pc' = [pc EXCEPT ![w] = "recv"]
    /\ UNCHANGED <<jobs, handler, queue, current, local, disk, crashes>>

\* Mutant of Receive: the job stays in the channel.
MutReceive(w) ==
    /\ pc[w] = "recv"
    /\ queue # <<>>
    /\ current' = [current EXCEPT ![w] = Head(queue)]
    /\ receiver' = NoWorker
    /\ pc' = [pc EXCEPT ![w] = "taken"]
    /\ UNCHANGED <<jobs, handler, queue, local, disk, crashes>>

(* recv().await yields a job; the guard of the mutex goes out of scope. *)
Receive(w) ==
    /\ pc[w] = "recv"
    /\ queue # <<>>
    /\ current' = [current EXCEPT ![w] = Head(queue)]
    /\ queue' = Tail(queue)
    /\ receiver' = NoWorker
    /\ pc' = [pc EXCEPT ![w] = "taken"]
    /\ UNCHANGED <<jobs, handler, local, disk, crashes>>

\* Mutant of MarkProcessing: the first status update is forgotten.
MutMarkProcessing(w) ==
    /\ pc[w] = "taken"
    /\ local' = [local EXCEPT ![w] = Fresh]
    /\ pc' = [pc EXCEPT ![w] = "detect"]
    /\ UNCHANGED <<jobs, handler, queue, receiver, current, disk, crashes>>

MarkProcessing(w) ==
    /\ pc[w] = "taken"
    /\ jobs' = IF jobs[current[w]] # Untracked
               THEN [jobs EXCEPT ![current[w]].status = "processing"]
               ELSE jobs
    /\ local' = [local EXCEPT ![w] = Fresh]
    /\ pc' = [pc EXCEPT ![w] = "detect"]
    /\ UNCHANGED <<handler, queue, receiver, current, disk, crashes>>

\* Mutant of AfterReport: a contaminated file is reported but not purified.
MutAfterReport == "done"

\* The step of process_single_file after the report has been dealt with.
AfterReport == IF Purify THEN "purify" ELSE "done"

Return(w, result) ==
    /\ local' = [local EXCEPT ![w].result = result]
    /\ pc' = [pc EXCEPT ![w] = "done"]

(* process_simple_training_file: an error, a panic of the blocking task, a *)
(* file with contamination, or a clean one, which gets no report.          *)
Detect(w) ==
    /\ pc[w] = "detect"
    /\ \/ \E result \in {"err", "panic"} : Return(w, result)
       \/ /\ pc' = [pc EXCEPT ![w] = "report"]
          /\ UNCHANGED local
       \/ IF Purify
          THEN pc' = [pc EXCEPT ![w] = "purify"] /\ UNCHANGED local
          ELSE Return(w, "ok")
    /\ UNCHANGED <<jobs, handler, queue, receiver, current, disk, crashes>>

(* save_contamination_results and write_purified_file_with_job_id create   *)
(* their file, then fill it; either half may fail, which ends the task.    *)
OpenFile(w, kind, from, to) ==
    /\ pc[w] = from
    /\ \/ /\ disk' = [disk EXCEPT ![current[w]][kind] = "partial"]
          /\ pc' = [pc EXCEPT ![w] = to]
          /\ UNCHANGED local
       \/ Return(w, "err") /\ UNCHANGED disk
    /\ UNCHANGED <<jobs, handler, queue, receiver, current, crashes>>

FinishFile(w, kind, from) ==
    /\ pc[w] = from
    /\ \/ /\ disk' = [disk EXCEPT ![current[w]][kind] = "whole"]
          /\ LET next == IF kind = "report" THEN AfterReport ELSE "done"
             IN  /\ pc' = [pc EXCEPT ![w] = next]
                 /\ local' = [local EXCEPT ![w] =
                      [paths  |-> @.paths \cup {kind},
                       result |-> IF next = "done" THEN "ok" ELSE "none"]]
       \/ Return(w, "err") /\ UNCHANGED disk
    /\ UNCHANGED <<jobs, handler, queue, receiver, current, crashes>>

OpenReport(w)    == OpenFile(w, "report", "report", "reporting")
FinishReport(w)  == FinishFile(w, "report", "reporting")
OpenPurified(w)  == OpenFile(w, "purified", "purify", "purifying")
FinishPurified(w) == FinishFile(w, "purified", "purifying")

(* The second status update of worker_loop: Completed with the paths, or   *)
(* Failed for an error and for a panic alike, without paths.               *)
Outcome(w) ==
    IF local[w].result = "ok"
    THEN [status |-> "completed", paths |-> local[w].paths]
    ELSE [status |-> "failed", paths |-> jobs[current[w]].paths]

\* Mutant of Publish: the JoinError of a panic is propagated and ends the worker.
MutPublish(w) ==
    /\ pc[w] = "done"
    /\ local[w].result # "panic"
    /\ jobs' = [jobs EXCEPT ![current[w]] = Outcome(w)]
    /\ pc' = [pc EXCEPT ![w] = "lock"]
    /\ current' = [current EXCEPT ![w] = NoJob]
    /\ local' = [local EXCEPT ![w] = Fresh]
    /\ UNCHANGED <<handler, queue, receiver, disk, crashes>>

Publish(w) ==
    /\ pc[w] = "done"
    /\ jobs' = IF jobs[current[w]] # Untracked
               THEN [jobs EXCEPT ![current[w]] = Outcome(w)]
               ELSE jobs
    /\ pc' = [pc EXCEPT ![w] = "lock"]
    /\ current' = [current EXCEPT ![w] = NoJob]
    /\ local' = [local EXCEPT ![w] = Fresh]
    /\ UNCHANGED <<handler, queue, receiver, disk, crashes>>

-----------------------------------------------------------------------------

(* The process dies and is started again: table, channel, handlers and     *)
(* workers are lost; ids and files are not.                                *)
Crash ==
    /\ crashes < MaxCrashes
    /\ crashes' = crashes + 1
    /\ jobs' = [j \in Jobs |-> Untracked]
    /\ handler' = [j \in Jobs |->
                     IF handler[j] = "sending" THEN "gone" ELSE handler[j]]
    /\ queue' = <<>>
    /\ receiver' = NoWorker
    /\ pc' = [w \in Workers |-> "lock"]
    /\ current' = [w \in Workers |-> NoJob]
    /\ local' = [w \in Workers |-> Fresh]
    /\ UNCHANGED disk

Worker(w) ==
    \/ LockReceiver(w)
    \/ Receive(w)
    \/ MarkProcessing(w)
    \/ Detect(w)
    \/ OpenReport(w)
    \/ FinishReport(w)
    \/ OpenPurified(w)
    \/ FinishPurified(w)
    \/ Publish(w)

Next ==
    \/ \E j \in Jobs : Submit(j) \/ Enqueue(j) \/ Disconnect(j)
    \/ \E w \in Workers : Worker(w)
    \/ Crash

Spec == Init /\ [][Next]_vars

(* The tokio runtime polls every ready task, and its semaphore serves the  *)
(* senders and the tasks that wait for the mutex in order; the blocking    *)
(* task of one file ends because a file does.  Nothing forces a client to  *)
(* submit, a connection to close or the process to die.                    *)
Fairness ==
    /\ \A j \in Jobs : WF_vars(Enqueue(j))
    /\ \A w \in Workers : /\ WF_vars(Receive(w) \/ MarkProcessing(w) \/ Detect(w)
                                       \/ OpenReport(w) \/ FinishReport(w)
                                       \/ OpenPurified(w) \/ FinishPurified(w)
                                       \/ Publish(w))
                          /\ SF_vars(LockReceiver(w))

FairSpec == Spec /\ Fairness

-----------------------------------------------------------------------------

TypeOK ==
    /\ jobs \in [Jobs -> [status : Statuses, paths : SUBSET Kinds]]
    /\ handler \in [Jobs -> HandlerStates]
    /\ queue \in Seq(Jobs)
    /\ receiver \in Workers \cup {NoWorker}
    /\ pc \in [Workers -> WorkerStates]
    /\ current \in [Workers -> Jobs \cup {NoJob}]
    /\ local \in [Workers -> [paths : SUBSET Kinds, result : Results]]
    /\ disk \in [Jobs -> [Kinds -> FileStates]]
    /\ crashes \in 0..MaxCrashes

InQueue(j) == \E i \in 1..Len(queue) : queue[i] = j
TakenBy(w, j) == pc[w] = "taken" /\ current[w] = j
RunBy(w, j) == pc[w] \in BlockingStates \cup {"done"} /\ current[w] = j
Held(w) == current[w] # NoJob
Written(j) == {k \in Kinds : disk[j][k] = "whole"}

(* A tracked job is in exactly one place, and its status says which: a     *)
(* pending one is with its submit_job future, in the channel or with the   *)
(* worker that took it (or was abandoned by a closed connection), a        *)
(* processing one is with exactly one worker, a finished one is nowhere.   *)
(* Lost or duplicated jobs of the hand-overs in submit_job and worker_loop *)
(* would show here.                                                        *)
OnePlace ==
    /\ \A j \in Jobs :
         LET inHandler == handler[j] = "sending"
             taken     == \E w \in Workers : TakenBy(w, j)
             running   == \E w \in Workers : RunBy(w, j)
             status    == jobs[j].status
         IN  /\ inHandler => ~InQueue(j) /\ ~taken
             /\ InQueue(j) => ~taken
             /\ status = "pending" =>
                  inHandler \/ handler[j] = "gone" \/ InQueue(j) \/ taken
             /\ inHandler \/ InQueue(j) \/ taken => status = "pending"
             /\ running <=> status = "processing"
    /\ \A i, k \in 1..Len(queue) : queue[i] = queue[k] => i = k
    /\ \A v, w \in Workers : Held(v) /\ current[v] = current[w] => v = w

(* Only a worker that sits in recv().await holds the receiver's mutex: a   *)
(* worker busy with a file never keeps the others from taking jobs.        *)
ReceiverFree ==
    \A w \in Workers : receiver = w <=> pc[w] = "recv"

(* What get_job_status says of a completed job is true: every path it      *)
(* returns is a file that is written to its end, no output of the job is   *)
(* left out, and with purify on there is always a purified file.           *)
PublishedOutputs ==
    \A j \in Jobs : jobs[j].status = "completed" =>
        /\ jobs[j].paths = Written(j)
        /\ \A k \in Kinds : disk[j][k] # "partial"
        /\ "purified" \in jobs[j].paths <=> Purify

(* No file is written twice: once whole, an output is never truncated or   *)
(* reopened, by another worker or after a restart of the server.  It is    *)
(* what the refinement at the end says of the files; it is proved.         *)
WholeFilesStay ==
    [][\A j \in Jobs, k \in Kinds :
         disk[j][k] = "whole" => disk'[j][k] = "whole"]_vars

(* What OnePlace needs to be inductive: an id not yet drawn has no entry,  *)
(* and a worker has a job between recv and the second status update.       *)
Accounts ==
    /\ \A j \in Jobs : handler[j] = "idle" => jobs[j] = Untracked
    /\ \A w \in Workers : Held(w) <=> pc[w] \notin {"lock", "recv"}

PlaceInv == TypeOK /\ OnePlace /\ ReceiverFree /\ Accounts

(* What PublishedOutputs needs: how far a worker's job is with its two     *)
(* files at every point of process_single_file.                            *)
FilesOf(w) ==
    LET report   == disk[current[w]]["report"]
        purified == disk[current[w]]["purified"]
    IN  /\ pc[w] \in {"detect", "report"} => report = "none"
        /\ pc[w] = "reporting" => report = "partial"
        /\ pc[w] \in {"detect", "report", "reporting"} => local[w] = Fresh
        /\ pc[w] \in {"detect", "report", "reporting", "purify"} =>
             purified = "none"
        /\ pc[w] = "purifying" => purified = "partial"
        /\ pc[w] \in {"purify", "purifying"} =>
             /\ Purify
             /\ report # "partial"
             /\ local[w].paths = Written(current[w])
        /\ pc[w] = "done" /\ local[w].result = "ok" =>
             /\ report # "partial" /\ purified # "partial"
             /\ local[w].paths = Written(current[w])
             /\ "purified" \in local[w].paths <=> Purify

FilesInv ==
    /\ \A j \in Jobs :
         /\ jobs[j].status # "completed" => jobs[j].paths = {}
         /\ handler[j] = "idle" \/ jobs[j].status = "pending" =>
              \A k \in Kinds : disk[j][k] = "none"
    /\ \A w \in Workers : FilesOf(w)
    /\ PublishedOutputs

Inv == PlaceInv /\ FilesInv

-----------------------------------------------------------------------------

(* Every job whose response was returned reaches a final status, unless    *)
(* the server dies: the shared receiver starves no job and no worker is    *)
(* stuck behind another (worker_loop, lines 274-340).                      *)
SentFinishes ==
    \A j \in Jobs :
        handler[j] = "sent" ~> jobs[j].status \in {"completed", "failed", "untracked"}

(* A client blocked in POST /submit by a full channel gets its answer.     *)
SubmitAnswers ==
    \A j \in Jobs : handler[j] = "sending" ~> handler[j] # "sending"

-----------------------------------------------------------------------------

(* get_job_status: paths are added to the answer of a completed job only.  *)
Reply(j) ==
    CASE jobs[j].status = "untracked" -> [status |-> "not found", paths |-> {}]
      [] jobs[j].status = "completed" -> jobs[j]
      [] OTHER -> [status |-> jobs[j].status, paths |-> {}]

Issued == {j \in Jobs : handler[j] # "idle"}

Service == INSTANCE JobService
             WITH issued <- Issued, reply <- [j \in Jobs |-> Reply(j)]

(* The server behaves as JobService promises its clients: statuses only    *)
(* advance, a completed answer names exactly the whole files, and after a  *)
(* restart every id is unknown.                                            *)
ImplementsService == Service!ServiceSpec

=============================================================================
