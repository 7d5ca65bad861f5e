----------------------------- MODULE Workspace -----------------------------
(***************************************************************************)
(* The working directory of one input on one host, as successive and       *)
(* concurrent processes of python/orchestration.py use it: the lock file   *)
(* (_acquire_lock, _release_lock, _signal_handler), the choice of the      *)
(* files (_get_files_to_process) and clean_markers.txt, by which a run     *)
(* skips what an interrupted one found clean.  A process can be killed at  *)
(* any step; the directory and S3 stay.                                    *)
(*                                                                         *)
(* The threads of one run are the subject of Orchestrator.  Here a file of *)
(* a run waits in todo, is with the upload thread, or waits for its marker *)
(* to be appended; LoopExitComplete of Orchestrator is what Finish relies  *)
(* on.                                                                     *)
(***************************************************************************)
EXTENDS Naturals, Sequences, FiniteSets

CONSTANTS
    Procs,      \* processes; each is started once and has a pid of its own
    Names,      \* relative paths that the listing of the input returns
    Mine,       \* those whose hash selects this host
    Purify,     \* the server writes purified copies
    OutputFaults, \* files with outputs that may not be where the server says
    MaxKills,   \* bound on processes killed
    MaxSignals  \* bound on SIGINT and SIGTERM

(* A relative path: directory, the parts of the file name between dots,    *)
(* .json or .jsonl, and the compression's extension or "none".             *)
ASSUME NamesAssumption ==
    \A n \in Names : DOMAIN n = {"dir", "stem", "ext", "zip"} /\ n.stem \in Seq(STRING)
ASSUME MineAssumption == Mine \subseteq Names
ASSUME ProcsAssumption == "none" \notin Procs /\ "empty" \notin Procs
ASSUME LimitsAssumption == MaxKills \in Nat /\ MaxSignals \in Nat /\ Purify \in BOOLEAN

VARIABLES
    pc,         \* where the main thread of each process stands
    found,      \* existing_pid, read from the lock file
    lock,       \* the lock file: "none", "empty" or the pid in it
    opened,     \* processes whose open file is the one at the lock's path
    todo,       \* files a process has still to bring to its upload thread
    uploading,  \* files with its upload thread
    marking,    \* files uploaded without a report, markers still to be appended
    failed,     \* files that failed in this process
    markers,    \* the lines of clean_markers.txt
    remote,     \* what is in S3: <<kind, key, file it was made from>>
    verdict,    \* what the detection says of each file
    kills, signals,
    done,       \* history: files whose results a process has uploaded
    marked,     \* history: files marked since the marker file was deleted
    missing,    \* history: outputs not found where the server says
    raced,      \* history: two processes were in _acquire_lock at once
    stray       \* history: a signal handler unlinked another's lock

lockVars == <<found, lock, opened, raced, stray>>
fileVars == <<todo, uploading, marking, failed, markers, remote, done, marked,
              missing>>
boundVars == <<verdict, kills, signals>>
vars == <<pc, lockVars, fileVars, boundVars>>

Acquiring == {"test", "read", "probe", "stale", "invalid", "discard", "open", "write"}
Working   == {"health", "list", "work", "delete", "release"}
Threads   == {"work", "delete", "release", "closing", "signalled"}
Alive     == Acquiring \cup Working \cup {"closing", "signalled"}

Init ==
    /\ pc = [p \in Procs |-> "off"]
    /\ found = [p \in Procs |-> "none"]
    /\ lock = "none" /\ opened = {}
    /\ todo = [p \in Procs |-> {}] /\ uploading = [p \in Procs |-> {}]
    /\ marking = [p \in Procs |-> {}] /\ failed = [p \in Procs |-> {}]
    /\ markers = {} /\ remote = {}
    /\ verdict \in [Mine -> {"clean", "dirty"}]
    /\ kills = 0 /\ signals = 0
    /\ done = {} /\ marked = {} /\ missing = {} /\ raced = FALSE /\ stray = FALSE

Goto(p, place) == pc' = [pc EXCEPT ![p] = place]

-----------------------------------------------------------------------------
(* Names. *)

Zips == {"gz", "zst", "zstd", "bz2", "xz"}
WithoutZip(parts) ==
    IF Len(parts) > 1 /\ parts[Len(parts)] \in Zips
    THEN SubSeq(parts, 1, Len(parts) - 1) ELSE parts

(* The marker of a clean file: .json or .jsonl is taken off when it is the *)
(* last extension, then a compression's extension: from a compressed name  *)
(* only the latter goes and .json or .jsonl stays.                         *)
MarkerOf(n) ==
    [dir |-> n.dir, parts |-> IF n.zip = "none" THEN WithoutZip(n.stem)
                                                ELSE Append(n.stem, n.ext)]

\* Mutant of Processed: only uncompressed .json is expanded.
MutProcessed ==
    {n \in Names : /\ [dir |-> n.dir, parts |-> n.stem] \in markers
                   /\ n.ext = "json" /\ n.zip = "none"}

(* _get_processed_files: every marker with every extension. *)
Processed == {n \in Names : [dir |-> n.dir, parts |-> n.stem] \in markers}

\* Mutant of ReportKey: the directory of the relative path is left out.
MutReportKey(n) == [dir |-> "", parts |-> n.stem]

(* The keys of a job's results in S3: <name>-<mode>-<threshold>.jsonl, and *)
(* <name>.gz, where an uncompressed name has lost .json or .jsonl.         *)
ReportKey(n)  == [dir |-> n.dir, parts |-> n.stem]
CleanedKey(n) ==
    [dir |-> n.dir, parts |-> IF n.zip = "none" THEN n.stem ELSE Append(n.stem, n.ext)]

Outputs(S) ==
    {<<"report", ReportKey(n), n>> : n \in {m \in S : verdict[m] = "dirty"}}
      \cup {<<"cleaned", CleanedKey(n), n>> : n \in {m \in S : Purify}}

(* Later uploads replace what is under the same key; two of one batch with *)
(* one key are uploaded in parallel, and either may stay.                  *)
Put(sent) ==
    sent \cup {r \in remote : \A e \in sent : <<e[1], e[2]>> # <<r[1], r[2]>>}

-----------------------------------------------------------------------------
(* _acquire_lock, one action per access to the file. *)

Start(p) ==
    /\ pc[p] = "off"
    /\ Goto(p, "test")
    /\ raced' = (raced \/ \E q \in Procs : pc[q] \in Acquiring)
    /\ UNCHANGED <<found, lock, opened, stray, fileVars, boundVars>>

Test(p) ==
    /\ pc[p] = "test"
    /\ Goto(p, IF lock = "none" THEN "open" ELSE "read")
    /\ UNCHANGED <<lockVars, fileVars, boundVars>>

(* FileNotFoundError, or ValueError of an empty file, or a pid ... *)
Read(p) ==
    /\ pc[p] = "read"
    /\ IF lock \in {"none", "empty"}
       THEN Goto(p, "invalid") /\ UNCHANGED found
       ELSE Goto(p, "probe") /\ found' = [found EXCEPT ![p] = lock]
    /\ UNCHANGED <<lock, opened, raced, stray, fileVars, boundVars>>

(* ... of a process that runs (exit), or does not. *)
Probe(p) ==
    /\ pc[p] = "probe"
    /\ Goto(p, IF pc[found[p]] \in Alive THEN "gone" ELSE "stale")
    /\ UNCHANGED <<lockVars, fileVars, boundVars>>

Unlink == lock' = "none" /\ opened' = {}

(* unlink; its FileNotFoundError goes to the same handler as read's. *)
RemoveStale(p) ==
    /\ pc[p] = "stale"
    /\ Unlink
    /\ Goto(p, IF lock = "none" THEN "invalid" ELSE "open")
    /\ UNCHANGED <<found, raced, stray, fileVars, boundVars>>

Invalid(p) ==
    /\ pc[p] = "invalid"
    /\ Goto(p, IF lock = "none" THEN "open" ELSE "discard")
    /\ UNCHANGED <<lockVars, fileVars, boundVars>>

(* unlink inside the handler: its FileNotFoundError ends the process. *)
Discard(p) ==
    /\ pc[p] = "discard"
    /\ Unlink
    /\ Goto(p, IF lock = "none" THEN "gone" ELSE "open")
    /\ UNCHANGED <<found, raced, stray, fileVars, boundVars>>

(* open(..., 'w') creates or truncates; an error ends the process ...       *)
OpenLock(p) ==
    /\ pc[p] = "open"
    /\ \/ /\ lock' = "empty"
          /\ opened' = opened \cup {p}
          /\ Goto(p, "write")
       \/ Goto(p, "gone") /\ UNCHANGED <<lock, opened>>
    /\ UNCHANGED <<found, raced, stray, fileVars, boundVars>>

\* Mutant of WriteLock: the file stays empty.
MutWriteLock(p) ==
    /\ pc[p] = "write"
    /\ opened' = opened \ {p}
    /\ Goto(p, "health")
    /\ UNCHANGED <<found, lock, raced, stray, fileVars, boundVars>>

(* ... and the pid gets there when the file is closed, unless it has been   *)
(* unlinked: then it goes into a file without a name.                       *)
WriteLock(p) ==
    /\ pc[p] = "write"
    /\ lock' = IF p \in opened THEN p ELSE lock
    /\ opened' = opened \ {p}
    /\ Goto(p, "health")
    /\ UNCHANGED <<found, raced, stray, fileVars, boundVars>>

Acquire(p) ==
    \/ Start(p) \/ Test(p) \/ Read(p) \/ Probe(p) \/ RemoveStale(p)
    \/ Invalid(p) \/ Discard(p) \/ OpenLock(p) \/ WriteLock(p)

-----------------------------------------------------------------------------
(* run, from the health check to the last message. *)

(* The server answers /health, or has not in five minutes (exit).  *)
Health(p) ==
    /\ pc[p] = "health"
    /\ Goto(p, "list") \/ Goto(p, "gone")
    /\ UNCHANGED <<lockVars, fileVars, boundVars>>

(* _get_files_to_process; without files the run ends at once, and the       *)
(* markers stay.                                                            *)
List(p) ==
    /\ pc[p] = "list"
    /\ todo' = [todo EXCEPT ![p] = {n \in Names \ Processed : n \in Mine}]
    /\ Goto(p, IF todo'[p] = {} THEN "release" ELSE "work")
    /\ UNCHANGED <<lockVars, uploading, marking, failed, markers, remote, done,
                   marked, missing, boundVars>>

(* A job has completed and is put into upload_queue. *)
Complete(p) ==
    /\ pc[p] = "work"
    /\ \E n \in todo[p] :
         /\ todo' = [todo EXCEPT ![p] = @ \ {n}]
         /\ uploading' = [uploading EXCEPT ![p] = @ \cup {n}]
    /\ UNCHANGED <<pc, lockVars, marking, failed, markers, remote, done, marked,
                   missing, boundVars>>

(* Its download, submission or detection has failed. *)
Fail(p) ==
    /\ pc[p] = "work"
    /\ \E n \in todo[p] :
         /\ todo' = [todo EXCEPT ![p] = @ \ {n}]
         /\ failed' = [failed EXCEPT ![p] = @ \cup {n}]
    /\ UNCHANGED <<pc, lockVars, uploading, marking, markers, remote, done, marked,
                   missing, boundVars>>

\* Mutant of Finish: files on their way are forgotten.
MutFinish(p) ==
    /\ pc[p] = "work"
    /\ todo' = [todo EXCEPT ![p] = {}]
    /\ Goto(p, "delete")
    /\ UNCHANGED <<lockVars, uploading, marking, failed, markers, remote, done,
                   marked, missing, boundVars>>

(* The main loop has ended; the upload thread may still be busy, because    *)
(* join has a timeout.                                                      *)
Finish(p) ==
    /\ pc[p] = "work" /\ todo[p] = {}
    /\ Goto(p, "delete")
    /\ UNCHANGED <<lockVars, fileVars, boundVars>>

DeleteMarkers(p) ==
    /\ pc[p] = "delete"
    /\ markers' = {} /\ marked' = {}
    /\ Goto(p, "release")
    /\ UNCHANGED <<lockVars, todo, uploading, marking, failed, remote, done,
                   missing, boundVars>>

(* _release_lock unlinks whatever is there. *)
Release(p) ==
    /\ pc[p] = "release"
    /\ Unlink
    /\ Goto(p, "closing")
    /\ UNCHANGED <<found, raced, stray, fileVars, boundVars>>

(* The process ends when its other threads have. *)
Exit(p) ==
    /\ pc[p] = "closing"
    /\ uploading[p] = {} /\ marking[p] = {}
    /\ Goto(p, "gone")
    /\ UNCHANGED <<lockVars, fileVars, boundVars>>

Run(p) ==
    \/ Health(p) \/ List(p) \/ Complete(p) \/ Fail(p)
    \/ Finish(p) \/ DeleteMarkers(p) \/ Release(p) \/ Exit(p)

-----------------------------------------------------------------------------
(* The upload thread: _process_job_batch of a batch S. *)

(* Where the outputs gone are not on the disk, the others are uploaded;     *)
(* every job without a report to upload gets a marker, whatever was found.  *)
CleanOf(S, gone) == {n \in S : <<"report", ReportKey(n), n>> \notin Outputs(S) \ gone}

Uploaded(p) ==
    /\ pc[p] \in Threads /\ marking[p] = {}
    /\ \E S \in SUBSET uploading[p] \ {{}} : \E gone \in SUBSET Outputs(S \cap OutputFaults) :
         /\ missing' = missing \cup gone
         /\ remote' = Put(Outputs(S) \ gone)
         /\ uploading' = [uploading EXCEPT ![p] = @ \ S]
         /\ marking' = [marking EXCEPT ![p] = CleanOf(S, gone)]
         /\ done' = done \cup S
    /\ UNCHANGED <<pc, lockVars, todo, failed, markers, marked, boundVars>>

\* Mutant of UploadFailed: the batch goes on to its markers.
MutUploadFailed(p) ==
    /\ pc[p] \in Threads /\ marking[p] = {}
    /\ \E S \in SUBSET uploading[p] \ {{}} : \E gone \in SUBSET Outputs(S \cap OutputFaults) :
         /\ gone # Outputs(S)
         /\ missing' = missing \cup gone
         /\ \E sent \in SUBSET (Outputs(S) \ gone) : remote' = Put(sent)
         /\ uploading' = [uploading EXCEPT ![p] = @ \ S]
         /\ failed' = [failed EXCEPT ![p] = @ \cup S]
         /\ marking' = [marking EXCEPT ![p] = CleanOf(S, gone)]
    /\ UNCHANGED <<pc, lockVars, todo, markers, done, marked, boundVars>>

(* The batch and its fallback fail after any part was sent. *)
UploadFailed(p) ==
    /\ pc[p] \in Threads /\ marking[p] = {}
    /\ \E S \in SUBSET uploading[p] \ {{}} : \E gone \in SUBSET Outputs(S \cap OutputFaults) :
         /\ gone # Outputs(S)
         /\ missing' = missing \cup gone
         /\ \E sent \in SUBSET (Outputs(S) \ gone) : remote' = Put(sent)
         /\ uploading' = [uploading EXCEPT ![p] = @ \ S]
         /\ failed' = [failed EXCEPT ![p] = @ \cup S]
    /\ UNCHANGED <<pc, lockVars, todo, marking, markers, done, marked, boundVars>>

(* _add_clean_marker, one line after the other. *)
Mark(p) ==
    /\ pc[p] \in Threads
    /\ \E n \in marking[p] :
         /\ markers' = markers \cup {MarkerOf(n)}
         /\ marked' = marked \cup {n}
         /\ marking' = [marking EXCEPT ![p] = @ \ {n}]
    /\ UNCHANGED <<pc, lockVars, todo, uploading, failed, remote, done, missing,
                   boundVars>>

Upload(p) == Uploaded(p) \/ UploadFailed(p) \/ Mark(p)

-----------------------------------------------------------------------------
(* SIGINT or SIGTERM: _signal_handler unlinks the lock file, whoever's it   *)
(* is, and ends the main thread.  From then on the process waits for its    *)
(* other threads: they go on, or end if the loop was over and they were     *)
(* being joined; another signal runs the handler again.                     *)
Signal(p) ==
    /\ signals < MaxSignals /\ signals' = signals + 1
    /\ pc[p] \in Working \cup {"closing", "signalled"}
    /\ Unlink
    /\ stray' = (stray \/ lock \notin {"none", p})
    /\ \/ pc[p] \in {"health", "list"} /\ Goto(p, "gone")
       \/ pc[p] \in {"work", "signalled"} /\ Goto(p, "signalled")
       \/ pc[p] = "work" /\ todo[p] = {} /\ Goto(p, "closing")
       \/ pc[p] \in {"delete", "release", "closing"} /\ Goto(p, "closing")
    /\ UNCHANGED <<found, raced, fileVars, verdict, kills>>

(* SIGKILL, or the host goes down: files in memory are forgotten. *)
Kill(p) ==
    /\ kills < MaxKills /\ kills' = kills + 1
    /\ pc[p] \in Alive
    /\ Goto(p, "gone")
    /\ opened' = opened \ {p}
    /\ todo' = [todo EXCEPT ![p] = {}]
    /\ uploading' = [uploading EXCEPT ![p] = {}]
    /\ marking' = [marking EXCEPT ![p] = {}]
    /\ UNCHANGED <<found, lock, raced, stray, failed, markers, remote, done, marked,
                   missing, verdict, signals>>

Next == \E p \in Procs : Acquire(p) \/ Run(p) \/ Upload(p) \/ Signal(p) \/ Kill(p)

Spec == Init /\ [][Next]_vars

-----------------------------------------------------------------------------
(* Properties. *)

(* No name of the host has the marker or the keys of another.               *)
DistinctNames ==
    \A m, n \in Mine :
        /\ MarkerOf(m) = [dir |-> n.dir, parts |-> n.stem] => m = n
        /\ ReportKey(m) = ReportKey(n) => m = n
        /\ CleanedKey(m) = CleanedKey(n) => m = n

TypeOK ==
    /\ pc \in [Procs -> {"off", "gone"} \cup Alive]
    /\ found \in [Procs -> Procs \cup {"none"}]
    /\ lock \in Procs \cup {"none", "empty"}
    /\ opened \subseteq Procs
    /\ \A place \in {todo, uploading, marking, failed} :
         place \in [Procs -> SUBSET Mine]
    /\ \A S \in {done, marked} : S \subseteq Mine
    /\ markers \subseteq {MarkerOf(n) : n \in Mine}
    /\ verdict \in [Mine -> {"clean", "dirty"}]
    /\ remote \cup missing \subseteq Outputs(Mine)
    /\ kills \in 0 .. MaxKills /\ signals \in 0 .. MaxSignals
    /\ raced \in BOOLEAN /\ stray \in BOOLEAN

(* "Acquire lock file to prevent multiple instances" (line 191): whatever   *)
(* is killed or signalled, and whichever lock files are left behind, two    *)
(* processes are between their lock and its release at once only if two     *)
(* were in _acquire_lock at once or a handler has unlinked another's lock.  *)
LockExcludes ==
    ~raced /\ ~stray => \A p, q \in Procs : pc[p] \in Working /\ pc[q] \in Working => p = q

(* "Skip if already processed" (line 487): what the markers make the next   *)
(* run skip was brought to S3 by an earlier one, as far as it was on the    *)
(* disk, and is clean unless its report was not, also when runs overlap, an *)
(* upload failed half-way, or a thread marks late.  (The exception is real: *)
(* a file with findings whose report is not on the disk is marked and never *)
(* looked at again, though line 977 says "No contamination found - mark for *)
(* clean marker creation".)                                                 *)
SkipsOnlyDone ==
    \A n \in Processed \cap Mine :
        /\ n \in done
        /\ verdict[n] = "clean" \/ <<"report", ReportKey(n), n>> \in missing
        /\ Outputs({n}) \ missing \subseteq remote

(* A restarted run does not repeat an uncompressed file that was marked     *)
(* since the last run that ended: the names written and those looked for    *)
(* agree.                                                                   *)
Plain == {n \in Mine : n.zip = "none" /\ WithoutZip(n.stem) = n.stem}
ResumeSkips ==
    [][\A p \in Procs : todo'[p] \ todo[p] \subseteq Mine \ (Plain \cap marked)]_vars

(* At "WORK COMPLETE EXITING" every file of the host has its results in S3, *)
(* as far as they were on the disk, from this run or an interrupted one, or *)
(* failed in this run, or is with the upload thread that join has given up  *)
(* on.                                                                      *)
AllAccounted ==
    \A p \in Procs :
        pc[p] \in {"delete", "release"}
          => Mine \subseteq done \cup failed[p] \cup uploading[p]

(* The results of different files do not replace each other in S3: those    *)
(* that were on the disk when they were to be uploaded are there.           *)
ResultsKept == \A n \in done : Outputs({n}) \ missing \subseteq remote

=============================================================================
