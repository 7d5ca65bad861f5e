-------------------------- MODULE WorkspaceProofs --------------------------
(***************************************************************************)
(* Proofs about Workspace, for any number of processes, files, kills and   *)
(* signals.  LockInv is the strengthening of LockExcludes; FileInv the one *)
(* of the three properties about files.                                    *)
(***************************************************************************)
EXTENDS Workspace, TLAPS

Places == {"off", "gone"} \cup Alive

LockTypes ==
    /\ pc \in [Procs -> Places]
    /\ found \in [Procs -> Procs \cup {"none"}]
    /\ lock \in Procs \cup {"none", "empty"}
    /\ opened \subseteq Procs
    /\ raced \in BOOLEAN /\ stray \in BOOLEAN

(* Past the test of the lock file and about to write it. *)
Claiming == {"stale", "invalid", "discard", "open", "write"}

OneAcquires ==
    ~raced => \A p, q \in Procs : pc[p] \in Acquiring /\ pc[q] \in Acquiring => p = q

LockNamesWorker == \A p \in Procs : pc[p] \in Working => lock = p

ClaimsFree ==
    \A p, q \in Procs : pc[p] \in Claiming => pc[q] \notin Working

ProbesWorker ==
    \A p, q \in Procs : pc[p] = "probe" /\ pc[q] \in Working => found[p] = q

WritesOwn == \A p \in Procs : pc[p] = "write" => p \in opened /\ lock = "empty"

Order ==
    ~raced /\ ~stray => LockNamesWorker /\ ClaimsFree /\ ProbesWorker /\ WritesOwn

LockInv == LockTypes /\ OneAcquires /\ Order

USE DEF Acquiring, Working, Threads, Alive, Places, Claiming

LEMMA LockInit == Init => LockInv
  BY ProcsAssumption DEF Init, LockInv, LockTypes, OneAcquires, Order, LockNamesWorker,
     ClaimsFree, ProbesWorker, WritesOwn

LEMMA LockStep == LockInv /\ [Next]_vars => LockInv'
  <1> SUFFICES ASSUME LockInv, [Next]_vars PROVE LockInv'
    OBVIOUS
  <1> USE DEF LockInv, LockTypes, OneAcquires, Order, LockNamesWorker, ClaimsFree,
              ProbesWorker, WritesOwn, Goto
  <1>1. ASSUME NEW p \in Procs, Start(p) PROVE LockInv'
    <2> DEFINE overlap == \E q \in Procs : pc[q] \in Acquiring
    <2>1. CASE overlap
      <3>1. raced' /\ raced' \in BOOLEAN
        BY <1>1, <2>1, Zenon DEF Start
      <3> QED BY <1>1, <3>1 DEF Start
    <2>2. CASE ~overlap
      <3>1. raced' = raced
        BY <1>1, <2>2, Zenon DEF Start
      <3> QED BY <1>1, <2>2, <3>1 DEF Start
    <2> QED BY <2>1, <2>2
  <1>2. ASSUME NEW p \in Procs, Test(p) PROVE LockInv'
    BY <1>2, ProcsAssumption DEF Test, lockVars
  <1>3. ASSUME NEW p \in Procs, Read(p) PROVE LockInv'
    BY <1>3, ProcsAssumption DEF Read
  <1>4. ASSUME NEW p \in Procs, Probe(p) PROVE LockInv'
    BY <1>4, ProcsAssumption DEF Probe, lockVars
  <1>5. ASSUME NEW p \in Procs, RemoveStale(p) PROVE LockInv'
    BY <1>5, ProcsAssumption DEF RemoveStale, Unlink
  <1>6. ASSUME NEW p \in Procs, Invalid(p) PROVE LockInv'
    BY <1>6, ProcsAssumption DEF Invalid, lockVars
  <1>7. ASSUME NEW p \in Procs, Discard(p) PROVE LockInv'
    BY <1>7, ProcsAssumption DEF Discard, Unlink
  <1>8. ASSUME NEW p \in Procs, OpenLock(p) PROVE LockInv'
    BY <1>8, ProcsAssumption DEF OpenLock
  <1>9. ASSUME NEW p \in Procs, WriteLock(p) PROVE LockInv'
    BY <1>9, ProcsAssumption DEF WriteLock
  <1>10. ASSUME NEW p \in Procs, Run(p) PROVE LockInv'
    <2>1. CASE Health(p)
      BY <2>1 DEF Health, lockVars
    <2>2. CASE List(p)
      BY <2>2 DEF List, lockVars
    <2>3. CASE Complete(p)
      BY <2>3 DEF Complete, lockVars
    <2>4. CASE Fail(p)
      BY <2>4 DEF Fail, lockVars
    <2>5. CASE Finish(p)
      BY <2>5 DEF Finish, lockVars
    <2>6. CASE DeleteMarkers(p)
      BY <2>6 DEF DeleteMarkers, lockVars
    <2>7. CASE Release(p)
      BY <2>7, ProcsAssumption DEF Release, Unlink
    <2>8. CASE Exit(p)
      BY <2>8 DEF Exit, lockVars
    <2> QED BY <1>10, <2>1, <2>2, <2>3, <2>4, <2>5, <2>6, <2>7, <2>8 DEF Run
  <1>11. ASSUME NEW p \in Procs, Upload(p) PROVE LockInv'
    BY <1>11 DEF Upload, Uploaded, UploadFailed, Mark, lockVars
  <1>12. ASSUME NEW p \in Procs, Signal(p) PROVE LockInv'
    <2>1. CASE lock \in {"none", p}
      <3>1. stray' = stray
        BY <1>12, <2>1, Zenon DEF Signal
      <3>2. ~raced /\ ~stray => \A q \in Procs : pc'[q] \notin Working
        BY <1>12, <2>1, ProcsAssumption DEF Signal
      <3> QED BY <1>12, <3>1, <3>2, ProcsAssumption DEF Signal, Unlink
    <2>2. CASE lock \notin {"none", p}
      <3>1. stray' /\ stray' \in BOOLEAN
        BY <1>12, <2>2, Zenon DEF Signal
      <3> QED BY <1>12, <3>1, ProcsAssumption DEF Signal, Unlink
    <2> QED BY <2>1, <2>2
  <1>13. ASSUME NEW p \in Procs, Kill(p) PROVE LockInv'
    BY <1>13 DEF Kill
  <1>14. CASE UNCHANGED vars
    BY <1>14 DEF vars, lockVars
  <1> QED
    BY <1>1, <1>2, <1>3, <1>4, <1>5, <1>6, <1>7, <1>8, <1>9, <1>10, <1>11, <1>12, <1>13,
       <1>14 DEF Next, Acquire

(* The lock file excludes, whatever is killed or signalled and for any      *)
(* number of processes, unless two acquisitions overlapped or a handler     *)
(* unlinked another's lock.                                                 *)
THEOREM LockExcludesHolds == Spec => []LockExcludes
  <1>1. LockInv => LockExcludes
    BY DEF LockInv, Order, LockNamesWorker, LockExcludes
  <1> QED BY <1>1, LockInit, LockStep, PTL DEF Spec

-----------------------------------------------------------------------------
(* The files. *)

FileTypes ==
    /\ todo \in [Procs -> SUBSET Mine]
    /\ uploading \in [Procs -> SUBSET Mine]
    /\ marking \in [Procs -> SUBSET Mine]
    /\ failed \in [Procs -> SUBSET Mine]
    /\ done \subseteq Mine /\ marked \subseteq Mine
    /\ markers \subseteq {MarkerOf(n) : n \in Mine}
    /\ remote \subseteq Outputs(Mine) /\ missing \subseteq Outputs(Mine)
    /\ verdict \in [Mine -> {"clean", "dirty"}]

BoundTypes == kills \in 0 .. MaxKills /\ signals \in 0 .. MaxSignals

TypeInv == LockInv /\ FileTypes /\ BoundTypes

LEMMA PutBound ==
    ASSUME FileTypes, NEW S \in SUBSET Mine, NEW sent \in SUBSET Outputs(S)
    PROVE  Put(sent) \subseteq Outputs(Mine)
  <1>1. Outputs(S) \subseteq Outputs(Mine)
    BY DEF Outputs
  <1> QED BY <1>1 DEF Put, FileTypes

LEMMA FileTypesStep == TypeInv /\ [Next]_vars => FileTypes'
  <1> SUFFICES ASSUME TypeInv, [Next]_vars PROVE FileTypes'
    OBVIOUS
  <1> USE DEF TypeInv, FileTypes
  <1>1. ASSUME NEW p \in Procs, Acquire(p) PROVE FileTypes'
    BY <1>1 DEF Acquire, Start, Test, Read, Probe, RemoveStale, Invalid, Discard, OpenLock,
       WriteLock, fileVars, boundVars, Outputs
  <1>2. ASSUME NEW p \in Procs, Run(p) PROVE FileTypes'
    BY <1>2 DEF Run, Health, List, Complete, Fail, Finish, DeleteMarkers, Release, Exit,
       fileVars, boundVars, Outputs
  <1>3. ASSUME NEW p \in Procs, Uploaded(p) PROVE FileTypes'
    <2>1. PICK S \in SUBSET uploading[p] \ {{}} : \E gone \in SUBSET Outputs(S \cap OutputFaults) :
             /\ missing' = missing \cup gone
             /\ remote' = Put(Outputs(S) \ gone)
             /\ uploading' = [uploading EXCEPT ![p] = @ \ S]
             /\ marking' = [marking EXCEPT ![p] = CleanOf(S, gone)]
             /\ done' = done \cup S
      BY <1>3 DEF Uploaded
    <2>2. S \subseteq Mine /\ Outputs(S \cap OutputFaults) \subseteq Outputs(Mine)
      BY DEF Outputs
    <2>3. remote' \subseteq Outputs(Mine) /\ missing' \subseteq Outputs(Mine)
      BY <2>1, <2>2, PutBound
    <2>4. Outputs(Mine)' = Outputs(Mine)
      BY <1>3 DEF Uploaded, boundVars, Outputs
    <2>5. UNCHANGED <<todo, failed, markers, marked, verdict>>
      BY <1>3 DEF Uploaded, boundVars
    <2>6. marking' \in [Procs -> SUBSET Mine]
      BY <2>1, <2>2 DEF CleanOf
    <2> QED BY <2>1, <2>2, <2>3, <2>4, <2>5, <2>6
  <1>4. ASSUME NEW p \in Procs, UploadFailed(p) PROVE FileTypes'
    <2>1. PICK S \in SUBSET uploading[p] \ {{}} : \E gone \in SUBSET Outputs(S \cap OutputFaults) :
             /\ missing' = missing \cup gone
             /\ \E sent \in SUBSET (Outputs(S) \ gone) : remote' = Put(sent)
             /\ uploading' = [uploading EXCEPT ![p] = @ \ S]
             /\ failed' = [failed EXCEPT ![p] = @ \cup S]
      BY <1>4 DEF UploadFailed
    <2>2. S \subseteq Mine /\ Outputs(S \cap OutputFaults) \subseteq Outputs(Mine)
      BY DEF Outputs
    <2>3. remote' \subseteq Outputs(Mine) /\ missing' \subseteq Outputs(Mine)
      BY <2>1, <2>2, PutBound
    <2>4. Outputs(Mine)' = Outputs(Mine)
      BY <1>4 DEF UploadFailed, boundVars, Outputs
    <2> QED BY <1>4, <2>1, <2>2, <2>3, <2>4 DEF UploadFailed, boundVars
  <1>5. ASSUME NEW p \in Procs, Mark(p) PROVE FileTypes'
    BY <1>5 DEF Mark, boundVars, Outputs
  <1>6. ASSUME NEW p \in Procs, Signal(p) PROVE FileTypes'
    BY <1>6 DEF Signal, fileVars, Outputs
  <1>7. ASSUME NEW p \in Procs, Kill(p) PROVE FileTypes'
    BY <1>7 DEF Kill, Outputs
  <1>8. CASE UNCHANGED vars
    BY <1>8 DEF vars, fileVars, boundVars, Outputs
  <1> QED BY <1>1, <1>2, <1>3, <1>4, <1>5, <1>6, <1>7, <1>8 DEF Next, Upload

LEMMA BoundTypesStep == TypeInv /\ [Next]_vars => BoundTypes'
  <1> SUFFICES ASSUME TypeInv, [Next]_vars PROVE BoundTypes'
    OBVIOUS
  <1> USE LimitsAssumption DEF TypeInv, BoundTypes
  <1>1. CASE UNCHANGED <<kills, signals>>
    BY <1>1
  <1>2. ASSUME NEW p \in Procs, Signal(p) PROVE BoundTypes'
    BY <1>2 DEF Signal
  <1>3. ASSUME NEW p \in Procs, Kill(p) PROVE BoundTypes'
    BY <1>3 DEF Kill
  <1>4. ASSUME NEW p \in Procs, Acquire(p) \/ Run(p) \/ Upload(p)
        PROVE  UNCHANGED <<kills, signals>>
    BY <1>4 DEF Acquire, Start, Test, Read, Probe, RemoveStale, Invalid, Discard, OpenLock,
       WriteLock, Run, Health, List, Complete, Fail, Finish, DeleteMarkers, Release, Exit,
       Upload, Uploaded, UploadFailed, Mark, boundVars
  <1> QED BY <1>1, <1>2, <1>3, <1>4 DEF Next, vars, boundVars

LEMMA TypeInvariant == Spec => []TypeInv
  <1>1. Init => TypeInv
    BY LockInit, LimitsAssumption DEF Init, TypeInv, FileTypes, BoundTypes
  <1>2. TypeInv /\ [Next]_vars => TypeInv'
    BY LockStep, FileTypesStep, BoundTypesStep DEF TypeInv
  <1> QED BY <1>1, <1>2, PTL DEF Spec

(* Every variable keeps its type.                                           *)
THEOREM TypeCorrect == Spec => []TypeOK
  <1>1. TypeInv => TypeOK
    BY DEF TypeInv, LockInv, LockTypes, FileTypes, BoundTypes, TypeOK
  <1> QED BY <1>1, TypeInvariant, PTL

-----------------------------------------------------------------------------
(* Results and markers. *)

(* A file that may be marked: its results have been uploaded, and no report *)
(* was among them.                                                          *)
Report(n) == <<"report", ReportKey(n), n>>
CleanDone(n) == n \in done /\ (verdict[n] = "clean" \/ Report(n) \in missing)

MarkersSound == \A m \in markers : \E n \in marked : m = MarkerOf(n)
MarkersComplete == \A n \in marked : MarkerOf(n) \in markers
MarkedDone == \A n \in marked : CleanDone(n)
MarkingDone == \A p \in Procs : \A n \in marking[p] : CleanDone(n)

(* Every file of the host is somewhere, while a process works on them.      *)
Placed ==
    \A p \in Procs :
        /\ pc[p] \in {"work", "delete", "release"}
             => Mine \subseteq done \cup failed[p] \cup uploading[p] \cup todo[p]
        /\ pc[p] \in {"delete", "release"} => todo[p] = {}

FileInv == MarkersSound /\ MarkersComplete /\ MarkedDone /\ MarkingDone /\ ResultsKept

(* An upload does not replace the results of a file with another name's.    *)
LEMMA PutKeeps ==
    ASSUME DistinctNames, NEW S \in SUBSET Mine,
           NEW sent \in SUBSET Outputs(S), NEW n \in Mine,
           NEW r \in Outputs({n}), r \in remote
    PROVE  r \in Put(sent)
  <1> SUFFICES ASSUME r \notin sent
               PROVE  \A e \in sent : <<e[1], e[2]>> # <<r[1], r[2]>>
    BY DEF Put
  <1> SUFFICES ASSUME NEW e \in sent, <<e[1], e[2]>> = <<r[1], r[2]>> PROVE FALSE
    OBVIOUS
  <1>1. CASE r[1] = "report"
    <2>1. r = <<"report", ReportKey(n), n>>
      BY <1>1 DEF Outputs
    <2>2. PICK m \in S : e = <<"report", ReportKey(m), m>>
      BY <1>1 DEF Outputs
    <2> QED BY <2>1, <2>2 DEF DistinctNames
  <1>2. CASE r[1] # "report"
    <2>1. r = <<"cleaned", CleanedKey(n), n>>
      BY <1>2 DEF Outputs
    <2>2. PICK m \in S : e = <<"cleaned", CleanedKey(m), m>>
      BY <1>2, <2>1 DEF Outputs
    <2> QED BY <2>1, <2>2 DEF DistinctNames
  <1> QED BY <1>1, <1>2

LEMMA PutAdds ==
    ASSUME NEW S, NEW gone, NEW n \in S, NEW r \in Outputs({n}), r \notin gone
    PROVE  r \in Put(Outputs(S) \ gone)
  BY DEF Outputs, Put

(* Who is marked after a batch: its clean files, and those whose report was *)
(* not on the disk.                                                         *)
LEMMA CleanOfFacts ==
    ASSUME NEW S \in SUBSET Mine, NEW gone, NEW n \in CleanOf(S, gone),
           verdict \in [Mine -> {"clean", "dirty"}]
    PROVE  n \in S /\ (verdict[n] = "clean" \/ Report(n) \in gone)
  <1>1. n \in S /\ Report(n) \notin Outputs(S) \ gone
    BY DEF CleanOf, Report
  <1>2. CASE verdict[n] = "dirty"
    BY <1>1, <1>2 DEF Outputs, Report
  <1> QED BY <1>1, <1>2

(* Steps that leave the files alone.                                        *)
LEMMA FileInvStutter ==
    ASSUME FileInv, UNCHANGED <<marking, markers, marked, done, remote, missing, verdict>>
    PROVE  FileInv'
  BY DEF FileInv, MarkersSound, MarkersComplete, MarkedDone, MarkingDone, ResultsKept,
     CleanDone, Report, Outputs

LEMMA FileInvStep == DistinctNames /\ TypeInv /\ FileInv /\ [Next]_vars => FileInv'
  <1> SUFFICES ASSUME DistinctNames, TypeInv, FileInv, [Next]_vars PROVE FileInv'
    OBVIOUS
  <1> USE DEF TypeInv, FileTypes
  <1>1. ASSUME NEW p \in Procs, Acquire(p) PROVE FileInv'
    BY <1>1, FileInvStutter DEF Acquire, Start, Test, Read, Probe, RemoveStale, Invalid,
       Discard, OpenLock, WriteLock, fileVars, boundVars
  <1>2. ASSUME NEW p \in Procs, Run(p) PROVE FileInv'
    <2>1. CASE DeleteMarkers(p)
      BY <2>1 DEF DeleteMarkers, boundVars, FileInv, MarkersSound, MarkersComplete,
         MarkedDone, MarkingDone, ResultsKept, CleanDone, Report, Outputs
    <2>2. CASE ~DeleteMarkers(p)
      BY <1>2, <2>2, FileInvStutter DEF Run, Health, List, Complete, Fail, Finish,
         Release, Exit, fileVars, boundVars
    <2> QED BY <2>1, <2>2
  <1>3. ASSUME NEW p \in Procs, Uploaded(p) PROVE FileInv'
    <2>0. PICK S \in SUBSET uploading[p] \ {{}} : \E gone \in SUBSET Outputs(S \cap OutputFaults) :
             /\ missing' = missing \cup gone
             /\ remote' = Put(Outputs(S) \ gone)
             /\ marking' = [marking EXCEPT ![p] = CleanOf(S, gone)]
             /\ done' = done \cup S
      BY <1>3 DEF Uploaded
    <2>1. PICK gone :
             /\ missing' = missing \cup gone
             /\ remote' = Put(Outputs(S) \ gone)
             /\ marking' = [marking EXCEPT ![p] = CleanOf(S, gone)]
             /\ done' = done \cup S
      BY <2>0
    <2>2. S \subseteq Mine
      OBVIOUS
    <2>3. UNCHANGED <<markers, marked, verdict>>
      BY <1>3 DEF Uploaded, boundVars
    <2>4. MarkersSound' /\ MarkersComplete' /\ MarkedDone'
      BY <2>1, <2>3 DEF FileInv, MarkersSound, MarkersComplete, MarkedDone, CleanDone, Report
    <2>5. MarkingDone'
      <3> SUFFICES ASSUME NEW q \in Procs, NEW n \in marking'[q] PROVE CleanDone(n)'
        BY DEF MarkingDone
      <3>1. CASE q = p
        <4>1. n \in CleanOf(S, gone)
          BY <2>1, <3>1
        <4>2. n \in S /\ (verdict[n] = "clean" \/ Report(n) \in gone)
          BY <2>2, <4>1, CleanOfFacts
        <4> QED BY <2>1, <2>3, <4>2 DEF CleanDone, Report
      <3>2. CASE q # p
        <4>1. CleanDone(n)
          BY <2>1, <3>2 DEF FileInv, MarkingDone
        <4> QED BY <2>1, <2>3, <4>1 DEF CleanDone, Report
      <3> QED BY <3>1, <3>2
    <2>6. ASSUME NEW n \in done', NEW r \in Outputs({n}), r \notin missing' PROVE r \in remote'
      <3>1. CASE n \in S
        BY <2>1, <2>6, <3>1, PutAdds
      <3>2. CASE n \notin S
        <4>1. n \in done /\ r \in remote
          BY <2>1, <2>6, <3>2 DEF FileInv, ResultsKept
        <4>2. Outputs(S) \ gone \in SUBSET Outputs(S)
          OBVIOUS
        <4> QED BY <2>1, <2>2, <4>1, <4>2, PutKeeps
      <3> QED BY <3>1, <3>2
    <2>7. ResultsKept'
      BY <2>3, <2>6 DEF ResultsKept, Outputs
    <2> QED BY <2>4, <2>5, <2>7 DEF FileInv
  <1>4. ASSUME NEW p \in Procs, UploadFailed(p) PROVE FileInv'
    <2>0. PICK S \in SUBSET uploading[p] \ {{}} : \E gone \in SUBSET Outputs(S \cap OutputFaults) :
             /\ missing' = missing \cup gone
             /\ \E sent \in SUBSET (Outputs(S) \ gone) : remote' = Put(sent)
      BY <1>4 DEF UploadFailed
    <2>1. PICK gone : missing' = missing \cup gone /\ \E sent \in SUBSET Outputs(S) : remote' = Put(sent)
      BY <2>0
    <2>2. UNCHANGED <<marking, markers, marked, done, verdict>>
      BY <1>4 DEF UploadFailed, boundVars
    <2>3. ASSUME NEW n \in done, NEW r \in Outputs({n}), r \notin missing' PROVE r \in remote'
      <3>1. n \in done /\ r \in remote
        BY <2>1, <2>3 DEF FileInv, ResultsKept
      <3> QED BY <2>1, <3>1, PutKeeps
    <2>4. ResultsKept'
      BY <2>2, <2>3 DEF ResultsKept, Outputs
    <2> QED BY <2>1, <2>2, <2>4 DEF FileInv, MarkersSound, MarkersComplete, MarkedDone,
               MarkingDone, CleanDone, Report
  <1>5. ASSUME NEW p \in Procs, Mark(p) PROVE FileInv'
    <2>1. PICK n \in marking[p] :
             /\ markers' = markers \cup {MarkerOf(n)}
             /\ marked' = marked \cup {n}
             /\ marking' = [marking EXCEPT ![p] = @ \ {n}]
      BY <1>5 DEF Mark
    <2>2. UNCHANGED <<done, remote, missing, verdict>>
      BY <1>5 DEF Mark, boundVars
    <2>3. MarkersSound' /\ MarkersComplete'
      BY <2>1 DEF FileInv, MarkersSound, MarkersComplete
    <2>4. MarkedDone' /\ MarkingDone'
      BY <2>1, <2>2 DEF FileInv, MarkedDone, MarkingDone, CleanDone, Report
    <2> QED BY <2>2, <2>3, <2>4 DEF FileInv, ResultsKept, Outputs
  <1>6. ASSUME NEW p \in Procs, Signal(p) PROVE FileInv'
    BY <1>6, FileInvStutter DEF Signal, fileVars
  <1>7. ASSUME NEW p \in Procs, Kill(p) PROVE FileInv'
    BY <1>7 DEF Kill, FileInv, MarkersSound, MarkersComplete, MarkedDone, MarkingDone,
       ResultsKept, CleanDone, Report, Outputs
  <1>8. CASE UNCHANGED vars
    BY <1>8, FileInvStutter DEF vars, fileVars, boundVars
  <1> QED BY <1>1, <1>2, <1>3, <1>4, <1>5, <1>6, <1>7, <1>8 DEF Next, Upload

LEMMA SkippedDone ==
    ASSUME DistinctNames, TypeInv, FileInv
    PROVE  SkipsOnlyDone
  <1> SUFFICES ASSUME NEW n \in Processed \cap Mine
               PROVE  CleanDone(n) /\ Outputs({n}) \ missing \subseteq remote
    BY DEF SkipsOnlyDone, CleanDone, Report
  <1>1. PICK m \in marked : [dir |-> n.dir, parts |-> n.stem] = MarkerOf(m)
    BY DEF Processed, FileInv, MarkersSound
  <1>2. m = n
    BY <1>1 DEF DistinctNames, TypeInv, FileTypes
  <1> QED BY <1>1, <1>2 DEF FileInv, MarkedDone, ResultsKept, CleanDone, Report

LEMMA PlacedStep ==
    ASSUME DistinctNames, TypeInv, FileInv, Placed, [Next]_vars
    PROVE  Placed'
  <1> USE DEF TypeInv, LockInv, LockTypes, FileTypes, Goto
  <1>1. ASSUME NEW p \in Procs, Acquire(p) PROVE Placed'
    BY <1>1 DEF Acquire, Start, Test, Read, Probe, RemoveStale, Invalid, Discard, OpenLock,
       WriteLock, fileVars, Placed
  <1>2. ASSUME NEW p \in Procs, Run(p) PROVE Placed'
    <2>1. CASE List(p)
      <3>1. Processed \cap Mine \subseteq done
        BY SkippedDone DEF SkipsOnlyDone
      <3>2. Mine \subseteq done \cup todo'[p]
        BY <2>1, <3>1, MineAssumption DEF List
      <3> QED BY <2>1, <3>2 DEF List, Placed
    <2>2. CASE Complete(p)
      BY <2>2 DEF Complete, Placed
    <2>3. CASE Fail(p)
      BY <2>3 DEF Fail, Placed
    <2>4. CASE Health(p) \/ Finish(p) \/ DeleteMarkers(p) \/ Release(p) \/ Exit(p)
      BY <2>4 DEF Health, Finish, DeleteMarkers, Release, Exit, fileVars, Placed
    <2> QED BY <1>2, <2>1, <2>2, <2>3, <2>4 DEF Run
  <1>3. ASSUME NEW p \in Procs, Upload(p) PROVE Placed'
    <2>1. CASE Uploaded(p)
      <3>1. PICK S \in SUBSET uploading[p] :
              uploading' = [uploading EXCEPT ![p] = @ \ S] /\ done' = done \cup S
        BY <2>1 DEF Uploaded
      <3>2. UNCHANGED <<pc, todo, failed>>
        BY <2>1 DEF Uploaded
      <3> QED BY <3>1, <3>2 DEF Placed
    <2>2. CASE UploadFailed(p)
      <3>1. PICK S \in SUBSET uploading[p] :
              /\ uploading' = [uploading EXCEPT ![p] = @ \ S]
              /\ failed' = [failed EXCEPT ![p] = @ \cup S]
        BY <2>2 DEF UploadFailed
      <3>2. UNCHANGED <<pc, todo, done>>
        BY <2>2 DEF UploadFailed
      <3> QED BY <3>1, <3>2 DEF Placed
    <2>3. CASE Mark(p)
      BY <2>3 DEF Mark, Placed
    <2> QED BY <1>3, <2>1, <2>2, <2>3 DEF Upload
  <1>4. ASSUME NEW p \in Procs, Signal(p) PROVE Placed'
    BY <1>4 DEF Signal, fileVars, Placed
  <1>5. ASSUME NEW p \in Procs, Kill(p) PROVE Placed'
    BY <1>5 DEF Kill, Placed
  <1>6. CASE UNCHANGED vars
    BY <1>6 DEF vars, fileVars, Placed
  <1> QED BY <1>1, <1>2, <1>3, <1>4, <1>5, <1>6 DEF Next

LEMMA FilesInvariant == ASSUME DistinctNames PROVE Spec => [](FileInv /\ Placed)
  <1>1. Init => FileInv /\ Placed
    BY DEF Init, FileInv, MarkersSound, MarkersComplete, MarkedDone, MarkingDone,
       ResultsKept, Placed
  <1>2. TypeInv /\ FileInv /\ Placed /\ [Next]_vars => (FileInv /\ Placed)'
    BY FileInvStep, PlacedStep
  <1> QED BY <1>1, <1>2, TypeInvariant, PTL DEF Spec

(* With distinct names, what a run skips was found clean by an earlier one, *)
(* or its report was not on the disk, and everything of it that was on the  *)
(* disk is in S3: in every interleaving, with any number of kills.          *)
THEOREM SkipsOnlyDoneHolds == ASSUME DistinctNames PROVE Spec => []SkipsOnlyDone
  <1>1. TypeInv /\ FileInv => SkipsOnlyDone
    BY SkippedDone
  <1> QED BY <1>1, TypeInvariant, FilesInvariant, PTL

(* With distinct names no result in S3 is replaced by another file's.       *)
THEOREM ResultsKeptHolds == ASSUME DistinctNames PROVE Spec => []ResultsKept
  <1>1. FileInv => ResultsKept
    BY DEF FileInv
  <1> QED BY <1>1, FilesInvariant, PTL

(* With distinct names a run that ends leaves no file of its host out.      *)
THEOREM AllAccountedHolds == ASSUME DistinctNames PROVE Spec => []AllAccounted
  <1>1. Placed => AllAccounted
    BY DEF Placed, AllAccounted
  <1> QED BY <1>1, FilesInvariant, PTL

(* A run does not take up again an uncompressed file whose marker is there. *)
THEOREM ResumeSkipsHolds == ASSUME DistinctNames PROVE Spec => ResumeSkips
  <1>1. ASSUME TypeInv, FileInv, [Next]_vars, NEW p \in Procs
        PROVE  todo'[p] \ todo[p] \subseteq Mine \ (Plain \cap marked)
    <2> USE DEF TypeInv, FileTypes
    <2>1. Plain \cap marked \subseteq Processed
      <3> SUFFICES ASSUME NEW n \in Plain \cap marked PROVE n \in Processed
        OBVIOUS
      <3>1. MarkerOf(n) = [dir |-> n.dir, parts |-> n.stem]
        BY DEF Plain, MarkerOf
      <3>2. MarkerOf(n) \in markers
        BY <1>1 DEF FileInv, MarkersComplete
      <3>3. [dir |-> n.dir, parts |-> n.stem] \in markers
        BY <3>1, <3>2
      <3>4. n \in Names
        BY MineAssumption DEF Plain
      <3> QED BY <3>3, <3>4, Zenon DEF Processed
    <2>2. ASSUME NEW q \in Procs, List(q)
          PROVE  todo'[p] \ todo[p] \subseteq Mine \ (Plain \cap marked)
      BY <1>1, <2>1, <2>2 DEF List
    <2>3. ASSUME NEW q \in Procs,
                 Acquire(q) \/ (Run(q) /\ ~List(q)) \/ Upload(q) \/ Signal(q) \/ Kill(q)
          PROVE  todo'[p] \subseteq todo[p]
      <3>1. CASE Acquire(q)
        BY <3>1 DEF Acquire, Start, Test, Read, Probe, RemoveStale, Invalid, Discard,
           OpenLock, WriteLock, fileVars
      <3>2. CASE Run(q) /\ ~List(q)
        <4>1. CASE Complete(q)
          BY <4>1 DEF Complete
        <4>2. CASE Fail(q)
          BY <4>2 DEF Fail
        <4>3. CASE Health(q) \/ Finish(q) \/ DeleteMarkers(q) \/ Release(q) \/ Exit(q)
          BY <4>3 DEF Health, Finish, DeleteMarkers, Release, Exit, fileVars
        <4> QED BY <3>2, <4>1, <4>2, <4>3 DEF Run
      <3>3. CASE Upload(q)
        BY <3>3 DEF Upload, Uploaded, UploadFailed, Mark
      <3>4. CASE Signal(q)
        BY <3>4 DEF Signal, fileVars
      <3>5. CASE Kill(q)
        BY <3>5 DEF Kill
      <3> QED BY <2>3, <3>1, <3>2, <3>3, <3>4, <3>5
    <2>4. CASE UNCHANGED vars
      BY <2>4 DEF vars, fileVars
    <2> QED BY <1>1, <2>2, <2>3, <2>4 DEF Next
  <1>2. TypeInv /\ FileInv /\ [Next]_vars
          => [\A p \in Procs : todo'[p] \ todo[p] \subseteq Mine \ (Plain \cap marked)]_vars
    BY <1>1
  <1> QED BY <1>2, TypeInvariant, FilesInvariant, PTL DEF Spec, ResumeSkips

=============================================================================
