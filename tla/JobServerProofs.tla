-------------------------- MODULE JobServerProofs ---------------------------
(***************************************************************************)
(* Proofs about JobServer for every set of jobs and workers, every channel *)
(* capacity and any number of restarts.                                    *)
(***************************************************************************)
EXTENDS JobServer, SequenceTheorems, TLAPS

USE CapacityAssumption, PurifyAssumption, CrashAssumption, NoneAssumption

-----------------------------------------------------------------------------

(* The initial state, before any request, has every variable in its type.  *)
LEMMA TypeInit == Init => TypeOK
  BY EmptySeq DEF Init, TypeOK, Untracked, Fresh, Statuses, Kinds, HandlerStates,
                  WorkerStates, BlockingStates, Results, FileStates

(* Every step of a handler, of a worker and every restart keeps the types. *)
LEMMA TypeStep == TypeOK /\ [Next]_vars => TypeOK'
<1> SUFFICES ASSUME TypeOK, [Next]_vars PROVE TypeOK'
  OBVIOUS
<1> USE DEF TypeOK, Statuses, Kinds, HandlerStates, WorkerStates,
            BlockingStates, Results, FileStates, Fresh
<1>1. ASSUME NEW j \in Jobs, Submit(j) PROVE TypeOK'
  BY <1>1 DEF Submit
<1>2. ASSUME NEW j \in Jobs, Enqueue(j) PROVE TypeOK'
  <2>1. queue' \in Seq(Jobs)
    BY <1>2, AppendProperties DEF Enqueue
  <2> QED  BY <2>1, <1>2 DEF Enqueue
<1>3. ASSUME NEW j \in Jobs, Disconnect(j) PROVE TypeOK'
  BY <1>3 DEF Disconnect
<1>4. ASSUME NEW w \in Workers, LockReceiver(w) PROVE TypeOK'
  BY <1>4 DEF LockReceiver
<1>5. ASSUME NEW w \in Workers, Receive(w) PROVE TypeOK'
  <2>1. queue' \in Seq(Jobs) /\ Head(queue) \in Jobs
    BY <1>5, HeadTailProperties DEF Receive
  <2> QED  BY <2>1, <1>5 DEF Receive
<1>6. ASSUME NEW w \in Workers, MarkProcessing(w) PROVE TypeOK'
  <2>1. jobs' \in [Jobs -> [status : Statuses, paths : SUBSET Kinds]]
    <3>1. CASE current[w] \in Jobs
      <4>1. [jobs[current[w]] EXCEPT !.status = "processing"]
              \in [status : Statuses, paths : SUBSET Kinds]
        BY <3>1
      <4> QED  BY <3>1, <4>1, <1>6 DEF MarkProcessing
    <3>2. CASE current[w] \notin Jobs
      BY <3>2, <1>6 DEF MarkProcessing
    <3> QED  BY <3>1, <3>2
  <2>2. local' \in [Workers -> [paths : SUBSET Kinds, result : Results]]
    BY <1>6 DEF MarkProcessing
  <2>3. pc' \in [Workers -> WorkerStates]
    BY <1>6 DEF MarkProcessing
  <2> QED  BY <2>1, <2>2, <2>3, <1>6 DEF MarkProcessing
<1>7. ASSUME NEW w \in Workers, NEW result \in Results, Return(w, result)
      PROVE  /\ local' \in [Workers -> [paths : SUBSET Kinds, result : Results]]
             /\ pc' \in [Workers -> WorkerStates]
  <2>1. local' \in [Workers -> [paths : SUBSET Kinds, result : Results]]
    BY <1>7 DEF Return
  <2>2. pc' \in [Workers -> WorkerStates]
    BY <1>7 DEF Return
  <2> QED  BY <2>1, <2>2
<1>8. ASSUME NEW w \in Workers, Detect(w) PROVE TypeOK'
  <2>1. CASE \E result \in {"err", "panic", "ok"} : Return(w, result)
    BY <2>1, <1>7, <1>8 DEF Detect
  <2>2. CASE UNCHANGED local /\ \E p \in {"report", "purify"} :
               pc' = [pc EXCEPT ![w] = p]
    BY <2>2, <1>8 DEF Detect
  <2> QED  BY <1>8, <2>1, <2>2 DEF Detect
<1>9. ASSUME NEW w \in Workers, NEW k \in Kinds,
             NEW from \in WorkerStates, NEW to \in WorkerStates,
             OpenFile(w, k, from, to)
      PROVE  TypeOK'
  <2>1. CASE Return(w, "err") /\ UNCHANGED disk
    BY <2>1, <1>7, <1>9 DEF OpenFile
  <2>2. CASE /\ disk' = [disk EXCEPT ![current[w]][k] = "partial"]
             /\ pc' = [pc EXCEPT ![w] = to]
             /\ UNCHANGED local
    <3>1. disk' \in [Jobs -> [Kinds -> FileStates]]
      BY <2>2
    <3> QED  BY <3>1, <2>2, <1>9 DEF OpenFile
  <2> QED  BY <1>9, <2>1, <2>2 DEF OpenFile
<1>10. ASSUME NEW w \in Workers, NEW k \in Kinds, NEW from \in WorkerStates,
              FinishFile(w, k, from)
       PROVE  TypeOK'
  <2>1. CASE Return(w, "err") /\ UNCHANGED disk
    BY <2>1, <1>7, <1>10 DEF FinishFile
  <2>2. CASE ~(Return(w, "err") /\ UNCHANGED disk)
    <3>1. disk' = [disk EXCEPT ![current[w]][k] = "whole"]
      BY <2>2, <1>10 DEF FinishFile
    <3>2. disk' \in [Jobs -> [Kinds -> FileStates]]
      BY <3>1
    <3>3. PICK next \in WorkerStates :
            /\ pc' = [pc EXCEPT ![w] = next]
            /\ local' = [local EXCEPT ![w] =
                  [paths  |-> @.paths \cup {k},
                   result |-> IF next = "done" THEN "ok" ELSE "none"]]
      BY <2>2, <1>10 DEF FinishFile, AfterReport
    <3>4. local' \in [Workers -> [paths : SUBSET Kinds, result : Results]]
      BY <3>3
    <3> QED  BY <3>2, <3>3, <3>4, <1>10 DEF FinishFile
  <2> QED  BY <1>10, <2>1, <2>2 DEF FinishFile
<1>11. ASSUME NEW w \in Workers, Publish(w) PROVE TypeOK'
  BY <1>11 DEF Publish, Outcome, Untracked
<1>12. CASE Crash
  BY <1>12, EmptySeq DEF Crash, Untracked
<1>13. CASE UNCHANGED vars
  BY <1>13 DEF vars
<1> QED
  BY <1>1, <1>2, <1>3, <1>4, <1>5, <1>6, <1>7, <1>8, <1>9, <1>10, <1>11, <1>12, <1>13
     DEF Next, Worker, OpenReport, OpenPurified, FinishReport, FinishPurified

(* Every variable keeps its type, whatever requests arrive and however the *)
(* workers interleave.                                                     *)
THEOREM TypeCorrect == Spec => []TypeOK
  BY TypeInit, TypeStep, PTL DEF Spec

-----------------------------------------------------------------------------

(* In the initial state no job is anywhere. *)
LEMMA PlaceInit == Init => PlaceInv
<1> SUFFICES ASSUME Init PROVE PlaceInv
  OBVIOUS
<1>1. TypeOK
  BY TypeInit
<1>2. OnePlace /\ ReceiverFree /\ Accounts
  BY DEF Init, OnePlace, ReceiverFree, Accounts, InQueue, TakenBy, RunBy, Held,
         Untracked, BlockingStates
<1> QED  BY <1>1, <1>2 DEF PlaceInv

(* Hand-over of a job into the channel: it was with its handler only. *)
LEMMA EnqueuePlace ==
  ASSUME PlaceInv, TypeOK', NEW j \in Jobs, Enqueue(j)
  PROVE  PlaceInv'
<1> USE DEF PlaceInv
<1>1. \A x \in Jobs : InQueue(x)' <=> InQueue(x) \/ x = j
  BY AppendProperties DEF Enqueue, TypeOK, InQueue
<1>2. \A i, k \in 1..Len(queue') : queue'[i] = queue'[k] => i = k
  BY AppendProperties DEF Enqueue, TypeOK, InQueue, OnePlace
<1>3. \A w \in Workers, x \in Jobs :
        (TakenBy(w, x)' <=> TakenBy(w, x)) /\ (RunBy(w, x)' <=> RunBy(w, x))
  BY DEF Enqueue, TakenBy, RunBy, BlockingStates
<1>4. OnePlace'
  BY <1>1, <1>2, <1>3 DEF Enqueue, TypeOK, OnePlace, Held
<1> QED  BY <1>4 DEF Enqueue, TypeOK, ReceiverFree, Accounts, Held

(* Hand-over of a job from the channel to the worker that received it. *)
LEMMA ReceivePlace ==
  ASSUME PlaceInv, TypeOK', NEW w \in Workers, Receive(w)
  PROVE  PlaceInv'
<1> USE DEF PlaceInv
<1> DEFINE h == Head(queue)
<1>1. /\ h \in Jobs /\ h = queue[1]
      /\ Len(queue) \in Nat \ {0}
      /\ Len(queue') = Len(queue) - 1
      /\ \A i \in 1..Len(queue') : queue'[i] = queue[i + 1]
  BY HeadTailProperties, EmptySeq DEF Receive, TypeOK
<1>2. \A x \in Jobs : InQueue(x)' <=> InQueue(x) /\ x # h
  <2>1. ASSUME NEW x \in Jobs, InQueue(x)' PROVE InQueue(x) /\ x # h
    BY <2>1, <1>1 DEF InQueue, OnePlace
  <2>2. ASSUME NEW x \in Jobs, InQueue(x), x # h PROVE InQueue(x)'
    <3>1. PICK i \in 1..Len(queue) : queue[i] = x
      BY <2>2 DEF InQueue
    <3>2. i - 1 \in 1..Len(queue') /\ queue'[i - 1] = x
      BY <3>1, <2>2, <1>1
    <3> QED  BY <3>2 DEF InQueue
  <2> QED  BY <2>1, <2>2
<1>3. \A i, k \in 1..Len(queue') : queue'[i] = queue'[k] => i = k
  BY <1>1 DEF OnePlace
<1>4. InQueue(h)
  BY <1>1 DEF InQueue
<1>5. ~Held(w) /\ \A v \in Workers : current[v] # h
  <2>1. ~Held(w)
    BY DEF Receive, Accounts
  <2>2. ASSUME NEW v \in Workers, current[v] = h PROVE FALSE
    <3>1. jobs[h].status = "pending" /\ ~TakenBy(v, h) /\ ~RunBy(v, h)
      BY <1>1, <1>4 DEF OnePlace
    <3>2. Held(v)
      BY <2>2, <1>1 DEF Held
    <3> QED
      BY <2>2, <3>1, <3>2 DEF Accounts, TakenBy, RunBy, TypeOK, WorkerStates,
                              BlockingStates
  <2> QED  BY <2>1, <2>2
<1>6. OnePlace'
  <2>1. \A v \in Workers, x \in Jobs :
           /\ TakenBy(v, x)' <=> TakenBy(v, x) \/ (v = w /\ x = h)
           /\ RunBy(v, x)' <=> RunBy(v, x)
    BY <1>1, <1>5 DEF Receive, TypeOK, TakenBy, RunBy, BlockingStates
  <2>2. \A v, u \in Workers : Held(v)' /\ current'[v] = current'[u] => v = u
    BY <1>5 DEF Receive, TypeOK, OnePlace, Held
  <2> QED  BY <1>1, <1>2, <1>3, <1>4, <1>5, <2>1, <2>2
              DEF Receive, TypeOK, OnePlace
<1>7. ReceiverFree' /\ Accounts'
  BY <1>1 DEF Receive, TypeOK, ReceiverFree, Accounts, Held
<1> QED  BY <1>6, <1>7

(* The moves of a handler that leave the channel alone. *)
LEMMA HandlerPlace ==
  ASSUME PlaceInv, TypeOK', NEW j \in Jobs, Submit(j) \/ Disconnect(j)
  PROVE  PlaceInv'
<1> USE DEF PlaceInv
<1>1. \A w \in Workers, x \in Jobs :
        (TakenBy(w, x)' <=> TakenBy(w, x)) /\ (RunBy(w, x)' <=> RunBy(w, x))
  BY DEF Submit, Disconnect, TakenBy, RunBy, BlockingStates
<1>2. \A x \in Jobs : InQueue(x)' <=> InQueue(x)
  BY DEF Submit, Disconnect, InQueue
<1>3. \A x \in Jobs : x # j => handler'[x] = handler[x] /\ jobs'[x] = jobs[x]
  BY DEF Submit, Disconnect, TypeOK
<1>4. CASE Submit(j)
  <2>1. /\ jobs[j].status = "untracked"
        /\ jobs'[j].status = "pending" /\ handler'[j] = "sending"
    BY <1>4 DEF Submit, Accounts, Untracked, TypeOK
  <2>2. ~InQueue(j) /\ \A w \in Workers : ~TakenBy(w, j) /\ ~RunBy(w, j)
    BY <2>1 DEF OnePlace
  <2> QED  BY <1>1, <1>2, <1>3, <1>4, <2>1, <2>2
              DEF Submit, OnePlace, ReceiverFree, Accounts, Held
<1>5. CASE Disconnect(j)
  <2>1. handler[j] = "sending" /\ handler'[j] = "gone" /\ jobs' = jobs
    BY <1>5 DEF Disconnect, TypeOK
  <2>2. ~InQueue(j) /\ \A w \in Workers : ~TakenBy(w, j)
    BY <2>1 DEF OnePlace
  <2> QED  BY <1>1, <1>2, <1>3, <1>5, <2>1, <2>2
              DEF Disconnect, OnePlace, ReceiverFree, Accounts, Held
<1> QED  BY <1>4, <1>5

(* Taking the mutex moves no job. *)
LEMMA LockPlace ==
  ASSUME PlaceInv, TypeOK', NEW w \in Workers, LockReceiver(w)
  PROVE  PlaceInv'
<1> USE DEF PlaceInv
<1>1. \A v \in Workers, x \in Jobs :
        (TakenBy(v, x)' <=> TakenBy(v, x)) /\ (RunBy(v, x)' <=> RunBy(v, x))
  BY DEF LockReceiver, TypeOK, TakenBy, RunBy, BlockingStates
<1>2. \A x \in Jobs : InQueue(x)' <=> InQueue(x)
  BY DEF LockReceiver, InQueue
<1>3. OnePlace'
  BY <1>1, <1>2 DEF LockReceiver, OnePlace, Held
<1>4. ReceiverFree' /\ Accounts'
  BY DEF LockReceiver, TypeOK, ReceiverFree, Accounts, Held
<1> QED  BY <1>3, <1>4

(* A taken job becomes a running one: its entry is still there. *)
LEMMA MarkPlace ==
  ASSUME PlaceInv, TypeOK', NEW w \in Workers, MarkProcessing(w)
  PROVE  PlaceInv'
<1> USE DEF PlaceInv
<1> DEFINE c == current[w]
<1>1. c \in Jobs /\ TakenBy(w, c) /\ Held(w)
  BY DEF MarkProcessing, TypeOK, Accounts, Held, TakenBy
<1>2. /\ jobs[c].status = "pending" /\ handler[c] # "sending" /\ ~InQueue(c)
      /\ \A v \in Workers : ~RunBy(v, c) /\ (TakenBy(v, c) => v = w)
  BY <1>1 DEF OnePlace, TakenBy
<1>3. /\ jobs'[c].status = "processing"
      /\ \A x \in Jobs : x # c => jobs'[x] = jobs[x]
  BY <1>1, <1>2 DEF MarkProcessing, TypeOK, Untracked
<1>4. \A v \in Workers, x \in Jobs :
        /\ TakenBy(v, x)' <=> TakenBy(v, x) /\ v # w
        /\ RunBy(v, x)' <=> RunBy(v, x) \/ (v = w /\ x = c)
  BY DEF MarkProcessing, TypeOK, TakenBy, RunBy, BlockingStates
<1>5. \A x \in Jobs : InQueue(x)' <=> InQueue(x)
  BY DEF MarkProcessing, InQueue
<1>6. \A v \in Workers, x \in Jobs : x # c => ~(v = w /\ TakenBy(v, x))
  BY DEF TakenBy
<1>7. OnePlace'
  BY <1>1, <1>2, <1>3, <1>4, <1>5, <1>6 DEF MarkProcessing, OnePlace, Held
<1>8. handler[c] # "idle"
  BY <1>1, <1>2 DEF Accounts, Untracked
<1>9. ReceiverFree' /\ Accounts'
  BY <1>3, <1>8 DEF MarkProcessing, TypeOK, ReceiverFree, Accounts, Held
<1> QED  BY <1>7, <1>9

(* Inside process_single_file a worker keeps its job. *)
LEMMA RunningPlace ==
  ASSUME PlaceInv, TypeOK', NEW w \in Workers, pc[w] \in BlockingStates,
         NEW p \in BlockingStates \cup {"done"}, pc' = [pc EXCEPT ![w] = p],
         UNCHANGED <<jobs, handler, queue, receiver, current>>
  PROVE  PlaceInv'
<1> USE DEF PlaceInv
<1>1. \A v \in Workers, x \in Jobs :
        (TakenBy(v, x)' <=> TakenBy(v, x)) /\ (RunBy(v, x)' <=> RunBy(v, x))
  BY DEF TypeOK, TakenBy, RunBy, BlockingStates
<1>2. \A x \in Jobs : InQueue(x)' <=> InQueue(x)
  BY DEF InQueue
<1>3. OnePlace'
  BY <1>1, <1>2 DEF OnePlace, Held
<1>4. ReceiverFree' /\ Accounts'
  BY DEF TypeOK, ReceiverFree, Accounts, Held, BlockingStates
<1> QED  BY <1>3, <1>4

(* The second status update ends a job: it is nowhere afterwards. *)
LEMMA PublishPlace ==
  ASSUME PlaceInv, TypeOK', NEW w \in Workers, Publish(w)
  PROVE  PlaceInv'
<1> USE DEF PlaceInv
<1> DEFINE c == current[w]
<1>1. c \in Jobs /\ RunBy(w, c) /\ Held(w)
  BY DEF Publish, TypeOK, Accounts, Held, RunBy
<1>2. /\ jobs[c].status = "processing" /\ handler[c] # "sending" /\ ~InQueue(c)
      /\ \A v \in Workers : ~TakenBy(v, c) /\ (RunBy(v, c) => v = w)
  BY <1>1 DEF OnePlace, RunBy
<1>3. /\ jobs'[c].status \in {"completed", "failed"}
      /\ \A x \in Jobs : x # c => jobs'[x] = jobs[x]
  BY <1>1, <1>2 DEF Publish, Outcome, TypeOK, Untracked
<1>4. \A v \in Workers, x \in Jobs :
        /\ TakenBy(v, x)' <=> TakenBy(v, x)
        /\ RunBy(v, x)' <=> RunBy(v, x) /\ v # w
  BY DEF Publish, TypeOK, TakenBy, RunBy, BlockingStates
<1>5. \A x \in Jobs : InQueue(x)' <=> InQueue(x)
  BY DEF Publish, InQueue
<1>6. \A x \in Jobs : x # c => ~RunBy(w, x)
  BY DEF RunBy
<1>7. \A u, v \in Workers : Held(u)' /\ current'[u] = current'[v] => u = v
  BY DEF Publish, TypeOK, OnePlace, Held
<1>8. OnePlace'
  BY <1>1, <1>2, <1>3, <1>4, <1>5, <1>6, <1>7 DEF Publish, OnePlace
<1>9. handler[c] # "idle"
  BY <1>1, <1>2 DEF Accounts, Untracked
<1>10. ReceiverFree' /\ Accounts'
  BY <1>3, <1>9 DEF Publish, TypeOK, ReceiverFree, Accounts, Held
<1> QED  BY <1>8, <1>10

(* Which moves the blocking task makes: it only advances its own worker. *)
LEMMA BlockingMove ==
  ASSUME TypeOK, NEW w \in Workers,
         \/ Detect(w)
         \/ OpenReport(w) \/ FinishReport(w)
         \/ OpenPurified(w) \/ FinishPurified(w)
  PROVE  /\ pc[w] \in BlockingStates
         /\ \E p \in BlockingStates \cup {"done"} : pc' = [pc EXCEPT ![w] = p]
         /\ UNCHANGED <<jobs, handler, queue, receiver, current>>
<1> USE DEF BlockingStates
<1>1. CASE Detect(w)
  BY <1>1 DEF Detect, Return
<1>2. CASE OpenReport(w) \/ OpenPurified(w)
  BY <1>2 DEF OpenReport, OpenPurified, OpenFile, Return
<1>3. CASE FinishReport(w) \/ FinishPurified(w)
  BY <1>3 DEF FinishReport, FinishPurified, FinishFile, Return, AfterReport
<1> QED  BY <1>1, <1>2, <1>3

(* Every step keeps every job in the one place its status names. *)
LEMMA PlaceStep == PlaceInv /\ [Next]_vars => PlaceInv'
<1> SUFFICES ASSUME PlaceInv, [Next]_vars PROVE PlaceInv'
  OBVIOUS
<1>1. TypeOK /\ TypeOK'
  BY TypeStep DEF PlaceInv
<1>2. ASSUME NEW j \in Jobs, Submit(j) \/ Enqueue(j) \/ Disconnect(j)
      PROVE  PlaceInv'
  BY <1>1, <1>2, HandlerPlace, EnqueuePlace
<1>3. ASSUME NEW w \in Workers, Worker(w)
      PROVE  PlaceInv'
  <2>1. CASE \/ Detect(w)
             \/ OpenReport(w) \/ FinishReport(w)
             \/ OpenPurified(w) \/ FinishPurified(w)
    BY <1>1, <2>1, BlockingMove, RunningPlace
  <2> QED  BY <1>1, <1>3, <2>1, LockPlace, ReceivePlace, MarkPlace, PublishPlace
              DEF Worker
<1>4. CASE Crash
  BY <1>1, <1>4, EmptySeq
     DEF Crash, PlaceInv, TypeOK, OnePlace, ReceiverFree, Accounts, InQueue,
         TakenBy, RunBy, Held, BlockingStates, Untracked
<1>5. CASE UNCHANGED vars
  BY <1>1, <1>5 DEF vars, PlaceInv, OnePlace, ReceiverFree, Accounts, InQueue,
                    TakenBy, RunBy, Held, BlockingStates, Untracked
<1> QED  BY <1>2, <1>3, <1>4, <1>5 DEF Next

(* No job is lost or handled twice: submit_job, the channel and the worker *)
(* loops keep each tracked job in exactly one place, the one its status    *)
(* names, for any number of requests, workers and restarts.                *)
THEOREM OnePlaceHolds == Spec => []OnePlace
<1>1. PlaceInv => OnePlace
  BY DEF PlaceInv
<1> QED  BY <1>1, PlaceInit, PlaceStep, PTL DEF Spec

(* A worker busy with a file never keeps the receiver's mutex. *)
THEOREM ReceiverFreeHolds == Spec => []ReceiverFree
<1>1. PlaceInv => ReceiverFree
  BY DEF PlaceInv
<1> QED  BY <1>1, PlaceInit, PlaceStep, PTL DEF Spec

-----------------------------------------------------------------------------

(* Neither the channel's hand-overs nor a closed connection touch a file. *)
LEMMA QuietFiles ==
  ASSUME Inv, TypeOK',
         \/ \E j \in Jobs : Submit(j) \/ Enqueue(j) \/ Disconnect(j)
         \/ \E w \in Workers : LockReceiver(w) \/ Receive(w)
  PROVE  FilesInv'
<1> USE DEF Inv, PlaceInv
<1>1. disk' = disk /\ local' = local
  BY DEF Submit, Enqueue, Disconnect, LockReceiver, Receive
<1>2. \A x \in Jobs :
        /\ jobs'[x] = jobs[x] \/ jobs'[x] = [status |-> "pending", paths |-> {}]
        /\ handler'[x] = "idle" => handler[x] = "idle"
        /\ jobs'[x] = jobs[x] \/ handler[x] = "idle"
  BY DEF Submit, Enqueue, Disconnect, LockReceiver, Receive, TypeOK
<1>3. \A v \in Workers : pc'[v] \in {"recv", "taken"} \/
                         (pc'[v] = pc[v] /\ current'[v] = current[v])
  BY DEF Submit, Enqueue, Disconnect, LockReceiver, Receive, TypeOK
<1>4. \A v \in Workers : FilesOf(v)'
  BY <1>1, <1>3 DEF FilesInv, FilesOf, Written, Kinds, Fresh
<1>5. PublishedOutputs'
  BY <1>1, <1>2 DEF FilesInv, PublishedOutputs, Written, Kinds
<1> QED  BY <1>1, <1>2, <1>4, <1>5 DEF FilesInv, Kinds

(* A job starts with neither of its files: its id is new. *)
LEMMA MarkFiles ==
  ASSUME Inv, TypeOK', NEW w \in Workers, MarkProcessing(w)
  PROVE  FilesInv'
<1> USE DEF Inv, PlaceInv
<1> DEFINE c == current[w]
<1>1. c \in Jobs /\ TakenBy(w, c)
  BY DEF MarkProcessing, TypeOK, Accounts, Held, TakenBy
<1>2. jobs[c].status = "pending" /\ jobs[c].paths = {}
  BY <1>1 DEF OnePlace, FilesInv
<1>3. /\ jobs'[c].status = "processing" /\ jobs'[c].paths = {}
      /\ \A x \in Jobs : x # c => jobs'[x] = jobs[x]
  BY <1>1, <1>2 DEF MarkProcessing, TypeOK, Untracked
<1>4. \A k \in Kinds : disk[c][k] = "none"
  BY <1>1, <1>2 DEF FilesInv
<1>5. FilesOf(w)'
  BY <1>4 DEF MarkProcessing, TypeOK, FilesOf, Kinds, Fresh
<1>6. \A v \in Workers : v # w => FilesOf(v)'
  BY DEF MarkProcessing, TypeOK, FilesInv, FilesOf, Written, Kinds, Fresh
<1>7. PublishedOutputs'
  BY <1>3 DEF MarkProcessing, FilesInv, PublishedOutputs, Written, Kinds
<1> QED  BY <1>3, <1>5, <1>6, <1>7 DEF MarkProcessing, FilesInv, Kinds

(* A step inside process_single_file touches the two files of the worker's *)
(* own job only, and no other worker has that job.                         *)
LEMMA RunningFrame ==
  ASSUME Inv, TypeOK', NEW w \in Workers, pc[w] \in BlockingStates,
         NEW p \in BlockingStates \cup {"done"}, pc' = [pc EXCEPT ![w] = p],
         UNCHANGED <<jobs, handler, queue, receiver, current>>,
         \A v \in Workers : v # w => local'[v] = local[v],
         \A x \in Jobs : x # current[w] => disk'[x] = disk[x],
         FilesOf(w)'
  PROVE  FilesInv'
<1> USE DEF Inv, PlaceInv
<1> DEFINE c == current[w]
<1>1. c \in Jobs /\ RunBy(w, c) /\ Held(w)
  BY DEF TypeOK, Accounts, Held, RunBy, BlockingStates
<1>2. jobs[c].status = "processing" /\ handler[c] # "idle"
  BY <1>1 DEF OnePlace, Accounts, Untracked
<1>3. \A v \in Workers : v # w /\ Held(v) =>
         current[v] # c /\ disk'[current[v]] = disk[current[v]]
  BY <1>1 DEF OnePlace, TypeOK, Held
<1>4. ASSUME NEW v \in Workers, v # w PROVE FilesOf(v)'
  <2>1. pc'[v] = pc[v] /\ local'[v] = local[v] /\ current'[v] = current[v]
    BY <1>4 DEF TypeOK
  <2>2. CASE Held(v)
    BY <1>3, <1>4, <2>1, <2>2 DEF FilesInv, FilesOf, Written, Kinds, Fresh
  <2>3. CASE ~Held(v)
    BY <2>1, <2>3 DEF Accounts, FilesOf
  <2> QED  BY <2>2, <2>3
<1>5. PublishedOutputs'
  BY <1>2 DEF FilesInv, PublishedOutputs, Written, Kinds
<1> QED  BY <1>2, <1>4, <1>5 DEF FilesInv, Kinds

(* What each step of process_single_file leaves of the job's files. *)
LEMMA RunningFiles ==
  ASSUME Inv, TypeOK', NEW w \in Workers,
         \/ Detect(w)
         \/ OpenReport(w) \/ FinishReport(w)
         \/ OpenPurified(w) \/ FinishPurified(w)
  PROVE  FilesInv'
<1> USE DEF Inv, PlaceInv
<1>1. /\ pc[w] \in BlockingStates
      /\ \E p \in BlockingStates \cup {"done"} : pc' = [pc EXCEPT ![w] = p]
      /\ UNCHANGED <<jobs, handler, queue, receiver, current>>
  BY BlockingMove
<1> DEFINE c == current[w]
<1>2. c \in Jobs /\ FilesOf(w)
  BY <1>1 DEF TypeOK, Accounts, Held, BlockingStates, FilesInv
<1>3. /\ \A v \in Workers : v # w => local'[v] = local[v]
      /\ \A x \in Jobs : x # c => disk'[x] = disk[x]
  <2>1. CASE Detect(w)
    BY <2>1 DEF Detect, Return, TypeOK
  <2>2. CASE OpenReport(w) \/ OpenPurified(w)
    BY <2>2 DEF OpenReport, OpenPurified, OpenFile, Return, TypeOK
  <2>3. CASE FinishReport(w) \/ FinishPurified(w)
    BY <2>3 DEF FinishReport, FinishPurified, FinishFile, Return, TypeOK
  <2> QED  BY <2>1, <2>2, <2>3
<1>4. ASSUME Return(w, "err") \/ Return(w, "panic") PROVE FilesOf(w)'
  BY <1>4 DEF Return, TypeOK, FilesOf
<1>5. ASSUME Detect(w) PROVE FilesOf(w)'
  BY <1>1, <1>2, <1>4, <1>5
     DEF Detect, Return, FilesOf, Written, Kinds, Fresh, TypeOK
<1>6. ASSUME OpenReport(w) PROVE FilesOf(w)'
  BY <1>1, <1>2, <1>4, <1>6
     DEF OpenReport, OpenFile, FilesOf, Written, Kinds, Fresh, TypeOK
<1>7. ASSUME FinishReport(w) PROVE FilesOf(w)'
  BY <1>1, <1>2, <1>4, <1>7
     DEF FinishReport, FinishFile, AfterReport, FilesOf, Written, Kinds, Fresh, TypeOK
<1>8. ASSUME OpenPurified(w) PROVE FilesOf(w)'
  BY <1>1, <1>2, <1>4, <1>8
     DEF OpenPurified, OpenFile, FilesOf, Written, Kinds, Fresh, TypeOK
<1>9. ASSUME FinishPurified(w) PROVE FilesOf(w)'
  BY <1>1, <1>2, <1>4, <1>9
     DEF FinishPurified, FinishFile, FilesOf, Written, Kinds, Fresh, TypeOK
<1>10. FilesOf(w)'
  BY <1>5, <1>6, <1>7, <1>8, <1>9
<1> QED  BY <1>1, <1>3, <1>10, RunningFrame

(* The second status update publishes what the task has written. *)
LEMMA PublishFiles ==
  ASSUME Inv, TypeOK', NEW w \in Workers, Publish(w)
  PROVE  FilesInv'
<1> USE DEF Inv, PlaceInv
<1> DEFINE c == current[w]
<1>1. c \in Jobs /\ RunBy(w, c) /\ Held(w)
  BY DEF Publish, TypeOK, Accounts, Held, RunBy
<1>2. jobs[c].status = "processing" /\ jobs[c].paths = {} /\ handler[c] # "idle"
  BY <1>1 DEF OnePlace, Accounts, Untracked, FilesInv
<1>3. jobs'[c] = Outcome(w) /\ \A x \in Jobs : x # c => jobs'[x] = jobs[x]
  BY <1>1, <1>2 DEF Publish, TypeOK, Untracked
<1>4. \A v \in Workers : FilesOf(v)'
  BY DEF Publish, TypeOK, FilesInv, FilesOf, Written, Kinds, Fresh
<1>5. Outcome(w).status = "completed" =>
        /\ Outcome(w).paths = Written(c)
        /\ \A k \in Kinds : disk[c][k] # "partial"
        /\ "purified" \in Outcome(w).paths <=> Purify
  BY DEF Publish, Outcome, FilesInv, FilesOf, Kinds
<1>6. PublishedOutputs'
  BY <1>3, <1>5 DEF Publish, FilesInv, PublishedOutputs, Written, Kinds
<1>7. Outcome(w).status # "pending" /\
      (Outcome(w).status # "completed" => Outcome(w).paths = {})
  BY <1>2 DEF Outcome
<1> QED  BY <1>2, <1>3, <1>4, <1>6, <1>7 DEF Publish, FilesInv, Kinds

(* The whole invariant holds before the first request ... *)
LEMMA InvInit == Init => Inv
<1> SUFFICES ASSUME Init PROVE Inv
  OBVIOUS
<1>1. PlaceInv
  BY PlaceInit
<1>2. FilesInv
  BY DEF Init, FilesInv, FilesOf, PublishedOutputs, Written, Kinds, Fresh, Untracked
<1> QED  BY <1>1, <1>2 DEF Inv

(* ... and is kept by every step. *)
LEMMA InvStep == Inv /\ [Next]_vars => Inv'
<1> SUFFICES ASSUME Inv, [Next]_vars PROVE Inv'
  OBVIOUS
<1>1. PlaceInv' /\ TypeOK'
  BY PlaceStep DEF Inv, PlaceInv
<1>2. CASE \E j \in Jobs : Submit(j) \/ Enqueue(j) \/ Disconnect(j)
  BY <1>1, <1>2, QuietFiles DEF Inv
<1>3. ASSUME NEW w \in Workers, Worker(w)
      PROVE  FilesInv'
  <2>1. CASE LockReceiver(w) \/ Receive(w)
    BY <1>1, <2>1, QuietFiles
  <2>2. CASE \/ Detect(w)
             \/ OpenReport(w) \/ FinishReport(w)
             \/ OpenPurified(w) \/ FinishPurified(w)
    BY <1>1, <2>2, RunningFiles
  <2> QED  BY <1>1, <1>3, <2>1, <2>2, MarkFiles, PublishFiles DEF Worker
<1>4. CASE Crash
  <2>1. /\ disk' = disk
        /\ \A j \in Jobs : jobs'[j] = Untracked
        /\ \A j \in Jobs : handler'[j] = "idle" => handler[j] = "idle"
    BY <1>4 DEF Crash
  <2>2. \A w \in Workers : FilesOf(w)'
    BY <1>4 DEF Crash, FilesOf
  <2>3. PublishedOutputs'
    BY <2>1 DEF PublishedOutputs, Untracked
  <2> QED  BY <1>1, <2>1, <2>2, <2>3 DEF Inv, FilesInv, Untracked, Kinds
<1>5. CASE UNCHANGED vars
  <2>1. \A w \in Workers : FilesOf(w)'
    BY <1>5 DEF vars, Inv, FilesInv, FilesOf, Written, Fresh
  <2>2. PublishedOutputs'
    BY <1>5 DEF vars, Inv, FilesInv, PublishedOutputs, Written, Kinds
  <2> QED  BY <1>1, <1>5, <2>1, <2>2 DEF vars, Inv, FilesInv, Kinds
<1> QED  BY <1>1, <1>2, <1>3, <1>4, <1>5 DEF Next, Inv

(* A completed job's answer names exactly the files it has written, all of *)
(* them whole, and a purified one if and only if the server purifies.      *)
THEOREM PublishedOutputsHolds == Spec => []PublishedOutputs
<1>1. Inv => PublishedOutputs
  BY DEF Inv, FilesInv
<1> QED  BY <1>1, InvInit, InvStep, PTL DEF Spec

(* One step of process_single_file leaves the files alone, creates one     *)
(* that was not there, or fills one that was being written.                *)
LEMMA FileStep ==
  ASSUME Inv, NEW w \in Workers,
         \/ Detect(w)
         \/ OpenReport(w) \/ FinishReport(w)
         \/ OpenPurified(w) \/ FinishPurified(w)
  PROVE  /\ current[w] \in Jobs
         /\ jobs[current[w]].status = "processing"
         /\ \/ disk' = disk
            \/ \E k \in Kinds :
                 \/ /\ disk[current[w]][k] = "none"
                    /\ disk' = [disk EXCEPT ![current[w]][k] = "partial"]
                 \/ /\ disk[current[w]][k] = "partial"
                    /\ disk' = [disk EXCEPT ![current[w]][k] = "whole"]
<1> USE DEF Inv, PlaceInv
<1>1. pc[w] \in BlockingStates
  BY BlockingMove
<1>2. current[w] \in Jobs /\ FilesOf(w) /\ RunBy(w, current[w])
  BY <1>1 DEF TypeOK, Accounts, Held, BlockingStates, FilesInv, RunBy
<1>3. jobs[current[w]].status = "processing"
  BY <1>2 DEF OnePlace
<1>4. ASSUME disk' # disk
      PROVE  \E k \in Kinds :
                 \/ /\ disk[current[w]][k] = "none"
                    /\ disk' = [disk EXCEPT ![current[w]][k] = "partial"]
                 \/ /\ disk[current[w]][k] = "partial"
                    /\ disk' = [disk EXCEPT ![current[w]][k] = "whole"]
  BY <1>2, <1>4 DEF Detect, OpenReport, FinishReport, OpenPurified, FinishPurified,
                    OpenFile, FinishFile, FilesOf, Kinds
<1> QED  BY <1>2, <1>3, <1>4

(* No output file is ever written a second time. *)
THEOREM WholeFilesStayHolds == Spec => WholeFilesStay
<1> DEFINE Stay == \A j \in Jobs, k \in Kinds :
                      disk[j][k] = "whole" => disk'[j][k] = "whole"
<1>1. Inv /\ [Next]_vars => [Stay]_vars
  <2> SUFFICES ASSUME Inv, Next PROVE Stay
    OBVIOUS
  <2>1. CASE disk' = disk
    BY <2>1
  <2>2. CASE \E w \in Workers :
              \/ Detect(w)
              \/ OpenReport(w) \/ FinishReport(w)
              \/ OpenPurified(w) \/ FinishPurified(w)
    <3>1. PICK w \in Workers :
            /\ current[w] \in Jobs
            /\ \/ disk' = disk
               \/ \E k \in Kinds :
                    \/ /\ disk[current[w]][k] = "none"
                       /\ disk' = [disk EXCEPT ![current[w]][k] = "partial"]
                    \/ /\ disk[current[w]][k] = "partial"
                       /\ disk' = [disk EXCEPT ![current[w]][k] = "whole"]
      BY <2>2, FileStep
    <3>2. disk \in [Jobs -> [Kinds -> FileStates]]
      BY DEF Inv, PlaceInv, TypeOK
    <3> QED  BY <2>1, <3>1, <3>2 DEF Kinds
  <2>3. ASSUME NEW w \in Workers, Worker(w) PROVE Stay
    BY <2>1, <2>2, <2>3 DEF Worker, LockReceiver, Receive, MarkProcessing, Publish
  <2>4. CASE Crash \/ \E j \in Jobs : Submit(j) \/ Enqueue(j) \/ Disconnect(j)
    BY <2>1, <2>4 DEF Submit, Enqueue, Disconnect, Crash
  <2> QED  BY <2>3, <2>4 DEF Next
<1> QED  BY <1>1, InvInit, InvStep, PTL DEF Spec, WholeFilesStay

-----------------------------------------------------------------------------

(* The answer of get_job_status for an entry that is tracked. *)
LEMMA ReplyOf ==
  ASSUME Inv, NEW j \in Jobs
  PROVE  /\ jobs[j].status # "untracked" => Reply(j) = jobs[j]
         /\ jobs[j].status = "untracked" => Reply(j) = Service!NotFound
<1>1. /\ jobs[j].status \in Statuses
      /\ jobs[j] = [status |-> jobs[j].status, paths |-> jobs[j].paths]
      /\ jobs[j].status # "completed" => jobs[j].paths = {}
  BY DEF Inv, PlaceInv, TypeOK, FilesInv
<1> QED  BY <1>1 DEF Reply, Statuses, Service!NotFound

(* Registering a job is the only step that issues an id. *)
LEMMA SubmitRefines ==
  ASSUME Inv, Inv', NEW j \in Jobs, Submit(j)
  PROVE  Service!Accept(j)
<1> USE DEF Inv, PlaceInv
<1>1. j \notin Issued /\ Issued' = Issued \cup {j}
  BY DEF Submit, TypeOK, Issued
<1>2. Reply(j)' = Service!Pending
  BY DEF Submit, TypeOK, Reply, Service!Pending
<1>3. \A x \in Jobs : x # j => Reply(x)' = Reply(x)
  BY DEF Submit, TypeOK, Reply
<1> QED  BY <1>1, <1>2, <1>3 DEF Submit, Service!Accept

(* The first status update of worker_loop starts the job. *)
LEMMA MarkRefines ==
  ASSUME Inv, Inv', NEW w \in Workers, MarkProcessing(w)
  PROVE  Service!Start(current[w])
<1> USE DEF Inv, PlaceInv
<1> DEFINE c == current[w]
<1>1. c \in Jobs /\ jobs[c].status = "pending"
  BY DEF MarkProcessing, TypeOK, Accounts, Held, TakenBy, OnePlace
<1>2. jobs[c] = [status |-> "pending", paths |-> {}]
  <2>1. jobs[c] = [status |-> jobs[c].status, paths |-> jobs[c].paths]
    BY <1>1 DEF TypeOK
  <2> QED  BY <1>1, <2>1 DEF FilesInv
<1>3. jobs' = [jobs EXCEPT ![c] = [status |-> "processing", paths |-> {}]]
  <2>1. jobs' = [jobs EXCEPT ![c].status = "processing"]
    BY <1>2 DEF MarkProcessing, Untracked
  <2>2. [jobs[c] EXCEPT !.status = "processing"]
          = [status |-> "processing", paths |-> {}]
    BY <1>2
  <2> QED  BY <2>1, <2>2
<1>4. /\ jobs'[c] = [status |-> "processing", paths |-> {}]
      /\ \A x \in Jobs : x # c => jobs'[x] = jobs[x]
  BY <1>1, <1>3 DEF TypeOK
<1>5. /\ Reply(c) = Service!Pending
      /\ \A x \in Jobs : x = c => Reply(x)' = Service!Processing
      /\ \A x \in Jobs : x # c => Reply(x)' = Reply(x)
  <2>1. Reply(c) = Service!Pending
    BY <1>2 DEF Reply, Service!Pending
  <2>2. ASSUME NEW x \in Jobs, x = c PROVE Reply(x)' = Service!Processing
    <3>1. jobs'[x].status = "processing"
      BY <1>4, <2>2
    <3> QED  BY <3>1 DEF Reply, Service!Processing
  <2>3. ASSUME NEW x \in Jobs, x # c PROVE Reply(x)' = Reply(x)
    BY <1>4, <2>3 DEF Reply
  <2> QED  BY <2>1, <2>2, <2>3
<1>6. Issued' = Issued
  BY DEF MarkProcessing, Issued
<1> QED  BY <1>1, <1>5, <1>6 DEF MarkProcessing, Service!Start

(* Creating and filling an output file writes it; the other steps of the   *)
(* blocking task are invisible to a client.                                *)
LEMMA RunningRefines ==
  ASSUME Inv, NEW w \in Workers,
         \/ Detect(w)
         \/ OpenReport(w) \/ FinishReport(w)
         \/ OpenPurified(w) \/ FinishPurified(w)
  PROVE  \/ \E j \in Jobs, k \in Kinds : Service!Write(j, k)
         \/ UNCHANGED Service!svars
<1>1. jobs' = jobs /\ handler' = handler
  BY BlockingMove DEF Inv, PlaceInv
<1>2. Issued' = Issued /\ [j \in Jobs |-> Reply(j)]' = [j \in Jobs |-> Reply(j)]
  BY <1>1 DEF Issued, Reply
<1>3. CASE disk' = disk
  BY <1>2, <1>3 DEF Service!svars
<1>4. CASE disk' # disk
  <2>1. current[w] \in Jobs /\ jobs[current[w]].status = "processing"
    BY FileStep
  <2>2. Reply(current[w]) = Service!Processing
    BY <2>1 DEF Reply, Service!Processing
  <2>3. PICK k \in Kinds :
          \/ /\ disk[current[w]][k] = "none"
             /\ disk' = [disk EXCEPT ![current[w]][k] = "partial"]
          \/ /\ disk[current[w]][k] = "partial"
             /\ disk' = [disk EXCEPT ![current[w]][k] = "whole"]
    BY <1>4, FileStep
  <2>4. Service!Write(current[w], k)
    BY <1>2, <2>1, <2>2, <2>3 DEF Service!Write
  <2> QED  BY <2>1, <2>4
<1> QED  BY <1>3, <1>4

(* The second status update completes or fails the job. *)
LEMMA PublishRefines ==
  ASSUME Inv, NEW w \in Workers, Publish(w)
  PROVE  Service!Complete(current[w]) \/ Service!Fail(current[w])
<1> USE DEF Inv, PlaceInv
<1> DEFINE c == current[w]
<1>1. c \in Jobs /\ jobs[c].status = "processing" /\ FilesOf(w)
  BY DEF Publish, TypeOK, Accounts, Held, RunBy, OnePlace, FilesInv
<1>2. Reply(c) = Service!Processing
  BY <1>1 DEF Reply, Service!Processing
<1>3. /\ jobs'[c] = Outcome(w)
      /\ \A x \in Jobs : x # c => jobs'[x] = jobs[x]
  BY <1>1 DEF Publish, TypeOK, Untracked
<1>4. /\ \A x \in Jobs : x # c => Reply(x)' = Reply(x)
      /\ Issued' = Issued
  BY <1>3 DEF Publish, Reply, Issued
<1>5. CASE local[w].result = "ok"
  <2>1. Outcome(w) = [status |-> "completed", paths |-> Written(c)]
    BY <1>1, <1>5 DEF Publish, Outcome, FilesOf
  <2>2. /\ \A k \in Kinds : disk[c][k] # "partial"
        /\ disk[c]["purified"] = "whole" <=> Purify
    BY <1>1, <1>5 DEF Publish, FilesOf, Written, Kinds
  <2>3. \A x \in Jobs : x = c => Reply(x)' = Service!Completed(Written(c))
    <3>1. ASSUME NEW x \in Jobs, x = c
          PROVE  jobs'[x].status = "completed" /\ jobs'[x] = Outcome(w)
      BY <1>3, <2>1, <3>1
    <3>2. ASSUME NEW x \in Jobs, x = c
          PROVE  Reply(x)' = jobs'[x]
      BY <3>1, <3>2 DEF Reply
    <3> QED  BY <2>1, <3>1, <3>2 DEF Service!Completed
  <2> QED  BY <1>1, <1>2, <1>4, <2>2, <2>3
              DEF Publish, Service!Complete, Written, Kinds, Service!Kinds
<1>6. CASE local[w].result # "ok"
  <2>1. Outcome(w).status = "failed"
    BY <1>6 DEF Outcome
  <2>2. \A x \in Jobs : x = c => Reply(x)' = Service!Failed
    BY <1>3, <2>1 DEF Reply, Service!Failed
  <2> QED  BY <1>1, <1>2, <1>4, <2>2 DEF Publish, Service!Fail
<1> QED  BY <1>5, <1>6

(* The server refines the service its clients see: every step of handlers, *)
(* workers and restarts is a step of JobService or invisible to clients.   *)
THEOREM JobServerRefines == Spec => ImplementsService
<1>1. Init => Service!ServiceInit
  BY DEF Init, Service!ServiceInit, Issued, Reply, Untracked, Service!NotFound,
         Kinds, Service!Kinds
<1>2. Inv /\ Inv' /\ [Next]_vars => [Service!ServiceNext]_(Service!svars)
  <2> SUFFICES ASSUME Inv, Inv', [Next]_vars
               PROVE  Service!ServiceNext \/ UNCHANGED Service!svars
    BY DEF Service!svars
  <2>1. CASE \E j \in Jobs : Submit(j)
    BY <2>1, SubmitRefines DEF Service!ServiceNext
  <2>2. CASE \/ \E j \in Jobs : Enqueue(j) \/ Disconnect(j)
             \/ \E w \in Workers : LockReceiver(w) \/ Receive(w)
             \/ UNCHANGED vars
    <3>1. jobs' = jobs /\ disk' = disk
      BY <2>2 DEF Enqueue, Disconnect, LockReceiver, Receive, vars
    <3>2. Issued' = Issued
      BY <2>2 DEF Enqueue, Disconnect, LockReceiver, Receive, vars, Issued,
                  Inv, PlaceInv, TypeOK
    <3> QED  BY <3>1, <3>2 DEF Service!svars, Reply
  <2>3. ASSUME NEW w \in Workers, Worker(w), ~LockReceiver(w), ~Receive(w)
        PROVE  Service!ServiceNext \/ UNCHANGED Service!svars
    <3>1. CASE MarkProcessing(w)
      <4>1. current[w] \in Jobs
        BY <3>1 DEF MarkProcessing, Inv, PlaceInv, TypeOK, Accounts, Held
      <4> QED  BY <3>1, <4>1, MarkRefines DEF Service!ServiceNext
    <3>2. CASE Publish(w)
      <4>1. current[w] \in Jobs
        BY <3>2 DEF Publish, Inv, PlaceInv, TypeOK, Accounts, Held
      <4> QED  BY <3>2, <4>1, PublishRefines DEF Service!ServiceNext
    <3>3. CASE \/ Detect(w)
               \/ OpenReport(w) \/ FinishReport(w)
               \/ OpenPurified(w) \/ FinishPurified(w)
      BY <3>3, RunningRefines DEF Service!ServiceNext, Kinds, Service!Kinds
    <3> QED  BY <2>3, <3>1, <3>2, <3>3 DEF Worker
  <2>4. CASE Crash
    <3>1. Issued' = Issued /\ disk' = disk
      BY <2>4 DEF Crash, Issued, Inv, PlaceInv, TypeOK
    <3>2. \A x \in Jobs : Reply(x)' = Service!NotFound
      BY <2>4 DEF Crash, Reply, Untracked, Service!NotFound
    <3> QED  BY <3>1, <3>2 DEF Service!Forget, Service!ServiceNext
  <2> QED  BY <2>1, <2>2, <2>3, <2>4 DEF Next
<1> QED
  BY <1>1, <1>2, InvInit, InvStep, PTL
     DEF Spec, ImplementsService, Service!ServiceSpec

=============================================================================
