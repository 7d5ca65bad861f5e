------------------------- MODULE DetectBatchProofs --------------------------
(***************************************************************************)
(* Proofs about DetectBatch and DetectReview, for any number of files and  *)
(* threads, any findings and errors anywhere.  With distinct names a file  *)
(* has its report, its entry and its copy to itself; BatchInv says what    *)
(* they hold while the file waits, is held by a thread, and is done with.  *)
(* The readers' tables are functions on the classes of a finite set: each  *)
(* sum is the number of the set's members (RowsAddUp), and what is loaded  *)
(* is counted by file and position (LoadFacts).                            *)
(***************************************************************************)
EXTENDS DetectReview, FiniteSetTheorems, SequenceTheorems, WellFoundedInduction, TLAPS

Detecting == {"detect", "report", "reporting", "count", "record"}
Purifying == {"purify", "purifying"}

(* The two parallel loops do not overlap. *)
Phases ==
    /\ \A t \in Threads : pc[t] \in Detecting => phase = "detect"
    /\ \A t \in Threads : pc[t] \in Purifying => phase = "purify"
    /\ phase = "done" => todo = {}
    /\ Purify \/ phase # "purify"

(* No file is with two threads, or with one and still to do. *)
Alone ==
    /\ \A t \in Threads : file[t] \notin todo
    /\ \A t, u \in Threads : file[t] = file[u] /\ file[t] # NoFile => t = u

Copied(f) == purified[PurifiedName(f)]

Untouched(f) == reports[ReportName(f)] = Absent /\ contaminated[BaseName(f)] = {}

Opened(f) ==
    /\ reports[ReportName(f)] = [by |-> {Report(f)}, whole |-> FALSE]
    /\ contaminated[BaseName(f)] = {}

Detected(f) ==
    /\ phase = "detect" => f \notin todo
    /\ \A t \in Threads : file[t] = f => pc[t] \in Purifying

(* What detection has left of a file. *)
Outcome(f) ==
    /\ contaminated[BaseName(f)] = IF Reported(f) THEN LinesOf(hits[f]) ELSE {}
    /\ f \notin faulted => IF hits[f] = {} THEN reports[ReportName(f)] = Absent
                                           ELSE Reported(f)

(* What detection has done so far to the file that a thread holds. *)
DetectHeld(t) ==
    /\ pc[t] \in {"detect", "report"} => Untouched(file[t])
    /\ pc[t] = "reporting" => Opened(file[t])
    /\ pc[t] \in {"count", "record"} =>
         Reported(file[t]) /\ contaminated[BaseName(file[t])] = {}
    /\ pc[t] \in Detecting \ {"detect"} => hits[file[t]] # {}

DetectInv ==
    /\ \A f \in todo : phase = "detect" => Untouched(f)
    /\ \A t \in Threads : DetectHeld(t)
    /\ \A f \in Files : Detected(f) => Outcome(f)

PurifyHeld(t) ==
    /\ pc[t] = "purify" => Copied(file[t]) = Absent
    /\ pc[t] = "purifying" =>
         Copied(file[t]) = [by |-> {Copy(file[t])}, whole |-> FALSE]

(* A copy that was finished, and one that nothing kept from being. *)
CopyOK(f) ==
    /\ Copied(f).whole => Copied(f).by = {Copy(f)}
    /\ \/ f \in faulted \/ phase = "detect" \/ ~Purify \/ f \in todo
       \/ \E t \in Threads : file[t] = f
       \/ Copied(f) = [by |-> {Copy(f)}, whole |-> TRUE]

PurifyInv ==
    /\ \A f \in Files : f \in todo \/ phase = "detect" => Copied(f) = Absent
    /\ \A t \in Threads : PurifyHeld(t)
    /\ \A f \in Files : CopyOK(f)

BatchInv == TypeOK /\ Phases /\ Alone /\ DetectInv /\ PurifyInv

(* The files a copy can be cleaned of: names of their own, and a           *)
(* compression that the purifier undoes.                                   *)
Cleanable ==
    /\ DistinctNames
    /\ \A f \in Files : f.zip \notin {"bz2", "xz"}

-----------------------------------------------------------------------------
(* Types and the two loops. *)

LEMMA HitsTyped ==
    ASSUME TypeOK, NEW f \in Files
    PROVE  /\ LinesOf(hits[f]) \subseteq AllLines
           /\ Cardinality(hits[f]) \in Nat
           /\ Report(f) \in Files \X SUBSET AllLines
           /\ Copy(f) \in Files \X SUBSET AllLines
           /\ BaseName(f) \in BaseNames
           /\ ReportName(f) \in ReportNames
           /\ PurifiedName(f) \in PurifiedNames
  <1>1. hits[f] \in Findings
    BY DEF TypeOK
  <1>2. LinesOf(hits[f]) \subseteq AllLines
    BY <1>1 DEF AllLines
  <1>3. Cardinality(hits[f]) \in Nat
    BY <1>1, FindingAssumption, FS_CardinalityType
  <1>4. BaseName(f) \in BaseNames /\ ReportName(f) \in ReportNames
        /\ PurifiedName(f) \in PurifiedNames
    BY DEF BaseNames, ReportNames, PurifiedNames
  <1>5. contaminated[BaseName(f)] \subseteq AllLines
    BY <1>4 DEF TypeOK
  <1>6. Copy(f) \in Files \X SUBSET AllLines
    BY <1>5 DEF Copy
  <1> QED BY <1>2, <1>3, <1>4, <1>6 DEF Report

LEMMA BatchInit == Init => TypeOK /\ Phases /\ Alone /\ DetectInv /\ PurifyInv
  <1> SUFFICES ASSUME Init PROVE TypeOK /\ Phases /\ Alone /\ DetectInv /\ PurifyInv
    OBVIOUS
  <1>1. TypeOK
    BY NoFileAssumption DEF Init, TypeOK, Places, Contents, Absent
  <1>2. Phases /\ Alone
    BY NoFileAssumption DEF Init, Phases, Alone, Detecting, Purifying
  <1>3. \A f \in Files : Untouched(f) /\ Copied(f) = Absent
    BY <1>1, HitsTyped DEF Init, Untouched, Copied
  <1>4. DetectInv
    BY <1>3 DEF Init, DetectInv, DetectHeld, Detecting, Detected
  <1>5. PurifyInv
    BY <1>3 DEF Init, PurifyInv, PurifyHeld, CopyOK, Absent
  <1> QED BY <1>1, <1>2, <1>4, <1>5

LEMMA TypesStep == TypeOK /\ [Next]_vars => TypeOK'
  <1> SUFFICES ASSUME TypeOK, [Next]_vars PROVE TypeOK'
    OBVIOUS
  <1>1. ASSUME NEW t \in Threads, pc[t] # "idle"
        PROVE  file[t] \in Files
    BY <1>1 DEF TypeOK
  <1> USE NoFileAssumption DEF Goto, Idle, Fail, Places
  <1>2. ASSUME NEW t \in Threads, BeginDetect(t) PROVE TypeOK'
    BY <1>2 DEF BeginDetect, Begin, TypeOK
  <1>3. ASSUME NEW t \in Threads, Detect(t) PROVE TypeOK'
    BY <1>1, <1>3 DEF Detect, TypeOK
  <1>4. ASSUME NEW t \in Threads, OpenReport(t) PROVE TypeOK'
    <2> DEFINE writers == {t} \cup Writing(t, "reporting", ReportName)
    <2>1. \A u \in writers : u \in Threads /\ pc[u] # "idle"
      BY <1>4 DEF OpenReport, Writing
    <2>2. [by |-> {Report(file[u]) : u \in writers}, whole |-> FALSE] \in Contents
      BY <1>1, <2>1, HitsTyped DEF Contents
    <2>3. CASE Fail(t) /\ UNCHANGED reports
      BY <1>1, <1>4, <2>3 DEF OpenReport, TypeOK
    <2>4. CASE reports' = [reports EXCEPT ![ReportName(file[t])] =
                             [by |-> {Report(file[u]) : u \in writers}, whole |-> FALSE]]
               /\ Goto(t, "reporting") /\ UNCHANGED <<file, faulted>>
      BY <1>1, <1>4, <2>2, <2>4 DEF OpenReport, TypeOK
    <2> QED BY <1>4, <2>3, <2>4 DEF OpenReport
  <1>5. ASSUME NEW t \in Threads, FinishReport(t) PROVE TypeOK'
    <2> DEFINE r == reports[ReportName(file[t])]
    <2>1. r \in Contents
      BY <1>1, <1>5, HitsTyped DEF FinishReport, TypeOK
    <2>2. [r EXCEPT !.whole = TRUE] \in Contents
      BY <2>1 DEF Contents
    <2>3. reports' \in [ReportNames -> Contents]
      BY <1>5, <2>2 DEF FinishReport, TypeOK
    <2> QED BY <1>1, <1>5, <2>3 DEF FinishReport, TypeOK
  <1>6. ASSUME NEW t \in Threads, Count(t) PROVE TypeOK'
    <2>1. total' \in Nat
      BY <1>1, <1>6, HitsTyped DEF Count, TypeOK
    <2> QED BY <1>6, <2>1 DEF Count, TypeOK
  <1>7. ASSUME NEW t \in Threads, Record(t) PROVE TypeOK'
    <2>1. contaminated' \in [BaseNames -> SUBSET AllLines]
      BY <1>1, <1>7, HitsTyped DEF Record, TypeOK
    <2> QED BY <1>7, <2>1 DEF Record, TypeOK
  <1>8. CASE EndDetection
    BY <1>8 DEF EndDetection, TypeOK
  <1>9. ASSUME NEW t \in Threads, BeginPurify(t) PROVE TypeOK'
    BY <1>9 DEF BeginPurify, Begin, TypeOK
  <1>10. ASSUME NEW t \in Threads, OpenPurified(t) PROVE TypeOK'
    <2> DEFINE writers == {t} \cup Writing(t, "purifying", PurifiedName)
    <2>1. \A u \in writers : u \in Threads /\ pc[u] # "idle"
      BY <1>10 DEF OpenPurified, Writing
    <2>2. [by |-> {Copy(file[u]) : u \in writers}, whole |-> FALSE] \in Contents
      BY <1>1, <2>1, HitsTyped DEF Contents
    <2>3. CASE Fail(t) /\ UNCHANGED purified
      BY <1>1, <1>10, <2>3 DEF OpenPurified, TypeOK
    <2>4. CASE purified' = [purified EXCEPT ![PurifiedName(file[t])] =
                              [by |-> {Copy(file[u]) : u \in writers}, whole |-> FALSE]]
               /\ Goto(t, "purifying") /\ UNCHANGED <<file, faulted>>
      BY <1>1, <1>10, <2>2, <2>4 DEF OpenPurified, TypeOK
    <2> QED BY <1>10, <2>3, <2>4 DEF OpenPurified
  <1>11. ASSUME NEW t \in Threads, FinishPurified(t) PROVE TypeOK'
    <2> DEFINE p == purified[PurifiedName(file[t])]
    <2>1. p \in Contents
      BY <1>1, <1>11, HitsTyped DEF FinishPurified, TypeOK
    <2>2. [p EXCEPT !.whole = TRUE] \in Contents
      BY <2>1 DEF Contents
    <2>3. purified' \in [PurifiedNames -> Contents]
      BY <1>11, <2>2 DEF FinishPurified, TypeOK
    <2> QED BY <1>1, <1>11, <2>3 DEF FinishPurified, TypeOK
  <1>12. CASE EndPurify
    BY <1>12 DEF EndPurify, TypeOK
  <1>13. CASE UNCHANGED vars
    BY <1>13 DEF vars, TypeOK
  <1> QED
    BY <1>2, <1>3, <1>4, <1>5, <1>6, <1>7, <1>8, <1>9, <1>10, <1>11, <1>12, <1>13
       DEF Next, Thread

LEMMA LoopsStep == TypeOK /\ Phases /\ Alone /\ [Next]_vars => Phases' /\ Alone'
  <1> SUFFICES ASSUME TypeOK, Phases, Alone, [Next]_vars PROVE Phases' /\ Alone'
    OBVIOUS
  <1> USE NoFileAssumption DEF Goto, Idle, Fail, Places, Detecting, Purifying, TypeOK,
                               Phases, Alone
  <1>1. ASSUME NEW t \in Threads, BeginDetect(t) PROVE Phases' /\ Alone'
    BY <1>1 DEF BeginDetect, Begin
  <1>2. ASSUME NEW t \in Threads, Detect(t) PROVE Phases' /\ Alone'
    BY <1>2 DEF Detect
  <1>3. ASSUME NEW t \in Threads, OpenReport(t) PROVE Phases' /\ Alone'
    BY <1>3 DEF OpenReport
  <1>4. ASSUME NEW t \in Threads, FinishReport(t) PROVE Phases' /\ Alone'
    BY <1>4 DEF FinishReport
  <1>5. ASSUME NEW t \in Threads, Count(t) PROVE Phases' /\ Alone'
    BY <1>5 DEF Count
  <1>6. ASSUME NEW t \in Threads, Record(t) PROVE Phases' /\ Alone'
    BY <1>6 DEF Record
  <1>7. CASE EndDetection
    BY <1>7 DEF EndDetection, AllIdle
  <1>8. ASSUME NEW t \in Threads, BeginPurify(t) PROVE Phases' /\ Alone'
    BY <1>8 DEF BeginPurify, Begin
  <1>9. ASSUME NEW t \in Threads, OpenPurified(t) PROVE Phases' /\ Alone'
    BY <1>9 DEF OpenPurified
  <1>10. ASSUME NEW t \in Threads, FinishPurified(t) PROVE Phases' /\ Alone'
    BY <1>10 DEF FinishPurified
  <1>11. CASE EndPurify
    BY <1>11 DEF EndPurify, AllIdle
  <1>12. CASE UNCHANGED vars
    BY <1>12 DEF vars
  <1> QED
    BY <1>1, <1>2, <1>3, <1>4, <1>5, <1>6, <1>7, <1>8, <1>9, <1>10, <1>11, <1>12
       DEF Next, Thread

-----------------------------------------------------------------------------
(* What detection leaves. *)

Base == TypeOK /\ Phases /\ Alone

LEMMA HeldTyped ==
    ASSUME TypeOK, NEW t \in Threads, pc[t] # "idle"
    PROVE  /\ file[t] \in Files
           /\ file[t] # NoFile
  BY NoFileAssumption DEF TypeOK

LEMMA Finished ==
    ASSUME NEW r \in Contents
    PROVE  [r EXCEPT !.whole = TRUE] = [by |-> r.by, whole |-> TRUE]
  <1>1. PICK q : q = [r EXCEPT !.whole = TRUE]
    OBVIOUS
  <1>2. q \in Contents /\ q.by = r.by /\ q.whole = TRUE
    BY <1>1 DEF Contents
  <1>3. q = [by |-> q.by, whole |-> q.whole]
    BY <1>2 DEF Contents
  <1> QED BY <1>1, <1>2, <1>3

LEMMA SoleWriter ==
    ASSUME Base, DistinctNames, NEW t \in Threads, pc[t] # "idle"
    PROVE  /\ Writing(t, "reporting", ReportName) = {}
           /\ Writing(t, "purifying", PurifiedName) = {}
  <1>1. ASSUME NEW u \in Threads, pc[u] # "idle",
               \/ ReportName(file[u]) = ReportName(file[t])
               \/ PurifiedName(file[u]) = PurifiedName(file[t])
        PROVE  u = t
    BY <1>1, HeldTyped DEF Base, Alone, DistinctNames
  <1> QED BY <1>1 DEF Writing

(* A step of one thread on its file, with names of its own, disturbs no    *)
(* other file.                                                             *)
LEMMA DetectFrame ==
    ASSUME Base, Base', DetectInv, NEW t \in Threads, pc[t] # "idle",
           UNCHANGED <<hits, todo, phase>>,
           \A u \in Threads \ {t} : pc'[u] = pc[u] /\ file'[u] = file[u],
           file'[t] \in {file[t], NoFile},
           \A f \in Files \ {file[t]} :
               /\ reports'[ReportName(f)] = reports[ReportName(f)]
               /\ contaminated'[BaseName(f)] = contaminated[BaseName(f)]
               /\ f \in faulted => f \in faulted',
           DetectHeld(t)',
           \A f \in Files : f = file[t] /\ Detected(f)' => Outcome(f)'
    PROVE  DetectInv'
  <1>1. file[t] \in Files /\ file[t] # NoFile /\ file[t] \notin todo
    BY HeldTyped DEF Base, Alone
  <1>2. ASSUME NEW f \in todo', phase' = "detect"
        PROVE  Untouched(f)'
    <2>1. f \in Files \ {file[t]} /\ Untouched(f)
      BY <1>1, <1>2 DEF Base, TypeOK, DetectInv
    <2> QED BY <2>1 DEF Untouched
  <1>3. ASSUME NEW u \in Threads
        PROVE  DetectHeld(u)'
    <2>1. CASE u = t
      BY <2>1
    <2>2. CASE u # t /\ pc[u] = "idle"
      BY <2>2 DEF DetectHeld, Detecting
    <2>3. CASE u # t /\ pc[u] # "idle"
      <3>1. file[u] \in Files \ {file[t]} /\ DetectHeld(u)
        BY <1>1, <2>3, HeldTyped DEF Base, Alone, DetectInv
      <3> QED BY <2>3, <3>1 DEF DetectHeld, Untouched, Opened, Reported, Report
    <2> QED BY <2>1, <2>2, <2>3
  <1>4. ASSUME NEW f \in Files, Detected(f)'
        PROVE  Outcome(f)'
    <2>1. CASE f = file[t]
      BY <1>4, <2>1
    <2>2. CASE f # file[t]
      <3>1. Detected(f)
        BY <1>4, <2>2 DEF Detected
      <3>2. Outcome(f)
        BY <3>1 DEF DetectInv
      <3> QED BY <2>2, <3>2 DEF Outcome, Reported, Report
    <2> QED BY <2>1, <2>2
  <1> QED BY <1>2, <1>3, <1>4, Zenon DEF DetectInv

LEMMA DetectStep ==
    ASSUME Base, Base', DistinctNames, DetectInv, [Next]_vars
    PROVE  DetectInv'
  <1>1. ASSUME NEW t \in Threads, BeginDetect(t) PROVE DetectInv'
    <2>1. PICK f \in todo : todo' = todo \ {f} /\ file' = [file EXCEPT ![t] = f]
      BY <1>1 DEF BeginDetect, Begin
    <2>2. Untouched(f) /\ f \in Files
      BY <1>1, <2>1 DEF BeginDetect, DetectInv, Base, TypeOK
    <2>3. pc[t] = "idle" /\ pc' = [pc EXCEPT ![t] = "detect"]
          /\ UNCHANGED <<hits, phase, reports, contaminated, faulted>>
      BY <1>1 DEF BeginDetect, Begin, Goto
    <2>4. \A g \in Files : Detected(g)' => Detected(g) /\ g # f
      BY <2>1, <2>2, <2>3, NoFileAssumption DEF Detected, Purifying, Base, TypeOK
    <2>5. \A u \in Threads : DetectHeld(u)'
      BY <2>1, <2>2, <2>3 DEF DetectHeld, Detecting, DetectInv, Untouched, Opened, Reported,
         Report, Base, TypeOK
    <2>6. \A g \in Files : Outcome(g)' <=> Outcome(g)
      BY <2>3 DEF Outcome, Reported, Report
    <2>7. \A g \in todo' : phase' = "detect" => Untouched(g)'
      BY <2>1, <2>3 DEF DetectInv, Untouched
    <2> QED BY <2>4, <2>5, <2>6, <2>7 DEF DetectInv
  <1>2. ASSUME NEW t \in Threads, pc[t] \in Detecting \cup Purifying
        PROVE  /\ pc[t] # "idle" /\ file[t] \in Files /\ DetectHeld(t)
               /\ \A f \in Files \ {file[t]} :
                    /\ ReportName(f) # ReportName(file[t])
                    /\ BaseName(f) # BaseName(file[t])
    BY <1>2, HeldTyped DEF Base, DetectInv, DistinctNames, Detecting, Purifying
  <1> USE DEF Goto, Idle, Fail, Detecting, Purifying
  <1>3. ASSUME NEW t \in Threads, Detect(t) PROVE DetectInv'
    <2>1. Untouched(file[t])
      BY <1>2, <1>3 DEF Detect, DetectHeld
    <2>2. ASSUME NEW f \in Files, f = file[t], Detected(f)' PROVE Outcome(f)'
      <3>1. Untouched(f)' /\ ~Reported(f)'
        BY <1>3, <2>1, <2>2 DEF Detect, Untouched, Reported, Absent
      <3>2. hits[f] = {} \/ f \in faulted'
        BY <1>3, <2>2 DEF Detect, Detected, Base, TypeOK
      <3> QED BY <1>3, <3>1, <3>2 DEF Outcome, Untouched, Detect
    <2>3. DetectHeld(t)'
      BY <1>3, <2>1 DEF Detect, DetectHeld, Untouched, Base, TypeOK
    <2> QED BY <1>2, <1>3, <2>2, <2>3, DetectFrame DEF Detect, Base, TypeOK
  <1>4. ASSUME NEW t \in Threads, OpenReport(t) PROVE DetectInv'
    <2>1. Untouched(file[t]) /\ hits[file[t]] # {} /\ pc[t] = "report"
      BY <1>2, <1>4 DEF OpenReport, DetectHeld
    <2>2. CASE Fail(t) /\ UNCHANGED reports
      <3>1. ASSUME NEW f \in Files, f = file[t], Detected(f)' PROVE Outcome(f)'
        BY <1>4, <2>1, <2>2, <3>1 DEF OpenReport, Outcome, Untouched, Reported, Absent
      <3>2. DetectHeld(t)'
        BY <2>2 DEF DetectHeld, Base, TypeOK
      <3> QED BY <1>2, <1>4, <2>2, <3>1, <3>2, DetectFrame DEF OpenReport, Base, TypeOK
    <2>3. CASE ~(Fail(t) /\ UNCHANGED reports)
      <3>1. /\ reports' = [reports EXCEPT ![ReportName(file[t])] =
                             [by |-> {Report(file[t])}, whole |-> FALSE]]
            /\ Goto(t, "reporting")
            /\ UNCHANGED <<hits, todo, phase, contaminated, file, faulted>>
        <4>1. {Report(file[u]) : u \in {t} \cup Writing(t, "reporting", ReportName)}
              = {Report(file[t])}
          BY <1>2, <2>1, SoleWriter
        <4> QED BY <1>4, <2>3, <4>1 DEF OpenReport
      <3>2. Opened(file[t])'
        BY <1>2, <2>1, <3>1, HitsTyped DEF Opened, Untouched, Report, Base, TypeOK
      <3>3. DetectHeld(t)'
        BY <2>1, <3>1, <3>2 DEF DetectHeld, Base, TypeOK
      <3>4. ASSUME NEW f \in Files, f = file[t], Detected(f)' PROVE FALSE
        BY <3>1, <3>4 DEF Detected, Base, TypeOK
      <3> QED BY <1>2, <2>1, <3>1, <3>3, <3>4, DetectFrame DEF Base, TypeOK
    <2> QED BY <2>2, <2>3
  <1>5. ASSUME NEW t \in Threads, FinishReport(t) PROVE DetectInv'
    <2>1. Opened(file[t]) /\ hits[file[t]] # {} /\ pc[t] = "reporting"
      BY <1>2, <1>5 DEF FinishReport, DetectHeld
    <2>2. CASE Fail(t) /\ UNCHANGED reports
      <3>1. ASSUME NEW f \in Files, f = file[t], Detected(f)' PROVE Outcome(f)'
        BY <1>5, <2>1, <2>2, <3>1 DEF FinishReport, Outcome, Opened, Reported
      <3>2. DetectHeld(t)'
        BY <2>2 DEF DetectHeld, Base, TypeOK
      <3> QED BY <1>2, <1>5, <2>2, <3>1, <3>2, DetectFrame DEF FinishReport, Base, TypeOK
    <2>3. CASE ~(Fail(t) /\ UNCHANGED reports)
      <3>1. /\ reports' = [reports EXCEPT ![ReportName(file[t])].whole = TRUE]
            /\ Goto(t, "count")
            /\ UNCHANGED <<hits, todo, phase, contaminated, file, faulted>>
        BY <1>5, <2>3 DEF FinishReport
      <3>2. reports'[ReportName(file[t])] = [reports[ReportName(file[t])] EXCEPT !.whole = TRUE]
        BY <1>2, <2>1, <3>1, HitsTyped DEF Base, TypeOK
      <3>3. Reported(file[t])' /\ contaminated'[BaseName(file[t])] = {}
        <4>1. reports'[ReportName(file[t])] = [by |-> {Report(file[t])}, whole |-> TRUE]
          <5>1. reports[ReportName(file[t])] \in Contents
            BY <1>2, <2>1, HitsTyped DEF Base, TypeOK
          <5>2. reports[ReportName(file[t])].by = {Report(file[t])}
            BY <2>1 DEF Opened
          <5> QED BY <3>2, <5>1, <5>2, Finished
        <4> QED BY <2>1, <3>1, <4>1 DEF Opened, Reported, Report
      <3>4. DetectHeld(t)'
        BY <2>1, <3>1, <3>3 DEF DetectHeld, Base, TypeOK
      <3>5. ASSUME NEW f \in Files, f = file[t], Detected(f)' PROVE FALSE
        BY <3>1, <3>5 DEF Detected, Base, TypeOK
      <3>6. \A f \in Files \ {file[t]} : reports'[ReportName(f)] = reports[ReportName(f)]
        BY <1>2, <2>1, <3>1, HitsTyped DEF Base, TypeOK
      <3> QED BY <1>2, <2>1, <3>1, <3>4, <3>5, <3>6, DetectFrame DEF Base, TypeOK
    <2> QED BY <2>2, <2>3
  <1>6. ASSUME NEW t \in Threads, Count(t) PROVE DetectInv'
    <2>1. DetectHeld(t)'
      BY <1>2, <1>6 DEF Count, DetectHeld, Reported, Report, Base, TypeOK
    <2>2. ASSUME NEW f \in Files, f = file[t], Detected(f)' PROVE FALSE
      BY <1>6, <2>2 DEF Count, Detected, Base, TypeOK
    <2> QED BY <1>2, <1>6, <2>1, <2>2, DetectFrame DEF Count, Base, TypeOK
  <1>7. ASSUME NEW t \in Threads, Record(t) PROVE DetectInv'
    <2>1. Reported(file[t]) /\ hits[file[t]] # {} /\ pc[t] = "record"
      BY <1>2, <1>7 DEF Record, DetectHeld
    <2>2. contaminated'[BaseName(file[t])] = LinesOf(hits[file[t]])
          /\ \A f \in Files \ {file[t]} :
                contaminated'[BaseName(f)] = contaminated[BaseName(f)]
      BY <1>2, <1>7, <2>1, HitsTyped DEF Record, Base, TypeOK
    <2>3. ASSUME NEW f \in Files, f = file[t], Detected(f)' PROVE Outcome(f)'
      BY <1>7, <2>1, <2>2, <2>3 DEF Record, Outcome, Reported, Report
    <2>4. DetectHeld(t)'
      BY <1>7 DEF Record, DetectHeld, Base, TypeOK
    <2> QED BY <1>2, <1>7, <2>2, <2>3, <2>4, DetectFrame DEF Record, Base, TypeOK
  <1>8. ASSUME NEW t \in Threads, OpenPurified(t) \/ FinishPurified(t) PROVE DetectInv'
    <2>1. /\ UNCHANGED <<hits, todo, phase, reports, contaminated>>
          /\ pc[t] \in Purifying /\ pc'[t] \in {"idle", "purifying"}
          /\ faulted \subseteq faulted'
          /\ file'[t] \in {file[t], NoFile}
          /\ \A u \in Threads \ {t} : pc'[u] = pc[u] /\ file'[u] = file[u]
      BY <1>8 DEF OpenPurified, FinishPurified, Base, TypeOK
    <2>2. DetectHeld(t)'
      BY <2>1 DEF DetectHeld
    <2>3. ASSUME NEW f \in Files, f = file[t], Detected(f)' PROVE Outcome(f)'
      <3>1. Detected(f)
        BY <2>1, <2>3 DEF Base, Alone, Detected
      <3> QED BY <2>1, <3>1 DEF DetectInv, Outcome, Reported, Report
    <2> QED BY <1>2, <2>1, <2>2, <2>3, DetectFrame
  <1>9. ASSUME NEW t \in Threads, BeginPurify(t) PROVE DetectInv'
    <2>1. PICK f \in todo : todo' = todo \ {f} /\ file' = [file EXCEPT ![t] = f]
      BY <1>9 DEF BeginPurify, Begin
    <2>2. /\ phase = "purify" /\ pc[t] = "idle" /\ pc' = [pc EXCEPT ![t] = "purify"]
          /\ UNCHANGED <<hits, phase, reports, contaminated, faulted>>
      BY <1>9 DEF BeginPurify, Begin
    <2>3. \A g \in Files : Detected(g)' => Detected(g)
      BY <2>1, <2>2, NoFileAssumption DEF Detected, Base, TypeOK
    <2>4. \A u \in Threads : DetectHeld(u)'
      BY <2>1, <2>2 DEF DetectHeld, DetectInv, Untouched, Opened, Reported, Report,
         Base, TypeOK
    <2>5. \A g \in Files : Outcome(g)' <=> Outcome(g)
      BY <2>2 DEF Outcome, Reported, Report
    <2> QED BY <2>2, <2>3, <2>4, <2>5 DEF DetectInv
  <1>10. CASE EndDetection \/ EndPurify
    <2>1. /\ UNCHANGED <<hits, pc, file, reports, contaminated, faulted>>
          /\ phase' \in {"purify", "done"} /\ todo' \subseteq todo \cup Files
          /\ phase # "detect" \/ todo = {}
          /\ AllIdle
      BY <1>10 DEF EndDetection, EndPurify
    <2>2. \A f \in Files : Detected(f)
      BY <2>1, NoFileAssumption DEF AllIdle, Detected, Base, TypeOK
    <2>3. \A f \in Files : Outcome(f)' <=> Outcome(f)
      BY <2>1 DEF Outcome, Reported, Report
    <2>4. \A u \in Threads : DetectHeld(u)'
      BY <2>1 DEF AllIdle, DetectHeld
    <2> QED BY <2>1, <2>2, <2>3, <2>4 DEF DetectInv
  <1>11. CASE UNCHANGED vars
    BY <1>11 DEF vars, DetectInv, DetectHeld, Untouched, Opened, Detected, Outcome, Reported,
       Report
  <1> QED
    BY <1>1, <1>3, <1>4, <1>5, <1>6, <1>7, <1>8, <1>9, <1>10, <1>11 DEF Next, Thread

-----------------------------------------------------------------------------
(* What purification leaves. *)

LEMMA PurifyFrame ==
    ASSUME Base, Base', PurifyInv, NEW t \in Threads, pc[t] # "idle",
           UNCHANGED <<hits, todo, phase, contaminated>>,
           \A u \in Threads \ {t} : pc'[u] = pc[u] /\ file'[u] = file[u],
           file'[t] \in {file[t], NoFile},
           faulted \subseteq faulted',
           \A f \in Files \ {file[t]} :
               purified'[PurifiedName(f)] = purified[PurifiedName(f)],
           PurifyHeld(t)',
           phase # "detect",
           \A f \in Files : f = file[t] => CopyOK(f)'
    PROVE  PurifyInv'
  <1>1. file[t] \in Files /\ file[t] # NoFile /\ file[t] \notin todo
    BY HeldTyped DEF Base, Alone
  <1>2. ASSUME NEW f \in Files, f \in todo' \/ phase' = "detect"
        PROVE  Copied(f)' = Absent
    BY <1>1, <1>2 DEF PurifyInv, Copied
  <1>3. ASSUME NEW u \in Threads
        PROVE  PurifyHeld(u)'
    <2>1. CASE u = t
      BY <2>1
    <2>2. CASE u # t /\ pc[u] = "idle"
      BY <2>2 DEF PurifyHeld
    <2>3. CASE u # t /\ pc[u] # "idle"
      <3>1. file[u] \in Files \ {file[t]} /\ PurifyHeld(u)
        BY <1>1, <2>3, HeldTyped DEF Base, Alone, PurifyInv
      <3> QED BY <2>3, <3>1 DEF PurifyHeld, Copied, Copy, Packed, Cut
    <2> QED BY <2>1, <2>2, <2>3
  <1>4. ASSUME NEW f \in Files
        PROVE  CopyOK(f)'
    <2>1. CASE f = file[t]
      BY <2>1
    <2>2. CASE f # file[t]
      <3>1. CopyOK(f)
        BY DEF PurifyInv
      <3>2. (\E u \in Threads : file[u] = f) => \E u \in Threads : file'[u] = f
        BY <2>2
      <3> QED BY <2>2, <3>1, <3>2 DEF CopyOK, Copied, Copy, Packed, Cut
    <2> QED BY <2>1, <2>2
  <1> QED BY <1>2, <1>3, <1>4, Zenon DEF PurifyInv

LEMMA PurifyStep ==
    ASSUME Base, Base', DistinctNames, PurifyInv, [Next]_vars
    PROVE  PurifyInv'
  <1> USE DEF Goto, Idle, Fail
  <1>1. ASSUME NEW t \in Threads,
               \/ BeginDetect(t) \/ Detect(t) \/ OpenReport(t) \/ FinishReport(t)
               \/ Count(t) \/ Record(t)
        PROVE  PurifyInv'
    <2>1. /\ phase = "detect" /\ UNCHANGED <<phase, purified>>
          /\ todo' \subseteq todo
      BY <1>1 DEF BeginDetect, Begin, Detect, OpenReport, FinishReport, Count, Record, Base,
         Phases, Detecting
    <2>2. \A u \in Threads : pc'[u] \notin Purifying
      BY <2>1 DEF Base, Phases
    <2>3. \A f \in Files : Copied(f)' = Absent
      BY <2>1 DEF PurifyInv, Copied
    <2> QED BY <2>1, <2>2, <2>3 DEF PurifyInv, PurifyHeld, CopyOK, Purifying, Absent
  <1>2. ASSUME NEW t \in Threads, BeginPurify(t) PROVE PurifyInv'
    <2>1. PICK f \in todo : todo' = todo \ {f} /\ file' = [file EXCEPT ![t] = f]
      BY <1>2 DEF BeginPurify, Begin
    <2>2. /\ pc[t] = "idle" /\ pc' = [pc EXCEPT ![t] = "purify"]
          /\ file[t] = NoFile /\ f \in Files
          /\ UNCHANGED <<phase, purified, contaminated, faulted>>
      BY <1>2, <2>1 DEF BeginPurify, Begin, Base, TypeOK
    <2>3. \A g \in Files : Copied(g)' = Copied(g) /\ Copy(g)' = Copy(g)
      BY <2>2 DEF Copied, Copy, Packed, Cut
    <2>4. \A u \in Threads : PurifyHeld(u)'
      BY <2>1, <2>2, <2>3, HeldTyped
         DEF PurifyHeld, PurifyInv, Copied, Copy, Packed, Cut, Base, TypeOK
    <2>5. ASSUME NEW g \in Files PROVE CopyOK(g)'
      <3>1. (\E u \in Threads : file[u] = g) => \E u \in Threads : file'[u] = g
        BY <2>1, <2>2, NoFileAssumption DEF Base, TypeOK
      <3>2. g \in todo => g \in todo' \/ \E u \in Threads : file'[u] = g
        BY <2>1, <2>2 DEF Base, TypeOK
      <3> QED BY <2>2, <2>3, <3>1, <3>2 DEF CopyOK, PurifyInv
    <2> QED BY <2>1, <2>2, <2>3, <2>4, <2>5 DEF PurifyInv
  <1>3. ASSUME NEW t \in Threads, pc[t] \in Purifying
        PROVE  /\ pc[t] # "idle" /\ file[t] \in Files /\ PurifyHeld(t)
               /\ phase = "purify" /\ PurifiedName(file[t]) \in PurifiedNames
               /\ \A f \in Files \ {file[t]} : PurifiedName(f) # PurifiedName(file[t])
    BY <1>3, HeldTyped, HitsTyped DEF Base, PurifyInv, DistinctNames, Purifying, Phases
  <1>4. ASSUME NEW t \in Threads, OpenPurified(t) PROVE PurifyInv'
    <2>1. pc[t] = "purify" /\ pc[t] \in Purifying /\ Copied(file[t]) = Absent
      BY <1>3, <1>4 DEF OpenPurified, PurifyHeld, Purifying
    <2>2. CASE Fail(t) /\ UNCHANGED purified
      <3>1. PurifyHeld(t)'
        BY <2>2 DEF PurifyHeld, Base, TypeOK
      <3>2. ASSUME NEW f \in Files, f = file[t] PROVE CopyOK(f)'
        BY <2>1, <2>2, <3>2 DEF CopyOK, Copied, Absent
      <3> QED BY <1>3, <1>4, <2>1, <2>2, <3>1, <3>2, PurifyFrame DEF OpenPurified, Base, TypeOK
    <2>3. CASE ~(Fail(t) /\ UNCHANGED purified)
      <3>1. {Copy(file[u]) : u \in {t} \cup Writing(t, "purifying", PurifiedName)}
            = {Copy(file[t])}
        BY <1>3, <2>1, SoleWriter
      <3>2. /\ purified' = [purified EXCEPT ![PurifiedName(file[t])] =
                              [by |-> {Copy(file[t])}, whole |-> FALSE]]
            /\ Goto(t, "purifying")
            /\ UNCHANGED <<hits, todo, phase, contaminated, file, faulted>>
        BY <1>4, <2>3, <3>1 DEF OpenPurified
      <3>3. /\ purified'[PurifiedName(file[t])] = [by |-> {Copy(file[t])}, whole |-> FALSE]
            /\ \A f \in Files \ {file[t]} :
                  purified'[PurifiedName(f)] = purified[PurifiedName(f)]
        BY <1>3, <2>1, <3>2, HitsTyped DEF Base, TypeOK
      <3>4. PurifyHeld(t)'
        BY <3>2, <3>3 DEF PurifyHeld, Copied, Copy, Packed, Cut, Base, TypeOK
      <3>5. ASSUME NEW f \in Files, f = file[t] PROVE CopyOK(f)'
        BY <3>2, <3>3, <3>5 DEF CopyOK, Copied
      <3> QED BY <1>3, <2>1, <3>2, <3>3, <3>4, <3>5, PurifyFrame DEF Base, TypeOK
    <2> QED BY <2>2, <2>3
  <1>5. ASSUME NEW t \in Threads, FinishPurified(t) PROVE PurifyInv'
    <2>1. /\ pc[t] \in Purifying
          /\ Copied(file[t]) = [by |-> {Copy(file[t])}, whole |-> FALSE]
      BY <1>3, <1>5 DEF FinishPurified, PurifyHeld, Purifying
    <2>2. CASE Fail(t) /\ UNCHANGED purified
      <3>1. PurifyHeld(t)'
        BY <2>2 DEF PurifyHeld, Base, TypeOK
      <3>2. ASSUME NEW f \in Files, f = file[t] PROVE CopyOK(f)'
        BY <2>1, <2>2, <3>2 DEF CopyOK, Copied
      <3> QED BY <1>3, <1>5, <2>1, <2>2, <3>1, <3>2, PurifyFrame DEF FinishPurified, Base, TypeOK
    <2>3. CASE ~(Fail(t) /\ UNCHANGED purified)
      <3>1. /\ purified' = [purified EXCEPT ![PurifiedName(file[t])].whole = TRUE]
            /\ Idle(t)
            /\ UNCHANGED <<hits, todo, phase, contaminated, faulted>>
        BY <1>5, <2>3 DEF FinishPurified
      <3>2. purified'[PurifiedName(file[t])] = [by |-> {Copy(file[t])}, whole |-> TRUE]
        <4>1. Copied(file[t]) \in Contents
          BY <1>3, <2>1 DEF Copied, Base, TypeOK
        <4>2. purified'[PurifiedName(file[t])] = [Copied(file[t]) EXCEPT !.whole = TRUE]
          BY <1>3, <2>1, <3>1 DEF Copied, Base, TypeOK
        <4>3. Copied(file[t]).by = {Copy(file[t])}
          BY <2>1
        <4> QED BY <4>1, <4>2, <4>3, Finished
      <3>3. \A f \in Files \ {file[t]} :
               purified'[PurifiedName(f)] = purified[PurifiedName(f)]
        BY <1>3, <2>1, <3>1, HitsTyped DEF Base, TypeOK
      <3>4. PurifyHeld(t)'
        BY <3>1 DEF PurifyHeld, Base, TypeOK
      <3>5. ASSUME NEW f \in Files, f = file[t] PROVE CopyOK(f)'
        BY <3>1, <3>2, <3>5 DEF CopyOK, Copied, Copy, Packed, Cut
      <3> QED BY <1>3, <2>1, <3>1, <3>3, <3>4, <3>5, PurifyFrame DEF Base, TypeOK
    <2> QED BY <2>2, <2>3
  <1>6. CASE EndDetection
    <2>1. /\ phase = "detect" /\ AllIdle
          /\ UNCHANGED <<pc, file, purified>>
          /\ phase' = IF Purify THEN "purify" ELSE "done"
          /\ todo' = IF Purify THEN Files ELSE todo
      BY <1>6 DEF EndDetection
    <2>2. \A f \in Files : Copied(f)' = Absent
      BY <2>1 DEF PurifyInv, Copied
    <2> QED BY <2>1, <2>2 DEF PurifyInv, PurifyHeld, CopyOK, AllIdle, Absent
  <1>7. CASE EndPurify
    BY <1>7 DEF EndPurify, PurifyInv, PurifyHeld, CopyOK, Copied, Copy, Packed, Cut
  <1>8. CASE UNCHANGED vars
    BY <1>8 DEF vars, PurifyInv, PurifyHeld, CopyOK, Copied, Copy, Packed, Cut
  <1> QED BY <1>1, <1>2, <1>4, <1>5, <1>6, <1>7, <1>8 DEF Next, Thread

-----------------------------------------------------------------------------
(* Every variable keeps its type, whatever the names.                      *)
THEOREM TypeCorrect == Spec => []TypeOK
  BY BatchInit, TypesStep, PTL DEF Spec

LEMMA BatchStep == ASSUME DistinctNames, BatchInv, [Next]_vars PROVE BatchInv'
  <1>1. TypeOK' /\ Phases' /\ Alone'
    BY TypesStep, LoopsStep DEF BatchInv
  <1> QED BY <1>1, DetectStep, PurifyStep DEF BatchInv, Base

LEMMA BatchInvariant == ASSUME DistinctNames PROVE Spec => []BatchInv
  <1>1. Init => BatchInv
    BY BatchInit DEF BatchInv
  <1>2. BatchInv /\ [Next]_vars => BatchInv'
    BY BatchStep
  <1> QED BY <1>1, <1>2, PTL DEF Spec

(* Once the copies have begun, or no thread has detection left to do, the  *)
(* outcome of a file is final.                                             *)
LEMMA OutcomeAfter ==
    ASSUME BatchInv, phase # "detect", NEW f \in Files
    PROVE  Outcome(f)
  <1>1. ASSUME NEW t \in Threads, file[t] = f PROVE pc[t] \in Purifying
    <2>1. pc[t] # "idle"
      BY <1>1, NoFileAssumption DEF BatchInv, TypeOK
    <2> QED BY <2>1 DEF BatchInv, TypeOK, Phases, Places, Detecting, Purifying
  <1> QED BY <1>1 DEF BatchInv, DetectInv, Detected

(* A finished copy lacks exactly the lines that the report of its file     *)
(* lists (create_purified_files_streaming and save_contamination_results), *)
(* for any number of files and threads and wherever errors strike.         *)
THEOREM PurifiedMatchesReportHolds ==
    ASSUME Cleanable PROVE Spec => []PurifiedMatchesReport
  <1>1. BatchInv => PurifiedMatchesReport
    <2> SUFFICES ASSUME BatchInv, NEW f \in Files, Copied(f).whole
                 PROVE  Copied(f).by = {<<f, IF Reported(f) THEN LinesOf(hits[f]) ELSE {}>>}
      BY DEF PurifiedMatchesReport, Copied
    <2>1. phase # "detect"
      BY DEF BatchInv, PurifyInv, Absent
    <2>2. Copied(f).by = {Copy(f)}
      BY DEF BatchInv, PurifyInv, CopyOK
    <2>3. Copy(f) = <<f, contaminated[BaseName(f)]>>
      BY DEF Copy, Packed, Cleanable
    <2> QED BY <2>1, <2>2, <2>3, OutcomeAfter DEF Outcome
  <1>2. DistinctNames
    BY DEF Cleanable
  <1> QED BY <1>1, <1>2, BatchInvariant, PTL

(* A run leaves the same reports and copies of every file that met no      *)
(* error whatever the order of the rayon threads: the closing loops of     *)
(* detect_simple_contamination find every file settled.                    *)
THEOREM DeterministicHolds ==
    ASSUME Cleanable PROVE Spec => []Deterministic
  <1>1. BatchInv => Deterministic
    <2> SUFFICES ASSUME BatchInv, phase = "done", NEW f \in Files, f \notin faulted
                 PROVE  /\ IF hits[f] = {} THEN reports[ReportName(f)] = Absent
                                           ELSE Reported(f)
                        /\ Purify => Copied(f) = [by |-> {<<f, LinesOf(hits[f])>>},
                                                  whole |-> TRUE]
      BY Zenon DEF Deterministic, Copied
    <2>1. Outcome(f)
      BY OutcomeAfter
    <2>2. \A t \in Threads : file[t] # f
      BY NoFileAssumption DEF BatchInv, Phases, TypeOK, Places, Detecting, Purifying
    <2>3. Purify => Copied(f) = [by |-> {Copy(f)}, whole |-> TRUE]
      BY <2>2 DEF BatchInv, PurifyInv, CopyOK, Phases
    <2>4. contaminated[BaseName(f)] = LinesOf(hits[f])
      BY <2>1 DEF Outcome, Reported, Absent, LinesOf
    <2>5. Copy(f) = <<f, LinesOf(hits[f])>>
      BY <2>4 DEF Copy, Packed, Cleanable
    <2> QED BY <2>1, <2>3, <2>5 DEF Outcome
  <1>2. DistinctNames
    BY DEF Cleanable
  <1> QED BY <1>1, <1>2, BatchInvariant, PTL

-----------------------------------------------------------------------------
(* The sums.  total_contaminations counts the entries of the reported      *)
(* files that no thread has still to add.                                  *)
Counted == {f \in Files : Reported(f) /\ \A t \in Threads : file[t] = f => pc[t] # "count"}
EntriesIn(F) == {p \in F \X AllEntries : p[2] \in hits[p[1]]}

SumsInv ==
    /\ \A f \in Files : Reported(f) => hits[f] # {}
    /\ phase = "detect" =>
          IsFiniteSet(EntriesIn(Counted)) /\ total = Cardinality(EntriesIn(Counted))
    /\ SummaryMatchesReports

(* Only the atomic addition takes a file into the sum. *)
LEMMA CountedStep ==
    ASSUME Base, Base', DistinctNames, DetectInv, NEW t \in Threads, Thread(t)
    PROVE  /\ Count(t) => Counted' = Counted \cup {file[t]} /\ file[t] \notin Counted
           /\ ~Count(t) => Counted' = Counted
           /\ \A f \in Files : Reported(f)' /\ ~Reported(f) => hits[f] # {}
           /\ hits' = hits /\ phase' = phase /\ summary' = summary
           /\ total' = IF Count(t) THEN total + Cardinality(hits[file[t]]) ELSE total
           /\ phase # "detect" => \A f \in Files : Reported(f)' <=> Reported(f)
  <1> USE DEF Goto, Idle, Fail
  <1>1. /\ hits' = hits /\ phase' = phase /\ summary' = summary
        /\ total' = IF Count(t) THEN total + Cardinality(hits[file[t]]) ELSE total
        /\ \A u \in Threads \ {t} : pc'[u] = pc[u] /\ file'[u] = file[u]
    <2>1. Count(t) => pc[t] = "count"
      BY DEF Count
    <2>2. CASE Count(t)
      BY <2>2 DEF Count, Base, TypeOK
    <2>3. CASE ~Count(t)
      BY <2>1, <2>3 DEF Thread, BeginDetect, Begin, Detect, OpenReport, FinishReport, Record,
         BeginPurify, OpenPurified, FinishPurified, Base, TypeOK
    <2> QED BY <2>2, <2>3
  <1>2. pc[t] # "idle" => file[t] \in Files /\ DetectHeld(t)
    BY HeldTyped DEF Base, DetectInv
  <1>3. \A f \in Files : f # file[t] => ReportName(f) # ReportName(file[t]) \/ pc[t] = "idle"
    BY <1>2 DEF DistinctNames
  <1>4. ASSUME NEW f \in Files, f # file[t] \/ pc[t] = "idle"
        PROVE  (Reported(f)' <=> Reported(f)) /\ (f \in Counted' <=> f \in Counted)
    <2>1. reports'[ReportName(f)] = reports[ReportName(f)]
      <3>1. CASE reports' = reports
        BY <3>1
      <3>2. CASE reports' # reports
        <4>1. pc[t] # "idle" /\ ReportName(f) # ReportName(file[t])
              /\ \E r : reports' = [reports EXCEPT ![ReportName(file[t])] = r]
          BY <1>3, <1>4, <3>2 DEF Thread, BeginDetect, Begin, Detect, OpenReport, FinishReport,
             Count, Record, BeginPurify, OpenPurified, FinishPurified
        <4> QED BY <4>1, HitsTyped DEF Base, TypeOK
      <3> QED BY <3>1, <3>2
    <2>2. Reported(f)' <=> Reported(f)
      BY <1>1, <2>1 DEF Reported, Report
    <2>3. file[t] # f /\ (file'[t] = f => pc'[t] # "count")
      <3>1. file[t] # f
        BY <1>4, NoFileAssumption DEF Base, TypeOK
      <3>2. CASE pc[t] = "idle"
        <4>1. BeginDetect(t) \/ BeginPurify(t)
          BY <3>2 DEF Thread, Detect, OpenReport, FinishReport, Count, Record, OpenPurified,
             FinishPurified
        <4>2. pc'[t] \in {"detect", "purify"}
          BY <4>1 DEF BeginDetect, BeginPurify, Begin, Base, TypeOK
        <4> QED BY <3>1, <4>2
      <3>3. CASE pc[t] # "idle"
        <4>1. file'[t] \in {file[t], NoFile}
          BY <3>3 DEF Thread, BeginDetect, Begin, Detect, OpenReport, FinishReport, Count, Record,
             BeginPurify, OpenPurified, FinishPurified, Base, TypeOK
        <4> QED BY <3>1, <4>1, NoFileAssumption
      <3> QED BY <3>1, <3>2, <3>3
    <2> QED BY <1>1, <2>2, <2>3 DEF Counted
  <1>5. ASSUME NEW f \in Files, f = file[t], pc[t] # "idle"
        PROVE  /\ Count(t) => f \in Counted' /\ f \notin Counted
               /\ ~Count(t) => (f \in Counted' <=> f \in Counted)
               /\ Reported(f)' /\ ~Reported(f) => hits[f] # {}
               /\ phase # "detect" => (Reported(f)' <=> Reported(f))
    <2>1. \A u \in Threads : u # t => file[u] # f /\ file'[u] # f
      BY <1>1, <1>5, NoFileAssumption DEF Base, Alone, TypeOK
    <2>2. /\ f \in Counted <=> Reported(f) /\ pc[t] # "count"
          /\ f \in Counted' <=> Reported(f)' /\ (file'[t] = f => pc'[t] # "count")
      BY <1>5, <2>1 DEF Counted
    <2>3. reports' = reports => (Reported(f)' <=> Reported(f))
      BY <1>1 DEF Reported, Report
    <2>4. CASE Count(t)
      <3>1. Reported(f) /\ pc[t] = "count" /\ phase = "detect" /\ reports' = reports
            /\ pc'[t] = "record"
        BY <1>2, <1>5, <2>4 DEF Count, DetectHeld, Base, TypeOK, Phases, Detecting
      <3> QED BY <2>2, <2>3, <2>4, <3>1
    <2>5. CASE FinishReport(t) /\ pc'[t] = "count"
      <3>1. ~Reported(f) /\ pc[t] = "reporting" /\ hits[f] # {} /\ phase = "detect"
        BY <1>2, <1>5, <2>5 DEF FinishReport, DetectHeld, Opened, Reported, Base, Phases, Detecting
      <3>2. file'[t] = f
        BY <1>5, <2>5 DEF FinishReport, Base, TypeOK
      <3> QED BY <2>2, <2>5, <3>1, <3>2 DEF Count
    <2>6. CASE OpenReport(t) /\ pc'[t] = "reporting"
      <3>1. ~Reported(f) /\ phase = "detect" /\ pc[t] = "report"
        BY <1>2, <1>5, <2>6 DEF OpenReport, DetectHeld, Untouched, Absent, Reported, Base, Phases,
           Detecting
      <3>2. \E r : r.whole = FALSE /\ reports' = [reports EXCEPT ![ReportName(f)] = r]
        BY <1>5, <2>6 DEF OpenReport, Base, TypeOK
      <3>3. reports'[ReportName(f)].whole = FALSE
        BY <3>2, HitsTyped DEF Base, TypeOK
      <3>4. ~Reported(f)'
        BY <3>3 DEF Reported
      <3> QED BY <2>2, <3>1, <3>4 DEF Count
    <2>7. CASE /\ ~Count(t) /\ ~(FinishReport(t) /\ pc'[t] = "count")
               /\ ~(OpenReport(t) /\ pc'[t] = "reporting")
      <3>1. reports' = reports
        BY <1>5, <2>7 DEF Thread, BeginDetect, Detect, OpenReport, FinishReport,
           Record, BeginPurify, OpenPurified, FinishPurified, Base, TypeOK
      <3>2. pc[t] # "count"
        BY <1>5, <2>7 DEF Thread, BeginDetect, Begin, Detect, OpenReport, FinishReport,
           Record, BeginPurify, OpenPurified, FinishPurified
      <3>3. pc'[t] # "count"
        <4>1. FinishReport(t) => pc'[t] # "count"
          BY <2>7
        <4>2. Detect(t) \/ OpenReport(t) \/ Record(t) \/ OpenPurified(t) \/ FinishPurified(t)
                 => pc'[t] # "count"
          BY DEF Detect, OpenReport, Record, OpenPurified, FinishPurified, Base, TypeOK
        <4>3. ~BeginDetect(t) /\ ~BeginPurify(t)
          BY <1>5 DEF BeginDetect, BeginPurify, Begin
        <4> QED BY <2>7, <4>1, <4>2, <4>3 DEF Thread
      <3> QED BY <2>2, <2>3, <2>7, <3>1, <3>2, <3>3
    <2> QED BY <2>4, <2>5, <2>6, <2>7
  <1>6. Count(t) => pc[t] # "idle"
    BY DEF Count
  <1>7. \A f \in Files : f \in Counted' <=> f \in Counted \/ (Count(t) /\ f = file[t])
    BY <1>4, <1>5, <1>6
  <1>8. Count(t) => file[t] \in Files \ Counted
    BY <1>2, <1>5, <1>6
  <1>9. Counted \subseteq Files /\ Counted' \subseteq Files
    BY DEF Counted
  <1>10. /\ Count(t) => Counted' = Counted \cup {file[t]} /\ file[t] \notin Counted
         /\ ~Count(t) => Counted' = Counted
    BY <1>7, <1>8, <1>9
  <1>11. /\ \A f \in Files : Reported(f)' /\ ~Reported(f) => hits[f] # {}
         /\ phase # "detect" => \A f \in Files : Reported(f)' <=> Reported(f)
    BY <1>4, <1>5
  <1> QED BY <1>1, <1>10, <1>11

LEMMA EntriesAdd ==
    ASSUME TypeOK, NEW F \in SUBSET Files, NEW f \in Files \ F, IsFiniteSet(EntriesIn(F))
    PROVE  /\ IsFiniteSet(EntriesIn(F \cup {f}))
           /\ Cardinality(EntriesIn(F \cup {f})) = Cardinality(EntriesIn(F)) + Cardinality(hits[f])
  <1> DEFINE own == {f} \X hits[f]
  <1>1. hits[f] \in Findings /\ IsFiniteSet(hits[f]) /\ hits[f] \subseteq AllEntries
    BY FindingAssumption DEF TypeOK, AllEntries
  <1>2. IsFiniteSet({f}) /\ Cardinality({f}) = 1
    BY FS_Singleton
  <1>3. IsFiniteSet(own) /\ Cardinality(own) = 1 * Cardinality(hits[f])
    BY <1>1, <1>2, FS_Product
  <1>4. EntriesIn(F \cup {f}) = EntriesIn(F) \cup own
    BY <1>1 DEF EntriesIn
  <1>5. EntriesIn(F) \cap own = {}
    BY DEF EntriesIn
  <1> HIDE DEF own
  <1>6. /\ IsFiniteSet(EntriesIn(F) \cup own)
        /\ Cardinality(EntriesIn(F) \cup own)
             = Cardinality(EntriesIn(F)) + Cardinality(own) - Cardinality(EntriesIn(F) \cap own)
    BY <1>3, FS_Union
  <1>7. Cardinality(EntriesIn(F) \cap own) = 0
    BY <1>5, FS_EmptySet
  <1>8. Cardinality(EntriesIn(F)) \in Nat /\ Cardinality(hits[f]) \in Nat
    BY <1>1, FS_CardinalityType
  <1>9. Cardinality(EntriesIn(F) \cup own) = Cardinality(EntriesIn(F)) + Cardinality(hits[f])
    BY <1>3, <1>6, <1>7, <1>8
  <1> QED BY <1>4, <1>6, <1>9

(* What is displayed is read when all threads are idle: every entry        *)
(* recorded is that of a report, and every report's lines are recorded.    *)
LEMMA SumsRead ==
    ASSUME BatchInv, SumsInv, DistinctNames, EndDetection
    PROVE  SummaryMatchesReports'
  <1> DEFINE files == {f \in Files : Reported(f)}
             lines == {p \in files \X AllLines : p[2] \in LinesOf(hits[p[1]])}
             E == EntriesIn(files)
  <1>1. /\ phase = "detect" /\ todo = {} /\ AllIdle /\ UNCHANGED <<hits, reports>>
        /\ summary' = [contaminations |-> total, documents |-> Cardinality(Recorded),
                       lines |-> Cardinality(RecordedLines)]
    BY DEF EndDetection
  <1>2. \A t \in Threads : file[t] = NoFile /\ pc[t] = "idle"
    BY <1>1 DEF BatchInv, TypeOK, AllIdle
  <1>3. Counted = files
    BY <1>2 DEF Counted
  <1>4. IsFiniteSet(E) /\ total = Cardinality(E)
    BY <1>1, <1>3 DEF SumsInv
  <1>5. \A f \in Files : contaminated[BaseName(f)] = IF Reported(f) THEN LinesOf(hits[f]) ELSE {}
    BY <1>1, <1>2, NoFileAssumption DEF BatchInv, DetectInv, Detected, Outcome
  <1>6. \A f \in Files : Reported(f) => hits[f] # {} /\ hits[f] \subseteq AllEntries
                                        /\ LinesOf(hits[f]) # {}
    BY DEF SumsInv, BatchInv, TypeOK, AllEntries, LinesOf
  <1>7. \A f, g \in Files : BaseName(f) = BaseName(g) => f = g
    BY DEF DistinctNames
  <1>8. Cardinality(Recorded) = Cardinality(files)
    <2> DEFINE first == [p \in E |-> p[1]]
               name == [f \in files |-> BaseName(f)]
    <2>1. first \in Surjection(E, files)
      <3>1. first \in [E -> files]
        BY DEF EntriesIn
      <3>2. ASSUME NEW f \in files PROVE \E p \in E : first[p] = f
        <4>1. PICK e \in hits[f] : e \in AllEntries
          BY <1>6
        <4>2. <<f, e>> \in E
          BY <4>1 DEF EntriesIn
        <4> QED BY <4>2
      <3> QED BY <3>1, <3>2 DEF Surjection
    <2>2. name \in Bijection(files, Recorded)
      <3>1. name \in [files -> Recorded]
        BY <1>5, <1>6 DEF Recorded, BaseNames
      <3>2. \A f, g \in files : name[f] = name[g] => f = g
        BY <1>7
      <3>3. \A n \in Recorded : \E f \in files : name[f] = n
        BY <1>5 DEF Recorded, BaseNames
      <3> HIDE DEF name, files
      <3> QED BY <3>1, <3>2, <3>3 DEF Bijection, Injection, IsInjective, Surjection
    <2> HIDE DEF first, name, files, E
    <2>3. IsFiniteSet(files)
      BY <1>4, <2>1, FS_Surjection
    <2> QED BY <2>2, <2>3, FS_Bijection DEF ExistsBijection
  <1>9. Cardinality(RecordedLines) = Cardinality(lines)
    <2> DEFINE line == [p \in E |-> <<p[1], p[2][1]>>]
               name == [p \in lines |-> <<BaseName(p[1]), p[2]>>]
    <2>1. line \in Surjection(E, lines)
      <3>1. line \in [E -> lines]
        BY DEF EntriesIn, LinesOf, AllLines, AllEntries
      <3>2. ASSUME NEW q \in lines PROVE \E p \in E : line[p] = q
        <4>1. q = <<q[1], q[2]>> /\ q[1] \in files /\ q[2] \in LinesOf(hits[q[1]])
          OBVIOUS
        <4>2. PICK e \in hits[q[1]] : q[2] = e[1]
          BY <4>1 DEF LinesOf
        <4>3. <<q[1], e>> \in E
          BY <1>6, <4>1, <4>2 DEF EntriesIn
        <4> QED BY <4>1, <4>2, <4>3
      <3> QED BY <3>1, <3>2 DEF Surjection
    <2>2. name \in Bijection(lines, RecordedLines)
      <3>1. name \in [lines -> RecordedLines]
        BY <1>5 DEF RecordedLines, BaseNames
      <3>2. \A p, q \in lines : name[p] = name[q] => p = q
        BY <1>7
      <3>3. ASSUME NEW q \in RecordedLines PROVE \E p \in lines : name[p] = q
        <4>1. q = <<q[1], q[2]>> /\ q[1] \in BaseNames /\ q[2] \in AllLines
              /\ q[2] \in contaminated[q[1]]
          BY DEF RecordedLines
        <4>2. PICK f \in Files : q[1] = BaseName(f)
          BY <4>1 DEF BaseNames
        <4>3. <<f, q[2]>> \in lines
          BY <1>5, <4>1, <4>2
        <4> QED BY <4>1, <4>2, <4>3
      <3> HIDE DEF name, lines
      <3> QED BY <3>1, <3>2, <3>3 DEF Bijection, Injection, IsInjective, Surjection
    <2> HIDE DEF line, name, lines, E
    <2>3. IsFiniteSet(lines)
      BY <1>4, <2>1, FS_Surjection
    <2> QED BY <2>2, <2>3, FS_Bijection DEF ExistsBijection
  <1>10. \A f \in Files : Reported(f)' <=> Reported(f)
    BY <1>1 DEF Reported, Report
  <1>11. {f \in Files : Reported(f)'} = files
    BY <1>10
  <1> HIDE DEF files
  <1> QED BY <1>1, <1>4, <1>8, <1>9, <1>11 DEF SummaryMatchesReports, EntriesIn

LEMMA SumsInit == Init => SumsInv
  <1> SUFFICES ASSUME Init PROVE SumsInv
    OBVIOUS
  <1>1. \A f \in Files : ~Reported(f)
    BY HitsTyped, BatchInit DEF Init, Reported, Absent
  <1>2. EntriesIn(Counted) = {}
    BY <1>1 DEF Counted, EntriesIn
  <1> QED BY <1>1, <1>2, FS_EmptySet DEF Init, SumsInv, SummaryMatchesReports

LEMMA SumsStep ==
    ASSUME BatchInv, BatchInv', DistinctNames, SumsInv, [Next]_vars
    PROVE  SumsInv'
  <1>1. Base /\ Base' /\ DetectInv /\ TypeOK
    BY DEF BatchInv, Base
  <1>2. ASSUME NEW t \in Threads, Thread(t) PROVE SumsInv'
    <2>1. /\ Count(t) => Counted' = Counted \cup {file[t]} /\ file[t] \notin Counted
          /\ ~Count(t) => Counted' = Counted
          /\ \A f \in Files : Reported(f)' /\ ~Reported(f) => hits[f] # {}
          /\ hits' = hits /\ phase' = phase /\ summary' = summary
          /\ total' = IF Count(t) THEN total + Cardinality(hits[file[t]]) ELSE total
          /\ phase # "detect" => \A f \in Files : Reported(f)' <=> Reported(f)
      BY <1>1, <1>2, CountedStep
    <2>2. phase = "detect" =>
             IsFiniteSet(EntriesIn(Counted)') /\ total' = Cardinality(EntriesIn(Counted)')
      <3>1. EntriesIn(Counted)' = EntriesIn(IF Count(t) THEN Counted \cup {file[t]} ELSE Counted)
        BY <2>1 DEF EntriesIn
      <3>2. CASE Count(t)
        <4>1. file[t] \in Files \ Counted /\ Counted \in SUBSET Files
          BY <1>1, <2>1, <3>2, HeldTyped DEF Count, Counted
        <4> QED BY <1>1, <2>1, <3>1, <3>2, <4>1, EntriesAdd DEF SumsInv
      <3>3. CASE ~Count(t)
        BY <2>1, <3>1, <3>3 DEF SumsInv
      <3> QED BY <3>2, <3>3
    <2>3. SummaryMatchesReports'
      <3>1. phase # "detect" => {f \in Files : Reported(f)'} = {f \in Files : Reported(f)}
        BY <2>1
      <3> QED BY <2>1, <3>1 DEF SumsInv, SummaryMatchesReports
    <2> QED BY <2>1, <2>2, <2>3 DEF SumsInv
  <1>3. CASE EndDetection \/ EndPurify \/ UNCHANGED vars
    <2>1. UNCHANGED <<hits, reports, file, pc, total>>
      BY <1>3 DEF EndDetection, EndPurify, vars
    <2>2. \A f \in Files : Reported(f)' <=> Reported(f)
      BY <2>1 DEF Reported, Report
    <2>3. CASE EndDetection
      <3>1. phase' # "detect"
        BY <2>3 DEF EndDetection
      <3> QED BY <2>1, <2>2, <2>3, <3>1, SumsRead DEF SumsInv
    <2>4. CASE EndPurify \/ UNCHANGED vars
      <3>1. summary' = summary /\ (phase' = phase \/ (phase = "purify" /\ phase' = "done"))
        BY <2>4 DEF EndPurify, vars
      <3>2. {f \in Files : Reported(f)'} = {f \in Files : Reported(f)}
        BY <2>2
      <3>3. SummaryMatchesReports'
        BY <2>1, <3>1, <3>2 DEF SumsInv, SummaryMatchesReports
      <3>4. Counted' = Counted
        BY <2>1, <2>2 DEF Counted
      <3>5. EntriesIn(Counted)' = EntriesIn(Counted)
        BY <2>1, <3>4 DEF EntriesIn
      <3> QED BY <2>1, <2>2, <3>1, <3>3, <3>5 DEF SumsInv
    <2> QED BY <1>3, <2>3, <2>4
  <1> QED BY <1>2, <1>3 DEF Next

(* The sums that contamination_detect displays are those of the reports,   *)
(* of all of them and of nothing else, for any number of files and threads *)
(* and wherever an error strikes: the parallel additions of                *)
(* update_contamination_count and the insertions into contaminated_files   *)
(* are complete when they are read.                                        *)
THEOREM SummaryMatchesReportsHolds ==
    ASSUME DistinctNames PROVE Spec => []SummaryMatchesReports
  <1>1. Init => BatchInv /\ SumsInv
    BY BatchInit, SumsInit DEF BatchInv
  <1>2. BatchInv /\ SumsInv /\ [Next]_vars => (BatchInv /\ SumsInv)'
    BY BatchStep, SumsStep
  <1>3. BatchInv /\ SumsInv => SummaryMatchesReports
    BY DEF SumsInv
  <1> QED BY <1>1, <1>2, <1>3, PTL DEF Spec

-----------------------------------------------------------------------------
(* What the readers' sums and lists need: induction over sets, written     *)
(* without operators as parameters, and what folds and FlattenSeq give.    *)

(* A set with 0 that has the successor of each of its numbers has all.     *)
LEMMA Counting ==
    ASSUME NEW S, 0 \in S, \A n \in S \cap Nat : n + 1 \in S
    PROVE  Nat \subseteq S
  <1> DEFINE T == Nat \ S
  <1> SUFFICES ASSUME T # {} PROVE FALSE
    OBVIOUS
  <1>1. PICK x \in T : \A y \in T : <<y, x>> \notin OpToRel(<, Nat)
    <2>1. T \subseteq Nat /\ T # {}
      OBVIOUS
    <2> HIDE DEF T
    <2> QED BY <2>1, NatLessThanWellFounded, WFMin
  <1>2. \A y \in T : ~(y < x)
    BY <1>1 DEF OpToRel
  <1>3. x # 0 /\ x - 1 \in Nat
    OBVIOUS
  <1>4. x - 1 \in S /\ (x - 1) + 1 = x
    BY <1>2, <1>3
  <1> QED BY <1>3, <1>4

(* A property of subsets that is inherited from those with one element     *)
(* less is one of the whole set.                                           *)
LEMMA OneByOne ==
    ASSUME NEW A, IsFiniteSet(A), NEW P,
           \A s \in SUBSET A : (\A x \in s : s \ {x} \in P) => s \in P
    PROVE  A \in P
  <1> DEFINE S == {n \in Nat : \A s \in SUBSET A : Cardinality(s) = n => s \in P}
  <1>1. \A s \in SUBSET A : IsFiniteSet(s) /\ Cardinality(s) \in Nat
    BY FS_Subset, FS_CardinalityType
  <1>2. 0 \in S
    BY <1>1, FS_EmptySet
  <1>3. ASSUME NEW n \in S \cap Nat PROVE n + 1 \in S
    <2>1. ASSUME NEW s \in SUBSET A, Cardinality(s) = n + 1 PROVE s \in P
      <3>1. \A x \in s : Cardinality(s \ {x}) = n
        BY <1>1, <2>1, FS_RemoveElement
      <3> QED BY <1>3, <3>1
    <2> QED BY <2>1
  <1>4. Nat \subseteq S
    <2> HIDE DEF S
    <2> QED BY <1>2, <1>3, Counting
  <1> QED BY <1>1, <1>4

(* f maps S one to one to T.                                               *)
OneToOne(f, S, T) ==
    /\ \A x \in S : f[x] \in T
    /\ \A x, y \in S : f[x] = f[y] => x = y
    /\ \A z \in T : \E x \in S : f[x] = z

LEMMA SameNumber ==
    ASSUME NEW S, IsFiniteSet(S), NEW T, NEW f, OneToOne(f, S, T)
    PROVE  IsFiniteSet(T) /\ Cardinality(T) = Cardinality(S)
  <1>1. [x \in S |-> f[x]] \in Bijection(S, T)
    BY DEF Bijection, Injection, Surjection, IsInjective, OneToOne
  <1>2. ExistsBijection(S, T)
    BY <1>1 DEF ExistsBijection
  <1> QED BY <1>2, FS_Bijection

LEMMA Interval ==
    ASSUME NEW n \in Nat
    PROVE  IsFiniteSet(1 .. n) /\ Cardinality(1 .. n) = n
  BY FS_Interval

(* An image is no larger.                                                  *)
LEMMA ImageNumber ==
    ASSUME NEW S, IsFiniteSet(S), NEW f
    PROVE  /\ IsFiniteSet({f[x] : x \in S})
           /\ Cardinality({f[x] : x \in S}) <= Cardinality(S)
  <1>1. [x \in S |-> f[x]] \in Surjection(S, {f[x] : x \in S})
    BY DEF Surjection
  <1> QED BY <1>1, FS_Surjection

(* Numbers up to n have a greatest.                                        *)
LEMMA Greatest ==
    ASSUME NEW n \in Nat, NEW S, S \subseteq 1 .. n, S # {}
    PROVE  Max(S) \in S
  <1> DEFINE T == {k \in Nat : n - k \in S}
  <1>1. T # {}
    <2>1. PICK x \in S : TRUE
      OBVIOUS
    <2>2. n - x \in Nat /\ n - (n - x) = x
      OBVIOUS
    <2> QED BY <2>1, <2>2
  <1>2. PICK k \in T : \A y \in T : ~(y < k)
    <2>1. T \subseteq Nat
      OBVIOUS
    <2> HIDE DEF T
    <2>2. PICK k \in T : \A y \in T : <<y, k>> \notin OpToRel(<, Nat)
      BY <1>1, <2>1, NatLessThanWellFounded, WFMin
    <2> QED BY <2>1, <2>2 DEF OpToRel
  <1>3. ASSUME NEW y \in S PROVE n - k >= y
    <2>1. n - y \in T
      <3>1. n - y \in Nat /\ n - (n - y) = y
        OBVIOUS
      <3> QED BY <3>1
    <2>2. ~(n - y < k) /\ k \in Nat /\ y \in Nat
      BY <1>2, <2>1
    <2> QED BY <2>2
  <1>4. n - k \in S
    BY <1>2
  <1>5. \E x \in S : \A y \in S : x >= y
    BY <1>3, <1>4
  <1> QED BY <1>5 DEF Max

-----------------------------------------------------------------------------
(* Rows that tell the members of E by class add up to E.                   *)
IsRows(rows, S, E, class) ==
    /\ IsFiniteSet(S) /\ IsFiniteSet(E)
    /\ \A e \in E : class[e] \in S
    /\ DOMAIN rows = S
    /\ \A s \in S : rows[s] = Cardinality({e \in E : class[e] = s})

LEMMA RowsAddUp ==
    ASSUME NEW rows, NEW S, NEW E, NEW class, IsRows(rows, S, E, class)
    PROVE  SumOfRows(rows) = Cardinality(E)
  <1> DEFINE Turn(g) == [s \in SUBSET S |->
                           IF s = {} THEN 0
                           ELSE rows[CHOOSE x \in s : TRUE] + g[s \ {CHOOSE x \in s : TRUE}]]
             In(s) == {e \in E : class[e] \in s}
             h == [s \in SUBSET S |-> Cardinality(In(s))]
             it == CHOOSE g : g = Turn(g)
  <1>1. SumOfRows(rows) = it[S]
    BY DEF SumOfRows, MapThenSumSet, MapThenFoldSet, IsRows
  <1>2. \A s \in SUBSET S : IsFiniteSet(In(s)) /\ Cardinality(In(s)) \in Nat
    <2>1. \A s \in SUBSET S : In(s) \in SUBSET E
      OBVIOUS
    <2> HIDE DEF In
    <2> QED BY <2>1, FS_Subset, FS_CardinalityType DEF IsRows
  <1>3. ASSUME NEW s \in SUBSET S, NEW x \in s
        PROVE  h[s] = rows[x] + h[s \ {x}]
    <2> DEFINE one == {e \in E : class[e] = x}
    <2>1. In(s) = one \cup In(s \ {x}) /\ one \cap In(s \ {x}) = {}
      OBVIOUS
    <2>2. IsFiniteSet(one) /\ rows[x] = Cardinality(one) /\ Cardinality(one) \in Nat
      <3>1. one \in SUBSET E
        OBVIOUS
      <3>2. x \in S
        OBVIOUS
      <3>3. rows[x] = Cardinality(one)
        BY <3>2 DEF IsRows
      <3> HIDE DEF one
      <3> QED BY <3>1, <3>3, FS_Subset, FS_CardinalityType DEF IsRows
    <2>3. IsFiniteSet(In(s \ {x})) /\ Cardinality(In(s \ {x})) \in Nat /\ s \ {x} \in SUBSET S
      BY <1>2
    <2> HIDE DEF In, one
    <2>4. Cardinality(In(s)) = Cardinality(one) + Cardinality(In(s \ {x}))
      <3>1. Cardinality(one \cap In(s \ {x})) = 0
        BY <2>1, FS_EmptySet
      <3>2. Cardinality(one \cup In(s \ {x})) =
               Cardinality(one) + Cardinality(In(s \ {x})) - Cardinality(one \cap In(s \ {x}))
        BY <2>2, <2>3, FS_Union
      <3> QED BY <2>1, <2>2, <2>3, <3>1, <3>2
    <2> QED BY <2>2, <2>3, <2>4
  <1>4. h = Turn(h)
    <2>1. h[{}] = 0
      <3>1. In({}) = {}
        OBVIOUS
      <3> QED BY <3>1, FS_EmptySet
    <2>2. \A s \in SUBSET S : s # {} => (CHOOSE x \in s : TRUE) \in s
      OBVIOUS
    <2>3. \A s \in SUBSET S :
             h[s] = IF s = {} THEN 0
                    ELSE rows[CHOOSE x \in s : TRUE] + h[s \ {CHOOSE x \in s : TRUE}]
      <3> HIDE DEF h
      <3> QED BY <1>3, <2>1, <2>2
    <2>4. h = [s \in SUBSET S |-> h[s]]
      OBVIOUS
    <2> HIDE DEF h
    <2> QED BY <2>3, <2>4
  <1>5. it = Turn(it)
    <2> HIDE DEF h, Turn
    <2> QED BY <1>4
  <1> HIDE DEF it
  <1> DEFINE P == {s \in SUBSET S : it[s] = h[s]}
  <1>6. ASSUME NEW s \in SUBSET S, \A x \in s : s \ {x} \in P PROVE s \in P
    <2>1. it[s] = Turn(it)[s] /\ h[s] = Turn(h)[s]
      BY <1>4, <1>5
    <2>2. CASE s = {}
      BY <2>1, <2>2
    <2>3. CASE s # {}
      <3> DEFINE x == CHOOSE x \in s : TRUE
      <3>1. x \in s
        BY <2>3
      <3>2. it[s \ {x}] = h[s \ {x}]
        BY <1>6, <3>1
      <3> HIDE DEF h
      <3>3. it[s] = rows[x] + it[s \ {x}] /\ h[s] = rows[x] + h[s \ {x}]
        BY <2>1, <2>3
      <3> QED BY <3>2, <3>3
    <2> QED BY <2>2, <2>3
  <1>7. S \in P
    <2>1. IsFiniteSet(S)
      BY DEF IsRows
    <2> HIDE DEF P
    <2> QED BY <1>6, <2>1, OneByOne
  <1>8. In(S) = E
    BY DEF IsRows
  <1> QED BY <1>1, <1>7, <1>8
-----------------------------------------------------------------------------
(* Lists. *)

IsSeq(s) == s \in Seq(ToSet(s))

LEMMA SeqFacts ==
    ASSUME NEW s, IsSeq(s)
    PROVE  /\ Len(s) \in Nat /\ DOMAIN s = 1 .. Len(s)
           /\ \A k \in DOMAIN s : s[k] \in ToSet(s)
  BY DEF IsSeq, ToSet

LEMMA SeqOfAny ==
    ASSUME NEW S, NEW s \in Seq(S)
    PROVE  IsSeq(s)
  BY DEF IsSeq, ToSet

LEMMA ConcatSeq ==
    ASSUME NEW s, NEW t, IsSeq(s), IsSeq(t)
    PROVE  /\ IsSeq(s \o t) /\ Len(s \o t) = Len(s) + Len(t)
           /\ \A i \in 1 .. Len(s) + Len(t) :
                (s \o t)[i] = IF i <= Len(s) THEN s[i] ELSE t[i - Len(s)]
  <1> DEFINE S == ToSet(s) \cup ToSet(t)
  <1>1. s \in Seq(S) /\ t \in Seq(S)
    BY SeqMonotonic DEF IsSeq
  <1> HIDE DEF S
  <1>2. s \o t \in Seq(S)
    BY <1>1, ConcatProperties
  <1> QED BY <1>1, <1>2, ConcatProperties, SeqOfAny

LEMMA NoneIsSeq == IsSeq(<<>>) /\ Len(<<>>) = 0 /\ DOMAIN <<>> = {} /\ ToSet(<<>>) = {}
  <1>1. DOMAIN <<>> = {} /\ Len(<<>>) = 0
    OBVIOUS
  <1>2. ToSet(<<>>) = {}
    BY <1>1 DEF ToSet
  <1>3. <<>> \in Seq({})
    OBVIOUS
  <1> QED BY <1>1, <1>2, <1>3 DEF IsSeq

LEMMA OneIsSeq ==
    ASSUME NEW x
    PROVE  IsSeq(<<x>>) /\ Len(<<x>>) = 1 /\ <<x>>[1] = x /\ ToSet(<<x>>) = {x}
  <1>1. <<x>> \in Seq({x}) /\ Len(<<x>>) = 1 /\ <<x>>[1] = x /\ DOMAIN <<x>> = {1}
    OBVIOUS
  <1>2. ToSet(<<x>>) = {x}
    BY <1>1 DEF ToSet
  <1> QED BY <1>1, <1>2 DEF IsSeq

LEMMA FunctionIsSeq ==
    ASSUME NEW n \in Nat, NEW f, DOMAIN f = 1 .. n, f = [k \in 1 .. n |-> f[k]]
    PROVE  IsSeq(f) /\ Len(f) = n
  <1>1. ToSet(f) = {f[k] : k \in 1 .. n}
    BY DEF ToSet
  <1>2. f \in [1 .. n -> ToSet(f)]
    BY <1>1
  <1>3. f \in Seq(ToSet(f))
    BY <1>2, IsASeq
  <1> QED BY <1>3, LenProperties DEF IsSeq

-----------------------------------------------------------------------------
(* FlattenSeq, of which g has the value after each list.                   *)
IsFlat(ss, g) ==
    \A i \in 1 .. Len(ss) : g[i] = IF i = 1 THEN ss[i] ELSE g[i - 1] \o ss[i]

LEMMA FlatExists ==
    ASSUME NEW ss, IsSeq(ss)
    PROVE  \E g : g = [i \in 1 .. Len(ss) |-> IF i = 1 THEN ss[i] ELSE g[i - 1] \o ss[i]]
  <1> DEFINE Turn(m, g) == [i \in 1 .. m |-> IF i = 1 THEN ss[i] ELSE g[i - 1] \o ss[i]]
             S == {m \in Nat : \E g : g = Turn(m, g)}
  <1>1. 0 \in S
    <2> DEFINE g == [i \in 1 .. 0 |-> 0]
    <2>1. g = Turn(0, g)
      OBVIOUS
    <2> QED BY <2>1
  <1>2. ASSUME NEW m \in S \cap Nat PROVE m + 1 \in S
    <2>1. PICK g : g = Turn(m, g)
      BY <1>2
    <2> DEFINE v == IF m + 1 = 1 THEN ss[m + 1] ELSE g[m] \o ss[m + 1]
               h == [i \in 1 .. m + 1 |-> IF i = m + 1 THEN v ELSE g[i]]
    <2>2. \A i \in 1 .. m : h[i] = g[i]
      OBVIOUS
    <2>3. h[m + 1] = v
      OBVIOUS
    <2>4. DOMAIN h = 1 .. m + 1 /\ h = [i \in 1 .. m + 1 |-> h[i]]
      OBVIOUS
    <2>5. ASSUME NEW i \in 1 .. m + 1
          PROVE  h[i] = IF i = 1 THEN ss[i] ELSE h[i - 1] \o ss[i]
      <3>1. CASE i = m + 1
        <4>1. i # 1 => i - 1 \in 1 .. m /\ i - 1 = m
          BY <3>1
        <4> HIDE DEF h
        <4> QED BY <2>2, <2>3, <3>1, <4>1
      <3>2. CASE i # m + 1
        <4>1. i \in 1 .. m /\ (i # 1 => i - 1 \in 1 .. m)
          BY <3>2
        <4>2. g[i] = IF i = 1 THEN ss[i] ELSE g[i - 1] \o ss[i]
          BY <2>1, <4>1
        <4> HIDE DEF h
        <4> QED BY <2>2, <4>1, <4>2
      <3> QED BY <3>1, <3>2
    <2>6. h = Turn(m + 1, h)
      <3> HIDE DEF h
      <3> QED BY <2>4, <2>5
    <2>7. m + 1 \in Nat
      OBVIOUS
    <2> HIDE DEF h, Turn
    <2> QED BY <2>6, <2>7
  <1>3. Nat \subseteq S
    <2> HIDE DEF S
    <2> QED BY <1>1, <1>2, Counting
  <1>4. Len(ss) \in Nat
    BY SeqFacts
  <1> QED BY <1>3, <1>4

LEMMA FlatIs ==
    ASSUME NEW ss, IsSeq(ss), NEW g, IsFlat(ss, g), Len(ss) # 0
    PROVE  FlattenSeq(ss) = g[Len(ss)]
  <1> DEFINE Turn(h) == [i \in 1 .. Len(ss) |-> IF i = 1 THEN ss[i] ELSE h[i - 1] \o ss[i]]
             f == CHOOSE h : h = Turn(h)
  <1>1. FlattenSeq(ss) = f[Len(ss)]
    BY DEF FlattenSeq
  <1>2. f = Turn(f)
    BY FlatExists
  <1> HIDE DEF f
  <1> DEFINE S == {i \in Nat : i \in 1 .. Len(ss) => f[i] = g[i]}
  <1>3. Len(ss) \in Nat
    BY SeqFacts
  <1>4. 0 \in S
    OBVIOUS
  <1>5. ASSUME NEW i \in S \cap Nat PROVE i + 1 \in S
    <2>1. ASSUME i + 1 \in 1 .. Len(ss) PROVE f[i + 1] = g[i + 1]
      <3>1. f[i + 1] = IF i + 1 = 1 THEN ss[i + 1] ELSE f[(i + 1) - 1] \o ss[i + 1]
        BY <1>2, <2>1
      <3>2. g[i + 1] = IF i + 1 = 1 THEN ss[i + 1] ELSE g[(i + 1) - 1] \o ss[i + 1]
        BY <2>1 DEF IsFlat
      <3>3. (i + 1) - 1 = i /\ (i + 1 # 1 => i \in 1 .. Len(ss))
        BY <1>3, <2>1
      <3>4. i + 1 # 1 => f[i] = g[i]
        BY <1>5, <3>3
      <3> QED BY <3>1, <3>2, <3>3, <3>4
    <2>2. i + 1 \in Nat
      OBVIOUS
    <2> QED BY <2>1, <2>2
  <1>6. Nat \subseteq S
    <2> HIDE DEF S
    <2> QED BY <1>4, <1>5, Counting
  <1>7. Len(ss) \in 1 .. Len(ss)
    BY <1>3
  <1> QED BY <1>1, <1>3, <1>6, <1>7

AllSeqs(ss) == IsSeq(ss) /\ \A k \in 1 .. Len(ss) : IsSeq(ss[k])

(* The elements of the first m lists, by list and position; at tells which *)
(* of them each element of s is.                                           *)
Slots(ss, m) == {p \in (1 .. m) \X Nat : p[2] \in 1 .. Len(ss[p[1]])}
IsLayout(ss, m, s, at) ==
    /\ IsSeq(s)
    /\ \A i \in 1 .. Len(s) : at[i] \in Slots(ss, m) /\ s[i] = ss[at[i][1]][at[i][2]]
    /\ \A i, j \in 1 .. Len(s) : at[i] = at[j] => i = j
    /\ \A p \in Slots(ss, m) : \E i \in 1 .. Len(s) : at[i] = p

LEMMA LayoutOne ==
    ASSUME NEW ss, AllSeqs(ss), Len(ss) >= 1
    PROVE  \E at : IsLayout(ss, 1, ss[1], at)
  <1> DEFINE s == ss[1]
             at == [i \in 1 .. Len(s) |-> <<1, i>>]
  <1>1. Len(ss) \in Nat /\ IsSeq(s) /\ Len(s) \in Nat
    BY SeqFacts DEF AllSeqs
  <1> HIDE DEF s
  <1>2. \A p \in Slots(ss, 1) : p[2] \in 1 .. Len(s) /\ p = <<1, p[2]>>
    BY DEF Slots, s
  <1>3. \A i \in 1 .. Len(s) : <<1, i>> \in Slots(ss, 1)
    BY <1>1 DEF Slots, s
  <1>4. \A i \in 1 .. Len(s) : at[i] = <<1, i>> /\ at[i][1] = 1 /\ at[i][2] = i
    OBVIOUS
  <1> HIDE DEF at
  <1>5. IsLayout(ss, 1, s, at)
    <2>1. \A i \in 1 .. Len(s) : at[i] \in Slots(ss, 1) /\ s[i] = ss[at[i][1]][at[i][2]]
      BY <1>3, <1>4 DEF s
    <2>2. \A i, j \in 1 .. Len(s) : at[i] = at[j] => i = j
      BY <1>4
    <2>3. \A p \in Slots(ss, 1) : \E i \in 1 .. Len(s) : at[i] = p
      BY <1>2, <1>4
    <2> QED BY <1>1, <2>1, <2>2, <2>3 DEF IsLayout
  <1> QED BY <1>5 DEF s

LEMMA LayoutMore ==
    ASSUME NEW ss, AllSeqs(ss), NEW m \in Nat, m + 1 <= Len(ss), m >= 1,
           NEW s, NEW at, IsLayout(ss, m, s, at)
    PROVE  \E more : IsLayout(ss, m + 1, s \o ss[m + 1], more)
  <1> DEFINE t == ss[m + 1]
             n == Len(s)
             l == Len(t)
             r == s \o t
             more == [i \in 1 .. n + l |-> IF i <= n THEN at[i] ELSE <<m + 1, i - n>>]
  <1>1. /\ IsSeq(s) /\ IsSeq(t) /\ n \in Nat /\ l \in Nat
        /\ IsSeq(r) /\ Len(r) = n + l
        /\ \A i \in 1 .. n + l : r[i] = IF i <= n THEN s[i] ELSE t[i - n]
    <2>1. IsSeq(s)
      BY DEF IsLayout
    <2>2. IsSeq(t)
      <3>1. Len(ss) \in Nat
        BY SeqFacts DEF AllSeqs
      <3>2. m + 1 \in 1 .. Len(ss)
        BY <3>1
      <3> QED BY <3>2 DEF AllSeqs
    <2> HIDE DEF t
    <2> QED BY <2>1, <2>2, ConcatSeq, SeqFacts
  <1>2. \A p \in Slots(ss, m + 1) : p \in Slots(ss, m)
                                    \/ (p[1] = m + 1 /\ p[2] \in 1 .. l /\ p = <<m + 1, p[2]>>)
    BY DEF Slots
  <1>3. \A p \in Slots(ss, m) : p \in Slots(ss, m + 1) /\ p[1] # m + 1
    BY DEF Slots
  <1>4. \A k \in 1 .. l : <<m + 1, k>> \in Slots(ss, m + 1)
    BY <1>1 DEF Slots
  <1>5. \A i \in 1 .. n : i \in 1 .. n + l /\ more[i] = at[i]
    BY <1>1
  <1>6. \A k \in 1 .. l : n + k \in 1 .. n + l /\ ~(n + k <= n) /\ more[n + k] = <<m + 1, k>>
    BY <1>1
  <1>7. \A i \in 1 .. n + l : i \in 1 .. n \/ \E k \in 1 .. l : i = n + k
    <2>1. ASSUME NEW i \in 1 .. n + l, i \notin 1 .. n PROVE \E k \in 1 .. l : i = n + k
      <3>1. i - n \in 1 .. l /\ i = n + (i - n)
        BY <1>1, <2>1
      <3> QED BY <3>1
    <2> QED BY <2>1
  <1>8. /\ \A i \in 1 .. n : r[i] = s[i]
        /\ \A k \in 1 .. l : r[n + k] = t[k]
    <2>1. \A k \in 1 .. l : n + k \in 1 .. n + l /\ ~(n + k <= n) /\ (n + k) - n = k
      BY <1>1
    <2>2. \A i \in 1 .. n : i \in 1 .. n + l /\ i <= n
      BY <1>1
    <2> HIDE DEF r, n, l, t
    <2> QED BY <1>1, <2>1, <2>2
  <1>9. /\ \A i \in 1 .. n : at[i] \in Slots(ss, m) /\ s[i] = ss[at[i][1]][at[i][2]]
        /\ \A i, j \in 1 .. n : at[i] = at[j] => i = j
        /\ \A p \in Slots(ss, m) : \E i \in 1 .. n : at[i] = p
    BY DEF IsLayout
  <1> HIDE DEF r, n, l, more
  <1>10. \A i \in 1 .. n + l : more[i] \in Slots(ss, m + 1) /\ r[i] = ss[more[i][1]][more[i][2]]
    <2>1. ASSUME NEW i \in 1 .. n
          PROVE  more[i] \in Slots(ss, m + 1) /\ r[i] = ss[more[i][1]][more[i][2]]
      BY <1>3, <1>5, <1>8, <1>9
    <2>2. ASSUME NEW k \in 1 .. l
          PROVE  more[n + k] \in Slots(ss, m + 1) /\ r[n + k] = ss[more[n + k][1]][more[n + k][2]]
      <3>1. more[n + k][1] = m + 1 /\ more[n + k][2] = k
        BY <1>6
      <3> QED BY <1>4, <1>6, <1>8, <3>1
    <2> QED BY <1>7, <2>1, <2>2
  <1>11. \A i, j \in 1 .. n + l : more[i] = more[j] => i = j
    <2>1. \A i \in 1 .. n : more[i] = at[i] /\ more[i][1] # m + 1
      BY <1>3, <1>5, <1>9
    <2>2. \A k \in 1 .. l : more[n + k] = <<m + 1, k>> /\ more[n + k][1] = m + 1 /\ more[n + k][2] = k
      BY <1>6
    <2> QED BY <1>7, <1>9, <2>1, <2>2
  <1>12. \A p \in Slots(ss, m + 1) : \E i \in 1 .. n + l : more[i] = p
    <2>1. ASSUME NEW p \in Slots(ss, m) PROVE \E i \in 1 .. n + l : more[i] = p
      BY <1>5, <1>9
    <2>2. ASSUME NEW p, p[2] \in 1 .. l, p = <<m + 1, p[2]>> PROVE \E i \in 1 .. n + l : more[i] = p
      BY <1>6, <2>2
    <2> QED BY <1>2, <2>1, <2>2
  <1>13. IsLayout(ss, m + 1, r, more)
    BY <1>1, <1>10, <1>11, <1>12 DEF IsLayout
  <1> QED BY <1>13 DEF r, t

LEMMA FlattenLayout ==
    ASSUME NEW ss, AllSeqs(ss), Len(ss) # 0
    PROVE  \E at : IsLayout(ss, Len(ss), FlattenSeq(ss), at)
  <1>1. IsSeq(ss) /\ Len(ss) \in Nat
    BY SeqFacts DEF AllSeqs
  <1>2. PICK g : g = [i \in 1 .. Len(ss) |-> IF i = 1 THEN ss[i] ELSE g[i - 1] \o ss[i]]
    BY <1>1, FlatExists
  <1>3. IsFlat(ss, g)
    BY <1>2 DEF IsFlat
  <1>4. FlattenSeq(ss) = g[Len(ss)]
    BY <1>1, <1>3, FlatIs
  <1> DEFINE S == {m \in Nat : m \in 1 .. Len(ss) => \E at : IsLayout(ss, m, g[m], at)}
  <1>5. 0 \in S
    OBVIOUS
  <1>6. ASSUME NEW m \in S \cap Nat PROVE m + 1 \in S
    <2>1. ASSUME m + 1 \in 1 .. Len(ss) PROVE \E at : IsLayout(ss, m + 1, g[m + 1], at)
      <3>1. CASE m = 0
        <4>1. g[1] = ss[1] /\ m + 1 = 1 /\ Len(ss) >= 1
          BY <1>1, <1>3, <2>1, <3>1 DEF IsFlat
        <4> QED BY <4>1, LayoutOne
      <3>2. CASE m # 0
        <4>1. m \in 1 .. Len(ss) /\ m + 1 # 1 /\ (m + 1) - 1 = m /\ m >= 1 /\ m + 1 <= Len(ss)
          BY <1>1, <2>1, <3>2
        <4>2. g[m + 1] = g[m] \o ss[m + 1]
          BY <1>3, <2>1, <4>1 DEF IsFlat
        <4>3. PICK at : IsLayout(ss, m, g[m], at)
          BY <1>6, <4>1
        <4>4. m \in Nat
          OBVIOUS
        <4>5. \E more : IsLayout(ss, m + 1, g[m] \o ss[m + 1], more)
          BY <4>1, <4>3, <4>4, LayoutMore
        <4> QED BY <4>2, <4>5
      <3> QED BY <3>1, <3>2
    <2>2. m + 1 \in Nat
      OBVIOUS
    <2> QED BY <2>1, <2>2
  <1>7. Nat \subseteq S
    <2> HIDE DEF S
    <2> QED BY <1>5, <1>6, Counting
  <1>8. Len(ss) \in S /\ Len(ss) \in 1 .. Len(ss)
    BY <1>1, <1>7
  <1> QED BY <1>4, <1>8

(* The flat list has the elements of all the lists, each once.             *)
LEMMA FlattenFacts ==
    ASSUME NEW ss, AllSeqs(ss)
    PROVE  /\ IsSeq(FlattenSeq(ss))
           /\ ToSet(FlattenSeq(ss)) = UNION {ToSet(ss[k]) : k \in 1 .. Len(ss)}
           /\ IsFiniteSet(Slots(ss, Len(ss)))
           /\ Len(FlattenSeq(ss)) = Cardinality(Slots(ss, Len(ss)))
  <1>1. IsSeq(ss) /\ Len(ss) \in Nat /\ DOMAIN ss = 1 .. Len(ss)
    BY SeqFacts DEF AllSeqs
  <1>2. CASE Len(ss) = 0
    <2>1. FlattenSeq(ss) = ss
      BY <1>2 DEF FlattenSeq
    <2>2. 1 .. Len(ss) = {}
      BY <1>2
    <2>3. ToSet(ss) = {}
      BY <1>1, <2>2 DEF ToSet
    <2>4. Slots(ss, Len(ss)) = {}
      BY <2>2 DEF Slots
    <2> QED BY <1>1, <1>2, <2>1, <2>2, <2>3, <2>4, FS_EmptySet
  <1>3. CASE Len(ss) # 0
    <2> DEFINE F == FlattenSeq(ss)
               slots == Slots(ss, Len(ss))
    <2>1. PICK at : IsLayout(ss, Len(ss), F, at)
      BY <1>3, FlattenLayout
    <2> HIDE DEF F
    <2>2. IsSeq(F) /\ Len(F) \in Nat /\ DOMAIN F = 1 .. Len(F)
      BY <2>1, SeqFacts DEF IsLayout
    <2>3. OneToOne(at, 1 .. Len(F), slots)
      BY <2>1 DEF IsLayout, OneToOne
    <2>4. IsFiniteSet(slots) /\ Cardinality(slots) = Len(F)
      <3> HIDE DEF slots
      <3> QED BY <2>2, <2>3, Interval, SameNumber
    <2>5. \A k \in 1 .. Len(ss) : IsSeq(ss[k]) /\ DOMAIN ss[k] = 1 .. Len(ss[k]) /\ Len(ss[k]) \in Nat
      BY SeqFacts DEF AllSeqs
    <2>6. ASSUME NEW i \in 1 .. Len(F)
          PROVE  \E k \in 1 .. Len(ss) : F[i] \in ToSet(ss[k])
      <3>1. at[i] \in slots /\ F[i] = ss[at[i][1]][at[i][2]]
        BY <2>1 DEF IsLayout
      <3>2. at[i][1] \in 1 .. Len(ss) /\ at[i][2] \in DOMAIN ss[at[i][1]]
        BY <2>5, <3>1 DEF Slots
      <3> QED BY <3>1, <3>2 DEF ToSet
    <2>7. ASSUME NEW k \in 1 .. Len(ss), NEW j \in DOMAIN ss[k]
          PROVE  \E i \in 1 .. Len(F) : F[i] = ss[k][j]
      <3>1. <<k, j>> \in slots
        BY <2>5 DEF Slots
      <3>2. PICK i \in 1 .. Len(F) : at[i] = <<k, j>>
        BY <2>1, <3>1 DEF IsLayout
      <3>3. F[i] = ss[at[i][1]][at[i][2]]
        BY <2>1 DEF IsLayout
      <3> QED BY <3>2, <3>3
    <2>8. ToSet(F) = UNION {ToSet(ss[k]) : k \in 1 .. Len(ss)}
      <3>1. ToSet(F) = {F[i] : i \in 1 .. Len(F)}
        BY <2>2 DEF ToSet
      <3>2. \A z \in ToSet(F) : \E k \in 1 .. Len(ss) : z \in ToSet(ss[k])
        BY <2>6, <3>1
      <3>3. \A k \in 1 .. Len(ss) : \A z \in ToSet(ss[k]) : \E j \in DOMAIN ss[k] : z = ss[k][j]
        BY DEF ToSet
      <3>4. \A k \in 1 .. Len(ss) : \A z \in ToSet(ss[k]) : z \in ToSet(F)
        <4>1. ASSUME NEW k \in 1 .. Len(ss), NEW z \in ToSet(ss[k]) PROVE z \in ToSet(F)
          <5>1. PICK j \in DOMAIN ss[k] : z = ss[k][j]
            BY <3>3
          <5>2. PICK i \in 1 .. Len(F) : F[i] = ss[k][j]
            BY <2>7
          <5> QED BY <3>1, <5>1, <5>2
        <4> QED BY <4>1
      <3> QED BY <3>2, <3>4
    <2> QED BY <2>2, <2>4, <2>8 DEF F
  <1> QED BY <1>2, <1>3

-----------------------------------------------------------------------------
(* What the readers make of a list. *)

LEMMA ListNumbers ==
    ASSUME NEW s, IsSeq(s)
    PROVE  /\ IsFiniteSet(ToSet(s)) /\ IsFiniteSet(DOMAIN s)
           /\ Cardinality(DOMAIN s) = Len(s) /\ Len(s) \in Nat
           /\ Cardinality(ToSet(s)) <= Len(s)
  <1>1. DOMAIN s = 1 .. Len(s) /\ Len(s) \in Nat
    BY SeqFacts
  <1>2. IsFiniteSet(DOMAIN s) /\ Cardinality(DOMAIN s) = Len(s)
    BY <1>1, Interval
  <1>3. /\ IsFiniteSet({s[i] : i \in DOMAIN s})
        /\ Cardinality({s[i] : i \in DOMAIN s}) <= Cardinality(DOMAIN s)
    BY <1>2, ImageNumber
  <1> QED BY <1>1, <1>2, <1>3 DEF ToSet

Kept(results, o) == [k \in DOMAIN results |-> IF Passes(results[k], o) THEN <<results[k]>> ELSE <<>>]

LEMMA FilterFacts ==
    ASSUME NEW results, IsSeq(results), NEW o
    PROVE  /\ IsSeq(Filter(results, o))
           /\ ToSet(Filter(results, o)) = {r \in ToSet(results) : Passes(r, o)}
           /\ (\A r \in ToSet(results) : Passes(r, o)) => Len(Filter(results, o)) = Len(results)
  <1> DEFINE ss == Kept(results, o)
             n == Len(results)
  <1>1. n \in Nat /\ DOMAIN results = 1 .. n
    BY SeqFacts
  <1>2. \A k \in 1 .. n : ss[k] = IF Passes(results[k], o) THEN <<results[k]>> ELSE <<>>
    BY <1>1 DEF Kept
  <1>3. IsSeq(ss) /\ Len(ss) = n
    <2>1. DOMAIN ss = 1 .. n /\ ss = [k \in 1 .. n |-> ss[k]]
      BY <1>1 DEF Kept
    <2> HIDE DEF ss
    <2> QED BY <1>1, <2>1, FunctionIsSeq
  <1> HIDE DEF ss
  <1>4. ASSUME NEW k \in 1 .. n
        PROVE  /\ IsSeq(ss[k])
               /\ ToSet(ss[k]) = IF Passes(results[k], o) THEN {results[k]} ELSE {}
               /\ Len(ss[k]) = IF Passes(results[k], o) THEN 1 ELSE 0
    BY <1>2, NoneIsSeq, OneIsSeq
  <1>5. AllSeqs(ss)
    BY <1>3, <1>4 DEF AllSeqs
  <1>6. Filter(results, o) = FlattenSeq(ss)
    BY DEF Filter, ss, Kept
  <1>7. /\ IsSeq(FlattenSeq(ss))
        /\ ToSet(FlattenSeq(ss)) = UNION {ToSet(ss[k]) : k \in 1 .. n}
        /\ Len(FlattenSeq(ss)) = Cardinality(Slots(ss, n))
    BY <1>3, <1>5, FlattenFacts
  <1>8. UNION {ToSet(ss[k]) : k \in 1 .. n} = {r \in ToSet(results) : Passes(r, o)}
    <2>1. ToSet(results) = {results[k] : k \in 1 .. n}
      BY <1>1 DEF ToSet
    <2>2. ASSUME NEW k \in 1 .. n, NEW r \in ToSet(ss[k])
          PROVE  r = results[k] /\ Passes(results[k], o)
      BY <1>4
    <2>3. ASSUME NEW k \in 1 .. n, Passes(results[k], o)
          PROVE  results[k] \in ToSet(ss[k])
      BY <1>4, <2>3
    <2> QED BY <2>1, <2>2, <2>3
  <1>9. ASSUME \A r \in ToSet(results) : Passes(r, o)
        PROVE  Cardinality(Slots(ss, n)) = n
    <2>1. \A k \in 1 .. n : Len(ss[k]) = 1
      BY <1>1, <1>4, <1>9 DEF ToSet
    <2> DEFINE at == [k \in 1 .. n |-> <<k, 1>>]
    <2>2. OneToOne(at, 1 .. n, Slots(ss, n))
      <3>1. \A k \in 1 .. n : at[k] = <<k, 1>> /\ at[k][1] = k /\ <<k, 1>> \in Slots(ss, n)
        BY <2>1 DEF Slots
      <3>2. ASSUME NEW p \in Slots(ss, n) PROVE p[1] \in 1 .. n /\ p = <<p[1], 1>>
        <4>1. p \in (1 .. n) \X Nat /\ p[1] \in 1 .. n /\ p[2] \in 1 .. Len(ss[p[1]])
          BY DEF Slots
        <4>2. p[2] \in 1 .. 1
          BY <2>1, <4>1
        <4>3. p = <<p[1], p[2]>> /\ p[2] = 1
          BY <4>1, <4>2
        <4> QED BY <4>1, <4>3
      <3> HIDE DEF at
      <3>3. \A k, l \in 1 .. n : at[k] = at[l] => k = l
        BY <3>1
      <3>4. \A p \in Slots(ss, n) : at[p[1]] = p
        BY <3>1, <3>2
      <3>5. \A k \in 1 .. n : at[k] \in Slots(ss, n)
        BY <3>1
      <3>6. \A p \in Slots(ss, n) : \E k \in 1 .. n : at[k] = p
        BY <3>2, <3>4
      <3> QED BY <3>3, <3>5, <3>6 DEF OneToOne
    <2> HIDE DEF at
    <2> QED BY <1>1, <2>2, Interval, SameNumber
  <1> QED BY <1>6, <1>7, <1>8, <1>9

LEMMA ByKeyFacts ==
    ASSUME NEW results, IsSeq(results)
    PROVE  /\ DOMAIN ByKey(results) = {Key(r) : r \in ToSet(results)}
           /\ \A k \in DOMAIN ByKey(results) :
                 ByKey(results)[k] \in ToSet(results) /\ Key(ByKey(results)[k]) = k
  <1> DEFINE At(k) == {n \in DOMAIN results : Key(results[n]) = k}
  <1>1. DOMAIN ByKey(results) = {Key(r) : r \in ToSet(results)}
    BY DEF ByKey
  <1>2. ASSUME NEW r \in ToSet(results) PROVE Max(At(Key(r))) \in At(Key(r))
    <2>1. DOMAIN results = 1 .. Len(results) /\ Len(results) \in Nat
      BY SeqFacts
    <2>2. At(Key(r)) # {}
      BY DEF ToSet
    <2>3. At(Key(r)) \subseteq 1 .. Len(results)
      BY <2>1
    <2> HIDE DEF At
    <2> QED BY <2>1, <2>2, <2>3, Greatest
  <1>3. ASSUME NEW r \in ToSet(results)
        PROVE  ByKey(results)[Key(r)] \in ToSet(results) /\ Key(ByKey(results)[Key(r)]) = Key(r)
    <2>1. ByKey(results)[Key(r)] = results[Max(At(Key(r)))]
      BY DEF ByKey
    <2> DEFINE n == Max(At(Key(r)))
    <2>2. n \in DOMAIN results /\ Key(results[n]) = Key(r)
      BY <1>2
    <2> HIDE DEF n
    <2> QED BY <2>1, <2>2 DEF ToSet, n
  <1> QED BY <1>1, <1>3

-----------------------------------------------------------------------------
(* The tables add up. *)

LEMMA EvalRowsAddUp ==
    ASSUME NEW R, IsFiniteSet(R), NEW E, E \in {ComparedEvals(R), ReviewedEvals(R)}
    PROVE  SumOfRows(EvalRows(R, E)) = Cardinality(E)
  <1> DEFINE class == [e \in E |-> e[1]]
             suite == [r \in R |-> r.eval_dataset]
             compared == [r \in R |-> <<r.eval_dataset, r.split, r.eval_instance_index>>]
             reviewed == [r \in R |-> <<r.eval_dataset, r.eval_instance_index>>]
  <1>1. IsFiniteSet(E)
    <2>1. /\ IsFiniteSet({compared[r] : r \in R})
          /\ IsFiniteSet({reviewed[r] : r \in R})
      <3> HIDE DEF compared, reviewed
      <3> QED BY ImageNumber
    <2>2. E = {compared[r] : r \in R} \/ E = {reviewed[r] : r \in R}
      BY DEF ComparedEvals, ReviewedEvals
    <2> QED BY <2>1, <2>2
  <1>2. IsFiniteSet(Suites(R))
    <2>1. IsFiniteSet({suite[r] : r \in R})
      <3> HIDE DEF suite
      <3> QED BY ImageNumber
    <2>2. Suites(R) = {suite[r] : r \in R}
      BY DEF Suites
    <2> QED BY <2>1, <2>2
  <1>3. \A e \in E : class[e] = e[1] /\ e[1] \in Suites(R)
    BY DEF ComparedEvals, ReviewedEvals, Suites
  <1>4. ASSUME NEW s \in Suites(R)
        PROVE  EvalRows(R, E)[s] = Cardinality({e \in E : class[e] = s})
    <2>1. {e \in E : e[1] = s} = {e \in E : class[e] = s}
      BY <1>3
    <2> QED BY <2>1 DEF EvalRows
  <1>5. DOMAIN EvalRows(R, E) = Suites(R)
    BY DEF EvalRows
  <1> HIDE DEF class
  <1>6. IsRows(EvalRows(R, E), Suites(R), E, class)
    BY <1>1, <1>2, <1>3, <1>4, <1>5 DEF IsRows
  <1> QED BY <1>6, RowsAddUp

LEMMA TopCountsAddUp ==
    ASSUME NEW results, IsSeq(results)
    PROVE  SumOfRows(TopCounts(results)) = Len(results)
  <1> DEFINE E == DOMAIN results
             line == [r \in ToSet(results) |-> <<r.eval_dataset, r.eval_line>>]
             class == [k \in E |-> <<results[k].eval_dataset, results[k].eval_line>>]
             S == {<<r.eval_dataset, r.eval_line>> : r \in ToSet(results)}
  <1>1. IsFiniteSet(E) /\ Cardinality(E) = Len(results) /\ IsFiniteSet(ToSet(results))
    BY ListNumbers
  <1>2. IsFiniteSet(S)
    <2>1. IsFiniteSet({line[r] : r \in ToSet(results)})
      <3> HIDE DEF line
      <3> QED BY <1>1, ImageNumber
    <2>2. S = {line[r] : r \in ToSet(results)}
      OBVIOUS
    <2> QED BY <2>1, <2>2
  <1>3. \A k \in E : class[k] \in S /\ class[k] = <<results[k].eval_dataset, results[k].eval_line>>
    BY DEF ToSet
  <1>4. ASSUME NEW e \in S
        PROVE  TopCounts(results)[e] = Cardinality({k \in E : class[k] = e})
    <2>1. {k \in E : <<results[k].eval_dataset, results[k].eval_line>> = e}
            = {k \in E : class[k] = e}
      BY <1>3
    <2>2. TopCounts(results)[e] =
            Cardinality({k \in E : <<results[k].eval_dataset, results[k].eval_line>> = e})
      BY DEF TopCounts
    <2> QED BY <2>1, <2>2
  <1>5. DOMAIN TopCounts(results) = S
    BY DEF TopCounts
  <1> HIDE DEF class, S, E
  <1>6. IsRows(TopCounts(results), S, E, class)
    BY <1>1, <1>2, <1>3, <1>4, <1>5 DEF IsRows
  <1> QED BY <1>1, <1>6, RowsAddUp

(* The bucket of a number of matched n-grams. *)
InBucket(n, b) == n >= b[1] /\ (b[1] = 501 \/ n <= b[2])
AllBuckets == Buckets \cup {<<501, 501>>}

LEMMA OneBucket ==
    ASSUME NEW n \in Nat \ {0}
    PROVE  /\ \E b \in AllBuckets : InBucket(n, b)
           /\ \A b, c \in AllBuckets : InBucket(n, b) /\ InBucket(n, c) => b = c
  BY DEF AllBuckets, Buckets, InBucket

LEMMA HistogramAddsUp ==
    ASSUME NEW results, IsSeq(results), \A r \in ToSet(results) : r.ngram_match_cnt \in Nat \ {0}
    PROVE  SumOfRows(Histogram(results)) = Len(results)
  <1> DEFINE E == DOMAIN results
             n(k) == results[k].ngram_match_cnt
             class == [k \in E |-> CHOOSE b \in AllBuckets : InBucket(n(k), b)]
  <1>1. IsFiniteSet(E) /\ Cardinality(E) = Len(results)
    BY ListNumbers
  <1>2. \A k \in E : n(k) \in Nat \ {0}
    BY DEF ToSet
  <1>3. IsFiniteSet(AllBuckets)
    <2> DEFINE row == [k \in 1 .. 8 |->
                         IF k = 1 THEN <<1, 5>> ELSE IF k = 2 THEN <<6, 10>>
                         ELSE IF k = 3 THEN <<11, 20>> ELSE IF k = 4 THEN <<21, 50>>
                         ELSE IF k = 5 THEN <<51, 100>> ELSE IF k = 6 THEN <<101, 200>>
                         ELSE IF k = 7 THEN <<201, 500>> ELSE <<501, 501>>]
    <2>1. \A k \in 1 .. 8 : row[k] \in AllBuckets
      BY DEF AllBuckets, Buckets
    <2>2. /\ row[1] = <<1, 5>> /\ row[2] = <<6, 10>> /\ row[3] = <<11, 20>> /\ row[4] = <<21, 50>>
          /\ row[5] = <<51, 100>> /\ row[6] = <<101, 200>> /\ row[7] = <<201, 500>>
          /\ row[8] = <<501, 501>>
      OBVIOUS
    <2> HIDE DEF row
    <2>3. AllBuckets = {row[k] : k \in 1 .. 8}
      BY <2>1, <2>2 DEF AllBuckets, Buckets
    <2> QED BY <2>3, Interval, ImageNumber
  <1> HIDE DEF n
  <1>4. \A k \in E : class[k] \in AllBuckets /\ InBucket(n(k), class[k])
    BY <1>2, OneBucket
  <1> HIDE DEF class
  <1>5. ASSUME NEW b \in AllBuckets
        PROVE  Histogram(results)[b] = Cardinality({k \in E : class[k] = b})
    <2>1. {k \in E : InBucket(n(k), b)} = {k \in E : class[k] = b}
      BY <1>2, <1>4, OneBucket
    <2>2. Histogram(results)[b] = Cardinality({k \in E : InBucket(n(k), b)})
      BY DEF Histogram, n, AllBuckets, InBucket
    <2> QED BY <2>1, <2>2
  <1>6. DOMAIN Histogram(results) = AllBuckets
    BY DEF Histogram, AllBuckets
  <1> HIDE DEF E
  <1>7. IsRows(Histogram(results), AllBuckets, E, class)
    BY <1>1, <1>3, <1>4, <1>5, <1>6 DEF IsRows
  <1> QED BY <1>1, <1>7, RowsAddUp

-----------------------------------------------------------------------------
(* Results with the same keys have the same documents, in all and for each *)
(* suite.                                                                  *)

SameKeys(V, R) ==
    /\ \A v \in V : \E r \in R : Key(r) = Key(v)
    /\ \A r \in R : \E v \in V : Key(v) = Key(r)

LEMMA KeyTells ==
    ASSUME NEW r, NEW q, Key(r) = Key(q)
    PROVE  Document(r) = Document(q) /\ r.eval_dataset = q.eval_dataset
  BY DEF Key, Document

LEMMA KeysWithin ==
    ASSUME NEW V, NEW R, \A v \in V : \E r \in R : Key(r) = Key(v)
    PROVE  /\ Documents(V) \subseteq Documents(R)
           /\ Suites(V) \subseteq Suites(R)
           /\ \A s : Documents(OfSuite(V, s)) \subseteq Documents(OfSuite(R, s))
  <1>1. ASSUME NEW v \in V
        PROVE  \E r \in R : Document(r) = Document(v) /\ r.eval_dataset = v.eval_dataset
    <2>1. PICK r \in R : Key(r) = Key(v)
      OBVIOUS
    <2> QED BY <2>1, KeyTells
  <1>2. Documents(V) \subseteq Documents(R)
    BY <1>1 DEF Documents
  <1>3. Suites(V) \subseteq Suites(R)
    BY <1>1 DEF Suites
  <1>4. ASSUME NEW s PROVE Documents(OfSuite(V, s)) \subseteq Documents(OfSuite(R, s))
    BY <1>1 DEF Documents, OfSuite
  <1> QED BY <1>2, <1>3, <1>4

LEMMA SameKeysAgree ==
    ASSUME NEW V, NEW R, SameKeys(V, R)
    PROVE  /\ Documents(V) = Documents(R)
           /\ Suites(V) = Suites(R)
           /\ DocumentRows(V) = DocumentRows(R)
  <1>1. /\ Documents(V) \subseteq Documents(R)
        /\ Suites(V) \subseteq Suites(R)
        /\ \A s : Documents(OfSuite(V, s)) \subseteq Documents(OfSuite(R, s))
    BY KeysWithin DEF SameKeys
  <1>2. /\ Documents(R) \subseteq Documents(V)
        /\ Suites(R) \subseteq Suites(V)
        /\ \A s : Documents(OfSuite(R, s)) \subseteq Documents(OfSuite(V, s))
    BY KeysWithin DEF SameKeys
  <1>3. Suites(V) = Suites(R)
    BY <1>1, <1>2
  <1>4. ASSUME NEW s
        PROVE  Cardinality(Documents(OfSuite(V, s))) = Cardinality(Documents(OfSuite(R, s)))
    <2>1. Documents(OfSuite(V, s)) = Documents(OfSuite(R, s))
      BY <1>1, <1>2
    <2> QED BY <2>1
  <1>5. DocumentRows(V) = DocumentRows(R)
    BY <1>3, <1>4 DEF DocumentRows
  <1> QED BY <1>1, <1>2, <1>3, <1>5

(* Of the results with a key one is kept.                                  *)
LEMMA KeptByKey ==
    ASSUME NEW results, IsSeq(results)
    PROVE  LET m == ByKey(results)
           IN  /\ Values(m) \subseteq ToSet(results) /\ SameKeys(Values(m), ToSet(results))
               /\ DOMAIN m = {Key(r) : r \in ToSet(results)}
               /\ \A k \in DOMAIN m : m[k] \in ToSet(results) /\ Key(m[k]) = k
               /\ IsFiniteSet(Values(m)) /\ IsFiniteSet(DOMAIN m)
               /\ Cardinality(DOMAIN m) <= Len(results)
  <1> DEFINE m == ByKey(results)
             R == ToSet(results)
             key == [r \in R |-> Key(r)]
  <1>1. DOMAIN m = {Key(r) : r \in R} /\ \A k \in DOMAIN m : m[k] \in R /\ Key(m[k]) = k
    BY ByKeyFacts
  <1>2. IsFiniteSet(R) /\ Cardinality(R) <= Len(results) /\ Len(results) \in Nat
        /\ Cardinality(R) \in Nat
    BY ListNumbers, FS_CardinalityType
  <1>3. {Key(r) : r \in R} = {key[r] : r \in R}
    OBVIOUS
  <1> HIDE DEF m, key, R
  <1>4. IsFiniteSet({key[r] : r \in R}) /\ Cardinality({key[r] : r \in R}) <= Cardinality(R)
    BY <1>2, ImageNumber
  <1>5. IsFiniteSet(DOMAIN m) /\ Cardinality(DOMAIN m) <= Cardinality(R)
        /\ Cardinality(DOMAIN m) \in Nat
    BY <1>1, <1>3, <1>4, FS_CardinalityType
  <1>6. IsFiniteSet(Values(m))
    BY <1>5, ImageNumber DEF Values
  <1>7. Values(m) \subseteq R
    BY <1>1 DEF Values
  <1>8. SameKeys(Values(m), R)
    <2>1. \A v \in Values(m) : \E r \in R : Key(r) = Key(v)
      BY <1>7
    <2>2. ASSUME NEW r \in R PROVE \E v \in Values(m) : Key(v) = Key(r)
      <3>1. Key(r) \in DOMAIN m
        BY <1>1
      <3>2. m[Key(r)] \in Values(m) /\ Key(m[Key(r)]) = Key(r)
        BY <1>1, <3>1 DEF Values
      <3> QED BY <3>2
    <2> QED BY <2>1, <2>2 DEF SameKeys
  <1>9. Cardinality(DOMAIN m) <= Len(results)
    BY <1>2, <1>5
  <1> QED BY <1>1, <1>5, <1>6, <1>7, <1>8, <1>9 DEF m, R

-----------------------------------------------------------------------------
(* What is loaded of a directory. *)

LEMMA ListingFacts ==
    ASSUME NEW F, IsFiniteSet(F), NEW s \in SetToSeqs(F)
    PROVE  /\ Cardinality(F) \in Nat
           /\ IsSeq(s) /\ Len(s) = Cardinality(F) /\ DOMAIN s = 1 .. Cardinality(F)
           /\ OneToOne(s, 1 .. Cardinality(F), F)
           /\ ToSet(s) = F
  <1> DEFINE n == Cardinality(F)
  <1>1. n \in Nat
    BY FS_CardinalityType
  <1>2. s \in [1 .. n -> F] /\ \A i, j \in 1 .. n : i # j => s[i] # s[j]
    BY DEF SetToSeqs
  <1>3. IsFiniteSet(1 .. n) /\ Cardinality(1 .. n) = n
    BY <1>1, Interval
  <1>4. s \in Injection(1 .. n, F)
    <2> HIDE DEF n
    <2> QED BY <1>2 DEF Injection, IsInjective
  <1>5. s \in Surjection(1 .. n, F)
    BY <1>3, <1>4, FS_Injection
  <1>6. \A f \in F : \E i \in 1 .. n : s[i] = f
    BY <1>5 DEF Surjection
  <1> HIDE DEF n
  <1>7. OneToOne(s, 1 .. n, F)
    BY <1>2, <1>6 DEF OneToOne
  <1>8. IsSeq(s) /\ Len(s) = n
    <2>1. DOMAIN s = 1 .. n /\ s = [k \in 1 .. n |-> s[k]]
      BY <1>2
    <2> QED BY <1>1, <2>1, FunctionIsSeq
  <1>9. ToSet(s) = F
    BY <1>2, <1>6 DEF ToSet
  <1> QED BY <1>1, <1>2, <1>7, <1>8, <1>9 DEF n

LEMMA LoadFileIsSeq ==
    ASSUME NEW lines, IsSeq(lines)
    PROVE  IsSeq(LoadFile(lines))
  BY NoneIsSeq DEF LoadFile

\* The results in a directory, by file and position.
LoadedPlaces(F, x) == {p \in F \X Nat : p[2] \in 1 .. Len(LoadFile(x[p[1]]))}

LEMMA LoadFacts ==
    ASSUME NEW F, IsFiniteSet(F), NEW s \in SetToSeqs(F), NEW x, \A f \in F : IsSeq(x[f])
    PROVE  LET loaded == LoadDirectory([k \in DOMAIN s |-> x[s[k]]])
           IN  /\ IsSeq(loaded)
               /\ ToSet(loaded) = UNION {ToSet(LoadFile(x[f])) : f \in F}
               /\ IsFiniteSet(LoadedPlaces(F, x))
               /\ Len(loaded) = Cardinality(LoadedPlaces(F, x))
  <1> DEFINE n == Cardinality(F)
             files == [k \in DOMAIN s |-> x[s[k]]]
             ss == [k \in DOMAIN files |-> LoadFile(files[k])]
  <1>1. n \in Nat /\ DOMAIN s = 1 .. n /\ OneToOne(s, 1 .. n, F)
    BY ListingFacts
  <1>2. LoadDirectory(files) = FlattenSeq(ss)
    BY DEF LoadDirectory
  <1>3. DOMAIN ss = 1 .. n /\ ss = [k \in 1 .. n |-> ss[k]]
    BY <1>1
  <1>4. \A k \in 1 .. n : ss[k] = LoadFile(x[s[k]]) /\ s[k] \in F
    BY <1>1 DEF OneToOne
  <1> HIDE DEF n, files, ss
  <1>5. IsSeq(ss) /\ Len(ss) = n
    BY <1>1, <1>3, FunctionIsSeq
  <1>6. AllSeqs(ss)
    BY <1>4, <1>5, LoadFileIsSeq DEF AllSeqs
  <1>7. /\ IsSeq(FlattenSeq(ss))
        /\ ToSet(FlattenSeq(ss)) = UNION {ToSet(ss[k]) : k \in 1 .. n}
        /\ IsFiniteSet(Slots(ss, n)) /\ Len(FlattenSeq(ss)) = Cardinality(Slots(ss, n))
    BY <1>5, <1>6, FlattenFacts
  <1>8. UNION {ToSet(ss[k]) : k \in 1 .. n} = UNION {ToSet(LoadFile(x[f])) : f \in F}
    <2>1. \A f \in F : \E k \in 1 .. n : s[k] = f
      BY <1>1 DEF OneToOne
    <2>2. \A f \in F : \E k \in 1 .. n : ToSet(ss[k]) = ToSet(LoadFile(x[f]))
      BY <1>4, <2>1
    <2>3. \A k \in 1 .. n : ToSet(ss[k]) = ToSet(LoadFile(x[s[k]])) /\ s[k] \in F
      BY <1>4
    <2> QED BY <2>2, <2>3
  <1>9. OneToOne([p \in Slots(ss, n) |-> <<s[p[1]], p[2]>>], Slots(ss, n), LoadedPlaces(F, x))
    <2> DEFINE at == [p \in Slots(ss, n) |-> <<s[p[1]], p[2]>>]
    <2>1. ASSUME NEW p \in Slots(ss, n)
          PROVE  /\ p = <<p[1], p[2]>> /\ p[1] \in 1 .. n /\ p[2] \in Nat
                 /\ p[2] \in 1 .. Len(ss[p[1]])
                 /\ at[p] = <<s[p[1]], p[2]>>
      BY DEF Slots
    <2>2. ASSUME NEW q \in LoadedPlaces(F, x)
          PROVE  /\ q = <<q[1], q[2]>> /\ q[1] \in F /\ q[2] \in Nat
                 /\ q[2] \in 1 .. Len(LoadFile(x[q[1]]))
      BY DEF LoadedPlaces
    <2>3. \A p \in Slots(ss, n) : at[p] \in LoadedPlaces(F, x)
      <3>1. ASSUME NEW f \in F, NEW j \in Nat, j \in 1 .. Len(LoadFile(x[f]))
            PROVE  <<f, j>> \in LoadedPlaces(F, x)
        BY <3>1 DEF LoadedPlaces
      <3>2. ASSUME NEW p \in Slots(ss, n) PROVE at[p] \in LoadedPlaces(F, x)
        <4>1. s[p[1]] \in F /\ p[2] \in Nat /\ p[2] \in 1 .. Len(LoadFile(x[s[p[1]]]))
          BY <1>4, <2>1
        <4> HIDE DEF at
        <4> QED BY <2>1, <3>1, <4>1
      <3> QED BY <3>2
    <2>4. ASSUME NEW p \in Slots(ss, n), NEW q \in Slots(ss, n), at[p] = at[q] PROVE p = q
      <3>1. s[p[1]] = s[q[1]] /\ p[2] = q[2]
        BY <2>1, <2>4
      <3>2. p[1] = q[1]
        BY <1>1, <2>1, <3>1 DEF OneToOne
      <3> QED BY <2>1, <3>1, <3>2
    <2>5. ASSUME NEW q \in LoadedPlaces(F, x) PROVE \E p \in Slots(ss, n) : at[p] = q
      <3>1. PICK k \in 1 .. n : s[k] = q[1]
        BY <1>1, <2>2 DEF OneToOne
      <3>2. <<k, q[2]>> \in Slots(ss, n)
        <4>1. q[2] \in 1 .. Len(ss[k])
          BY <1>4, <2>2, <3>1
        <4> QED BY <2>2, <4>1 DEF Slots
      <3>3. at[<<k, q[2]>>] = <<s[k], q[2]>>
        BY <3>2
      <3> QED BY <2>2, <3>1, <3>2, <3>3
    <2> HIDE DEF at
    <2> QED BY <2>3, <2>4, <2>5 DEF OneToOne, at
  <1>10. IsFiniteSet(LoadedPlaces(F, x)) /\ Cardinality(LoadedPlaces(F, x)) = Cardinality(Slots(ss, n))
    BY <1>7, <1>9, SameNumber
  <1> QED BY <1>2, <1>7, <1>8, <1>10 DEF files

-----------------------------------------------------------------------------
(* decon compare keeps the documents. *)

LEMMA PrefixIsSeq ==
    ASSUME NEW s, IsSeq(s), NEW m \in 0 .. Len(s)
    PROVE  IsSeq(SubSeq(s, 1, m))
  <1>1. s \in Seq(ToSet(s)) /\ Len(s) \in Nat /\ \A i \in 1 .. m : s[i] \in ToSet(s)
    BY SeqFacts DEF IsSeq
  <1>2. SubSeq(s, 1, m) \in Seq(ToSet(s))
    BY <1>1, SubSeqProperties
  <1> QED BY <1>2, SeqOfAny

LEMMA FoundFinite ==
    ASSUME TypeOK, NEW f \in Files
    PROVE  IsFiniteSet(hits[f]) /\ hits[f] \subseteq AllEntries
  <1>1. hits[f] \in Findings
    BY DEF TypeOK
  <1> QED BY <1>1, FindingAssumption DEF AllEntries

LEMMA OrdersAreSeqs ==
    ASSUME TypeOK, NEW f \in Files, NEW lines \in Orders(f)
    PROVE  /\ IsSeq(lines) /\ Len(lines) = Cardinality(hits[f])
           /\ ToSet(lines) = {Result(f, e) : e \in hits[f]}
  <1>1. PICK s \in SetToSeqs(hits[f]) : lines = [k \in DOMAIN s |-> Result(f, s[k])]
    BY DEF Orders
  <1>2. /\ Cardinality(hits[f]) \in Nat
        /\ DOMAIN s = 1 .. Cardinality(hits[f]) /\ ToSet(s) = hits[f]
    BY FoundFinite, ListingFacts
  <1>3. IsSeq(lines) /\ Len(lines) = Cardinality(hits[f])
    <2> DEFINE n == Cardinality(hits[f])
    <2>1. DOMAIN lines = 1 .. n /\ lines = [k \in 1 .. n |-> lines[k]] /\ n \in Nat
      BY <1>1, <1>2
    <2> HIDE DEF n
    <2> QED BY <2>1, FunctionIsSeq DEF n
  <1>4. ToSet(lines) = {Result(f, e) : e \in hits[f]}
    <2>1. ToSet(lines) = {Result(f, s[k]) : k \in DOMAIN s}
      BY <1>1 DEF ToSet
    <2>2. hits[f] = {s[k] : k \in DOMAIN s}
      BY <1>2 DEF ToSet
    <2> QED BY <2>1, <2>2
  <1> QED BY <1>3, <1>4

LEMMA MayHoldIsSeq ==
    ASSUME TypeOK, NEW f \in Files, NEW lines \in MayHold(f)
    PROVE  IsSeq(lines)
  <1>1. CASE lines = <<>>
    BY <1>1, NoneIsSeq
  <1>2. CASE lines \in Orders(f)
    BY <1>2, OrdersAreSeqs
  <1>3. CASE lines = <<Torn>>
    BY <1>3, OneIsSeq
  <1>4. CASE \E s \in Orders(f) : \E n \in 0 .. Len(s) : lines = SubSeq(s, 1, n)
    BY <1>4, OrdersAreSeqs, PrefixIsSeq
  <1> QED BY <1>1, <1>2, <1>3, <1>4 DEF MayHold

LEMMA LoadsAreSeqs ==
    ASSUME TypeOK, NEW x \in Directories, NEW loaded \in Loads(x)
    PROVE  /\ IsSeq(loaded)
           /\ ToSet(loaded) = UNION {ToSet(LoadFile(x[f])) : f \in Files}
           /\ IsFiniteSet(LoadedPlaces(Files, x))
           /\ Len(loaded) = Cardinality(LoadedPlaces(Files, x))
  <1>1. PICK s \in SetToSeqs(Files) : loaded = LoadDirectory([k \in DOMAIN s |-> x[s[k]]])
    BY DEF Loads
  <1>2. \A f \in Files : IsSeq(x[f])
    BY MayHoldIsSeq DEF Directories
  <1> QED BY <1>1, <1>2, FilesAssumption, LoadFacts

(* What CollapseKeepsDocuments says of one directory, with one filter.     *)
KeepsDocuments(loaded, o) ==
    LET v == Review(loaded, CompareOptions(o))
        m == Compared(loaded, o)
    IN  /\ Metrics(m).documents = v.documents
        /\ DocumentRows(Values(m)) = v.by_suite
        /\ Metrics(m).instances <= v.instances
        /\ SumOfRows(EvalRows(Values(m), ComparedEvals(Values(m)))) = Metrics(m).evals
        /\ SumOfRows(TopCounts(Filter(loaded, o))) = Review(loaded, o).instances

LEMMA CollapseKeeps ==
    ASSUME NEW loaded, IsSeq(loaded), NEW o
    PROVE  KeepsDocuments(loaded, o)
  <1> DEFINE F == Filter(loaded, CompareOptions(o))
             m == ByKey(F)
             R == ToSet(F)
             V == Values(m)
  <1>1. IsSeq(F) /\ IsSeq(Filter(loaded, o))
    BY FilterFacts
  <1>2. SameKeys(V, R) /\ IsFiniteSet(V) /\ Cardinality(DOMAIN m) <= Len(F)
    <2> HIDE DEF F
    <2> QED BY <1>1, KeptByKey
  <1>3. /\ Review(loaded, CompareOptions(o)).documents = Cardinality(Documents(R))
        /\ Review(loaded, CompareOptions(o)).by_suite = DocumentRows(R)
        /\ Review(loaded, CompareOptions(o)).instances = Len(F)
        /\ Review(loaded, o).instances = Len(Filter(loaded, o))
        /\ Compared(loaded, o) = m
    BY DEF Review, Compared
  <1>4. /\ Metrics(m).documents = Cardinality(Documents(V))
        /\ Metrics(m).instances = Cardinality(DOMAIN m)
        /\ Metrics(m).evals = Cardinality(ComparedEvals(V))
    BY DEF Metrics
  <1> HIDE DEF F, m, R, V
  <1>5. Documents(V) = Documents(R) /\ DocumentRows(V) = DocumentRows(R)
    BY <1>2, SameKeysAgree
  <1>6. SumOfRows(EvalRows(V, ComparedEvals(V))) = Cardinality(ComparedEvals(V))
    BY <1>2, EvalRowsAddUp
  <1>7. SumOfRows(TopCounts(Filter(loaded, o))) = Len(Filter(loaded, o))
    BY <1>1, TopCountsAddUp
  <1>8. V = Values(m)
    BY DEF V
  <1> QED BY <1>2, <1>3, <1>4, <1>5, <1>6, <1>7, <1>8, Zenon DEF KeepsDocuments

LEMMA CollapseInvariant == TypeOK => CollapseKeepsDocuments
  <1> SUFFICES ASSUME TypeOK PROVE CollapseKeepsDocuments
    OBVIOUS
  <1>1. ASSUME NEW loaded \in AllLoads, NEW o \in Options PROVE KeepsDocuments(loaded, o)
    <2>1. PICK x \in Directories : loaded \in Loads(x)
      BY DEF AllLoads
    <2> QED BY <2>1, LoadsAreSeqs, CollapseKeeps
  <1> QED BY <1>1, Zenon DEF CollapseKeepsDocuments, KeepsDocuments

-----------------------------------------------------------------------------
(* Two runs over the same data. *)

LEMMA NamesTyped ==
    ASSUME NEW f \in Files
    PROVE  ReportName(f) \in ReportNames /\ BaseName(f) \in BaseNames
  BY DEF ReportNames, BaseNames

LEMMA ResultFields ==
    ASSUME NEW f \in Files, NEW e \in AllEntries
    PROVE  /\ Result(f, e).training_file = BaseName(f)
           /\ Result(f, e).training_line = e[1]
           /\ Result(f, e).contamination_score \in Nat
           /\ Result(f, e).ngram_match_cnt \in Nat \ {0}
  <1>1. PICK i \in Instance : i = Evals[e[2]]
    BY EvalsAssumption
  <1>2. Result(f, e) = [i EXCEPT !.training_file = BaseName(f), !.training_line = e[1]]
    BY <1>1 DEF Result
  <1>3. /\ i.contamination_score \in Nat /\ i.ngram_match_cnt \in Nat \ {0}
        /\ DOMAIN i = {"training_file", "training_line", "eval_dataset", "eval_line",
                       "eval_instance_index", "split", "contamination_score",
                       "ngram_match_cnt", "fingerprint"}
    BY DEF Instance
  <1> QED BY <1>2, <1>3

(* The results that a directory may hold, whole.                           *)
Told == {f \in Files : reports[ReportName(f)] # Absent}
WholeResults(f) == IF f \in Told THEN {Result(f, e) : e \in hits[f]} ELSE {}

LEMMA WholeReports ==
    ASSUME TypeOK, AllWhole, NEW x \in Directories, NEW f \in Files
    PROVE  /\ f \in Told => x[f] \in Orders(f)
           /\ f \notin Told => x[f] = <<>>
           /\ ToSet(x[f]) = WholeResults(f)
  <1>1. x[f] \in MayHold(f)
    BY DEF Directories
  <1>2. CASE f \in Told
    <2>1. reports[ReportName(f)] # Absent /\ reports[ReportName(f)].whole
      BY <1>2, NamesTyped DEF Told, AllWhole
    <2>2. x[f] \in Orders(f)
      BY <1>1, <2>1 DEF MayHold
    <2> QED BY <1>2, <2>2, OrdersAreSeqs DEF WholeResults
  <1>3. CASE f \notin Told
    <2>1. reports[ReportName(f)] = Absent
      BY <1>3 DEF Told
    <2>2. x[f] = <<>>
      BY <1>1, <2>1 DEF MayHold
    <2> QED BY <1>3, <2>2, NoneIsSeq DEF WholeResults
  <1> QED BY <1>2, <1>3

LoadedResults(f) == IF Torn \in WholeResults(f) THEN {} ELSE WholeResults(f)

LEMMA WholeLoads ==
    ASSUME TypeOK, AllWhole, NEW loaded \in AllLoads
    PROVE  /\ IsSeq(loaded)
           /\ ToSet(loaded) = UNION {LoadedResults(f) : f \in Files}
           /\ \A r \in ToSet(loaded) : \E f \in Files : \E e \in AllEntries : r = Result(f, e)
  <1>1. PICK x \in Directories : loaded \in Loads(x)
    BY DEF AllLoads
  <1>2. IsSeq(loaded) /\ ToSet(loaded) = UNION {ToSet(LoadFile(x[f])) : f \in Files}
    BY <1>1, LoadsAreSeqs
  <1>3. ASSUME NEW f \in Files PROVE ToSet(LoadFile(x[f])) = LoadedResults(f)
    <2>1. ToSet(x[f]) = WholeResults(f)
      BY <1>1, WholeReports
    <2> QED BY <2>1, NoneIsSeq DEF LoadFile, LoadedResults
  <1>4. ToSet(loaded) = UNION {LoadedResults(f) : f \in Files}
    BY <1>2, <1>3
  <1>5. ASSUME NEW f \in Files, NEW r \in LoadedResults(f)
        PROVE  \E e \in AllEntries : r = Result(f, e)
    BY FoundFinite DEF LoadedResults, WholeResults
  <1> QED BY <1>2, <1>4, <1>5

LEMMA ThreeWays ==
    ASSUME NEW K, IsFiniteSet(K), NEW f, NEW g, \A k \in K : f[k] \in Nat /\ g[k] \in Nat
    PROVE  Cardinality({k \in K : g[k] < f[k]}) + Cardinality({k \in K : g[k] > f[k]})
              + Cardinality({k \in K : g[k] = f[k]}) = Cardinality(K)
  <1> DEFINE A == {k \in K : g[k] < f[k]}
             B == {k \in K : g[k] > f[k]}
             C == {k \in K : g[k] = f[k]}
  <1>1. A \cap B = {} /\ (A \cup B) \cap C = {} /\ (A \cup B) \cup C = K
    BY SMT
  <1>2. A \subseteq K /\ B \subseteq K /\ C \subseteq K
    OBVIOUS
  <1> HIDE DEF A, B, C
  <1>3. /\ IsFiniteSet(A) /\ IsFiniteSet(B) /\ IsFiniteSet(C)
        /\ Cardinality(A) \in Nat /\ Cardinality(B) \in Nat /\ Cardinality(C) \in Nat
    BY <1>2, FS_Subset, FS_CardinalityType
  <1>4. IsFiniteSet(A \cup B) /\ Cardinality(A \cup B) = Cardinality(A) + Cardinality(B)
    <2>1. Cardinality(A \cap B) = 0
      BY <1>1, FS_EmptySet
    <2>2. /\ IsFiniteSet(A \cup B)
          /\ Cardinality(A \cup B) = Cardinality(A) + Cardinality(B) - Cardinality(A \cap B)
      BY <1>3, FS_Union
    <2> QED BY <1>3, <2>1, <2>2
  <1>5. Cardinality(K) = Cardinality(A \cup B) + Cardinality(C)
    <2> DEFINE D == A \cup B
    <2>1. D \cap C = {} /\ D \cup C = K /\ IsFiniteSet(D) /\ Cardinality(D) \in Nat
      BY <1>1, <1>4, FS_CardinalityType
    <2> HIDE DEF D
    <2>2. Cardinality(D \cap C) = 0
      BY <2>1, FS_EmptySet
    <2>3. Cardinality(D \cup C) = Cardinality(D) + Cardinality(C) - Cardinality(D \cap C)
      BY <1>3, <2>1, FS_Union
    <2>4. Cardinality(K) = Cardinality(D) + Cardinality(C)
      BY <1>3, <2>1, <2>2, <2>3
    <2> QED BY <2>4 DEF D
  <1> QED BY <1>3, <1>4, <1>5 DEF A, B, C

(* What SameRunCompares says of two listings, with one filter.             *)
ComparesAlike(first, second, o) ==
    LET c == Compare(first, second, o)
        results == ToSet(first)
    IN  /\ c.only_in_1 = {} /\ c.only_in_2 = {}
        /\ c.first.documents = c.second.documents
        /\ \A s \in DOMAIN c.documents : c.documents[s] = 0
        /\ c.improved + c.worsened + c.unchanged = Cardinality(c.in_both)
        /\ \A r \in OnlyIn(Compared(second, o), Compared(first, o)) :
              \E other \in results \ {r} : Key(other) = Key(r)

LEMMA ListedAlike ==
    ASSUME NEW first, NEW second, NEW o, IsSeq(first), IsSeq(second),
           ToSet(first) = ToSet(second),
           \A r \in ToSet(first) : r.contamination_score \in Nat
    PROVE  ComparesAlike(first, second, o)
  <1> DEFINE F1 == Filter(first, CompareOptions(o))
             F2 == Filter(second, CompareOptions(o))
             R == ToSet(F1)
             m1 == ByKey(F1)
             m2 == ByKey(F2)
             V1 == Values(m1)
             V2 == Values(m2)
             K == {Key(r) : r \in R}
             c == Compare(first, second, o)
  <1>1. IsSeq(F1) /\ IsSeq(F2) /\ ToSet(F2) = R /\ R \subseteq ToSet(first)
    <2> DEFINE p == CompareOptions(o)
    <2> HIDE DEF p
    <2>1. /\ IsSeq(Filter(first, p)) /\ IsSeq(Filter(second, p))
          /\ ToSet(Filter(first, p)) = {r \in ToSet(first) : Passes(r, p)}
          /\ ToSet(Filter(second, p)) = {r \in ToSet(second) : Passes(r, p)}
      BY FilterFacts
    <2>2. ToSet(Filter(second, p)) = ToSet(Filter(first, p))
      BY <2>1
    <2> QED BY <2>1, <2>2 DEF p
  <1>2. Compared(first, o) = m1 /\ Compared(second, o) = m2
    BY DEF Compared
  <1>3. /\ V1 \subseteq R /\ SameKeys(V1, R) /\ IsFiniteSet(V1)
        /\ DOMAIN m1 = K /\ IsFiniteSet(K) /\ \A k \in K : m1[k] \in R
    <2> HIDE DEF F1, F2
    <2> QED BY <1>1, KeptByKey
  <1>4. /\ V2 \subseteq R /\ SameKeys(V2, R)
        /\ DOMAIN m2 = K /\ \A k \in K : m2[k] \in R
    <2> HIDE DEF F1, F2
    <2> QED BY <1>1, KeptByKey
  <1>5. /\ c.only_in_1 = DOMAIN m1 \ DOMAIN m2 /\ c.only_in_2 = DOMAIN m2 \ DOMAIN m1
        /\ c.first.documents = Cardinality(Documents(V1))
        /\ c.second.documents = Cardinality(Documents(V2))
        /\ c.documents = Deltas(DocumentRows(V1), DocumentRows(V2))
        /\ c.in_both = DOMAIN m1 \cap DOMAIN m2
    BY <1>2 DEF Compare, Metrics
  <1>6. /\ c.improved = Cardinality({k \in DOMAIN m1 \cap DOMAIN m2 :
                                       m2[k].contamination_score < m1[k].contamination_score})
        /\ c.worsened = Cardinality({k \in DOMAIN m1 \cap DOMAIN m2 :
                                       m2[k].contamination_score > m1[k].contamination_score})
        /\ c.unchanged = Cardinality({k \in DOMAIN m1 \cap DOMAIN m2 :
                                        m2[k].contamination_score = m1[k].contamination_score})
    BY <1>2 DEF Compare
  <1> HIDE DEF F1, F2, R, m1, m2, V1, V2, K, c
  <1>7. Documents(V1) = Documents(R) /\ DocumentRows(V1) = DocumentRows(R)
        /\ Documents(V2) = Documents(R) /\ DocumentRows(V2) = DocumentRows(R)
    BY <1>3, <1>4, SameKeysAgree
  <1>8. c.only_in_1 = {} /\ c.only_in_2 = {} /\ c.first.documents = c.second.documents
        /\ c.in_both = K
    BY <1>3, <1>4, <1>5, <1>7
  <1>9. \A s \in DOMAIN c.documents : c.documents[s] = 0
    <2> DEFINE rows == DocumentRows(V1)
    <2>1. c.documents = Deltas(rows, rows)
      BY <1>5, <1>7
    <2>2. ASSUME NEW s \in DOMAIN rows PROVE rows[s] \in Nat
      <3>1. rows[s] = Cardinality(Documents(OfSuite(V1, s)))
        BY DEF DocumentRows
      <3> DEFINE W == OfSuite(V1, s)
                 doc == [r \in W |-> Document(r)]
      <3>2. IsFiniteSet(W)
        BY <1>3, FS_Subset DEF OfSuite
      <3>3. Documents(W) = {doc[r] : r \in W}
        BY DEF Documents
      <3> HIDE DEF W, doc
      <3>4. IsFiniteSet(Documents(W))
        BY <3>2, <3>3, ImageNumber
      <3> QED BY <3>1, <3>4, FS_CardinalityType DEF W
    <2> HIDE DEF rows
    <2>3. DOMAIN c.documents = DOMAIN rows
      BY <2>1 DEF Deltas
    <2>4. ASSUME NEW s \in DOMAIN rows PROVE c.documents[s] = rows[s] - rows[s]
      BY <2>1 DEF Deltas, Row
    <2> QED BY <2>2, <2>3, <2>4
  <1>10. c.improved + c.worsened + c.unchanged = Cardinality(c.in_both)
    <2> DEFINE f == [k \in K |-> m1[k].contamination_score]
               g == [k \in K |-> m2[k].contamination_score]
    <2>1. \A k \in K : f[k] \in Nat /\ g[k] \in Nat
      BY <1>1, <1>3, <1>4
    <2>2. /\ c.improved = Cardinality({k \in K : g[k] < f[k]})
          /\ c.worsened = Cardinality({k \in K : g[k] > f[k]})
          /\ c.unchanged = Cardinality({k \in K : g[k] = f[k]})
      <3>1. DOMAIN m1 \cap DOMAIN m2 = K
        BY <1>3, <1>4
      <3>2. /\ {k \in K : m2[k].contamination_score < m1[k].contamination_score}
                 = {k \in K : g[k] < f[k]}
            /\ {k \in K : m2[k].contamination_score > m1[k].contamination_score}
                 = {k \in K : g[k] > f[k]}
            /\ {k \in K : m2[k].contamination_score = m1[k].contamination_score}
                 = {k \in K : g[k] = f[k]}
        OBVIOUS
      <3> HIDE DEF f, g
      <3> QED BY <1>6, <3>1, <3>2
    <2> HIDE DEF f, g
    <2>3. Cardinality({k \in K : g[k] < f[k]}) + Cardinality({k \in K : g[k] > f[k]})
            + Cardinality({k \in K : g[k] = f[k]}) = Cardinality(K)
      BY <1>3, <2>1, ThreeWays
    <2> QED BY <1>8, <2>2, <2>3
  <1>11. ASSUME NEW r \in OnlyIn(m2, m1)
         PROVE  \E other \in ToSet(first) \ {r} : Key(other) = Key(r)
    <2>1. r \in V2 /\ \A s \in V1 : s.fingerprint # r.fingerprint
      BY DEF OnlyIn, V1, V2
    <2>2. PICK v \in V1 : Key(v) = Key(r)
      BY <1>3, <1>4, <2>1 DEF SameKeys
    <2>3. v # r /\ v \in ToSet(first)
      BY <1>1, <1>3, <2>1
    <2> QED BY <2>2, <2>3
  <1> QED BY <1>2, <1>8, <1>9, <1>10, <1>11, Zenon DEF ComparesAlike, c

LEMMA SameRunInvariant == TypeOK => SameRunCompares
  <1> SUFFICES ASSUME TypeOK, AllWhole PROVE SameRunCompares
    BY DEF SameRunCompares
  <1> DEFINE first == CHOOSE l \in AllLoads : TRUE
  <1>1. ASSUME NEW second \in AllLoads, NEW o \in Options PROVE ComparesAlike(first, second, o)
    <2>1. first \in AllLoads
      BY <1>1
    <2> HIDE DEF first
    <2>2. IsSeq(first) /\ IsSeq(second) /\ ToSet(first) = ToSet(second)
      BY <2>1, WholeLoads
    <2>3. ASSUME NEW r \in ToSet(first) PROVE r.contamination_score \in Nat
      <3>1. PICK f \in Files, e \in AllEntries : r = Result(f, e)
        BY <2>1, WholeLoads
      <3> QED BY <3>1, ResultFields
    <2> QED BY <2>2, <2>3, ListedAlike
  <1> QED BY <1>1, Zenon DEF SameRunCompares, ComparesAlike

-----------------------------------------------------------------------------
(* decon review tells the run. *)

(* A report that was finished is that of its file: the one thread that has *)
(* it open is the one that finishes it.                                    *)
WholeOwn == \A f \in Files : reports[ReportName(f)].whole => Reported(f)

LEMMA WholeOwnStep ==
    ASSUME Base, DistinctNames, DetectInv, WholeOwn, [Next]_vars
    PROVE  WholeOwn'
  <1>1. ASSUME UNCHANGED <<reports, hits>> PROVE WholeOwn'
    BY <1>1 DEF WholeOwn, Reported, Report
  <1>2. ASSUME NEW t \in Threads, pc[t] # "idle"
        PROVE  /\ file[t] \in Files /\ DetectHeld(t) /\ ReportName(file[t]) \in ReportNames
               /\ reports[ReportName(file[t])] \in Contents /\ reports \in [ReportNames -> Contents]
               /\ \A f \in Files \ {file[t]} : ReportName(f) # ReportName(file[t])
    BY <1>2, HeldTyped, HitsTyped DEF Base, TypeOK, DetectInv, DistinctNames
  <1>3. ASSUME NEW t \in Threads, OpenReport(t) PROVE WholeOwn'
    <2> DEFINE writers == {t} \cup Writing(t, "reporting", ReportName)
               opened == [by |-> {Report(file[u]) : u \in writers}, whole |-> FALSE]
    <2>1. pc[t] # "idle" /\ hits' = hits
      BY <1>3 DEF OpenReport
    <2>2. CASE reports' = [reports EXCEPT ![ReportName(file[t])] = opened]
      <3>1. reports'[ReportName(file[t])].whole = FALSE
        BY <1>2, <2>1, <2>2
      <3>2. \A f \in Files \ {file[t]} : reports'[ReportName(f)] = reports[ReportName(f)]
        BY <1>2, <2>1, <2>2, HitsTyped
      <3>3. ASSUME NEW f \in Files, reports'[ReportName(f)].whole
            PROVE  reports'[ReportName(f)] = [by |-> {<<f, LinesOf(hits'[f])>>}, whole |-> TRUE]
        <4>1. f # file[t]
          BY <3>1, <3>3
        <4>2. Reported(f)
          BY <3>2, <3>3, <4>1 DEF WholeOwn
        <4> QED BY <2>1, <3>2, <4>1, <4>2 DEF Reported, Report
      <3> QED BY <3>3 DEF WholeOwn, Reported, Report
    <2>3. CASE UNCHANGED reports
      BY <1>1, <2>1, <2>3
    <2> QED BY <1>3, <2>2, <2>3 DEF OpenReport
  <1>4. ASSUME NEW t \in Threads, FinishReport(t) PROVE WholeOwn'
    <2>1. pc[t] # "idle" /\ hits' = hits /\ Opened(file[t])
      <3>1. pc[t] = "reporting" /\ hits' = hits
        BY <1>4 DEF FinishReport
      <3> QED BY <1>2, <3>1 DEF DetectHeld
    <2>2. CASE reports' = [reports EXCEPT ![ReportName(file[t])].whole = TRUE]
      <3>1. reports'[ReportName(file[t])] = [reports[ReportName(file[t])] EXCEPT !.whole = TRUE]
        BY <1>2, <2>1, <2>2
      <3>2. reports'[ReportName(file[t])] = [by |-> {Report(file[t])}, whole |-> TRUE]
        <4>1. reports[ReportName(file[t])].by = {Report(file[t])}
          BY <2>1 DEF Opened
        <4> QED BY <1>2, <2>1, <3>1, <4>1, Finished
      <3>3. \A f \in Files \ {file[t]} : reports'[ReportName(f)] = reports[ReportName(f)]
        BY <1>2, <2>1, <2>2, HitsTyped
      <3>4. ASSUME NEW f \in Files, reports'[ReportName(f)].whole
            PROVE  reports'[ReportName(f)] = [by |-> {<<f, LinesOf(hits'[f])>>}, whole |-> TRUE]
        <4>1. CASE f = file[t]
          BY <2>1, <3>2, <4>1 DEF Report
        <4>2. CASE f # file[t]
          <5>1. Reported(f)
            BY <3>3, <3>4, <4>2 DEF WholeOwn
          <5> QED BY <2>1, <3>3, <4>2, <5>1 DEF Reported, Report
        <4> QED BY <4>1, <4>2
      <3> QED BY <3>4 DEF WholeOwn, Reported, Report
    <2>3. CASE UNCHANGED reports
      BY <1>1, <2>1, <2>3
    <2> QED BY <1>4, <2>2, <2>3 DEF FinishReport
  <1>5. ASSUME NEW t \in Threads,
               \/ BeginDetect(t) \/ Detect(t) \/ Count(t) \/ Record(t)
               \/ BeginPurify(t) \/ OpenPurified(t) \/ FinishPurified(t)
        PROVE  UNCHANGED <<reports, hits>>
    BY <1>5 DEF BeginDetect, Detect, Count, Record, BeginPurify, OpenPurified, FinishPurified
  <1>6. CASE EndDetection \/ EndPurify \/ UNCHANGED vars
    BY <1>1, <1>6 DEF EndDetection, EndPurify, vars
  <1> QED BY <1>1, <1>3, <1>4, <1>5, <1>6 DEF Next, Thread

LEMMA WholeOwnInit == Init => WholeOwn
  <1> SUFFICES ASSUME Init PROVE WholeOwn
    OBVIOUS
  <1>1. \A f \in Files : reports[ReportName(f)].whole = FALSE
    BY HitsTyped, BatchInit DEF Init, Absent
  <1> QED BY <1>1 DEF WholeOwn

(* A file with a report of its own gives its results, each once.           *)
LEMMA ReportedFile ==
    ASSUME TypeOK, NEW x \in Directories, NEW f \in Files, Reported(f)
    PROVE  /\ x[f] \in Orders(f) /\ LoadFile(x[f]) = x[f]
           /\ Documents(ToSet(LoadFile(x[f]))) = {<<BaseName(f), l>> : l \in LinesOf(hits[f])}
  <1>1. reports[ReportName(f)].whole = TRUE /\ reports[ReportName(f)] # Absent
    BY DEF Reported, Absent
  <1>2. x[f] \in MayHold(f)
    BY DEF Directories
  <1>3. x[f] \in Orders(f)
    BY <1>1, <1>2 DEF MayHold
  <1>4. ToSet(x[f]) = {Result(f, e) : e \in hits[f]}
    BY <1>3, OrdersAreSeqs
  <1>5. Torn \notin ToSet(x[f])
    BY <1>4, FoundFinite, TornAssumption
  <1>6. LoadFile(x[f]) = x[f]
    BY <1>5 DEF LoadFile
  <1>7. \A e \in hits[f] : Document(Result(f, e)) = <<BaseName(f), e[1]>>
    BY FoundFinite, ResultFields DEF Document
  <1>8. Documents(ToSet(x[f])) = {Document(Result(f, e)) : e \in hits[f]}
    BY <1>4 DEF Documents
  <1>9. Documents(ToSet(x[f])) = {<<BaseName(f), l>> : l \in LinesOf(hits[f])}
    BY <1>7, <1>8 DEF LinesOf
  <1> QED BY <1>3, <1>6, <1>9

(* Whatever is loaded is a result of the run.                              *)
LEMMA LoadedAreResults ==
    ASSUME TypeOK, NEW x \in Directories, NEW f \in Files, NEW r \in ToSet(LoadFile(x[f]))
    PROVE  \E e \in AllEntries : r = Result(f, e)
  <1>1. r \in ToSet(x[f]) /\ Torn \notin ToSet(x[f])
    BY NoneIsSeq DEF LoadFile
  <1>2. x[f] \in MayHold(f)
    BY DEF Directories
  <1>3. x[f] # <<>> /\ x[f] # <<Torn>>
    BY <1>1, NoneIsSeq, OneIsSeq
  <1>4. ASSUME NEW s \in Orders(f), ToSet(x[f]) \subseteq ToSet(s)
        PROVE  \E e \in AllEntries : r = Result(f, e)
    <2>1. r \in {Result(f, e) : e \in hits[f]}
      BY <1>1, <1>4, OrdersAreSeqs
    <2> QED BY <2>1, FoundFinite
  <1>5. CASE x[f] \in Orders(f)
    BY <1>4, <1>5
  <1>6. CASE \E s \in Orders(f) : \E n \in 0 .. Len(s) : x[f] = SubSeq(s, 1, n)
    <2>1. PICK s \in Orders(f) : \E n \in 0 .. Len(s) : x[f] = SubSeq(s, 1, n)
      BY <1>6
    <2>2. PICK n \in 0 .. Len(s) : x[f] = SubSeq(s, 1, n)
      BY <2>1
    <2>3. IsSeq(s) /\ Len(s) \in Nat
      BY OrdersAreSeqs, SeqFacts
    <2>4. s \in Seq(ToSet(s)) /\ \A i \in 1 .. n : s[i] \in ToSet(s)
      BY <2>3, SeqFacts DEF IsSeq
    <2>5. SubSeq(s, 1, n) \in Seq(ToSet(s))
      BY <2>3, <2>4, SubSeqProperties
    <2>6. ToSet(x[f]) \subseteq ToSet(s)
      <3> DEFINE S == ToSet(s)
                 y == x[f]
      <3>1. y \in Seq(S)
        BY <2>2, <2>5
      <3> HIDE DEF S, y
      <3>2. \A i \in DOMAIN y : y[i] \in S
        BY <3>1
      <3>3. ToSet(y) \subseteq S
        BY <3>2 DEF ToSet
      <3> QED BY <3>3 DEF S, y
    <2> QED BY <1>4, <2>6
  <1> QED BY <1>2, <1>3, <1>5, <1>6 DEF MayHold

(* What was reported: the files, what was found in them, and their lines.  *)
Reporting == {f \in Files : Reported(f)}
ReportedEntries == {p \in Reporting \X AllEntries : p[2] \in hits[p[1]]}
ReportedLines == {p \in Reporting \X AllLines : p[2] \in LinesOf(hits[p[1]])}
ReportedDocuments == UNION {{<<BaseName(f), l>> : l \in LinesOf(hits[f])} : f \in Reporting}

(* The results of the finished reports, by file and position.              *)
ReportedPlaces(x) == {p \in LoadedPlaces(Files, x) : p[1] \in Reporting}

LEMMA SilentFile ==
    ASSUME TypeOK, AllWhole, WholeOwn, NEW x \in Directories, NEW f \in Files \ Reporting
    PROVE  x[f] = <<>> /\ LoadFile(x[f]) = <<>>
  <1>1. reports[ReportName(f)] = Absent
    BY NamesTyped DEF AllWhole, WholeOwn, Reporting
  <1>2. x[f] = <<>>
    BY <1>1, WholeReports DEF Told
  <1> QED BY <1>2, NoneIsSeq DEF LoadFile

LEMMA EntriesLoaded ==
    ASSUME TypeOK, NEW x \in Directories, IsFiniteSet(LoadedPlaces(Files, x))
    PROVE  /\ IsFiniteSet(ReportedPlaces(x))
           /\ Cardinality(ReportedEntries) = Cardinality(ReportedPlaces(x))
  <1> DEFINE order == [f \in Reporting |->
                         CHOOSE s \in SetToSeqs(hits[f]) : x[f] = [k \in DOMAIN s |-> Result(f, s[k])]]
             at == [p \in ReportedPlaces(x) |-> <<p[1], order[p[1]][p[2]]>>]
             n(f) == Cardinality(hits[f])
  <1>1. ASSUME NEW f \in Reporting
        PROVE  /\ OneToOne(order[f], 1 .. n(f), hits[f])
               /\ Len(LoadFile(x[f])) = n(f) /\ hits[f] \subseteq AllEntries
               /\ n(f) \in Nat /\ f \in Files
    <2>1. f \in Files /\ Reported(f)
      BY DEF Reporting
    <2>2. x[f] \in Orders(f) /\ LoadFile(x[f]) = x[f]
      BY <2>1, ReportedFile
    <2>3. IsFiniteSet(hits[f]) /\ hits[f] \subseteq AllEntries
      BY <2>1, FoundFinite
    <2>4. \E s \in SetToSeqs(hits[f]) : x[f] = [k \in DOMAIN s |-> Result(f, s[k])]
      BY <2>2 DEF Orders
    <2>5. order[f] \in SetToSeqs(hits[f])
      BY <2>4
    <2>6. Len(x[f]) = n(f)
      BY <2>1, <2>2, OrdersAreSeqs
    <2> HIDE DEF order
    <2> QED BY <2>1, <2>2, <2>3, <2>5, <2>6, ListingFacts
  <1> HIDE DEF order, n
  <1>2. ASSUME NEW p \in ReportedPlaces(x)
        PROVE  /\ p = <<p[1], p[2]>> /\ p[1] \in Reporting /\ p[2] \in 1 .. n(p[1])
               /\ at[p] = <<p[1], order[p[1]][p[2]]>>
    <2>1. p \in LoadedPlaces(Files, x) /\ p[1] \in Reporting
      BY DEF ReportedPlaces
    <2>2. p \in Files \X Nat /\ p[2] \in 1 .. Len(LoadFile(x[p[1]]))
      BY <2>1 DEF LoadedPlaces
    <2>3. p[2] \in 1 .. n(p[1])
      BY <1>1, <2>1, <2>2
    <2> QED BY <2>1, <2>2, <2>3
  <1>3. ASSUME NEW f \in Reporting, NEW k \in 1 .. n(f)
        PROVE  <<f, k>> \in ReportedPlaces(x)
    <2>1. f \in Files /\ k \in 1 .. Len(LoadFile(x[f])) /\ k \in Nat
      BY <1>1
    <2>2. <<f, k>> \in LoadedPlaces(Files, x)
      BY <2>1 DEF LoadedPlaces
    <2> QED BY <2>2 DEF ReportedPlaces
  <1> HIDE DEF at
  <1>4. \A p \in ReportedPlaces(x) : at[p] \in ReportedEntries
    <2>1. ASSUME NEW p \in ReportedPlaces(x) PROVE at[p] \in ReportedEntries
      <3>1. order[p[1]][p[2]] \in hits[p[1]] /\ p[1] \in Reporting
        BY <1>1, <1>2 DEF OneToOne
      <3>2. order[p[1]][p[2]] \in AllEntries
        BY <1>1, <3>1
      <3> QED BY <1>2, <3>1, <3>2 DEF ReportedEntries
    <2> QED BY <2>1
  <1>5. ASSUME NEW p \in ReportedPlaces(x), NEW q \in ReportedPlaces(x), at[p] = at[q]
        PROVE  p = q
    <2>1. p[1] = q[1] /\ order[p[1]][p[2]] = order[p[1]][q[2]]
      BY <1>2, <1>5
    <2>2. p[1] \in Reporting /\ p[2] \in 1 .. n(p[1]) /\ q[2] \in 1 .. n(p[1])
      BY <1>2, <2>1
    <2>3. p[2] = q[2]
      BY <1>1, <2>1, <2>2 DEF OneToOne
    <2> QED BY <1>2, <2>1, <2>3
  <1>6. ASSUME NEW z \in ReportedEntries PROVE \E p \in ReportedPlaces(x) : at[p] = z
    <2>1. z = <<z[1], z[2]>> /\ z[1] \in Reporting /\ z[2] \in hits[z[1]]
      BY DEF ReportedEntries
    <2>2. PICK k \in 1 .. n(z[1]) : order[z[1]][k] = z[2]
      BY <1>1, <2>1 DEF OneToOne
    <2>3. <<z[1], k>> \in ReportedPlaces(x)
      BY <1>3, <2>1
    <2>4. at[<<z[1], k>>] = <<z[1], order[z[1]][k]>>
      BY <1>2, <2>3
    <2> QED BY <2>1, <2>2, <2>3, <2>4
  <1>7. OneToOne(at, ReportedPlaces(x), ReportedEntries)
    BY <1>4, <1>5, <1>6 DEF OneToOne
  <1>8. IsFiniteSet(ReportedPlaces(x))
    BY FS_Subset DEF ReportedPlaces
  <1> QED BY <1>7, <1>8, SameNumber

LEMMA LinesLoaded ==
    ASSUME TypeOK, DistinctNames, IsFiniteSet(ReportedDocuments)
    PROVE  Cardinality(ReportedLines) = Cardinality(ReportedDocuments)
  <1> DEFINE own == [b \in BaseNames |-> CHOOSE f \in Files : BaseName(f) = b]
             at == [d \in ReportedDocuments |-> <<own[d[1]], d[2]>>]
  <1>1. ASSUME NEW f \in Files PROVE own[BaseName(f)] = f
    <2>1. own[BaseName(f)] = CHOOSE g \in Files : BaseName(g) = BaseName(f)
      BY NamesTyped
    <2>2. \A g \in Files : BaseName(g) = BaseName(f) => g = f
      BY DEF DistinctNames
    <2> HIDE DEF own
    <2> QED BY <2>1, <2>2
  <1> HIDE DEF own
  <1>2. ASSUME NEW d \in ReportedDocuments
        PROVE  \E f \in Reporting : d = <<BaseName(f), d[2]>> /\ d[2] \in LinesOf(hits[f])
                                    /\ at[d] = <<f, d[2]>>
    <2>1. PICK f \in Reporting : d \in {<<BaseName(f), l>> : l \in LinesOf(hits[f])}
      BY DEF ReportedDocuments
    <2>2. PICK l \in LinesOf(hits[f]) : d = <<BaseName(f), l>>
      BY <2>1
    <2>3. f \in Files /\ d[1] = BaseName(f) /\ d[2] = l
      BY <2>2 DEF Reporting
    <2>4. at[d] = <<own[d[1]], d[2]>>
      OBVIOUS
    <2> HIDE DEF at
    <2> QED BY <1>1, <2>2, <2>3, <2>4
  <1>3. ASSUME NEW f \in Reporting, NEW l \in LinesOf(hits[f])
        PROVE  <<BaseName(f), l>> \in ReportedDocuments /\ at[<<BaseName(f), l>>] = <<f, l>>
    <2>1. <<BaseName(f), l>> \in ReportedDocuments /\ f \in Files
      BY DEF ReportedDocuments, Reporting
    <2>2. at[<<BaseName(f), l>>] = <<own[BaseName(f)], l>>
      BY <2>1
    <2> HIDE DEF at
    <2> QED BY <1>1, <2>1, <2>2
  <1> HIDE DEF at
  <1>4. OneToOne(at, ReportedDocuments, ReportedLines)
    <2>1. ASSUME NEW d \in ReportedDocuments PROVE at[d] \in ReportedLines
      <3>1. PICK f \in Reporting : d = <<BaseName(f), d[2]>> /\ d[2] \in LinesOf(hits[f])
                                   /\ at[d] = <<f, d[2]>>
        BY <1>2
      <3>2. f \in Files
        BY DEF Reporting
      <3>3. d[2] \in AllLines
        BY <3>1, <3>2, HitsTyped
      <3> QED BY <3>1, <3>3 DEF ReportedLines
    <2>2. \A d, e \in ReportedDocuments : at[d] = at[e] => d = e
      BY <1>2
    <2>3. ASSUME NEW p \in ReportedLines PROVE \E d \in ReportedDocuments : at[d] = p
      <3>1. p = <<p[1], p[2]>> /\ p[1] \in Reporting /\ p[2] \in LinesOf(hits[p[1]])
        BY DEF ReportedLines
      <3> QED BY <1>3, <3>1
    <2> QED BY <2>1, <2>2, <2>3 DEF OneToOne
  <1> QED BY <1>4, SameNumber

(* The rows of --dataset-counts divide the documents by the directory.     *)
LEMMA DatasetsAddUp ==
    ASSUME TypeOK, DistinctNames, AllWhole, WholeOwn, NEW x \in Directories,
           IsFiniteSet(ReportedDocuments)
    PROVE  SumOfRows(DatasetCounts(x, [f \in Files |-> f.dir])) = Cardinality(ReportedDocuments)
  <1> DEFINE dir == [f \in Files |-> f.dir]
             S == {dir[f] : f \in Files}
             own == [b \in BaseNames |-> CHOOSE f \in Files : BaseName(f) = b]
             class == [e \in ReportedDocuments |-> dir[own[e[1]]]]
             rows == DatasetCounts(x, dir)
             D(f) == Documents(ToSet(LoadFile(x[f])))
  <1>1. ASSUME NEW f \in Files PROVE own[BaseName(f)] = f
    <2>1. own[BaseName(f)] = CHOOSE g \in Files : BaseName(g) = BaseName(f)
      BY NamesTyped
    <2>2. \A g \in Files : BaseName(g) = BaseName(f) => g = f
      BY DEF DistinctNames
    <2> HIDE DEF own
    <2> QED BY <2>1, <2>2
  <1>2. DOMAIN x = Files /\ DOMAIN rows = S
    BY DEF Directories, DatasetCounts
  <1>3. ASSUME NEW s \in S
        PROVE  rows[s] = Cardinality(UNION {D(f) : f \in {g \in Files : dir[g] = s}})
    BY <1>2 DEF DatasetCounts
  <1>4. IsFiniteSet(S)
    <2> HIDE DEF dir
    <2> QED BY FilesAssumption, ImageNumber
  <1> HIDE DEF own, dir
  <1>5. ASSUME NEW f \in Files
        PROVE  /\ f \in Reporting => D(f) = {<<BaseName(f), l>> : l \in LinesOf(hits[f])}
               /\ f \notin Reporting => D(f) = {}
    <2>1. CASE f \in Reporting
      BY <2>1, ReportedFile DEF Reporting
    <2>2. CASE f \notin Reporting
      <3>1. ToSet(LoadFile(x[f])) = {}
        BY <2>2, SilentFile, NoneIsSeq
      <3> QED BY <2>2, <3>1 DEF Documents
    <2> QED BY <2>1, <2>2
  <1>6. ASSUME NEW f \in Files, NEW e \in D(f)
        PROVE  e \in ReportedDocuments /\ e[1] = BaseName(f)
    <2>1. f \in Reporting /\ e \in {<<BaseName(f), l>> : l \in LinesOf(hits[f])}
      BY <1>5, <1>6
    <2> HIDE DEF D
    <2> QED BY <2>1 DEF ReportedDocuments
  <1>7. ASSUME NEW e \in ReportedDocuments PROVE \E f \in Files : e \in D(f)
    <2>1. PICK f \in Reporting : e \in {<<BaseName(f), l>> : l \in LinesOf(hits[f])}
      BY DEF ReportedDocuments
    <2>2. f \in Files
      BY DEF Reporting
    <2> HIDE DEF D
    <2> QED BY <1>5, <2>1, <2>2
  <1> HIDE DEF D, rows
  <1>8. \A e \in ReportedDocuments : class[e] = dir[own[e[1]]]
    OBVIOUS
  <1> HIDE DEF class
  <1>9. ASSUME NEW f \in Files, NEW e \in D(f) PROVE class[e] = dir[f]
    BY <1>1, <1>6, <1>8
  <1>10. ASSUME NEW s \in S
         PROVE  rows[s] = Cardinality({e \in ReportedDocuments : class[e] = s})
    <2>1. UNION {D(f) : f \in {g \in Files : dir[g] = s}} = {e \in ReportedDocuments : class[e] = s}
      BY <1>6, <1>7, <1>9
    <2> QED BY <1>3, <2>1
  <1>11. \A e \in ReportedDocuments : class[e] \in S
    BY <1>7, <1>9
  <1> HIDE DEF S
  <1>12. IsRows(rows, S, ReportedDocuments, class)
    BY <1>2, <1>4, <1>10, <1>11 DEF IsRows
  <1>13. SumOfRows(rows) = Cardinality(ReportedDocuments)
    BY <1>12, RowsAddUp
  <1> QED BY <1>13 DEF rows, dir

(* What ReviewTellsRun says of one listing.                                *)
TellsRun(x, loaded) ==
    LET v == Review(loaded, NoFilter)
        removals == SumOfRows(DatasetCounts(x, [f \in Files |-> f.dir]))
    IN  /\ v.instances >= summary.contaminations /\ v.documents >= summary.lines
        /\ AllWhole => /\ v.instances = summary.contaminations
                       /\ v.documents = summary.lines /\ removals = summary.lines
        /\ SumOfRows(v.evals_by_suite) = v.evals
        /\ SumOfRows(v.histogram) = v.instances /\ v.filtered = 0

LEMMA ListingTellsRun ==
    ASSUME TypeOK, DistinctNames, WholeOwn, SummaryMatchesReports, phase # "detect",
           NEW x \in Directories, NEW loaded \in Loads(x)
    PROVE  TellsRun(x, loaded)
  <1> DEFINE F == Filter(loaded, NoFilter)
             R == ToSet(F)
             P == LoadedPlaces(Files, x)
             v == Review(loaded, NoFilter)
  <1>1. /\ IsSeq(loaded)
        /\ ToSet(loaded) = UNION {ToSet(LoadFile(x[f])) : f \in Files}
        /\ IsFiniteSet(P) /\ Len(loaded) = Cardinality(P)
    BY LoadsAreSeqs
  <1>2. \A r : Passes(r, NoFilter)
    BY DEF Passes, NoFilter
  <1>3. IsSeq(F) /\ R = ToSet(loaded) /\ Len(F) = Len(loaded)
    <2>1. R = {r \in ToSet(loaded) : Passes(r, NoFilter)}
      BY <1>1, FilterFacts
    <2> QED BY <1>1, <1>2, <2>1, FilterFacts
  <1>4. /\ v.instances = Len(F) /\ v.documents = Cardinality(Documents(R))
        /\ v.evals = Cardinality(ReviewedEvals(R))
        /\ v.evals_by_suite = EvalRows(R, ReviewedEvals(R))
        /\ v.histogram = Histogram(F) /\ v.filtered = Len(loaded) - Len(F)
    BY DEF Review
  <1>5. IsFiniteSet(R) /\ Len(F) \in Nat
    <2> HIDE DEF F
    <2> QED BY <1>3, ListNumbers
  <1>6. summary.contaminations = Cardinality(ReportedEntries)
        /\ summary.lines = Cardinality(ReportedLines)
    BY DEF SummaryMatchesReports, ReportedEntries, ReportedLines, Reporting
  <1> HIDE DEF F, R, P, v
  <1>7. /\ IsFiniteSet(ReportedPlaces(x)) /\ ReportedPlaces(x) \subseteq P
        /\ Cardinality(ReportedEntries) = Cardinality(ReportedPlaces(x))
    BY <1>1, EntriesLoaded DEF P, ReportedPlaces
  <1>8. v.instances >= summary.contaminations
    <2>1. Cardinality(ReportedPlaces(x)) <= Cardinality(P)
      BY <1>1, <1>7, FS_Subset
    <2>2. Cardinality(ReportedPlaces(x)) \in Nat /\ Cardinality(P) \in Nat
      BY <1>1, <1>7, FS_CardinalityType
    <2> QED BY <1>1, <1>3, <1>4, <1>6, <1>7, <2>1, <2>2
  <1>9. IsFiniteSet(Documents(R)) /\ ReportedDocuments \subseteq Documents(R)
    <2>1. IsFiniteSet(Documents(R))
      <3> DEFINE doc == [r \in R |-> Document(r)]
      <3>1. Documents(R) = {doc[r] : r \in R}
        BY DEF Documents
      <3> HIDE DEF doc
      <3> QED BY <1>5, <3>1, ImageNumber
    <2>2. ASSUME NEW f \in Reporting, NEW d \in {<<BaseName(f), l>> : l \in LinesOf(hits[f])}
          PROVE  d \in Documents(R)
      <3>1. f \in Files /\ Reported(f)
        BY DEF Reporting
      <3>2. d \in Documents(ToSet(LoadFile(x[f])))
        BY <3>1, ReportedFile
      <3>3. ToSet(LoadFile(x[f])) \subseteq R
        BY <1>1, <1>3, <3>1
      <3> QED BY <3>2, <3>3 DEF Documents
    <2> QED BY <2>1, <2>2 DEF ReportedDocuments
  <1>10. /\ IsFiniteSet(ReportedDocuments)
         /\ Cardinality(ReportedDocuments) <= Cardinality(Documents(R))
         /\ summary.lines = Cardinality(ReportedDocuments)
    <2>1. IsFiniteSet(ReportedDocuments)
          /\ Cardinality(ReportedDocuments) <= Cardinality(Documents(R))
      BY <1>9, FS_Subset
    <2> QED BY <1>6, <2>1, LinesLoaded
  <1>11. v.documents >= summary.lines
    BY <1>4, <1>9, <1>10, FS_CardinalityType
  <1>12. ASSUME AllWhole
         PROVE  /\ v.instances = summary.contaminations /\ v.documents = summary.lines
                /\ SumOfRows(DatasetCounts(x, [f \in Files |-> f.dir])) = summary.lines
    <2>1. \A f \in Files \ Reporting : LoadFile(x[f]) = <<>>
      BY <1>12, SilentFile
    <2>2. ReportedPlaces(x) = P
      <3>1. ASSUME NEW p \in P PROVE p[1] \in Reporting
        <4>1. p[1] \in Files /\ p[2] \in 1 .. Len(LoadFile(x[p[1]]))
          BY DEF P, LoadedPlaces
        <4>2. LoadFile(x[p[1]]) # <<>>
          BY <4>1, NoneIsSeq
        <4> QED BY <2>1, <4>1, <4>2
      <3> QED BY <3>1 DEF P, ReportedPlaces
    <2>3. v.instances = summary.contaminations
      BY <1>1, <1>3, <1>4, <1>6, <1>7, <2>2
    <2>4. Documents(R) \subseteq ReportedDocuments
      <3>1. ASSUME NEW r \in R PROVE Document(r) \in ReportedDocuments
        <4>1. PICK f \in Files : r \in ToSet(LoadFile(x[f]))
          BY <1>1, <1>3
        <4>2. f \in Reporting
          BY <2>1, <4>1, NoneIsSeq
        <4>3. Document(r) \in Documents(ToSet(LoadFile(x[f])))
          BY <4>1 DEF Documents
        <4>4. Document(r) \in {<<BaseName(f), l>> : l \in LinesOf(hits[f])}
          BY <4>2, <4>3, ReportedFile DEF Reporting
        <4> QED BY <4>2, <4>4 DEF ReportedDocuments
      <3> QED BY <3>1 DEF Documents
    <2>5. Documents(R) = ReportedDocuments
      BY <1>9, <2>4
    <2>6. SumOfRows(DatasetCounts(x, [f \in Files |-> f.dir])) = Cardinality(ReportedDocuments)
      BY <1>10, <1>12, DatasetsAddUp
    <2> QED BY <1>4, <1>10, <2>3, <2>5, <2>6
  <1>13. SumOfRows(v.evals_by_suite) = v.evals
    BY <1>4, <1>5, EvalRowsAddUp
  <1>14. SumOfRows(v.histogram) = v.instances /\ v.filtered = 0
    <2>1. ASSUME NEW r \in R PROVE r.ngram_match_cnt \in Nat \ {0}
      <3>1. PICK f \in Files : r \in ToSet(LoadFile(x[f]))
        BY <1>1, <1>3
      <3>2. PICK e \in AllEntries : r = Result(f, e)
        BY <3>1, LoadedAreResults
      <3> QED BY <3>2, ResultFields
    <2>2. SumOfRows(Histogram(F)) = Len(F)
      BY <1>3, <2>1, HistogramAddsUp DEF R
    <2> QED BY <1>3, <1>4, <1>5, <2>2
  <1> QED BY <1>8, <1>11, <1>12, <1>13, <1>14, Zenon DEF TellsRun, v

-----------------------------------------------------------------------------
(* What a reader of the reports can rely on. *)

(* Of results with one key decon compare keeps one                         *)
(* (execute_compare collects into a map), and loses no document by it: its *)
(* documents are those of decon review, and the tables add up, for any     *)
(* number of files and results, in any order and with any filter, and      *)
(* wherever an error has cut a report off.                                 *)
THEOREM CollapseKeepsDocumentsHolds == Spec => []CollapseKeepsDocuments
  <1>1. TypeOK => CollapseKeepsDocuments
    BY CollapseInvariant
  <1> QED BY <1>1, TypeCorrect, PTL

(* Two runs with the same findings show no difference in decon compare     *)
(* (display_comparison_stats), in whatever order the results stand in a    *)
(* report and the files in the directory, and with any filter; a           *)
(* fingerprint is shown as new only for a result that shares its key.      *)
THEOREM SameRunComparesHolds == Spec => []SameRunCompares
  <1>1. TypeOK => SameRunCompares
    BY SameRunInvariant
  <1> QED BY <1>1, TypeCorrect, PTL

(* decon review shows the contaminations that decon detect has summed up,  *)
(* the lines that the copies lack and tables that add up                   *)
(* (review_contamination and display_ngram_match_distribution), for any    *)
(* number of files and threads, and after an error at least what was       *)
(* reported.                                                               *)
THEOREM ReviewTellsRunHolds ==
    ASSUME DistinctNames PROVE Spec => []ReviewTellsRun
  <1>1. Init => BatchInv /\ SumsInv /\ WholeOwn
    BY BatchInit, SumsInit, WholeOwnInit DEF BatchInv
  <1>2. BatchInv /\ SumsInv /\ WholeOwn /\ [Next]_vars => (BatchInv /\ SumsInv /\ WholeOwn)'
    BY BatchStep, SumsStep, WholeOwnStep DEF BatchInv, Base
  <1>3. BatchInv /\ SumsInv /\ WholeOwn => ReviewTellsRun
    <2> SUFFICES ASSUME BatchInv, SumsInv, WholeOwn, ReportsFinal PROVE ReviewTellsRun
      BY DEF ReviewTellsRun
    <2>1. TypeOK /\ SummaryMatchesReports
      BY DEF BatchInv, SumsInv
    <2>2. phase # "detect"
      BY DEF ReportsFinal
    <2>3. ASSUME NEW x \in Directories, NEW loaded \in Loads(x) PROVE TellsRun(x, loaded)
      BY <2>1, <2>2, ListingTellsRun
    <2> QED BY <2>3, Zenon DEF ReviewTellsRun, TellsRun
  <1> QED BY <1>1, <1>2, <1>3, PTL DEF Spec

-----------------------------------------------------------------------------
(* The refinement of DetectRun. *)

(* A file is left to be dealt with until its thread has brought it to its  *)
(* report, or to its copy.                                                 *)
LEMMA LeftStep ==
    ASSUME Base, Base', NEW t \in Threads, pc[t] # "idle", todo' = todo,
           \A u \in Threads \ {t} : pc'[u] = pc[u] /\ file'[u] = file[u]
    PROVE  /\ pc[t] \in AtWork /\ pc'[t] \in AtWork /\ file'[t] = file[t] => Left' = Left
           /\ pc[t] \notin AtWork /\ pc'[t] \notin AtWork => Left' = Left
           /\ pc[t] \in AtWork /\ pc'[t] \notin AtWork =>
                file[t] \in Left /\ Left' = Left \ {file[t]}
  <1>1. file[t] # NoFile /\ file[t] \notin todo
    BY HeldTyped DEF Base, Alone
  <1>2. \A u \in Threads \ {t} : file[u] # file[t]
    BY <1>1 DEF Base, Alone
  <1> QED BY <1>1, <1>2 DEF Left

LEMMA LeftBegin ==
    ASSUME Base, NEW t \in Threads, NEW place \in AtWork, Begin(t, place)
    PROVE  Left' = Left
  <1>1. PICK f \in todo : todo' = todo \ {f} /\ file' = [file EXCEPT ![t] = f]
    BY DEF Begin
  <1>2. /\ pc[t] = "idle" /\ pc' = [pc EXCEPT ![t] = place]
        /\ pc \in [Threads -> Places] /\ file \in [Threads -> Files \cup {NoFile}]
    BY DEF Begin, Goto, Base, TypeOK
  <1>3. "idle" \notin AtWork
    BY DEF AtWork
  <1>4. {u \in Threads : pc'[u] \in AtWork} = {u \in Threads : pc[u] \in AtWork} \cup {t}
    BY <1>2
  <1>5. {file'[u] : u \in {v \in Threads : pc'[v] \in AtWork}}
        = {file[u] : u \in {v \in Threads : pc[v] \in AtWork}} \cup {f}
    BY <1>1, <1>2, <1>3
  <1> QED BY <1>1, <1>5 DEF Left

(* The finished copy of a file. *)
CopyShown(f) == IF Copied(f).whole THEN Copied(f).by ELSE {}

LEMMA ReportRefines ==
    ASSUME BatchInv, BatchInv', DistinctNames, NEW t \in Threads, NEW f \in Files, f = file[t],
           Detect(t) \/ OpenReport(t) \/ FinishReport(t)
    PROVE  Run!Report(f) \/ UNCHANGED Run!rvars
  <1> USE DEF Goto, Idle, Fail
  <1>1. Base /\ Base' /\ TypeOK
    BY DEF BatchInv, Base
  <1>2. /\ pc[t] \in {"detect", "report", "reporting"} /\ todo' = todo
        /\ UNCHANGED <<hits, phase, purified, summary>>
        /\ \A u \in Threads \ {t} : pc'[u] = pc[u] /\ file'[u] = file[u]
        /\ pc'[t] \in {"idle", "report", "reporting", "count"}
        /\ pc'[t] # "idle" => file'[t] = f
    BY <1>1 DEF Detect, OpenReport, FinishReport, TypeOK
  <1>3. /\ phase = "detect" /\ pc[t] # "idle" /\ DetectHeld(t) /\ DetectHeld(t)'
        /\ \A g \in Files \ {f} : ReportName(g) # ReportName(f)
        /\ ReportName(f) \in ReportNames
    BY <1>1, <1>2, HitsTyped DEF BatchInv, Phases, Detecting, DetectInv, DistinctNames
  <1>4. /\ pc'[t] \in AtWork => Left' = Left
        /\ pc'[t] \notin AtWork => f \in Left /\ Left' = Left \ {f}
    <2>1. pc[t] \in AtWork
      BY <1>2 DEF AtWork
    <2>2. pc'[t] \in AtWork => file'[t] = file[t]
      BY <1>2 DEF AtWork
    <2> QED BY <1>1, <1>2, <1>3, <2>1, <2>2, LeftStep
  <1>5. \A g \in Files \ {f} : Reported(g)' <=> Reported(g)
    <2>1. \A g \in Files \ {f} : reports'[ReportName(g)] = reports[ReportName(g)]
      BY <1>1, <1>2, <1>3, HitsTyped DEF Detect, OpenReport, FinishReport, TypeOK
    <2> QED BY <1>2, <2>1 DEF Reported, Report
  <1>6. ~Reported(f)
    BY <1>2, <1>3 DEF DetectHeld, Untouched, Opened, Reported, Absent
  <1>7. /\ pc'[t] = "count" => Reported(f)'
        /\ pc'[t] \in {"report", "reporting"} => ~Reported(f)'
    <2>1. pc'[t] = "count" => Reported(f)'
      BY <1>2, <1>3 DEF DetectHeld
    <2>2. pc'[t] = "report" => reports'[ReportName(f)] = Absent
      BY <1>2, <1>3 DEF DetectHeld, Untouched
    <2>3. pc'[t] = "reporting" => reports'[ReportName(f)].whole = FALSE
      BY <1>2, <1>3 DEF DetectHeld, Opened
    <2> QED BY <2>1, <2>2, <2>3 DEF Reported, Absent
  <1>8. pc'[t] = "idle" => ~Reported(f)' /\ (hits[f] = {} \/ Faults)
    <2>1. pc'[t] = "idle" => reports' = reports /\ (hits[f] = {} \/ Faults)
      BY <1>1, <1>2 DEF Detect, OpenReport, FinishReport, TypeOK
    <2> QED BY <1>2, <1>6, <2>1 DEF Reported, Report
  <1>9. CASE pc'[t] = "count"
    <2>1. hits[f] # {}
      BY <1>1, <1>2, <1>3, <1>9 DEF Detect, OpenReport, FinishReport, DetectHeld, Detecting, TypeOK
    <2>2. {g \in Files : Reported(g)'} = {g \in Files : Reported(g)} \cup {f}
      BY <1>5, <1>7, <1>9
    <2>3. f \in Left /\ Left' = Left \ {f}
      BY <1>4, <1>9 DEF AtWork
    <2> QED BY <1>2, <1>3, <2>1, <2>2, <2>3 DEF Run!Report, Run!DealWith
  <1>10. CASE pc'[t] # "count"
    <2>1. {g \in Files : Reported(g)'} = {g \in Files : Reported(g)}
      BY <1>2, <1>5, <1>6, <1>7, <1>8, <1>10
    <2>2. CASE pc'[t] \in AtWork
      BY <1>2, <1>4, <2>1, <2>2 DEF Run!rvars
    <2>3. CASE pc'[t] \notin AtWork
      <3>1. f \in Left /\ Left' = Left \ {f} /\ (hits[f] = {} \/ Faults)
        BY <1>2, <1>4, <1>8, <1>10, <2>3 DEF AtWork
      <3> QED BY <1>2, <1>3, <2>1, <3>1 DEF Run!Report, Run!DealWith
    <2> QED BY <2>2, <2>3
  <1> QED BY <1>9, <1>10

LEMMA CopyRefines ==
    ASSUME BatchInv, BatchInv', Cleanable, NEW t \in Threads, NEW f \in Files, f = file[t],
           OpenPurified(t) \/ FinishPurified(t)
    PROVE  Run!Copy(f) \/ UNCHANGED Run!rvars
  <1> USE DEF Goto, Idle, Fail
  <1>1. Base /\ Base' /\ TypeOK /\ DistinctNames
    BY DEF BatchInv, Base, Cleanable
  <1>2. /\ pc[t] \in {"purify", "purifying"} /\ todo' = todo
        /\ UNCHANGED <<hits, phase, reports, contaminated, summary>>
        /\ \A u \in Threads \ {t} : pc'[u] = pc[u] /\ file'[u] = file[u]
        /\ pc'[t] \in {"idle", "purifying"}
        /\ pc'[t] # "idle" => file'[t] = f
    BY <1>1 DEF OpenPurified, FinishPurified, TypeOK
  <1>3. /\ phase = "purify" /\ pc[t] # "idle" /\ PurifyHeld(t) /\ PurifyHeld(t)'
        /\ \A g \in Files \ {f} : PurifiedName(g) # PurifiedName(f)
        /\ PurifiedName(f) \in PurifiedNames
    BY <1>1, <1>2, HitsTyped DEF BatchInv, Phases, Purifying, PurifyInv, DistinctNames
  <1>4. /\ pc'[t] \in AtWork => Left' = Left
        /\ pc'[t] \notin AtWork => f \in Left /\ Left' = Left \ {f}
    <2>1. pc[t] \in AtWork
      BY <1>2 DEF AtWork
    <2>2. pc'[t] \in AtWork => file'[t] = file[t]
      BY <1>2 DEF AtWork
    <2> QED BY <1>1, <1>2, <1>3, <2>1, <2>2, LeftStep
  <1>5. {g \in Files : Reported(g)'} = {g \in Files : Reported(g)}
    BY <1>2 DEF Reported, Report
  <1>6. \A g \in Files \ {f} : Copied(g)' = Copied(g)
    BY <1>1, <1>2, <1>3, HitsTyped DEF OpenPurified, FinishPurified, Copied, TypeOK
  <1>7. Copied(f).whole = FALSE
    BY <1>2, <1>3 DEF PurifyHeld, Copied, Absent
  <1>8. CASE pc'[t] = "purifying"
    <2>1. Copied(f)'.whole = FALSE
      BY <1>2, <1>3, <1>8 DEF PurifyHeld, Copied
    <2>2. \A g \in Files : CopyShown(g)' = CopyShown(g)
      BY <1>6, <1>7, <2>1 DEF CopyShown, Copied
    <2> QED BY <1>2, <1>4, <1>5, <1>8, <2>2 DEF Run!rvars, AtWork, CopyShown, Copied
  <1>9. CASE pc'[t] = "idle" /\ purified' = purified
    <2>1. Faults
      <3>1. CASE OpenPurified(t)
        BY <1>1, <1>9, <3>1 DEF OpenPurified, TypeOK
      <3>2. CASE FinishPurified(t)
        <4>1. ASSUME purified' = [purified EXCEPT ![PurifiedName(file[t])].whole = TRUE]
              PROVE  FALSE
          BY <1>1, <1>3, <1>7, <1>9, <4>1 DEF Copied, TypeOK, Contents
        <4> QED BY <3>2, <4>1 DEF FinishPurified
      <3> QED BY <3>1, <3>2
    <2>2. f \in Left /\ Left' = Left \ {f}
      BY <1>4, <1>9 DEF AtWork
    <2> QED BY <1>2, <1>3, <1>5, <1>9, <2>1, <2>2 DEF Run!Copy, Run!DealWith
  <1>10. CASE pc'[t] = "idle" /\ purified' # purified
    <2>1. /\ FinishPurified(t) /\ pc[t] = "purifying"
          /\ purified' = [purified EXCEPT ![PurifiedName(f)].whole = TRUE]
      BY <1>1, <1>10 DEF OpenPurified, FinishPurified, TypeOK
    <2>2. Copied(f)' = [by |-> {Copy(f)}, whole |-> TRUE]
      <3>1. Copied(f) \in Contents
        BY <1>1, <1>3 DEF Copied, TypeOK
      <3>2. Copied(f)' = [Copied(f) EXCEPT !.whole = TRUE]
        BY <1>1, <1>3, <2>1 DEF Copied, TypeOK
      <3>3. Copied(f).by = {Copy(f)}
        BY <1>3, <2>1 DEF PurifyHeld
      <3> QED BY <3>1, <3>2, <3>3, Finished
    <2>3. Copy(f) = <<f, IF Reported(f) THEN LinesOf(hits[f]) ELSE {}>>
      <3>1. Outcome(f)
        BY <1>3, OutcomeAfter
      <3> QED BY <3>1 DEF Copy, Packed, Cleanable, Outcome
    <2>4. CopyShown(f)' = {<<f, IF f \in {g \in Files : Reported(g)}
                                THEN Run!Lines(hits[f]) ELSE {}>>}
      BY <2>2, <2>3 DEF CopyShown, Run!Lines, LinesOf
    <2>5. \A g \in Files \ {f} : CopyShown(g)' = CopyShown(g)
      BY <1>6 DEF CopyShown
    <2>6. [g \in Files |-> CopyShown(g)']
          = [[g \in Files |-> CopyShown(g)] EXCEPT ![f] =
               {<<f, IF f \in {g \in Files : Reported(g)}
                     THEN Run!Lines(hits[f]) ELSE {}>>}]
      BY <2>4, <2>5
    <2>7. f \in Left /\ Left' = Left \ {f}
      BY <1>4, <1>10 DEF AtWork
    <2> QED BY <1>2, <1>3, <1>5, <2>6, <2>7 DEF Run!Copy, Run!DealWith, CopyShown, Copied
  <1> QED BY <1>2, <1>8, <1>9, <1>10

(* The sums, with the pairs of all files put together. *)
LEMMA SumsAlike ==
    ASSUME TypeOK, NEW R \in SUBSET Files
    PROVE  Run!Sums(R) =
             [contaminations |-> Cardinality({p \in R \X AllEntries : p[2] \in hits[p[1]]}),
              documents      |-> Cardinality(R),
              lines          |-> Cardinality({p \in R \X AllLines : p[2] \in LinesOf(hits[p[1]])})]
  <1>1. \A f \in R : hits[f] \subseteq AllEntries /\ LinesOf(hits[f]) \subseteq AllLines
                     /\ Run!Lines(hits[f]) = LinesOf(hits[f])
    BY FoundFinite, HitsTyped DEF Run!Lines, LinesOf
  <1>2. UNION {{f} \X hits[f] : f \in R} = {p \in R \X AllEntries : p[2] \in hits[p[1]]}
    BY <1>1
  <1>3. UNION {{f} \X Run!Lines(hits[f]) : f \in R}
        = {p \in R \X AllLines : p[2] \in LinesOf(hits[p[1]])}
    <2>1. \A f \in R : {f} \X Run!Lines(hits[f]) = {f} \X LinesOf(hits[f])
      BY <1>1
    <2>2. UNION {{f} \X LinesOf(hits[f]) : f \in R}
          = {p \in R \X AllLines : p[2] \in LinesOf(hits[p[1]])}
      BY <1>1
    <2> QED BY <2>1, <2>2
  <1>4. \A S : Run!Cardinality(S) = Cardinality(S)
    BY DEF Run!Cardinality, Cardinality
  <1> QED BY <1>2, <1>3, <1>4 DEF Run!Sums

LEMMA ShowRefines ==
    ASSUME BatchInv, (SumsInv)', EndDetection
    PROVE  Run!Show
  <1>1. /\ phase = "detect" /\ todo = {} /\ AllIdle
        /\ UNCHANGED <<hits, pc, file, reports, purified>>
        /\ phase' = (IF Purify THEN "purify" ELSE "done")
        /\ todo' = (IF Purify THEN Files ELSE todo)
    BY DEF EndDetection
  <1>2. Left = todo /\ Left' = todo'
    BY <1>1 DEF Left, AllIdle, AtWork
  <1>3. {f \in Files : Reported(f)'} = {f \in Files : Reported(f)}
    BY <1>1 DEF Reported, Report
  <1>4. summary' = Run!Sums({f \in Files : Reported(f)})
    <2>1. SummaryMatchesReports' /\ phase' # "detect"
      BY <1>1 DEF SumsInv
    <2> QED BY <1>1, <1>3, <2>1, SumsAlike DEF SummaryMatchesReports, BatchInv
  <1> QED BY <1>1, <1>2, <1>3, <1>4 DEF Run!Show

LEMMA FinishRefines ==
    ASSUME EndPurify
    PROVE  Run!Finish
  <1>1. /\ phase = "purify" /\ phase' = "done" /\ todo = {} /\ AllIdle
        /\ UNCHANGED <<hits, todo, pc, file, reports, purified, summary>>
    BY DEF EndPurify
  <1>2. Left = {} /\ Left' = Left
    BY <1>1 DEF Left, AllIdle, AtWork
  <1>3. {f \in Files : Reported(f)'} = {f \in Files : Reported(f)}
    BY <1>1 DEF Reported, Report
  <1> QED BY <1>1, <1>2, <1>3 DEF Run!Finish

(* Detection over many threads looks like one in which every file is dealt *)
(* with once, alone and at one moment (detect_simple_contamination and     *)
(* create_purified_files_streaming): reports finish before the sums are    *)
(* shown, the sums before the first copy, and no step on one file shows in *)
(* what is known of another, for any number of files and threads and       *)
(* wherever an error strikes.                                              *)
THEOREM DetectBatchImplements ==
    ASSUME Cleanable PROVE Spec => ImplementsRun
  <1>1. DistinctNames
    BY DEF Cleanable
  <1>2. Init => Run!RunInit /\ BatchInv /\ SumsInv
    <2> SUFFICES ASSUME Init PROVE Run!RunInit
      BY BatchInit, SumsInit DEF BatchInv
    <2>1. \A f \in Files : ~Reported(f) /\ Copied(f).whole = FALSE
      BY HitsTyped, BatchInit DEF Init, Reported, Copied, Absent
    <2>2. Left = Files
      BY DEF Init, Left, AtWork
    <2> QED BY <2>1, <2>2 DEF Init, Run!RunInit, Copied
  <1>3. BatchInv /\ SumsInv /\ [Next]_vars => (BatchInv /\ SumsInv)'
    BY <1>1, BatchStep, SumsStep
  <1>4. BatchInv /\ (BatchInv /\ SumsInv)' /\ [Next]_vars => [Run!RunNext]_(Run!rvars)
    <2> SUFFICES ASSUME BatchInv, BatchInv', SumsInv', [Next]_vars
                 PROVE  Run!RunNext \/ UNCHANGED Run!rvars
      BY DEF Run!rvars
    <2>1. ASSUME NEW t \in Threads, BeginDetect(t) \/ BeginPurify(t)
          PROVE  UNCHANGED Run!rvars
      <3>1. Left' = Left
        BY <2>1, LeftBegin DEF BeginDetect, BeginPurify, AtWork, BatchInv, Base
      <3>2. UNCHANGED <<hits, reports, purified, phase, summary>>
        BY <2>1 DEF BeginDetect, BeginPurify
      <3>3. {f \in Files : Reported(f)'} = {f \in Files : Reported(f)}
        BY <3>2 DEF Reported, Report
      <3> QED BY <3>1, <3>2, <3>3 DEF Run!rvars
    <2>2. ASSUME NEW t \in Threads, Count(t) \/ Record(t)
          PROVE  UNCHANGED Run!rvars
      <3>1. /\ pc[t] # "idle" /\ pc[t] \notin AtWork /\ pc'[t] \notin AtWork /\ todo' = todo
            /\ \A u \in Threads \ {t} : pc'[u] = pc[u] /\ file'[u] = file[u]
        BY <2>2 DEF Count, Record, Goto, Idle, AtWork, BatchInv, TypeOK
      <3>2. Left' = Left
        BY <3>1, LeftStep DEF BatchInv, Base
      <3>3. UNCHANGED <<hits, reports, purified, phase, summary>>
        BY <2>2 DEF Count, Record
      <3>4. {f \in Files : Reported(f)'} = {f \in Files : Reported(f)}
        BY <3>3 DEF Reported, Report
      <3> QED BY <3>2, <3>3, <3>4 DEF Run!rvars
    <2>3. ASSUME NEW t \in Threads, pc[t] # "idle" PROVE file[t] \in Files
      BY <2>3, HeldTyped DEF BatchInv
    <2>4. ASSUME NEW t \in Threads, Detect(t) \/ OpenReport(t) \/ FinishReport(t)
          PROVE  Run!RunNext \/ UNCHANGED Run!rvars
      <3>1. file[t] \in Files
        BY <2>3, <2>4 DEF Detect, OpenReport, FinishReport
      <3> QED BY <1>1, <2>4, <3>1, ReportRefines DEF Run!RunNext
    <2>5. ASSUME NEW t \in Threads, OpenPurified(t) \/ FinishPurified(t)
          PROVE  Run!RunNext \/ UNCHANGED Run!rvars
      <3>1. file[t] \in Files
        BY <2>3, <2>5 DEF OpenPurified, FinishPurified
      <3> QED BY <2>5, <3>1, CopyRefines DEF Run!RunNext
    <2>6. CASE UNCHANGED vars
      <3>1. UNCHANGED <<hits, todo, pc, file, reports, purified, phase, summary>>
        BY <2>6 DEF vars
      <3>2. Left' = Left /\ {f \in Files : Reported(f)'} = {f \in Files : Reported(f)}
        BY <3>1 DEF Left, Reported, Report
      <3> QED BY <3>1, <3>2 DEF Run!rvars
    <2> QED BY <2>1, <2>2, <2>4, <2>5, <2>6, ShowRefines, FinishRefines
            DEF Next, Thread, Run!RunNext
  <1> QED BY <1>2, <1>3, <1>4, PTL DEF Spec, ImplementsRun, Run!RunSpec

=============================================================================
