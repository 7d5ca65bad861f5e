----------------------------- MODULE JobService -----------------------------
(***************************************************************************)
(* What a client of the detection server may rely on: the answers of       *)
(* GET /status/:job_id and the files that appear in the output             *)
(* directories, without queue, workers or handlers.                        *)
(* server/core.rs implements it; JobServer.tla is shown to refine it, and  *)
(* Orchestrator.tla uses it as its picture of the server.                  *)
(***************************************************************************)
EXTENDS FiniteSets

CONSTANTS
    Jobs,        \* job ids, one per POST /submit (Uuid::new_v4, never reused)
    Purify       \* config.purify

VARIABLES
    issued,      \* ids ever returned to, or allocated for, a client
    reply,       \* what GET /status/:job_id answers for each id
    disk         \* the two output files of a job: absent, being written, whole

svars == <<issued, reply, disk>>

Kinds == {"report", "purified"}
FileStates == {"none", "partial", "whole"}

NotFound    == [status |-> "not found",  paths |-> {}]
Pending     == [status |-> "pending",    paths |-> {}]
Processing  == [status |-> "processing", paths |-> {}]
Failed      == [status |-> "failed",     paths |-> {}]
Completed(paths) == [status |-> "completed", paths |-> paths]

Replies == {NotFound, Pending, Processing, Failed}
             \cup {Completed(paths) : paths \in SUBSET Kinds}

Terminal(r) == r.status \in {"completed", "failed"}

ServiceTypeOK ==
    /\ issued \in SUBSET Jobs
    /\ reply \in [Jobs -> Replies]
    /\ disk \in [Jobs -> [Kinds -> FileStates]]

-----------------------------------------------------------------------------

ServiceInit ==
    /\ issued = {}
    /\ reply = [j \in Jobs |-> NotFound]
    /\ disk = [j \in Jobs |-> [k \in Kinds |-> "none"]]

Accept(j) ==
    /\ j \notin issued
    /\ issued' = issued \cup {j}
    /\ reply' = [reply EXCEPT ![j] = Pending]
    /\ UNCHANGED disk

Start(j) ==
    /\ reply[j] = Pending
    /\ reply' = [reply EXCEPT ![j] = Processing]
    /\ UNCHANGED <<issued, disk>>

(* A file is created, then filled; it is never reopened. *)
Write(j, k) ==
    /\ reply[j] = Processing
    /\ \/ disk[j][k] = "none" /\ disk' = [disk EXCEPT ![j][k] = "partial"]
       \/ disk[j][k] = "partial" /\ disk' = [disk EXCEPT ![j][k] = "whole"]
    /\ UNCHANGED <<issued, reply>>

(* A completed job names exactly the files it wrote, all of them whole, and *)
(* the purified file is among them when the server purifies.                *)
Complete(j) ==
    /\ reply[j] = Processing
    /\ \A k \in Kinds : disk[j][k] # "partial"
    /\ (disk[j]["purified"] = "whole") <=> Purify
    /\ reply' = [reply EXCEPT
                   ![j] = Completed({k \in Kinds : disk[j][k] = "whole"})]
    /\ UNCHANGED <<issued, disk>>

Fail(j) ==
    /\ reply[j] = Processing
    /\ reply' = [reply EXCEPT ![j] = Failed]
    /\ UNCHANGED <<issued, disk>>

(* The job table lives in memory only: a new server process knows no job. *)
Forget ==
    /\ reply' = [j \in Jobs |-> NotFound]
    /\ UNCHANGED <<issued, disk>>

ServiceNext ==
    \/ \E j \in Jobs : Accept(j) \/ Start(j) \/ Complete(j) \/ Fail(j)
    \/ \E j \in Jobs, k \in Kinds : Write(j, k)
    \/ Forget

ServiceSpec == ServiceInit /\ [][ServiceNext]_svars

=============================================================================
