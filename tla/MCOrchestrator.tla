--------------------------- MODULE MCOrchestrator ---------------------------
(* Instances of Orchestrator for TLC. *)
EXTENDS Orchestrator

CONSTANTS f1, f2, f3

TwoFiles   == <<f1, f2>>
ThreeFiles == <<f1, f2, f3>>

=============================================================================
