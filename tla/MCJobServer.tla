---------------------------- MODULE MCJobServer -----------------------------
(* The instance of JobServer for TLC: its constants are model values, given *)
(* in the .cfg.                                                             *)
EXTENDS JobServer

=============================================================================
