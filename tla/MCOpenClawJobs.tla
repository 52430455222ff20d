---------------------------- MODULE MCOpenClawJobs ----------------------------
(***************************************************************************)
(* Instances of OpenClawJobs for TLC.                                      *)
(***************************************************************************)
EXTENDS OpenClawJobs

CONSTANTS j1, j2, runner, q1, q2
=============================================================================
