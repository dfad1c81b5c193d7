---------------------------- MODULE MCScheduler -----------------------------
(* Scheduler as TLC checks it.                                             *)
EXTENDS Scheduler
=============================================================================
