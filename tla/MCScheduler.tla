---------------------------- MODULE MCScheduler ----------------------------
(* Scheduler with two cores. *)
EXTENDS SchedulerInv
=============================================================================
