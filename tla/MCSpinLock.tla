---------------------------- MODULE MCSpinLock ----------------------------
(* SpinLock for three contending cores. *)
EXTENDS SpinLock
=============================================================================
