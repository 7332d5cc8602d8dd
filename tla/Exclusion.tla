----------------------------- MODULE Exclusion -----------------------------
(***************************************************************************)
(* What the kernel wants from a spinlock_t, told by the set of cores that  *)
(* are between spin_lock and spin_unlock: the set is empty at first, a     *)
(* core joins it alone, and it empties again before the next core joins.   *)
(* SpinLock.tla implements this, and Scheduler.tla takes process_lock and  *)
(* pid_lock in atomic steps because of it.                                 *)
(***************************************************************************)
CONSTANT Core

VARIABLE inside  \* the cores between spin_lock and spin_unlock

Nobody == inside = {}

(* One core comes back from spin_lock. *)
SomeoneEnters == Nobody /\ \E c \in Core : inside' = {c}

(* The core that was inside has run spin_unlock. *)
Empties == inside # {} /\ inside' = {}

Exclusive == Nobody /\ [][SomeoneEnters \/ Empties]_inside
=============================================================================
