----------------------------- MODULE SpinLock -----------------------------
(***************************************************************************)
(* spin_lock and spin_unlock of src/src/liba.s, instruction by             *)
(* instruction: the load-acquire-exclusive / store-exclusive loop and the  *)
(* store-release.  The Arm exclusive monitor, which is hardware, is        *)
(* modelled from what the loop relies on: ldaxr arms the core's monitor,   *)
(* a store to the lock word by another core disarms it, and stxr stores    *)
(* only while it is armed and may fail spuriously.                         *)
(***************************************************************************)
EXTENDS Integers

CONSTANT Core

VARIABLES lock,     \* the spinlock_t word
          monitor,  \* monitor[c]: core c's exclusive monitor is armed
          pc        \* the next instruction of each core

vars == <<lock, monitor, pc>>

Labels == {"out", "ldaxr", "stxr", "spin", "held"}

TypeOK ==
  /\ lock \in {0, 1}
  /\ monitor \in [Core -> BOOLEAN]
  /\ pc \in [Core -> Labels]

Init ==
  /\ lock = 0
  /\ monitor = [c \in Core |-> FALSE]
  /\ pc = [c \in Core |-> "out"]

(***************************************************************************)
(* A store to the lock word by core c: the monitor of every core that had  *)
(* armed it is cleared.                                                    *)
(***************************************************************************)
DisarmAll == [c \in Core |-> FALSE]

(* The call of spin_lock. *)
Call(c) ==
  /\ pc[c] = "out"
  /\ pc' = [pc EXCEPT ![c] = "ldaxr"]
  /\ UNCHANGED <<lock, monitor>>

(* 1: ldaxr w2, [x0]; cbnz w2, 2f *)
Ldaxr(c) ==
  /\ pc[c] = "ldaxr"
  /\ monitor' = [monitor EXCEPT ![c] = TRUE]
  /\ pc' = [pc EXCEPT ![c] = IF lock = 0 THEN "stxr" ELSE "spin"]
  /\ UNCHANGED lock

(* Mutant for LockWordTruthful and ImplementsExclusion: a plain str, which does *)
(* not ask the monitor.                                                    *)
StrStores(c) ==
  /\ pc[c] = "stxr"
  /\ lock' = 1
  /\ monitor' = DisarmAll
  /\ pc' = [pc EXCEPT ![c] = "held"]

(* Mutant for TypeOK: a lock word that counts, incremented with a plain str. *)
IncStores(c) ==
  /\ pc[c] = "stxr"
  /\ lock' = lock + 1
  /\ monitor' = DisarmAll
  /\ pc' = [pc EXCEPT ![c] = "held"]

(* stxr w3, w1, [x0] with w3 = 0: the store is made and the loop is left. *)
StxrStores(c) ==
  /\ pc[c] = "stxr"
  /\ monitor[c]
  /\ lock' = 1
  /\ monitor' = DisarmAll
  /\ pc' = [pc EXCEPT ![c] = "held"]

(* stxr w3, w1, [x0] with w3 = 1, because the monitor was lost or           *)
(* spuriously; cbnz w3, 1b.                                                 *)
StxrFails(c) ==
  /\ pc[c] = "stxr"
  /\ monitor' = [monitor EXCEPT ![c] = FALSE]
  /\ pc' = [pc EXCEPT ![c] = "ldaxr"]
  /\ UNCHANGED lock

(* 2: yield; b 1b *)
Spin(c) ==
  /\ pc[c] = "spin"
  /\ pc' = [pc EXCEPT ![c] = "ldaxr"]
  /\ UNCHANGED <<lock, monitor>>

(* Mutant for SomeCoreObtains: stlr stores w1, which is 1, and not wzr. *)
StlrKeeps(c) ==
  /\ pc[c] = "held"
  /\ lock' = 1
  /\ monitor' = DisarmAll
  /\ pc' = [pc EXCEPT ![c] = "out"]

(* spin_unlock: stlr wzr, [x0] *)
Stlr(c) ==
  /\ pc[c] = "held"
  /\ lock' = 0
  /\ monitor' = DisarmAll
  /\ pc' = [pc EXCEPT ![c] = "out"]

Step(c) == Call(c) \/ Ldaxr(c) \/ StxrStores(c) \/ StxrFails(c) \/ Spin(c) \/ Stlr(c)

Next == \E c \in Core : Step(c)

(***************************************************************************)
(* A core in the loop keeps executing and a holder leaves its critical     *)
(* section; a stxr that is attempted again and again with the monitor      *)
(* armed is not refused forever.                                           *)
(***************************************************************************)
Fairness ==
  \A c \in Core : /\ WF_vars(Ldaxr(c)) /\ WF_vars(Spin(c)) /\ WF_vars(StxrFails(c))
                  /\ WF_vars(Stlr(c))
                  /\ SF_vars(StxrStores(c))

Spec == Init /\ [][Next]_vars

FairSpec == Spec /\ Fairness
-----------------------------------------------------------------------------
(***************************************************************************)
(* The lock word tells the truth: it is 1 exactly while a core is between  *)
(* a successful stxr and its stlr, there is one such core, and a core      *)
(* whose monitor is still armed at its stxr has read a 0 that is still     *)
(* there.                                                                  *)
(***************************************************************************)
LockWordTruthful ==
  /\ lock = 1 <=> \E c \in Core : pc[c] = "held"
  /\ \A c, d \in Core : pc[c] = "held" /\ pc[d] = "held" => c = d
  /\ \A c \in Core : pc[c] = "stxr" /\ monitor[c] => lock = 0

(* The cores that have obtained the lock, for the abstract specification. *)
Holders == {c \in Core : pc[c] = "held"}

E == INSTANCE Exclusion WITH inside <- Holders

(***************************************************************************)
(* The ldaxr/stxr loop of liba.s implements the abstract exclusion: cores  *)
(* obtain the lock one at a time, each after the one before has left.      *)
(***************************************************************************)
ImplementsExclusion == E!Exclusive

(***************************************************************************)
(* No deadlock in the loop: when cores are contending for a lock, one of   *)
(* them obtains it.                                                        *)
(***************************************************************************)
SomeCoreObtains ==
  (\E c \in Core : pc[c] \in {"ldaxr", "stxr", "spin"}) ~> (\E c \in Core : pc[c] = "held")
=============================================================================
