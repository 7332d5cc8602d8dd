-------------------------- MODULE SpinLockProofs --------------------------
(***************************************************************************)
(* For any set of cores: the spin lock of liba.s excludes, its lock word   *)
(* is truthful, and it implements the abstract lock of Exclusion.tla.      *)
(***************************************************************************)
EXTENDS SpinLock, TLAPS

(* LockWordTruthful is inductive together with the types. *)
Inv == TypeOK /\ LockWordTruthful

(* The invariant holds before any core calls spin_lock. *)
LEMMA InvInit == Init => Inv
BY DEF Init, Inv, TypeOK, LockWordTruthful, Labels

(* Every instruction of spin_lock and spin_unlock preserves the invariant. *)
LEMMA InvStep == Inv /\ [Next]_vars => Inv'
<1> SUFFICES ASSUME Inv, [Next]_vars PROVE Inv'
  OBVIOUS
<1> USE DEF Inv, TypeOK, LockWordTruthful, Labels, DisarmAll
<1>1. ASSUME NEW c \in Core, Call(c) PROVE Inv'
  BY <1>1 DEF Call
<1>2. ASSUME NEW c \in Core, Ldaxr(c) PROVE Inv'
  BY <1>2 DEF Ldaxr
<1>3. ASSUME NEW c \in Core, StxrStores(c) PROVE Inv'
  BY <1>3 DEF StxrStores
<1>4. ASSUME NEW c \in Core, StxrFails(c) PROVE Inv'
  BY <1>4 DEF StxrFails
<1>5. ASSUME NEW c \in Core, Spin(c) PROVE Inv'
  BY <1>5 DEF Spin
<1>6. ASSUME NEW c \in Core, Stlr(c) PROVE Inv'
  BY <1>6 DEF Stlr
<1>7. CASE UNCHANGED vars
  BY <1>7 DEF vars
<1> QED
  BY <1>1, <1>2, <1>3, <1>4, <1>5, <1>6, <1>7 DEF Next, Step

(* The values of the lock word, the monitors and the control points keep   *)
(* their types along every execution of spin_lock and spin_unlock.         *)
THEOREM TypeCorrect == Spec => []TypeOK
BY InvInit, InvStep, PTL DEF Spec, Inv

(* At every moment the lock word is 1 exactly while one core is between    *)
(* its stxr and its stlr, whatever the number of cores: the mutual         *)
(* exclusion that README.md's spin_lock is introduced for.                 *)
THEOREM MutualExclusion == Spec => []LockWordTruthful
BY InvInit, InvStep, PTL DEF Spec, Inv
-----------------------------------------------------------------------------
(* Whoever obtains the lock finds nobody inside and is then alone. *)
LEMMA StoreEnters ==
  ASSUME Inv, NEW c \in Core, StxrStores(c)
  PROVE  E!SomeoneEnters
<1>1. Holders = {}
  BY DEF Inv, LockWordTruthful, StxrStores, Holders
<1>2. Holders' = {c}
  BY <1>1 DEF Inv, TypeOK, StxrStores, Holders
<1> QED
  BY <1>1, <1>2 DEF E!SomeoneEnters, E!Nobody

(* The store of zero is made by the only core inside, and leaves nobody. *)
LEMMA StlrEmpties ==
  ASSUME Inv, NEW c \in Core, Stlr(c)
  PROVE  E!Empties
<1>1. c \in Holders
  BY DEF Stlr, Holders
<1>2. Holders' = {}
  BY DEF Inv, TypeOK, LockWordTruthful, Stlr, Holders
<1> QED
  BY <1>1, <1>2 DEF E!Empties

(* The other instructions of the loop change no holder. *)
LEMMA OthersStutter ==
  ASSUME Inv, NEW c \in Core, Call(c) \/ Ldaxr(c) \/ StxrFails(c) \/ Spin(c)
  PROVE  Holders' = Holders
<1>1. \A d \in Core : pc'[d] = "held" <=> pc[d] = "held"
  BY DEF Inv, TypeOK, Call, Ldaxr, StxrFails, Spin
<1> QED
  BY <1>1 DEF Holders

(* The ldaxr/stxr loop of liba.s implements the abstract exclusion. *)
THEOREM Refinement == Spec => ImplementsExclusion
<1>1. Init => E!Nobody
  BY DEF Init, E!Nobody, Holders
<1>2. Inv /\ [Next]_vars => [E!SomeoneEnters \/ E!Empties]_Holders
  <2>1. UNCHANGED vars => Holders' = Holders
    BY DEF vars, Holders
  <2> QED
    BY <2>1, StoreEnters, StlrEmpties, OthersStutter DEF Next, Step
<1> QED
  BY <1>1, <1>2, InvInit, InvStep, PTL DEF Spec, ImplementsExclusion, E!Exclusive
=============================================================================
