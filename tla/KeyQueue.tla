----------------------------- MODULE KeyQueue -----------------------------
(***************************************************************************)
(* What programs expect of the key buffer: keys come out in the order in   *)
(* which the interrupt handler read them, each of them once, and a key it  *)
(* has read is lost only when Capacity keys are already waiting.           *)
(***************************************************************************)
EXTENDS Naturals, Sequences

CONSTANTS Key, Capacity, NoKey

VARIABLES waiting,    \* the keys typed and not yet read
          delivered   \* the key that the last read has returned

TypeKey == /\ \E k \in Key : waiting' = IF Len(waiting) < Capacity THEN Append(waiting, k)
                                                                  ELSE waiting
           /\ delivered' = delivered

ReadKey == /\ waiting # <<>>
           /\ delivered' = Head(waiting)
           /\ waiting' = Tail(waiting)

Queue == waiting = <<>> /\ delivered = NoKey /\ [][TypeKey \/ ReadKey]_<<waiting, delivered>>
=============================================================================
