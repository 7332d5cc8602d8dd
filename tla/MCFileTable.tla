---------------------------- MODULE MCFileTable ----------------------------
(* Open files on one core (p1, p2 and p3 run there) and on two. *)
EXTENDS FileTable

CONSTANTS p1, p2, p3, f1, f2

OneCore == [p \in Proc |-> 0]

TwoCores == [p \in Proc |-> IF p = p1 THEN 0 ELSE 1]

(* f1 ends in its only cluster, of two bytes, and f2 in its second: one byte is left in each. *)
Sizes == [f \in File |-> IF f = f1 THEN 1 ELSE 3]

Chains == [f \in File |-> Sizes[f] + 1]
=============================================================================
