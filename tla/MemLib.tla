------------------------------- MODULE MemLib -------------------------------
(***************************************************************************)
(* memset, memcmp and memcpy, which is also memmove, of src/src/liba.s,    *)
(* one action per pass of their loops, with the registers they use, for    *)
(* one call with any arguments.                                            *)
(***************************************************************************)
EXTENDS Integers

CONSTANT MaxAddr     \* memory is 0..MaxAddr

Addr == 0..MaxAddr
Byte == 0..1

VARIABLES pc,                   \* the label the core is at
          memory,
          x0, x1, x2, x4,       \* destination, source or value, size, step
          result,               \* what memcmp returns
          call                  \* what the call was given: function, arguments, memory

vars == <<pc, memory, x0, x1, x2, x4, result, call>>

TypeOK ==
  /\ pc \in {"out", "set", "compare", "copy", "ret"}
  /\ memory \in [Addr -> Addr \cup Byte]
  /\ x0 \in -1..MaxAddr + 1 /\ x1 \in -1..MaxAddr + 1
  /\ x2 \in 0..MaxAddr + 1
  /\ x4 \in {1, -1}
  /\ result \in 0..1

Distinct == [a \in Addr |-> a]   \* a memory all of whose bytes differ

Init ==
  /\ pc = "out" /\ memory = Distinct
  /\ x0 = 0 /\ x1 = 0 /\ x2 = 0 /\ x4 = 1 /\ result = 0
  /\ call = [function |-> "none", dst |-> 0, src |-> 0, size |-> 0, memory |-> Distinct]

Fits(a, n) == a + n <= MaxAddr + 1

(* The instructions before a loop; a size of zero returns at once. *)
Enter(function, dst, src, size, step, first) ==
  /\ pc' = IF size = 0 THEN "ret" ELSE first
  /\ x2' = size /\ x4' = step
  /\ x0' = (IF step = -1 THEN dst + size - 1 ELSE dst)
  /\ x1' = (IF step = -1 THEN src + size - 1 ELSE src)
  /\ call' = [function |-> function, dst |-> dst, src |-> src, size |-> size, memory |-> memory']
  /\ UNCHANGED result

memset(dst, value, size) ==
  /\ Fits(dst, size)
  /\ memory' = Distinct
  /\ Enter("memset", dst, value, size, 1, "set")

(* memcmp of two regions, whatever the memory holds. *)
memcmp(a, b, size) ==
  /\ Fits(a, size) /\ Fits(b, size)
  /\ memory' \in [Addr -> Byte]
  /\ Enter("memcmp", a, b, size, 1, "compare")

(* Mutant for RoutinesKeepPromise: bhs copy is taken the other way round. *)
StepSwapped(dst, src, size) == IF src >= dst /\ dst + size > src THEN -1 ELSE 1

(***************************************************************************)
(* cmp x1, x0; bhs copy; add x3, x1, x2; cmp x3, x0; bls copy: upwards,    *)
(* unless the source begins below the destination and reaches into it.     *)
(***************************************************************************)
Step(dst, src, size) == IF src >= dst \/ src + size <= dst THEN 1 ELSE -1

(* The direction is chosen only if there is something to copy. *)
memcpy(dst, src, size) ==
  /\ Fits(dst, size) /\ Fits(src, size)
  /\ memory' = Distinct
  /\ Enter("memcpy", dst, src, size, IF size = 0 THEN 1 ELSE Step(dst, src, size), "copy")
-----------------------------------------------------------------------------
(* subs x2, x2, #1; bne: the loops of memset and memcpy end when the size is used up. *)
Count == x2' = x2 - 1 /\ pc' = IF x2 = 1 THEN "ret" ELSE pc

(* set: strb w1, [x0], #1. *)
Set ==
  /\ pc = "set"
  /\ memory' = [memory EXCEPT ![x0] = x1]
  /\ x0' = x0 + 1
  /\ Count
  /\ UNCHANGED <<x1, x4, result, call>>

(* compare: two bytes are loaded; the loop ends at the size or at a difference. *)
Compare ==
  /\ pc = "compare"
  /\ IF x2 = 0
       THEN pc' = "ret" /\ UNCHANGED <<x0, x1, x2, result>>
       ELSE /\ x0' = x0 + 1 /\ x1' = x1 + 1 /\ x2' = x2 - 1
            /\ IF memory[x0] = memory[x1]
                 THEN UNCHANGED <<pc, result>>
                 ELSE pc' = "ret" /\ result' = 1
  /\ UNCHANGED <<memory, x4, call>>

(* copy: one byte, in the direction of x4. *)
Copy ==
  /\ pc = "copy"
  /\ memory' = [memory EXCEPT ![x0] = memory[x1]]
  /\ x0' = x0 + x4 /\ x1' = x1 + x4
  /\ Count
  /\ UNCHANGED <<x4, result, call>>

Call ==
  /\ pc = "out"
  /\ \E a, b \in Addr, size \in 0..MaxAddr + 1 :
        \/ memcmp(a, b, size)
        \/ memcpy(a, b, size)
        \/ b \in Byte /\ memset(a, b, size)

Next == Call \/ Set \/ Compare \/ Copy

Spec == Init /\ [][Next]_vars
-----------------------------------------------------------------------------
Region(a) == a..a + call.size - 1

(* memset changes the bytes of its region, to the value, and no other. *)
SetsRegion ==
  pc = "ret" /\ call.function = "memset" =>
     memory = [a \in Addr |-> IF a \in Region(call.dst) THEN call.src ELSE call.memory[a]]

(***************************************************************************)
(* memcpy, which fork, exec and the file reader use and memmove names,     *)
(* leaves in the destination what the source held at the call, however the *)
(* two overlap, and changes nothing else.                                  *)
(***************************************************************************)
CopiesAtOnce ==
  pc = "ret" /\ call.function = "memcpy" =>
     memory = [a \in Addr |-> IF a \in Region(call.dst)
                              THEN call.memory[a - call.dst + call.src]
                              ELSE call.memory[a]]

(* memcmp returns 0 exactly when all bytes agree, the last ones too. *)
ComparesAll ==
  pc = "ret" /\ call.function = "memcmp" =>
     (result = 0 <=> \A n \in 0..call.size - 1 :
                        memory[call.dst + n] = memory[call.src + n])

(* What each of the three promises to its callers. *)
RoutinesKeepPromise == SetsRegion /\ CopiesAtOnce /\ ComparesAll
=============================================================================
