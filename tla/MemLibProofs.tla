---------------------------- MODULE MemLibProofs ----------------------------
(***************************************************************************)
(* memset, memcmp and memcpy do what they promise in a memory of any size, *)
(* however their arguments overlap.                                        *)
(***************************************************************************)
EXTENDS MemLib, TLAPS

-----------------------------------------------------------------------------
(* A memory has a last address. *)
Bounded == MaxAddr \in Nat

Values == Addr \cup Byte

(* What the call was given lies in the memory. *)
CallFits ==
  /\ call.dst \in Addr /\ call.src \in Nat /\ call.size \in 0..MaxAddr + 1
  /\ call.dst + call.size <= MaxAddr + 1
  /\ call.function = "memset" => call.src \in Byte
  /\ call.function \in {"memcmp", "memcpy"} => call.src + call.size <= MaxAddr + 1
  /\ call.memory \in [Addr -> Values]

(* set: the bytes below x0 are set, x2 are left. *)
SetInv ==
  /\ call.function = "memset" /\ x1 = call.src /\ x4 = 1
  /\ x2 \in 1..call.size /\ x0 + x2 = call.dst + call.size
  /\ \A a \in Addr : memory[a] = IF call.dst <= a /\ a < x0 THEN call.src ELSE call.memory[a]

(* compare: the bytes below x0 and x1 agree, x2 are left. *)
CompareInv ==
  /\ call.function = "memcmp" /\ x4 = 1 /\ result = 0
  /\ x2 \in 0..call.size
  /\ x0 + x2 = call.dst + call.size /\ x1 + x2 = call.src + call.size
  /\ \A n \in 0..call.size - x2 - 1 : memory[call.dst + n] = memory[call.src + n]

(***************************************************************************)
(* copy, upwards: the bytes below x0 are copied, and none that is still to *)
(* be read has been overwritten.  Downwards: those above x0.               *)
(***************************************************************************)
UpInv ==
  /\ call.src >= call.dst \/ call.src + call.size <= call.dst
  /\ x0 + x2 = call.dst + call.size /\ x1 + x2 = call.src + call.size
  /\ \A a \in Addr : memory[a] = IF call.dst <= a /\ a < x0
                                 THEN call.memory[a - call.dst + call.src] ELSE call.memory[a]

DownInv ==
  /\ call.src < call.dst
  /\ x0 = call.dst + x2 - 1 /\ x1 = call.src + x2 - 1
  /\ \A a \in Addr : memory[a] = IF x0 < a /\ a < call.dst + call.size
                                 THEN call.memory[a - call.dst + call.src] ELSE call.memory[a]

CopyInv ==
  /\ call.function = "memcpy" /\ x2 \in 1..call.size
  /\ x4 = 1 => UpInv
  /\ x4 = -1 => DownInv

(* The inductive invariant: of the loops, and of what they leave. *)
LoopInv ==
  /\ CallFits
  /\ pc \in {"out", "compare"} => result = 0
  /\ pc = "set" => SetInv
  /\ pc = "compare" => CompareInv
  /\ pc = "copy" => CopyInv

Inv == TypeOK /\ LoopInv /\ RoutinesKeepPromise
-----------------------------------------------------------------------------
LEMMA InvInit ==
  ASSUME Bounded, Init
  PROVE  Inv
<1>1. Distinct \in [Addr -> Values]
  BY DEF Distinct, Values
<1>2. /\ call.function = "none" /\ call.dst = 0 /\ call.src = 0 /\ call.size = 0
      /\ call.memory = Distinct /\ pc = "out"
  BY DEF Init
<1>3. TypeOK
  BY <1>1 DEF Bounded, Init, TypeOK, Values
<1>4. LoopInv
  BY <1>1, <1>2 DEF Bounded, Init, LoopInv, CallFits, Addr
<1>5. RoutinesKeepPromise
  BY <1>2 DEF RoutinesKeepPromise, SetsRegion, CopiesAtOnce, ComparesAll
<1> QED
  BY <1>3, <1>4, <1>5 DEF Inv

(* What the instructions before a loop do. *)
LEMMA Entered ==
  ASSUME NEW function, NEW dst, NEW src, NEW size, NEW step, NEW first,
         Enter(function, dst, src, size, step, first)
  PROVE  /\ call'.function = function /\ call'.dst = dst /\ call'.src = src
         /\ call'.size = size /\ call'.memory = memory'
         /\ pc' = (IF size = 0 THEN "ret" ELSE first) /\ x2' = size /\ x4' = step
         /\ x0' = (IF step = -1 THEN dst + size - 1 ELSE dst)
         /\ x1' = (IF step = -1 THEN src + size - 1 ELSE src)
         /\ result' = result
BY DEF Enter

LEMMA DistinctTyped ==
  Distinct \in [Addr -> Values]
BY DEF Distinct, Values

LEMMA MemsetStep ==
  ASSUME Bounded, Inv, pc = "out", NEW a \in Addr, NEW b \in Byte, NEW size \in 0..MaxAddr + 1,
         memset(a, b, size)
  PROVE  Inv'
<1>1. /\ call'.function = "memset" /\ call'.dst = a /\ call'.src = b
      /\ call'.size = size /\ call'.memory = memory'
      /\ pc' = (IF size = 0 THEN "ret" ELSE "set") /\ x2' = size /\ x4' = 1
      /\ x0' = a /\ x1' = b /\ result' = result
  <2>1. Enter("memset", a, b, size, 1, "set")
    BY DEF memset
  <2> QED
    BY <2>1, Entered
<1>2. memory' \in [Addr -> Values] /\ a + size <= MaxAddr + 1 /\ result = 0
  BY DistinctTyped DEF memset, Fits, Inv, LoopInv
<1>3. a \in Nat /\ a <= MaxAddr /\ b \in 0..1 /\ size \in Nat /\ MaxAddr \in Nat
  BY DEF Bounded, Addr, Byte
<1>4. TypeOK'
  BY <1>1, <1>2, <1>3 DEF TypeOK, Values
<1>5. CallFits'
  BY <1>1, <1>2, <1>3 DEF CallFits, Byte
<1>6. pc' = "set" => SetInv'
  <2> SUFFICES ASSUME pc' = "set" PROVE SetInv'
    OBVIOUS
  <2>1. size # 0
    BY <1>1
  <2>2. \A d \in Addr : memory'[d] = IF a <= d /\ d < a THEN b ELSE memory'[d]
    BY <1>3 DEF Addr
  <2> QED
    BY <1>1, <1>3, <2>1, <2>2 DEF SetInv
<1>7. LoopInv'
  BY <1>1, <1>2, <1>5, <1>6 DEF LoopInv
<1>8. RoutinesKeepPromise'
  <2> SUFFICES ASSUME pc' = "ret" PROVE SetsRegion'
    BY <1>1 DEF RoutinesKeepPromise, CopiesAtOnce, ComparesAll, SetsRegion
  <2>1. size = 0
    BY <1>1
  <2>2. \A d \in Addr : d \notin a..a + size - 1
    BY <1>3, <2>1 DEF Addr
  <2>3. memory' = [d \in Addr |-> IF d \in a..a + size - 1 THEN b ELSE memory'[d]]
    BY <1>2, <2>2
  <2> QED
    BY <1>1, <2>3 DEF SetsRegion, Region
<1> QED
  BY <1>4, <1>7, <1>8 DEF Inv

LEMMA MemcmpStep ==
  ASSUME Bounded, Inv, pc = "out", NEW a \in Addr, NEW b \in Addr, NEW size \in 0..MaxAddr + 1,
         memcmp(a, b, size)
  PROVE  Inv'
<1>1. /\ call'.function = "memcmp" /\ call'.dst = a /\ call'.src = b
      /\ call'.size = size /\ call'.memory = memory'
      /\ pc' = (IF size = 0 THEN "ret" ELSE "compare") /\ x2' = size /\ x4' = 1
      /\ x0' = a /\ x1' = b /\ result' = result
  <2>1. Enter("memcmp", a, b, size, 1, "compare")
    BY DEF memcmp
  <2> QED
    BY <2>1, Entered
<1>2. /\ memory' \in [Addr -> Values] /\ result = 0
      /\ a + size <= MaxAddr + 1 /\ b + size <= MaxAddr + 1
  BY DEF memcmp, Fits, Inv, LoopInv, Values
<1>3. a \in Nat /\ a <= MaxAddr /\ b \in Nat /\ b <= MaxAddr /\ size \in Nat /\ MaxAddr \in Nat
  BY DEF Bounded, Addr
<1>4. TypeOK'
  BY <1>1, <1>2, <1>3 DEF TypeOK, Values
<1>5. CallFits'
  BY <1>1, <1>2, <1>3 DEF CallFits
<1>6. CompareInv'
  BY <1>1, <1>2, <1>3 DEF CompareInv
<1>7. LoopInv'
  BY <1>1, <1>2, <1>5, <1>6 DEF LoopInv
<1>8. RoutinesKeepPromise'
  <2> SUFFICES ASSUME pc' = "ret" PROVE ComparesAll'
    BY <1>1 DEF RoutinesKeepPromise, CopiesAtOnce, ComparesAll, SetsRegion
  <2> QED
    BY <1>1, <1>2, <1>3 DEF ComparesAll
<1> QED
  BY <1>4, <1>7, <1>8 DEF Inv

LEMMA MemcpyStep ==
  ASSUME Bounded, Inv, pc = "out", NEW a \in Addr, NEW b \in Addr, NEW size \in 0..MaxAddr + 1,
         memcpy(a, b, size)
  PROVE  Inv'
<1>0. PICK step : step = IF size = 0 THEN 1 ELSE Step(a, b, size)
  OBVIOUS
<1>1. /\ call'.function = "memcpy" /\ call'.dst = a /\ call'.src = b
      /\ call'.size = size /\ call'.memory = memory'
      /\ pc' = (IF size = 0 THEN "ret" ELSE "copy") /\ x2' = size /\ x4' = step
      /\ x0' = (IF step = -1 THEN a + size - 1 ELSE a)
      /\ x1' = (IF step = -1 THEN b + size - 1 ELSE b)
      /\ result' = result
  <2>1. Enter("memcpy", a, b, size, step, "copy")
    BY <1>0 DEF memcpy
  <2> QED
    BY <2>1, Entered
<1>2. /\ memory' \in [Addr -> Values] /\ result = 0
      /\ a + size <= MaxAddr + 1 /\ b + size <= MaxAddr + 1
  BY DistinctTyped DEF memcpy, Fits, Inv, LoopInv
<1>3. a \in Nat /\ a <= MaxAddr /\ b \in Nat /\ b <= MaxAddr /\ size \in Nat /\ MaxAddr \in Nat
  BY DEF Bounded, Addr
<1>4. /\ step \in {1, -1}
      /\ step = 1 /\ size # 0 => b >= a \/ b + size <= a
      /\ step = -1 => b < a /\ size # 0
  BY <1>0, <1>3 DEF Step
<1>5. TypeOK'
  BY <1>1, <1>2, <1>3, <1>4 DEF TypeOK, Values, Inv
<1>6. CallFits'
  BY <1>1, <1>2, <1>3 DEF CallFits
<1>7. pc' = "copy" => CopyInv'
  <2> SUFFICES ASSUME pc' = "copy" PROVE CopyInv'
    OBVIOUS
  <2>1. size # 0
    BY <1>1
  <2>2. step = 1 => UpInv'
    <3> SUFFICES ASSUME step = 1 PROVE UpInv'
      OBVIOUS
    <3>1. \A d \in Addr : ~(a <= d /\ d < a)
      BY <1>3 DEF Addr
    <3> QED
      BY <1>1, <1>3, <1>4, <2>1, <3>1 DEF UpInv
  <2>3. step = -1 => DownInv'
    <3> SUFFICES ASSUME step = -1 PROVE DownInv'
      OBVIOUS
    <3>1. \A d \in Addr : ~(a + size - 1 < d /\ d < a + size)
      BY <1>3 DEF Addr
    <3> QED
      BY <1>1, <1>3, <1>4, <3>1 DEF DownInv
  <2> QED
    BY <1>1, <1>3, <2>1, <2>2, <2>3 DEF CopyInv
<1>8. LoopInv'
  BY <1>1, <1>2, <1>6, <1>7 DEF LoopInv
<1>9. RoutinesKeepPromise'
  <2> SUFFICES ASSUME pc' = "ret" PROVE CopiesAtOnce'
    BY <1>1 DEF RoutinesKeepPromise, CopiesAtOnce, ComparesAll, SetsRegion
  <2>1. size = 0
    BY <1>1
  <2>2. \A d \in Addr : d \notin a..a + size - 1
    BY <1>3, <2>1 DEF Addr
  <2>3. memory' = [d \in Addr |-> IF d \in a..a + size - 1 THEN memory'[d - a + b] ELSE memory'[d]]
    BY <1>2, <2>2
  <2> QED
    BY <1>1, <2>3 DEF CopiesAtOnce, Region
<1> QED
  BY <1>5, <1>8, <1>9 DEF Inv
-----------------------------------------------------------------------------
(* What the call was given, as numbers. *)
LEMMA CallNumbers ==
  ASSUME Bounded, CallFits
  PROVE  /\ MaxAddr \in Nat /\ call.dst \in Nat /\ call.dst <= MaxAddr
         /\ call.src \in Nat /\ call.size \in Nat /\ call.dst + call.size <= MaxAddr + 1
BY DEF Bounded, CallFits, Addr

(* A pass of set: one byte more has the value. *)
LEMMA SetStep ==
  ASSUME Bounded, Inv, Set
  PROVE  Inv'
<1>1. /\ TypeOK /\ CallFits /\ SetInv /\ CallFits'
  BY DEF Inv, LoopInv, Set, CallFits
<1>2. /\ MaxAddr \in Nat /\ call.dst \in Nat /\ call.dst <= MaxAddr
      /\ call.src \in 0..1 /\ call.size \in Nat /\ call.dst + call.size <= MaxAddr + 1
      /\ x2 \in Nat /\ x2 >= 1 /\ x2 <= call.size /\ x0 + x2 = call.dst + call.size
      /\ x0 \in Int /\ x1 = call.src /\ x4 = 1
  BY <1>1, CallNumbers DEF SetInv, CallFits, Byte, TypeOK
<1>3. /\ memory' = [memory EXCEPT ![x0] = x1] /\ x0' = x0 + 1 /\ x2' = x2 - 1
      /\ x1' = x1 /\ x4' = x4 /\ result' = result /\ call' = call
      /\ pc' = IF x2 = 1 THEN "ret" ELSE "set"
  BY DEF Set, Count
<1>4. x0 \in Addr
  BY <1>2 DEF Addr
<1>5. memory' \in [Addr -> Values] /\ \A a \in Addr : memory'[a] = IF a = x0 THEN x1 ELSE memory[a]
  <2>1. memory \in [Addr -> Values] /\ x1 \in Values
    BY <1>1, <1>2 DEF TypeOK, Values, Byte
  <2> QED
    BY <1>3, <1>4, <2>1
<1>6. \A a \in Addr : memory'[a] = IF call.dst <= a /\ a < x0' THEN call.src ELSE call.memory[a]
  <2> SUFFICES ASSUME NEW a \in Addr
               PROVE  memory'[a] = IF call.dst <= a /\ a < x0 + 1 THEN call.src ELSE call.memory[a]
    BY <1>3
  <2>1. a \in Int
    BY <1>2 DEF Addr
  <2>2. memory[a] = IF call.dst <= a /\ a < x0 THEN call.src ELSE call.memory[a]
    BY <1>1 DEF SetInv
  <2>3. CASE a = x0
    BY <1>2, <1>5, <2>1, <2>3
  <2>4. CASE a # x0
    BY <1>2, <1>5, <2>1, <2>2, <2>4
  <2> QED
    BY <2>3, <2>4
<1>7. TypeOK'
  <2>1. memory' \in [Addr -> Addr \cup Byte]
    BY <1>5 DEF Values
  <2>2. /\ x0' \in -1..MaxAddr + 1 /\ x1' \in -1..MaxAddr + 1 /\ x2' \in 0..MaxAddr + 1
        /\ x4' \in {1, -1} /\ result' \in 0..1 /\ pc' \in {"out", "set", "compare", "copy", "ret"}
    BY <1>1, <1>2, <1>3 DEF TypeOK
  <2> QED
    BY <2>1, <2>2 DEF TypeOK
<1>8. pc' = "set" => SetInv'
  <2> SUFFICES ASSUME pc' = "set" PROVE SetInv'
    OBVIOUS
  <2>1. call.function = "memset" /\ x2 # 1
    BY <1>1, <1>3 DEF SetInv
  <2>2. x2' \in 1..call.size /\ x0' + x2' = call.dst + call.size
    BY <1>2, <1>3, <2>1
  <2> QED
    BY <1>2, <1>3, <1>6, <2>1, <2>2 DEF SetInv
<1>9. LoopInv'
  BY <1>1, <1>3, <1>8 DEF LoopInv
<1>10. SetsRegion'
  <2> SUFFICES ASSUME pc' = "ret"
               PROVE  memory' = [a \in Addr |-> IF a \in call.dst..call.dst + call.size - 1
                                                THEN call.src ELSE call.memory[a]]
    BY <1>3 DEF SetsRegion, Region
  <2>1. x0' = call.dst + call.size
    BY <1>2, <1>3
  <2>2. ASSUME NEW a \in Addr
        PROVE  memory'[a] = IF a \in call.dst..call.dst + call.size - 1
                            THEN call.src ELSE call.memory[a]
    <3>1. a \in Int
      BY <1>2 DEF Addr
    <3>2. a \in call.dst..call.dst + call.size - 1 <=> call.dst <= a /\ a < x0'
      BY <1>2, <2>1, <3>1
    <3> QED
      BY <1>6, <3>2
  <2> QED
    BY <1>5, <2>2
<1>11. RoutinesKeepPromise'
  BY <1>1, <1>3, <1>10 DEF RoutinesKeepPromise, CopiesAtOnce, ComparesAll, SetInv
<1> QED
  BY <1>7, <1>9, <1>11 DEF Inv

(* A pass of compare: one pair of bytes more agrees, or the result is 1. *)
LEMMA CompareStep ==
  ASSUME Bounded, Inv, Compare
  PROVE  Inv'
<1>1. /\ TypeOK /\ CallFits /\ CompareInv /\ CallFits'
  BY DEF Inv, LoopInv, Compare, CallFits
<1>2. /\ MaxAddr \in Nat /\ call.dst \in Nat /\ call.dst <= MaxAddr
      /\ call.src \in Nat /\ call.size \in Nat /\ call.dst + call.size <= MaxAddr + 1
      /\ call.src + call.size <= MaxAddr + 1
      /\ x2 \in Nat /\ x2 <= call.size /\ x0 \in Int /\ x1 \in Int
      /\ x0 = call.dst + (call.size - x2) /\ x1 = call.src + (call.size - x2)
      /\ x4 = 1 /\ result = 0 /\ call.function = "memcmp"
  BY <1>1, CallNumbers DEF CompareInv, CallFits, TypeOK
<1>3. /\ memory' = memory /\ x4' = x4 /\ call' = call /\ pc = "compare"
  BY DEF Compare
<1>4. CASE x2 = 0
  <2>1. pc' = "ret" /\ x0' = x0 /\ x1' = x1 /\ x2' = x2 /\ result' = result
    BY <1>4 DEF Compare
  <2>2. TypeOK'
    BY <1>1, <1>3, <2>1 DEF TypeOK
  <2>3. LoopInv'
    BY <1>1, <2>1 DEF LoopInv
  <2>4. \A n \in 0..call.size - 1 : memory[call.dst + n] = memory[call.src + n]
    BY <1>1, <1>2, <1>4 DEF CompareInv
  <2>5. RoutinesKeepPromise'
    BY <1>2, <1>3, <2>1, <2>4 DEF RoutinesKeepPromise, SetsRegion, CopiesAtOnce, ComparesAll
  <2> QED
    BY <2>2, <2>3, <2>5 DEF Inv
<1>5. CASE x2 # 0
  <2>1. x0' = x0 + 1 /\ x1' = x1 + 1 /\ x2' = x2 - 1
    BY <1>5 DEF Compare
  <2>2. x0' \in -1..MaxAddr + 1 /\ x1' \in -1..MaxAddr + 1 /\ x2' \in 0..MaxAddr + 1
    BY <1>2, <1>5, <2>1
  <2>3. CASE memory[x0] = memory[x1]
    <3>1. pc' = "compare" /\ result' = 0
      BY <1>2, <1>3, <1>5, <2>3 DEF Compare
    <3>2. TypeOK'
      BY <1>1, <1>3, <2>2, <3>1 DEF TypeOK
    <3>3. ASSUME NEW n \in 0..call.size - x2' - 1
          PROVE  memory[call.dst + n] = memory[call.src + n]
      <4>1. n \in 0..call.size - x2 - 1 \/ n = call.size - x2
        BY <1>2, <2>1
      <4>2. CASE n = call.size - x2
        BY <1>2, <2>3, <4>2
      <4> QED
        BY <1>1, <4>1, <4>2 DEF CompareInv
    <3>4. /\ x2' \in 0..call.size /\ x0' + x2' = call.dst + call.size
          /\ x1' + x2' = call.src + call.size
      BY <1>2, <1>5, <2>1
    <3>5. CompareInv'
      BY <1>2, <1>3, <3>1, <3>3, <3>4 DEF CompareInv
    <3>6. LoopInv'
      BY <1>1, <3>1, <3>5 DEF LoopInv
    <3>7. RoutinesKeepPromise'
      BY <3>1 DEF RoutinesKeepPromise, SetsRegion, CopiesAtOnce, ComparesAll
    <3> QED
      BY <3>2, <3>6, <3>7 DEF Inv
  <2>4. CASE memory[x0] # memory[x1]
    <3>1. pc' = "ret" /\ result' = 1
      BY <1>5, <2>4 DEF Compare
    <3>2. TypeOK'
      BY <1>1, <1>3, <2>2, <3>1 DEF TypeOK
    <3>3. LoopInv'
      BY <1>1, <3>1 DEF LoopInv
    <3>4. ~ \A n \in 0..call.size - 1 : memory[call.dst + n] = memory[call.src + n]
      <4>1. call.size - x2 \in 0..call.size - 1
        BY <1>2, <1>5
      <4> QED
        BY <1>2, <2>4, <4>1
    <3>5. RoutinesKeepPromise'
      BY <1>2, <1>3, <3>1, <3>4 DEF RoutinesKeepPromise, SetsRegion, CopiesAtOnce, ComparesAll
    <3> QED
      BY <3>2, <3>3, <3>5 DEF Inv
  <2> QED
    BY <2>3, <2>4
<1> QED
  BY <1>4, <1>5

(***************************************************************************)
(* A pass of copy: the byte read is still the one that the source held at  *)
(* the call, whichever way the copy goes, and one byte more is in place.   *)
(***************************************************************************)
LEMMA CopyStep ==
  ASSUME Bounded, Inv, Copy
  PROVE  Inv'
<1>1. /\ TypeOK /\ CallFits /\ CopyInv /\ CallFits'
  BY DEF Inv, LoopInv, Copy, CallFits
<1>2. /\ MaxAddr \in Nat /\ call.dst \in Nat /\ call.dst <= MaxAddr
      /\ call.src \in Nat /\ call.size \in Nat /\ call.dst + call.size <= MaxAddr + 1
      /\ call.src + call.size <= MaxAddr + 1 /\ call.function = "memcpy"
      /\ x2 \in Nat /\ x2 >= 1 /\ x2 <= call.size /\ x0 \in Int /\ x1 \in Int
      /\ x4 \in {1, -1}
  BY <1>1, CallNumbers DEF CopyInv, CallFits, TypeOK
<1>3. /\ memory' = [memory EXCEPT ![x0] = memory[x1]] /\ x0' = x0 + x4 /\ x1' = x1 + x4
      /\ x2' = x2 - 1 /\ x4' = x4 /\ result' = result /\ call' = call
      /\ pc' = IF x2 = 1 THEN "ret" ELSE "copy"
  BY DEF Copy, Count
<1>4. /\ x4 = 1 => UpInv /\ x0 = call.dst + (call.size - x2) /\ x1 = call.src + (call.size - x2)
      /\ x4 = -1 => DownInv /\ x0 = call.dst + x2 - 1 /\ x1 = call.src + x2 - 1
  BY <1>1, <1>2 DEF CopyInv, UpInv, DownInv
<1>5. x0 \in Addr /\ x1 \in Addr /\ x1 = x0 - call.dst + call.src
  BY <1>2, <1>4 DEF Addr
<1>6. memory[x1] = call.memory[x1]
  <2>1. CASE x4 = 1
    <3>1. ~ (call.dst <= x1 /\ x1 < x0)
      BY <1>2, <1>4, <2>1 DEF UpInv
    <3> QED
      BY <1>4, <1>5, <2>1, <3>1 DEF UpInv
  <2>2. CASE x4 = -1
    <3>1. ~ (x0 < x1)
      BY <1>2, <1>4, <2>2 DEF DownInv
    <3> QED
      BY <1>4, <1>5, <2>2, <3>1 DEF DownInv
  <2> QED
    BY <1>2, <2>1, <2>2
<1>7. /\ memory' \in [Addr -> Values]
      /\ \A a \in Addr : memory'[a] = IF a = x0 THEN call.memory[a - call.dst + call.src] ELSE memory[a]
  <2>1. memory \in [Addr -> Values]
    BY <1>1 DEF TypeOK, Values
  <2>2. memory[x1] \in Values
    BY <1>5, <2>1
  <2>3. memory' \in [Addr -> Values] /\ \A a \in Addr : memory'[a] = IF a = x0 THEN memory[x1] ELSE memory[a]
    BY <1>3, <1>5, <2>1, <2>2
  <2> QED
    BY <1>5, <1>6, <2>3
<1>8. TypeOK'
  <2>1. memory' \in [Addr -> Addr \cup Byte]
    BY <1>7 DEF Values
  <2>2. /\ x0' \in -1..MaxAddr + 1 /\ x1' \in -1..MaxAddr + 1 /\ x2' \in 0..MaxAddr + 1
    BY <1>2, <1>3, <1>4
  <2>3. x4' \in {1, -1} /\ result' \in 0..1 /\ pc' \in {"out", "set", "compare", "copy", "ret"}
    BY <1>1, <1>2, <1>3 DEF TypeOK
  <2> QED
    BY <2>1, <2>2, <2>3 DEF TypeOK
<1>9. x4 = 1 => UpInv'
  <2> SUFFICES ASSUME x4 = 1 PROVE UpInv'
    OBVIOUS
  <2>1. ASSUME NEW a \in Addr
        PROVE  memory'[a] = IF call.dst <= a /\ a < x0 + 1
                            THEN call.memory[a - call.dst + call.src] ELSE call.memory[a]
    <3>1. a \in Int
      BY <1>2 DEF Addr
    <3>2. memory[a] = IF call.dst <= a /\ a < x0
                      THEN call.memory[a - call.dst + call.src] ELSE call.memory[a]
      BY <1>4 DEF UpInv
    <3>3. CASE a = x0
      BY <1>2, <1>4, <1>7, <3>1, <3>3
    <3>4. CASE a # x0
      BY <1>2, <1>7, <3>1, <3>2, <3>4
    <3> QED
      BY <3>3, <3>4
  <2>2. x0' = x0 + 1 /\ x0' + x2' = call.dst + call.size /\ x1' + x2' = call.src + call.size
    BY <1>2, <1>3, <1>4
  <2>3. call.src >= call.dst \/ call.src + call.size <= call.dst
    BY <1>4 DEF UpInv
  <2> QED
    BY <1>3, <2>1, <2>2, <2>3 DEF UpInv
<1>10. x4 = -1 => DownInv'
  <2> SUFFICES ASSUME x4 = -1 PROVE DownInv'
    OBVIOUS
  <2>1. ASSUME NEW a \in Addr
        PROVE  memory'[a] = IF x0 - 1 < a /\ a < call.dst + call.size
                            THEN call.memory[a - call.dst + call.src] ELSE call.memory[a]
    <3>1. a \in Int
      BY <1>2 DEF Addr
    <3>2. memory[a] = IF x0 < a /\ a < call.dst + call.size
                      THEN call.memory[a - call.dst + call.src] ELSE call.memory[a]
      BY <1>4 DEF DownInv
    <3>3. CASE a = x0
      BY <1>2, <1>4, <1>7, <3>1, <3>3
    <3>4. CASE a # x0
      BY <1>2, <1>7, <3>1, <3>2, <3>4
    <3> QED
      BY <3>3, <3>4
  <2>2. x0' = x0 - 1 /\ x0' = call.dst + x2' - 1 /\ x1' = call.src + x2' - 1
    BY <1>2, <1>3, <1>4
  <2>3. call.src < call.dst
    BY <1>4 DEF DownInv
  <2> QED
    BY <1>3, <2>1, <2>2, <2>3 DEF DownInv
<1>11. LoopInv'
  <2>1. pc' = "copy" => CopyInv'
    <3> SUFFICES ASSUME pc' = "copy" PROVE CopyInv'
      OBVIOUS
    <3>1. x2' \in 1..call.size
      BY <1>2, <1>3
    <3> QED
      BY <1>2, <1>3, <1>9, <1>10, <3>1 DEF CopyInv
  <2> QED
    BY <1>1, <1>3, <2>1 DEF LoopInv
<1>12. CopiesAtOnce'
  <2> SUFFICES ASSUME pc' = "ret"
               PROVE  memory' = [a \in Addr |-> IF a \in call.dst..call.dst + call.size - 1
                                                THEN call.memory[a - call.dst + call.src]
                                                ELSE call.memory[a]]
    BY <1>3 DEF CopiesAtOnce, Region
  <2>1. /\ x4 = 1 => x0' = call.dst + call.size
        /\ x4 = -1 => x0' = call.dst - 1
    BY <1>2, <1>3, <1>4
  <2>2. ASSUME NEW a \in Addr
        PROVE  memory'[a] = IF a \in call.dst..call.dst + call.size - 1
                            THEN call.memory[a - call.dst + call.src] ELSE call.memory[a]
    <3>1. a \in Int
      BY <1>2 DEF Addr
    <3>2. CASE x4 = 1
      <4>1. a \in call.dst..call.dst + call.size - 1 <=> call.dst <= a /\ a < x0'
        BY <1>2, <2>1, <3>1, <3>2
      <4> QED
        BY <1>3, <1>9, <3>2, <4>1 DEF UpInv
    <3>3. CASE x4 = -1
      <4>1. a \in call.dst..call.dst + call.size - 1 <=> x0' < a /\ a < call.dst + call.size
        BY <1>2, <2>1, <3>1, <3>3
      <4> QED
        BY <1>3, <1>10, <3>3, <4>1 DEF DownInv
    <3> QED
      BY <1>2, <3>2, <3>3
  <2> QED
    BY <1>7, <2>2
<1>13. RoutinesKeepPromise'
  BY <1>2, <1>3, <1>12 DEF RoutinesKeepPromise, SetsRegion, ComparesAll
<1> QED
  BY <1>8, <1>11, <1>13 DEF Inv
-----------------------------------------------------------------------------
LEMMA InvStep ==
  ASSUME Bounded, Inv, [Next]_vars
  PROVE  Inv'
<1>1. CASE Call
  <2>1. PICK a \in Addr, b \in Addr, size \in 0..MaxAddr + 1 :
           memcmp(a, b, size) \/ memcpy(a, b, size) \/ (b \in Byte /\ memset(a, b, size))
    BY <1>1 DEF Call
  <2>2. pc = "out"
    BY <1>1 DEF Call
  <2> QED
    BY <2>1, <2>2, MemsetStep, MemcmpStep, MemcpyStep
<1>2. CASE UNCHANGED vars
  BY <1>2 DEF vars, Inv, TypeOK, LoopInv, CallFits, SetInv, CompareInv, CopyInv, UpInv, DownInv,
              RoutinesKeepPromise, SetsRegion, CopiesAtOnce, ComparesAll, Region
<1> QED
  BY <1>1, <1>2, SetStep, CompareStep, CopyStep DEF Next

LEMMA Invariance == Bounded => (Spec => []Inv)
<1> SUFFICES ASSUME Bounded PROVE Spec => []Inv
  OBVIOUS
<1>1. Init => Inv
  BY InvInit
<1>2. Inv /\ [Next]_vars => Inv'
  BY InvStep
<1> QED
  BY <1>1, <1>2, PTL DEF Spec

(***************************************************************************)
(* The pointers that memset, memcmp and memcpy count with stay within one  *)
(* byte of the memory, also after the last pass of a loop, and the memory  *)
(* holds bytes.                                                            *)
(***************************************************************************)
THEOREM RegistersTyped == Bounded => (Spec => []TypeOK)
<1> SUFFICES ASSUME Bounded PROVE Spec => []TypeOK
  OBVIOUS
<1>1. Inv => TypeOK
  BY DEF Inv
<1> QED
  BY <1>1, Invariance, PTL

(***************************************************************************)
(* In a memory of any size and for any arguments that lie in it: memset    *)
(* sets its region and nothing else, memcpy leaves in the destination what *)
(* the source held at the call, however the two overlap, and memcmp        *)
(* returns 0 exactly when all bytes agree.                                 *)
(***************************************************************************)
THEOREM RoutinesDoTheirWork == Bounded => (Spec => []RoutinesKeepPromise)
<1> SUFFICES ASSUME Bounded PROVE Spec => []RoutinesKeepPromise
  OBVIOUS
<1>1. Inv => RoutinesKeepPromise
  BY DEF Inv
<1> QED
  BY <1>1, Invariance, PTL
=============================================================================
