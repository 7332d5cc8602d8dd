-------------------------- MODULE SchedulerProofs --------------------------
(***************************************************************************)
(* For any number of cores up to four, any table size and any bounds: IInv *)
(* is an invariant of the scheduler, and with it its typing, the exclusion *)
(* of its locks across context switches and the place of every process.    *)
(* From it follows what the scheduler promises its processes: dead         *)
(* processes are reaped only once stopped and stay dead, pids are unique,  *)
(* wake_up leaves no sleeper, a parent in wait() misses no child, and a    *)
(* fork on core 0 returns a clone of its caller.                           *)
(***************************************************************************)
EXTENDS SchedulerInv, SequenceTheorems, TLAPS

-----------------------------------------------------------------------------
(* What the list operations do to membership. *)

(* append_list_tail adds one item and keeps the rest. *)
LEMMA AppendList ==
  ASSUME NEW S, NEW l \in Seq(S), NEW x \in S
  PROVE  /\ Append(l, x) \in Seq(S)
         /\ Append(l, x) # <<>>
         /\ \A q : OnList(Append(l, x), q) <=> OnList(l, q) \/ q = x
         /\ NoDuplicates(l) /\ ~OnList(l, x) => NoDuplicates(Append(l, x))
<1> DEFINE m == Append(l, x)
<1>1. /\ m \in Seq(S) /\ Len(m) = Len(l) + 1 /\ DOMAIN m = 1 .. Len(l) + 1
      /\ \A i \in 1 .. Len(l) : m[i] = l[i]
      /\ m[Len(l) + 1] = x
      /\ Len(l) \in Nat /\ DOMAIN l = 1 .. Len(l)
  OBVIOUS
<1>2. m # <<>>
  BY <1>1
<1>3. ASSUME NEW q PROVE OnList(m, q) <=> OnList(l, q) \/ q = x
  <2>1. OnList(m, q) => OnList(l, q) \/ q = x
    BY <1>1 DEF OnList
  <2>2. OnList(l, q) => OnList(m, q)
    BY <1>1 DEF OnList
  <2>3. q = x => OnList(m, q)
    BY <1>1 DEF OnList
  <2> QED
    BY <2>1, <2>2, <2>3
<1>4. NoDuplicates(l) /\ ~OnList(l, x) => NoDuplicates(m)
  BY <1>1 DEF OnList, NoDuplicates
<1> HIDE DEF m
<1> QED
  BY <1>1, <1>2, <1>3, <1>4 DEF m

(* remove_list_head takes the head and keeps the rest. *)
LEMMA TailList ==
  ASSUME NEW S, NEW l \in Seq(S), l # <<>>
  PROVE  /\ Tail(l) \in Seq(S)
         /\ Head(l) \in S
         /\ OnList(l, Head(l))
         /\ \A q : OnList(Tail(l), q) => OnList(l, q)
         /\ \A q : OnList(l, q) => OnList(Tail(l), q) \/ q = Head(l)
         /\ NoDuplicates(l) => NoDuplicates(Tail(l)) /\ ~OnList(Tail(l), Head(l))
<1> DEFINE m == Tail(l)
<1>1. /\ m \in Seq(S) /\ Len(l) \in Nat /\ Len(l) # 0 /\ Len(m) = Len(l) - 1
      /\ DOMAIN l = 1 .. Len(l) /\ DOMAIN m = 1 .. Len(l) - 1
      /\ \A i \in 1 .. Len(l) - 1 : m[i] = l[i + 1]
      /\ Head(l) = l[1] /\ Head(l) \in S
  BY HeadTailProperties, LenProperties
<1>2. OnList(l, Head(l))
  BY <1>1 DEF OnList
<1>3. ASSUME NEW q, OnList(m, q) PROVE OnList(l, q)
  <2>1. PICK i \in DOMAIN m : m[i] = q
    BY <1>3 DEF OnList
  <2>2. i + 1 \in DOMAIN l /\ l[i + 1] = q
    BY <1>1, <2>1
  <2> QED
    BY <2>2 DEF OnList
<1>4. ASSUME NEW q, OnList(l, q) PROVE OnList(m, q) \/ q = Head(l)
  <2>1. PICK i \in DOMAIN l : l[i] = q
    BY <1>4 DEF OnList
  <2>2. CASE i = 1
    BY <1>1, <2>1, <2>2
  <2>3. CASE i # 1
    <3>1. i - 1 \in DOMAIN m /\ m[i - 1] = q
      BY <1>1, <2>1, <2>3
    <3> QED
      BY <3>1 DEF OnList
  <2> QED
    BY <2>2, <2>3
<1>5. ASSUME NoDuplicates(l) PROVE NoDuplicates(m) /\ ~OnList(m, Head(l))
  <2>1. ASSUME NEW i \in DOMAIN m, NEW j \in DOMAIN m, m[i] = m[j] PROVE i = j
    <3>1. i + 1 \in DOMAIN l /\ j + 1 \in DOMAIN l /\ l[i + 1] = l[j + 1]
      BY <1>1, <2>1
    <3> QED
      BY <1>1, <1>5, <3>1 DEF NoDuplicates
  <2>2. ASSUME NEW i \in DOMAIN m, m[i] = Head(l) PROVE FALSE
    <3>1. i + 1 \in DOMAIN l /\ 1 \in DOMAIN l /\ l[i + 1] = l[1] /\ i + 1 # 1
      BY <1>1, <2>2
    <3> QED
      BY <1>5, <3>1 DEF NoDuplicates
  <2> QED
    BY <2>1, <2>2 DEF NoDuplicates, OnList
<1> HIDE DEF m
<1> QED
  BY <1>1, <1>2, <1>3, <1>4, <1>5 DEF m

(* remove_list takes one item and keeps the rest. *)
LEMMA RemoveAtList ==
  ASSUME NEW S, NEW l \in Seq(S), NEW k \in DOMAIN l
  PROVE  /\ RemoveAt(l, k) \in Seq(S)
         /\ l[k] \in S
         /\ OnList(l, l[k])
         /\ \A q : OnList(RemoveAt(l, k), q) => OnList(l, q)
         /\ \A q : OnList(l, q) => OnList(RemoveAt(l, k), q) \/ q = l[k]
         /\ NoDuplicates(l) => NoDuplicates(RemoveAt(l, k)) /\ ~OnList(RemoveAt(l, k), l[k])
<1> DEFINE m == RemoveAt(l, k)
           a == SubSeq(l, 1, k - 1)
           b == SubSeq(l, k + 1, Len(l))
<1>0. Len(l) \in Nat /\ DOMAIN l = 1 .. Len(l) /\ k \in 1 .. Len(l)
  BY LenProperties
<1>a. /\ a \in Seq(S) /\ Len(a) = k - 1 /\ DOMAIN a = 1 .. k - 1
      /\ \A i \in 1 .. k - 1 : a[i] = l[i]
  BY <1>0, SubSeqProperties
<1>b. /\ b \in Seq(S) /\ Len(b) = Len(l) - k
      /\ \A i \in 1 .. Len(l) - k : b[i] = l[k + i]
  BY <1>0, SubSeqProperties, SMTT(30)
<1>c. m = a \o b
  BY DEF RemoveAt
<1> HIDE DEF a, b, m
<1>1. /\ m \in Seq(S) /\ Len(m) = Len(l) - 1 /\ DOMAIN m = 1 .. Len(l) - 1
      /\ \A i \in 1 .. Len(l) - 1 : m[i] = IF i < k THEN l[i] ELSE l[i + 1]
  <2>1. m \in Seq(S) /\ Len(m) = Len(l) - 1 /\ DOMAIN m = 1 .. Len(l) - 1
    <3>1. m \in Seq(S) /\ Len(m) = Len(a) + Len(b)
      BY <1>a, <1>b, <1>c, ConcatProperties
    <3>2. Len(a) + Len(b) = Len(l) - 1
      BY <1>0, <1>a, <1>b
    <3>3. DOMAIN m = 1 .. Len(m)
      BY <3>1, LenProperties
    <3> QED
      BY <3>1, <3>2, <3>3
  <2>2. ASSUME NEW i \in 1 .. Len(l) - 1, i < k PROVE m[i] = l[i]
    BY <1>0, <1>a, <1>b, <1>c, <2>2, ConcatProperties
  <2>3. ASSUME NEW i \in 1 .. Len(l) - 1, ~(i < k) PROVE m[i] = l[i + 1]
    <3>1. m[i] = b[i - Len(a)]
      BY <1>0, <1>a, <1>b, <1>c, <2>3, ConcatProperties, SMTT(30)
    <3>2. i - Len(a) \in 1 .. Len(l) - k /\ k + (i - Len(a)) = i + 1
      BY <1>0, <1>a, <2>3
    <3> QED
      BY <1>b, <3>1, <3>2
  <2> QED
    BY <2>1, <2>2, <2>3
<1>2. l[k] \in S /\ OnList(l, l[k])
  BY <1>0, ElementOfSeq DEF OnList
<1>3. ASSUME NEW q, OnList(m, q) PROVE OnList(l, q)
  <2>1. PICK i \in DOMAIN m : m[i] = q
    BY <1>3 DEF OnList
  <2>2. \E j \in DOMAIN l : l[j] = q
    BY <1>0, <1>1, <2>1, SMTT(30)
  <2> QED
    BY <2>2 DEF OnList
<1>4. ASSUME NEW q, OnList(l, q) PROVE OnList(m, q) \/ q = l[k]
  <2>1. PICK i \in DOMAIN l : l[i] = q
    BY <1>4 DEF OnList
  <2>2. CASE i < k
    BY <1>0, <1>1, <2>1, <2>2 DEF OnList
  <2>3. CASE i > k
    <3>1. i - 1 \in DOMAIN m /\ m[i - 1] = q
      BY <1>0, <1>1, <2>1, <2>3
    <3> QED
      BY <3>1 DEF OnList
  <2> QED
    BY <1>0, <2>1, <2>2, <2>3
<1>5. ASSUME NoDuplicates(l) PROVE NoDuplicates(m) /\ ~OnList(m, l[k])
  <2>1. ASSUME NEW i \in DOMAIN m, NEW j \in DOMAIN m, m[i] = m[j] PROVE i = j
    <3> DEFINE f(n) == IF n < k THEN n ELSE n + 1
    <3>1. f(i) \in DOMAIN l /\ f(j) \in DOMAIN l /\ m[i] = l[f(i)] /\ m[j] = l[f(j)]
      BY <1>0, <1>1
    <3>2. f(i) = f(j)
      BY <1>5, <2>1, <3>1 DEF NoDuplicates
    <3> QED
      BY <1>0, <1>1, <3>2
  <2>2. ASSUME NEW i \in DOMAIN m, m[i] = l[k] PROVE FALSE
    <3> DEFINE g == IF i < k THEN i ELSE i + 1
    <3>1. g \in DOMAIN l /\ m[i] = l[g] /\ g # k
      BY <1>0, <1>1
    <3> QED
      BY <1>5, <2>2, <3>1 DEF NoDuplicates
  <2> QED
    BY <2>1, <2>2 DEF NoDuplicates, OnList
<1> QED
  BY <1>1, <1>2, <1>3, <1>4, <1>5 DEF m
-----------------------------------------------------------------------------
(* Facts about the cores that the provers need. *)
LEMMA CoresFacts ==
  /\ 0 \in Cores /\ Cores \subseteq Nat
  /\ \A c \in Cores : Idle(c) \in Slots /\ Idle(c)[1] = c /\ Idle(c)[2] = 0 /\ c < 4
  /\ UserSlots \subseteq Slots
  /\ \A p \in Slots : p[1] \in Cores /\ p[2] \in Nat /\ (p[2] # 0 <=> p \in UserSlots)
  /\ \A p \in Slots : p[2] = 0 => p = Idle(p[1])
BY SchedulerAssumption DEF Cores, Slots, UserSlots, Idle

(* The invariant holds at reset. *)
LEMMA IInvInit == Init => IInv
<1> SUFFICES ASSUME Init PROVE IInv
  OBVIOUS
<1> USE CoresFacts DEF Init
<1>1. TypeOK
  <2>1. NoCall \in Calls
    BY DEF NoCall, Calls
  <2>2. <<>> \in Seq(Slots)
    OBVIOUS
  <2>3. pc \in [Cores -> Labels]
    BY DEF Labels
  <2>4. chan \in [Cores -> {0, -1, -2, -3}] /\ boots \in [Cores -> 0 .. 2]
    OBVIOUS
  <2>5. /\ current \in [Cores -> Slots] /\ newp \in [Cores -> Slots \cup {NULL}]
        /\ visit \in [Cores -> Cores]
    OBVIOUS
  <2>6. /\ state \in [Slots -> States] /\ pid \in [Slots -> Nat] /\ wait \in [Slots -> Int]
        /\ context \in [Slots -> ResumePoints \cup {"null"}] /\ cloned \in [Slots -> Nat]
        /\ call \in [Slots -> Calls]
    BY <2>1 DEF States
  <2> QED
    BY <2>2, <2>3, <2>4, <2>5, <2>6 DEF TypeOK
<1>2. LockExclusion
  BY DEF LockExclusion, HoldsProcessLock, HoldsPidLock, AllocLabels, LockedLabels, ResumePoints
<1>3. BootInv
  BY DEF BootInv, BootOK, BootLabels, AllocLabels, HaltLabels
<1>4. ListInv
  BY DEF ListInv, OnList, NoDuplicates
<1>5. CurrentInv
  BY DEF CurrentInv, CurrentOK, RunningLabels, WakeLabels, IdleLabels, AllocLabels, HaltLabels, Resumable
<1>6. ContextInv
  BY DEF ContextInv
<1>7. PidInv
  BY DEF PidInv
<1>8. CreateInv
  BY DEF CreateInv, CreateOK, Creating, AllocLabels
<1>9. PlaceInv
  BY DEF PlaceInv, PlaceOK
<1> QED
  BY <1>1, <1>2, <1>3, <1>4, <1>5, <1>6, <1>7, <1>8, <1>9 DEF IInv
-----------------------------------------------------------------------------
(* Outside the start-up code, a core has started up. *)
LEMMA Booted ==
  ASSUME TypeOK, NEW c \in Cores, BootOK(c)
  PROVE  /\ boots[c] = 0 \/ boots[c] > 0
         /\ pc[c] \notin BootLabels \cup AllocLabels \cup HaltLabels => boots[c] = 0
<1>1. boots[c] \in 0 .. 2
  BY DEF TypeOK
<1>2. boots[c] = 0 \/ boots[c] > 0
  BY <1>1
<1> QED
  BY <1>2 DEF BootOK

(* A step of core c keeps the locks exclusive if c takes a free lock, gives *)
(* up one it holds, or neither takes nor gives.                             *)
LEMMA LockStep ==
  ASSUME LockExclusion, NEW c \in Cores,
         \A d \in Cores : d # c => pc'[d] = pc[d] /\ boots'[d] = boots[d],
         \/ process_lock' = process_lock /\ (HoldsProcessLock(c)' <=> HoldsProcessLock(c))
         \/ process_lock = 0 /\ process_lock' = 1 /\ HoldsProcessLock(c)'
         \/ process_lock' = 0 /\ HoldsProcessLock(c) /\ ~HoldsProcessLock(c)',
         \/ pid_lock' = pid_lock /\ (HoldsPidLock(c)' <=> HoldsPidLock(c))
         \/ pid_lock = 0 /\ pid_lock' = 1 /\ HoldsPidLock(c)'
         \/ pid_lock' = 0 /\ HoldsPidLock(c) /\ ~HoldsPidLock(c)'
  PROVE  LockExclusion'
<1>1. \A d \in Cores : d # c => (HoldsProcessLock(d)' <=> HoldsProcessLock(d))
  BY DEF HoldsProcessLock
<1>2. \A d \in Cores : d # c => (HoldsPidLock(d)' <=> HoldsPidLock(d))
  BY DEF HoldsPidLock
<1> QED
  BY <1>1, <1>2 DEF LockExclusion

(* A step that moves core c's control point but no process keeps IInv if   *)
(* what IInv says of core c holds at the new control point.                *)
LEMMA ControlStep ==
  ASSUME IInv, NEW c \in Cores,
         TypeOK', LockExclusion',
         UNCHANGED <<main_core_ready, pid_num, state, pid, context, current, lists, boots>>,
         \A d \in Cores : d # c => pc'[d] = pc[d] /\ chan'[d] = chan[d] /\ newp'[d] = newp[d],
         pc[c] # "kmain", pc'[c] # "kmain",
         BootOK(c)', CurrentOK(c)', CreateOK(c)',
         pc[c] \in {"kill", "kill_cs"} => pc'[c] \in {"kill", "kill_cs"},
         pc[c] \in InitLabels => pc'[c] \in InitLabels /\ newp'[c] = newp[c]
  PROVE  IInv'
<1> USE DEF IInv, lists
<1>0. pc'[0] = "kmain" <=> pc[0] = "kmain"
  BY CoresFacts
<1>3. BootInv'
  BY <1>0 DEF BootInv, BootOK
<1>4. ListInv'
  BY DEF ListInv
<1>5. CurrentInv'
  BY DEF CurrentInv, CurrentOK
<1>6. ContextInv'
  BY DEF ContextInv
<1>7. PidInv'
  BY <1>0 DEF PidInv
<1>8. CreateInv'
  BY DEF CreateInv, CreateOK, Creating
<1>9. PlaceInv'
  <2>1. ASSUME NEW p \in Slots, state[p] = "INIT"
        PROVE  \E d \in Cores : newp'[d] = p /\ pc'[d] \in InitLabels
    <3>1. PICK d \in Cores : newp[d] = p /\ pc[d] \in InitLabels
      BY <2>1 DEF PlaceInv, PlaceOK
    <3> QED
      BY <3>1
  <2>2. \A p \in Slots : pc[p[1]] \in {"kill", "kill_cs"} => pc'[p[1]] \in {"kill", "kill_cs"}
    BY CoresFacts
  <2> QED
    BY <2>1, <2>2 DEF PlaceInv, PlaceOK
<1> QED
  BY <1>3, <1>4, <1>5, <1>6, <1>7, <1>8, <1>9

(* AcquireProcessLock preserves the invariant. *)
LEMMA AcquireProcessLockStep ==
  ASSUME IInv, NEW c \in Cores, AcquireProcessLock(c)
  PROVE  IInv'
<1> USE DEF AcquireProcessLock, Goto, table, lists, locks, SpinLabels, Locked
<1>1. TypeOK /\ LockExclusion /\ BootOK(c) /\ CurrentOK(c) /\ CreateOK(c) /\ BootInv
  BY DEF IInv, BootInv, CurrentInv, CreateInv
<1>2. TypeOK'
  BY <1>1 DEF TypeOK, Labels, AllocLabels, LockedLabels, SpinLabels, ResumePoints
<1>3. LockExclusion'
  BY <1>1, LockStep DEF TypeOK, HoldsProcessLock, HoldsPidLock, AllocLabels, LockedLabels, ResumePoints, BootOK, BootLabels, HaltLabels
<1>4. BootOK(c)'
  BY <1>1, CoresFacts DEF TypeOK, BootOK, BootInv, BootLabels, AllocLabels, HaltLabels
<1>5. CurrentOK(c)'
  <2>1. boots[c] = 0 /\ pc'[c] = Locked(pc[c])
    BY <1>1, Booted DEF TypeOK, BootLabels, AllocLabels, HaltLabels
  <2>2. CASE pc[c] = "wake"
    BY <1>1, <2>1, <2>2 DEF CurrentOK, RunningLabels, WakeLabels, IdleLabels, AllocLabels, HaltLabels, Resumable
  <2>3. CASE pc[c] = "yield"
    BY <1>1, <2>1, <2>3 DEF CurrentOK, RunningLabels, WakeLabels, IdleLabels, AllocLabels, HaltLabels, Resumable
  <2>4. CASE pc[c] \in {"kill", "exit"}
    BY <1>1, <2>1, <2>4 DEF CurrentOK, RunningLabels, WakeLabels, IdleLabels, AllocLabels, HaltLabels, Resumable
  <2>5. CASE pc[c] \in {"sleep", "wait", "fork", "ps"}
    BY <1>1, <2>1, <2>5 DEF CurrentOK, RunningLabels, WakeLabels, IdleLabels, AllocLabels, HaltLabels, Resumable
  <2> QED
    BY <2>2, <2>3, <2>4, <2>5
<1>6. CreateOK(c)'
  BY <1>1 DEF TypeOK, CreateOK, Creating, AllocLabels
<1> QED
  BY <1>1, <1>2, <1>3, <1>4, <1>5, <1>6, ControlStep DEF TypeOK, InitLabels, HaltLabels, AllocLabels

(* AcquirePidLock preserves the invariant. *)
LEMMA AcquirePidLockStep ==
  ASSUME IInv, NEW c \in Cores, AcquirePidLock(c)
  PROVE  IInv'
<1> USE DEF AcquirePidLock, Goto, table, lists, locks
<1>1. TypeOK /\ LockExclusion /\ BootOK(c) /\ CurrentOK(c) /\ CreateOK(c) /\ BootInv
  BY DEF IInv, BootInv, CurrentInv, CreateInv
<1>2. TypeOK'
  BY <1>1 DEF TypeOK, Labels, AllocLabels, LockedLabels, SpinLabels, ResumePoints
<1>3. LockExclusion'
  BY <1>1, LockStep DEF TypeOK, HoldsProcessLock, HoldsPidLock, AllocLabels, LockedLabels, ResumePoints, BootOK, BootLabels, HaltLabels
<1>4. BootOK(c)'
  BY <1>1, CoresFacts DEF TypeOK, BootOK, BootInv, BootLabels, AllocLabels, HaltLabels
<1>5. CurrentOK(c)'
  BY <1>1, CoresFacts DEF TypeOK, CurrentOK, BootOK, BootLabels, RunningLabels, WakeLabels, IdleLabels, AllocLabels, HaltLabels, Resumable
<1>6. CreateOK(c)'
  BY <1>1 DEF TypeOK, CreateOK, Creating, AllocLabels
<1> QED
  BY <1>1, <1>2, <1>3, <1>4, <1>5, <1>6, ControlStep DEF TypeOK, InitLabels, HaltLabels, AllocLabels

(* AllocPageMap preserves the invariant. *)
LEMMA AllocPageMapStep ==
  ASSUME IInv, NEW c \in Cores, AllocPageMap(c)
  PROVE  IInv'
<1> USE DEF AllocPageMap, Goto, table, lists, locks
<1>1. TypeOK /\ LockExclusion /\ BootOK(c) /\ CurrentOK(c) /\ CreateOK(c) /\ BootInv
  BY DEF IInv, BootInv, CurrentInv, CreateInv
<1>2. TypeOK'
  BY <1>1 DEF TypeOK, Labels, AllocLabels, LockedLabels, SpinLabels, ResumePoints
<1>3. LockExclusion'
  <2>0. /\ pc'[c] = IF boots[c] > 0 THEN "setup_uvm" ELSE "copy_uvm"
        /\ boots[c] = 0 \/ boots[c] > 0
    BY <1>1, Booted DEF TypeOK
  <2>1. /\ HoldsPidLock(c) /\ ~HoldsPidLock(c)'
        /\ HoldsProcessLock(c)' <=> HoldsProcessLock(c)
        /\ \A d \in Cores : d # c => pc'[d] = pc[d]
    BY <1>1, <2>0 DEF TypeOK, HoldsProcessLock, HoldsPidLock, AllocLabels, LockedLabels, ResumePoints
  <2> QED
    BY <1>1, <2>1, LockStep
<1>4. BootOK(c)'
  BY <1>1, CoresFacts DEF TypeOK, BootOK, BootInv, BootLabels, AllocLabels, HaltLabels
<1>5. CurrentOK(c)'
  <2>1. CASE boots[c] > 0
    BY <1>1, <2>1 DEF TypeOK, BootOK, CurrentOK, RunningLabels, WakeLabels, IdleLabels, AllocLabels, HaltLabels, Resumable
  <2>2. CASE boots[c] = 0
    BY <1>1, <2>2 DEF TypeOK, CurrentOK, RunningLabels, WakeLabels, IdleLabels, AllocLabels, HaltLabels, Resumable
  <2> QED
    BY <1>1, <2>1, <2>2, Booted
<1>6. CreateOK(c)'
  BY <1>1 DEF TypeOK, CreateOK, Creating, AllocLabels
<1> QED
  BY <1>1, <1>2, <1>3, <1>4, <1>5, <1>6, ControlStep DEF TypeOK, InitLabels, HaltLabels, AllocLabels

(* AllocFails preserves the invariant. *)
LEMMA AllocFailsStep ==
  ASSUME IInv, NEW c \in Cores, AllocFails(c)
  PROVE  IInv'
<1> USE DEF AllocFails, Goto, table, lists, locks
<1>1. TypeOK /\ LockExclusion /\ BootOK(c) /\ CurrentOK(c) /\ CreateOK(c) /\ BootInv
  BY DEF IInv, BootInv, CurrentInv, CreateInv
<1>2. TypeOK'
  BY <1>1 DEF TypeOK, Labels, AllocLabels, LockedLabels, SpinLabels, ResumePoints
<1>3. LockExclusion'
  BY <1>1, LockStep DEF TypeOK, HoldsProcessLock, HoldsPidLock, AllocLabels, LockedLabels, ResumePoints, BootOK, BootLabels, HaltLabels
<1>4. BootOK(c)'
  BY <1>1, CoresFacts, SMTT(30) DEF TypeOK, BootOK, BootInv, BootLabels, AllocLabels, HaltLabels
<1>5. CurrentOK(c)'
  BY <1>1, CoresFacts DEF TypeOK, CurrentOK, BootOK, BootLabels, RunningLabels, WakeLabels, IdleLabels, AllocLabels, HaltLabels, Resumable
<1>6. CreateOK(c)'
  BY <1>1 DEF TypeOK, CreateOK, Creating, AllocLabels
<1> QED
  BY <1>1, <1>2, <1>3, <1>4, <1>5, <1>6, ControlStep DEF TypeOK, InitLabels, HaltLabels, AllocLabels

(* LeaveSpin preserves the invariant. *)
LEMMA LeaveSpinStep ==
  ASSUME IInv, NEW c \in Cores, LeaveSpin(c)
  PROVE  IInv'
<1> USE DEF LeaveSpin, Goto, table, lists, locks
<1>1. TypeOK /\ LockExclusion /\ BootOK(c) /\ CurrentOK(c) /\ CreateOK(c) /\ BootInv
  BY DEF IInv, BootInv, CurrentInv, CreateInv
<1>2. TypeOK'
  BY <1>1 DEF TypeOK, Labels, AllocLabels, LockedLabels, SpinLabels, ResumePoints
<1>3. LockExclusion'
  BY <1>1, LockStep DEF TypeOK, HoldsProcessLock, HoldsPidLock, AllocLabels, LockedLabels, ResumePoints, BootOK, BootLabels, HaltLabels
<1>4. BootOK(c)'
  BY <1>1, CoresFacts DEF TypeOK, BootOK, BootInv, BootLabels, AllocLabels, HaltLabels
<1>5. CurrentOK(c)'
  BY <1>1, CoresFacts DEF TypeOK, CurrentOK, BootOK, BootLabels, RunningLabels, WakeLabels, IdleLabels, AllocLabels, HaltLabels, Resumable
<1>6. CreateOK(c)'
  BY <1>1 DEF TypeOK, CreateOK, Creating, AllocLabels
<1> QED
  BY <1>1, <1>2, <1>3, <1>4, <1>5, <1>6, ControlStep DEF TypeOK, InitLabels, HaltLabels, AllocLabels

(* InitProcess preserves the invariant. *)
LEMMA InitProcessStep ==
  ASSUME IInv, NEW c \in Cores, InitProcess(c)
  PROVE  IInv'
<1> USE DEF InitProcess, Goto, table, lists, locks, FindsSlot, Unused
<1>1. TypeOK /\ LockExclusion /\ BootOK(c) /\ CurrentOK(c) /\ CreateOK(c) /\ BootInv
  BY DEF IInv, BootInv, CurrentInv, CreateInv
<1>2. TypeOK'
  <2>1. PICK i \in 1 .. NUM_PROC - 1 :
          /\ state[<<c, i>>] = "UNUSED" /\ newp' = [newp EXCEPT ![c] = <<c, i>>]
          /\ pc' = [pc EXCEPT ![c] = "alloc_lock"]
    BY DEF Unused, FindsSlot, Goto
  <2>2. <<c, i>> \in UserSlots /\ <<c, i>> \in Slots
    BY CoresFacts, SchedulerAssumption DEF UserSlots, Slots
  <2>3. newp' \in [Cores -> Slots \cup {NULL}] /\ pc' \in [Cores -> Labels]
    BY <1>1, <2>1, <2>2 DEF TypeOK, Labels, AllocLabels
  <2> QED
    BY <1>1, <2>3 DEF TypeOK
<1>3. LockExclusion'
  <2>1. pc[c] = "init_process" /\ pc' = [pc EXCEPT ![c] = "alloc_lock"] /\ boots[c] > 0
    BY <1>1 DEF FindsSlot, BootOK, BootLabels
  <2>2. /\ HoldsPidLock(c)' <=> HoldsPidLock(c)
        /\ HoldsProcessLock(c)' <=> HoldsProcessLock(c)
        /\ \A d \in Cores : d # c => pc'[d] = pc[d]
    BY <1>1, <2>1 DEF TypeOK, HoldsProcessLock, HoldsPidLock, AllocLabels, LockedLabels, ResumePoints
  <2> QED
    BY <1>1, <2>2, LockStep
<1>4. BootOK(c)'
  BY <1>1, CoresFacts DEF TypeOK, BootOK, BootInv, BootLabels, AllocLabels, HaltLabels
<1>5. CurrentOK(c)'
  BY <1>1, CoresFacts DEF TypeOK, CurrentOK, BootOK, BootLabels, RunningLabels, WakeLabels, IdleLabels, AllocLabels, HaltLabels, Resumable
<1>6. CreateOK(c)'
  <2>1. PICK i \in 1 .. NUM_PROC - 1 :
          /\ state[<<c, i>>] = "UNUSED" /\ newp' = [newp EXCEPT ![c] = <<c, i>>]
          /\ pc' = [pc EXCEPT ![c] = "alloc_lock"]
    BY DEF Unused, FindsSlot, Goto
  <2>2. <<c, i>> \in UserSlots /\ <<c, i>> \in Slots
    BY CoresFacts, SchedulerAssumption DEF UserSlots, Slots
  <2>3. pc'[c] = "alloc_lock" /\ newp'[c] = <<c, i>> /\ boots[c] > 0 /\ state'[newp'[c]] = "UNUSED"
    BY <1>1, <2>1 DEF TypeOK, BootOK, BootLabels
  <2> QED
    BY <1>1, <2>2, <2>3 DEF CreateOK, Creating, AllocLabels
<1>7. /\ UNCHANGED <<main_core_ready, pid_num, state, pid, context, current, lists, boots>>
      /\ \A d \in Cores : d # c => pc'[d] = pc[d] /\ chan'[d] = chan[d] /\ newp'[d] = newp[d]
  BY <1>1 DEF TypeOK, FindsSlot
<1>8. pc[c] = "init_process" /\ pc'[c] = "alloc_lock"
  BY <1>1 DEF TypeOK, FindsSlot
<1> HIDE DEF InitProcess, Goto, table, lists, locks
<1> QED
  BY <1>2, <1>3, <1>4, <1>5, <1>6, <1>7, <1>8, ControlStep DEF InitLabels, HaltLabels

(* SetupUvmFails preserves the invariant. *)
LEMMA SetupUvmFailsStep ==
  ASSUME IInv, NEW c \in Cores, SetupUvmFails(c)
  PROVE  IInv'
<1> USE DEF SetupUvmFails, Goto, table, lists, locks
<1>1. TypeOK /\ LockExclusion /\ BootOK(c) /\ CurrentOK(c) /\ CreateOK(c) /\ BootInv
  BY DEF IInv, BootInv, CurrentInv, CreateInv
<1>2. TypeOK'
  BY <1>1 DEF TypeOK, Labels, AllocLabels, LockedLabels, SpinLabels, ResumePoints
<1>3. LockExclusion'
  <2>1. boots[c] > 0 /\ pc'[c] = "halted"
    BY <1>1 DEF TypeOK, BootOK, BootLabels, AllocLabels, HaltLabels
  <2>2. /\ HoldsPidLock(c)' <=> HoldsPidLock(c)
        /\ HoldsProcessLock(c)' <=> HoldsProcessLock(c)
        /\ \A d \in Cores : d # c => pc'[d] = pc[d]
    BY <1>1, <2>1 DEF TypeOK, HoldsProcessLock, HoldsPidLock, AllocLabels, LockedLabels, ResumePoints
  <2> QED
    BY <1>1, <2>2, LockStep
<1>4. BootOK(c)'
  BY <1>1, CoresFacts DEF TypeOK, BootOK, BootInv, BootLabels, AllocLabels, HaltLabels
<1>5. CurrentOK(c)'
  BY <1>1, CoresFacts DEF TypeOK, CurrentOK, BootOK, BootLabels, RunningLabels, WakeLabels, IdleLabels, AllocLabels, HaltLabels, Resumable
<1>6. CreateOK(c)'
  BY <1>1 DEF TypeOK, CreateOK, Creating, AllocLabels
<1> QED
  BY <1>1, <1>2, <1>3, <1>4, <1>5, <1>6, ControlStep DEF TypeOK, InitLabels, HaltLabels, AllocLabels

(* TimerIrq preserves the invariant. *)
LEMMA TimerIrqStep ==
  ASSUME IInv, NEW c \in Cores, TimerIrq(c)
  PROVE  IInv'
<1> USE DEF TimerIrq, Goto, table, lists, locks
<1>1. TypeOK /\ LockExclusion /\ BootOK(c) /\ CurrentOK(c) /\ CreateOK(c) /\ BootInv
  BY DEF IInv, BootInv, CurrentInv, CreateInv
<1>2. TypeOK'
  BY <1>1 DEF TypeOK, Labels, AllocLabels, LockedLabels, SpinLabels, ResumePoints
<1>3. LockExclusion'
  BY <1>1, LockStep DEF TypeOK, HoldsProcessLock, HoldsPidLock, AllocLabels, LockedLabels, ResumePoints, BootOK, BootLabels, HaltLabels
<1>4. BootOK(c)'
  BY <1>1, CoresFacts DEF TypeOK, BootOK, BootInv, BootLabels, AllocLabels, HaltLabels
<1>5. CurrentOK(c)'
  BY <1>1, CoresFacts DEF TypeOK, CurrentOK, BootOK, BootLabels, RunningLabels, WakeLabels, IdleLabels, AllocLabels, HaltLabels, Resumable
<1>6. CreateOK(c)'
  BY <1>1 DEF TypeOK, CreateOK, Creating, AllocLabels
<1> QED
  BY <1>1, <1>2, <1>3, <1>4, <1>5, <1>6, ControlStep DEF TypeOK, InitLabels, HaltLabels, AllocLabels

(* UartIrq preserves the invariant. *)
LEMMA UartIrqStep ==
  ASSUME IInv, NEW c \in Cores, UartIrq(c)
  PROVE  IInv'
<1> USE DEF UartIrq, Goto, table, lists, locks
<1>1. TypeOK /\ LockExclusion /\ BootOK(c) /\ CurrentOK(c) /\ CreateOK(c) /\ BootInv
  BY DEF IInv, BootInv, CurrentInv, CreateInv
<1>2. TypeOK'
  BY <1>1 DEF TypeOK, Labels, AllocLabels, LockedLabels, SpinLabels, ResumePoints
<1>3. LockExclusion'
  BY <1>1, LockStep DEF TypeOK, HoldsProcessLock, HoldsPidLock, AllocLabels, LockedLabels, ResumePoints, BootOK, BootLabels, HaltLabels
<1>4. BootOK(c)'
  BY <1>1, CoresFacts DEF TypeOK, BootOK, BootInv, BootLabels, AllocLabels, HaltLabels
<1>5. CurrentOK(c)'
  BY <1>1, CoresFacts DEF TypeOK, CurrentOK, BootOK, BootLabels, RunningLabels, WakeLabels, IdleLabels, AllocLabels, HaltLabels, Resumable
<1>6. CreateOK(c)'
  BY <1>1 DEF TypeOK, CreateOK, Creating, AllocLabels
<1> QED
  BY <1>1, <1>2, <1>3, <1>4, <1>5, <1>6, ControlStep DEF TypeOK, InitLabels, HaltLabels, AllocLabels

(* WakeNext preserves the invariant. *)
LEMMA WakeNextStep ==
  ASSUME IInv, NEW c \in Cores, WakeNext(c)
  PROVE  IInv'
<1> USE DEF WakeNext, table, lists, locks
<1>1. TypeOK /\ LockExclusion /\ BootOK(c) /\ CurrentOK(c) /\ CreateOK(c) /\ BootInv
  BY DEF IInv, BootInv, CurrentInv, CreateInv
<1>2. TypeOK'
  BY <1>1 DEF TypeOK
<1>3. LockExclusion'
  BY <1>1 DEF LockExclusion, HoldsProcessLock, HoldsPidLock
<1>4. BootOK(c)'
  BY <1>1 DEF BootOK
<1>5. CurrentOK(c)'
  BY <1>1 DEF CurrentOK
<1>6. CreateOK(c)'
  BY <1>1 DEF CreateOK, Creating
<1> QED
  BY <1>1, <1>2, <1>3, <1>4, <1>5, <1>6, ControlStep DEF InitLabels, HaltLabels

(* WakeReturn preserves the invariant. *)
LEMMA WakeReturnStep ==
  ASSUME IInv, NEW c \in Cores, WakeReturn(c)
  PROVE  IInv'
<1> USE DEF WakeReturn, Goto, table, lists, locks
<1>1. TypeOK /\ LockExclusion /\ BootOK(c) /\ CurrentOK(c) /\ CreateOK(c) /\ BootInv
  BY DEF IInv, BootInv, CurrentInv, CreateInv
<1>2. TypeOK'
  BY <1>1, CoresFacts DEF TypeOK, Labels, AllocLabels, LockedLabels, SpinLabels, ResumePoints
<1>3. LockExclusion'
  BY <1>1, LockStep DEF TypeOK, HoldsProcessLock, HoldsPidLock, AllocLabels, LockedLabels, ResumePoints, BootOK, BootLabels, HaltLabels
<1>4. BootOK(c)'
  BY <1>1, CoresFacts DEF TypeOK, BootOK, BootInv, BootLabels, AllocLabels, HaltLabels
<1>5. CurrentOK(c)'
  <2>0. boots[c] = 0
    BY <1>1, Booted DEF BootLabels, AllocLabels, HaltLabels
  <2>1. boots[c] = 0 /\ chan[c] \in {-1, -2, -3} /\ chan'[c] = 0
    BY <1>1, <2>0 DEF TypeOK, CurrentOK, WakeLabels
  <2>2. CASE chan[c] = -3
    <3>1. pc'[c] = "exit" /\ state[current[c]] = "KILLED" /\ OnList(kill_list[c], current[c])
      BY <1>1, <2>2 DEF TypeOK, CurrentOK, WakeLabels
    <3> QED
      BY <1>1, <2>1, <2>2, <3>1 DEF CurrentOK, RunningLabels, WakeLabels, IdleLabels, AllocLabels, HaltLabels, Resumable
  <2>3. CASE chan[c] \in {-1, -2}
    <3>1. pc'[c] \in {"yield", "user"} /\ state[current[c]] = "RUNNING"
      BY <1>1, <2>3 DEF TypeOK, CurrentOK, WakeLabels
    <3> QED
      BY <1>1, <2>1, <3>1 DEF CurrentOK, RunningLabels, WakeLabels, IdleLabels, AllocLabels, HaltLabels, Resumable
  <2> QED
    BY <2>1, <2>2, <2>3
<1>6. CreateOK(c)'
  BY <1>1 DEF TypeOK, CreateOK, Creating, AllocLabels
<1>7. /\ UNCHANGED <<main_core_ready, pid_num, state, pid, context, current, lists, boots>>
      /\ \A d \in Cores : d # c => pc'[d] = pc[d] /\ chan'[d] = chan[d] /\ newp'[d] = newp[d]
  BY <1>1 DEF TypeOK
<1>8. pc[c] = "wake_cs" /\ pc'[c] \in {"yield", "user", "exit"}
  BY <1>1 DEF TypeOK
<1> HIDE DEF WakeReturn, Goto, table, lists, locks
<1> QED
  BY <1>2, <1>3, <1>4, <1>5, <1>6, <1>7, <1>8, ControlStep DEF InitLabels, HaltLabels

(* YieldReturn preserves the invariant. *)
LEMMA YieldReturnStep ==
  ASSUME IInv, NEW c \in Cores, YieldReturn(c)
  PROVE  IInv'
<1> USE DEF YieldReturn, Goto, table, lists, locks
<1>1. TypeOK /\ LockExclusion /\ BootOK(c) /\ CurrentOK(c) /\ CreateOK(c) /\ BootInv
  BY DEF IInv, BootInv, CurrentInv, CreateInv
<1>2. TypeOK'
  BY <1>1 DEF TypeOK, Labels, AllocLabels, LockedLabels, SpinLabels, ResumePoints
<1>3. LockExclusion'
  BY <1>1, LockStep DEF TypeOK, HoldsProcessLock, HoldsPidLock, AllocLabels, LockedLabels, ResumePoints, BootOK, BootLabels, HaltLabels
<1>4. BootOK(c)'
  BY <1>1, CoresFacts DEF TypeOK, BootOK, BootInv, BootLabels, AllocLabels, HaltLabels
<1>5. CurrentOK(c)'
  BY <1>1, CoresFacts DEF TypeOK, CurrentOK, BootOK, BootLabels, RunningLabels, WakeLabels, IdleLabels, AllocLabels, HaltLabels, Resumable
<1>6. CreateOK(c)'
  BY <1>1 DEF TypeOK, CreateOK, Creating, AllocLabels
<1> QED
  BY <1>1, <1>2, <1>3, <1>4, <1>5, <1>6, ControlStep DEF TypeOK, InitLabels, HaltLabels, AllocLabels

(* ReleaseToUser preserves the invariant. *)
LEMMA ReleaseToUserStep ==
  ASSUME IInv, NEW c \in Cores, ReleaseToUser(c)
  PROVE  IInv'
<1> USE DEF ReleaseToUser, Goto, table, lists, locks
<1>1. TypeOK /\ LockExclusion /\ BootOK(c) /\ CurrentOK(c) /\ CreateOK(c) /\ BootInv
  BY DEF IInv, BootInv, CurrentInv, CreateInv
<1>2. TypeOK'
  BY <1>1 DEF TypeOK, Labels, AllocLabels, LockedLabels, SpinLabels, ResumePoints
<1>3. LockExclusion'
  BY <1>1, LockStep DEF TypeOK, HoldsProcessLock, HoldsPidLock, AllocLabels, LockedLabels, ResumePoints, BootOK, BootLabels, HaltLabels
<1>4. BootOK(c)'
  BY <1>1, CoresFacts DEF TypeOK, BootOK, BootInv, BootLabels, AllocLabels, HaltLabels
<1>5. CurrentOK(c)'
  BY <1>1, CoresFacts DEF TypeOK, CurrentOK, BootOK, BootLabels, RunningLabels, WakeLabels, IdleLabels, AllocLabels, HaltLabels, Resumable
<1>6. CreateOK(c)'
  BY <1>1 DEF TypeOK, CreateOK, Creating, AllocLabels
<1> QED
  BY <1>1, <1>2, <1>3, <1>4, <1>5, <1>6, ControlStep DEF TypeOK, InitLabels, HaltLabels, AllocLabels

(* ReleaseToLoop preserves the invariant. *)
LEMMA ReleaseToLoopStep ==
  ASSUME IInv, NEW c \in Cores, ReleaseToLoop(c)
  PROVE  IInv'
<1> USE DEF ReleaseToLoop, Goto, table, lists, locks
<1>1. TypeOK /\ LockExclusion /\ BootOK(c) /\ CurrentOK(c) /\ CreateOK(c) /\ BootInv
  BY DEF IInv, BootInv, CurrentInv, CreateInv
<1>2. TypeOK'
  <2>1. pc' \in [Cores -> Labels]
    BY <1>1 DEF TypeOK, Labels, SpinLabels
  <2> QED
    BY <1>1, <2>1 DEF TypeOK
<1>3. LockExclusion'
  BY <1>1, LockStep DEF TypeOK, HoldsProcessLock, HoldsPidLock, AllocLabels, LockedLabels, ResumePoints, BootOK, BootLabels, HaltLabels
<1>i. boots[c] = 0 /\ pc[c] = "sleep_rel" /\ pc'[c] \in {"wait", "sleep"}
  BY <1>1, Booted DEF TypeOK, BootLabels, AllocLabels, HaltLabels
<1>4. BootOK(c)'
  <2>1. boots'[c] = 0 /\ main_core_ready' = main_core_ready
    BY <1>i
  <2>2. main_core_ready \/ c = 0
    BY <1>1, <1>i DEF BootOK
  <2> QED
    BY <1>i, <2>1, <2>2 DEF BootOK, BootLabels
<1>5. CurrentOK(c)'
  <2>1. boots[c] = 0 /\ pc[c] = "sleep_rel" /\ pc'[c] \in {"wait", "sleep"}
    BY <1>i
  <2>2. state[current[c]] = "RUNNING" /\ current[c] # Idle(c)
    BY <1>1, <2>1 DEF CurrentOK, RunningLabels, Resumable, IdleLabels, WakeLabels
  <2> QED
    BY <1>1, <2>1, <2>2 DEF CurrentOK, RunningLabels, WakeLabels, IdleLabels, AllocLabels, HaltLabels, Resumable
<1>6. CreateOK(c)'
  BY <1>1 DEF TypeOK, CreateOK, Creating, AllocLabels
<1> QED
  BY <1>1, <1>2, <1>3, <1>4, <1>5, <1>6, ControlStep DEF TypeOK, InitLabels, HaltLabels, AllocLabels

(* ReleaseAndReturn preserves the invariant. *)
LEMMA ReleaseAndReturnStep ==
  ASSUME IInv, NEW c \in Cores, ReleaseAndReturn(c)
  PROVE  IInv'
<1> USE DEF ReleaseAndReturn, Goto, table, lists, locks
<1>1. TypeOK /\ LockExclusion /\ BootOK(c) /\ CurrentOK(c) /\ CreateOK(c) /\ BootInv
  BY DEF IInv, BootInv, CurrentInv, CreateInv
<1>2. TypeOK'
  BY <1>1 DEF TypeOK, Labels, AllocLabels, LockedLabels, SpinLabels, ResumePoints, Calls, NoCall
<1>3. LockExclusion'
  BY <1>1, LockStep DEF TypeOK, HoldsProcessLock, HoldsPidLock, AllocLabels, LockedLabels, ResumePoints, BootOK, BootLabels, HaltLabels
<1>4. BootOK(c)'
  BY <1>1, CoresFacts DEF TypeOK, BootOK, BootInv, BootLabels, AllocLabels, HaltLabels
<1>5. CurrentOK(c)'
  BY <1>1, CoresFacts DEF TypeOK, CurrentOK, BootOK, BootLabels, RunningLabels, WakeLabels, IdleLabels, AllocLabels, HaltLabels, Resumable
<1>6. CreateOK(c)'
  BY <1>1 DEF TypeOK, CreateOK, Creating, AllocLabels
<1> QED
  BY <1>1, <1>2, <1>3, <1>4, <1>5, <1>6, ControlStep DEF TypeOK, InitLabels, HaltLabels, AllocLabels

(* SysSleep preserves the invariant. *)
LEMMA SysSleepStep ==
  ASSUME IInv, NEW c \in Cores, SysSleep(c)
  PROVE  IInv'
<1> USE DEF SysSleep, Goto, table, lists, locks, CallsInto
<1>1. TypeOK /\ LockExclusion /\ BootOK(c) /\ CurrentOK(c) /\ CreateOK(c) /\ BootInv
  BY DEF IInv, BootInv, CurrentInv, CreateInv
<1>2. TypeOK'
  <2>1. pc' \in [Cores -> Labels]
    BY <1>1 DEF TypeOK, Labels, SpinLabels
  <2>2. call' \in [Slots -> Calls]
    BY <1>1 DEF TypeOK, Calls
  <2> QED
    BY <1>1, <2>1, <2>2 DEF TypeOK
<1>3. LockExclusion'
  BY <1>1, LockStep DEF TypeOK, HoldsProcessLock, HoldsPidLock, AllocLabels, LockedLabels, ResumePoints, BootOK, BootLabels, HaltLabels
<1>4. BootOK(c)'
  BY <1>1, CoresFacts DEF TypeOK, BootOK, BootInv, BootLabels, AllocLabels, HaltLabels
<1>5. CurrentOK(c)'
  BY <1>1, CoresFacts DEF TypeOK, CurrentOK, BootOK, BootLabels, RunningLabels, WakeLabels, IdleLabels, AllocLabels, HaltLabels, Resumable
<1>6. CreateOK(c)'
  BY <1>1 DEF TypeOK, CreateOK, Creating, AllocLabels
<1> QED
  BY <1>1, <1>2, <1>3, <1>4, <1>5, <1>6, ControlStep, ZenonT(40) DEF TypeOK, InitLabels, HaltLabels, AllocLabels

(* SysWait preserves the invariant. *)
LEMMA SysWaitStep ==
  ASSUME IInv, NEW c \in Cores, SysWait(c)
  PROVE  IInv'
<1> USE DEF SysWait, Goto, table, lists, locks, CallsInto
<1>1. TypeOK /\ LockExclusion /\ BootOK(c) /\ CurrentOK(c) /\ CreateOK(c) /\ BootInv
  BY DEF IInv, BootInv, CurrentInv, CreateInv
<1>2. TypeOK'
  <2>1. \A n \in WaitPids : [fn |-> "wait", arg |-> n] \in Calls
    BY SchedulerAssumption DEF Calls
  <2>2. call' \in [Slots -> Calls]
    BY <1>1, <2>1 DEF TypeOK
  <2>3. pc' \in [Cores -> Labels]
    BY <1>1 DEF TypeOK, Labels, SpinLabels
  <2> QED
    BY <1>1, <2>2, <2>3 DEF TypeOK
<1>3. LockExclusion'
  BY <1>1, LockStep DEF TypeOK, HoldsProcessLock, HoldsPidLock, AllocLabels, LockedLabels, ResumePoints, BootOK, BootLabels, HaltLabels
<1>4. BootOK(c)'
  BY <1>1, CoresFacts DEF TypeOK, BootOK, BootInv, BootLabels, AllocLabels, HaltLabels
<1>5. CurrentOK(c)'
  BY <1>1, CoresFacts DEF TypeOK, CurrentOK, BootOK, BootLabels, RunningLabels, WakeLabels, IdleLabels, AllocLabels, HaltLabels, Resumable
<1>6. CreateOK(c)'
  BY <1>1 DEF TypeOK, CreateOK, Creating, AllocLabels
<1> QED
  BY <1>1, <1>2, <1>3, <1>4, <1>5, <1>6, ControlStep DEF TypeOK, InitLabels, HaltLabels, AllocLabels

(* WaitSleeps preserves the invariant. *)
LEMMA WaitSleepsStep ==
  ASSUME IInv, NEW c \in Cores, WaitSleeps(c)
  PROVE  IInv'
<1> USE DEF WaitSleeps, Goto, table, lists, locks
<1>1. TypeOK /\ LockExclusion /\ BootOK(c) /\ CurrentOK(c) /\ CreateOK(c) /\ BootInv
  BY DEF IInv, BootInv, CurrentInv, CreateInv
<1>2. TypeOK'
  BY <1>1 DEF TypeOK, Labels, AllocLabels, LockedLabels, SpinLabels, ResumePoints
<1>3. LockExclusion'
  BY <1>1, LockStep DEF TypeOK, HoldsProcessLock, HoldsPidLock, AllocLabels, LockedLabels, ResumePoints, BootOK, BootLabels, HaltLabels
<1>4. BootOK(c)'
  BY <1>1, CoresFacts DEF TypeOK, BootOK, BootInv, BootLabels, AllocLabels, HaltLabels
<1>5. CurrentOK(c)'
  BY <1>1, CoresFacts DEF TypeOK, CurrentOK, BootOK, BootLabels, RunningLabels, WakeLabels, IdleLabels, AllocLabels, HaltLabels, Resumable
<1>6. CreateOK(c)'
  BY <1>1 DEF TypeOK, CreateOK, Creating, AllocLabels
<1> QED
  BY <1>1, <1>2, <1>3, <1>4, <1>5, <1>6, ControlStep DEF TypeOK, InitLabels, HaltLabels, AllocLabels

(* SysGetPs preserves the invariant. *)
LEMMA SysGetPsStep ==
  ASSUME IInv, NEW c \in Cores, SysGetPs(c)
  PROVE  IInv'
<1> USE DEF SysGetPs, Goto, table, lists, locks, CallsInto
<1>1. TypeOK /\ LockExclusion /\ BootOK(c) /\ CurrentOK(c) /\ CreateOK(c) /\ BootInv
  BY DEF IInv, BootInv, CurrentInv, CreateInv
<1>2. TypeOK'
  BY <1>1 DEF TypeOK, Labels, AllocLabels, LockedLabels, SpinLabels, ResumePoints
<1>3. LockExclusion'
  BY <1>1, LockStep DEF TypeOK, HoldsProcessLock, HoldsPidLock, AllocLabels, LockedLabels, ResumePoints, BootOK, BootLabels, HaltLabels
<1>4. BootOK(c)'
  BY <1>1, CoresFacts DEF TypeOK, BootOK, BootInv, BootLabels, AllocLabels, HaltLabels
<1>5. CurrentOK(c)'
  BY <1>1, CoresFacts DEF TypeOK, CurrentOK, BootOK, BootLabels, RunningLabels, WakeLabels, IdleLabels, AllocLabels, HaltLabels, Resumable
<1>6. CreateOK(c)'
  BY <1>1 DEF TypeOK, CreateOK, Creating, AllocLabels
<1> QED
  BY <1>1, <1>2, <1>3, <1>4, <1>5, <1>6, ControlStep DEF TypeOK, InitLabels, HaltLabels, AllocLabels

(* GetProcessState preserves the invariant. *)
LEMMA GetProcessStateStep ==
  ASSUME IInv, NEW c \in Cores, GetProcessState(c)
  PROVE  IInv'
<1> USE DEF GetProcessState, Goto, table, lists, locks
<1>1. TypeOK /\ LockExclusion /\ BootOK(c) /\ CurrentOK(c) /\ CreateOK(c) /\ BootInv
  BY DEF IInv, BootInv, CurrentInv, CreateInv
<1>2. TypeOK'
  BY <1>1 DEF TypeOK, Labels, AllocLabels, LockedLabels, SpinLabels, ResumePoints
<1>3. LockExclusion'
  BY <1>1, LockStep DEF TypeOK, HoldsProcessLock, HoldsPidLock, AllocLabels, LockedLabels, ResumePoints, BootOK, BootLabels, HaltLabels
<1>4. BootOK(c)'
  BY <1>1, CoresFacts DEF TypeOK, BootOK, BootInv, BootLabels, AllocLabels, HaltLabels
<1>5. CurrentOK(c)'
  BY <1>1, CoresFacts DEF TypeOK, CurrentOK, BootOK, BootLabels, RunningLabels, WakeLabels, IdleLabels, AllocLabels, HaltLabels, Resumable
<1>6. CreateOK(c)'
  BY <1>1 DEF TypeOK, CreateOK, Creating, AllocLabels
<1> QED
  BY <1>1, <1>2, <1>3, <1>4, <1>5, <1>6, ControlStep DEF TypeOK, InitLabels, HaltLabels, AllocLabels

(* SysFork preserves the invariant. *)
LEMMA SysForkStep ==
  ASSUME IInv, NEW c \in Cores, SysFork(c)
  PROVE  IInv'
<1> USE DEF SysFork, Goto, table, lists, locks, CallsInto
<1>1. TypeOK /\ LockExclusion /\ BootOK(c) /\ CurrentOK(c) /\ CreateOK(c) /\ BootInv
  BY DEF IInv, BootInv, CurrentInv, CreateInv
<1>2. TypeOK'
  BY <1>1 DEF TypeOK, Labels, AllocLabels, LockedLabels, SpinLabels, ResumePoints
<1>3. LockExclusion'
  BY <1>1, LockStep DEF TypeOK, HoldsProcessLock, HoldsPidLock, AllocLabels, LockedLabels, ResumePoints, BootOK, BootLabels, HaltLabels
<1>4. BootOK(c)'
  BY <1>1, CoresFacts DEF TypeOK, BootOK, BootInv, BootLabels, AllocLabels, HaltLabels
<1>5. CurrentOK(c)'
  BY <1>1, CoresFacts DEF TypeOK, CurrentOK, BootOK, BootLabels, RunningLabels, WakeLabels, IdleLabels, AllocLabels, HaltLabels, Resumable
<1>6. CreateOK(c)'
  BY <1>1 DEF TypeOK, CreateOK, Creating, AllocLabels
<1> QED
  BY <1>1, <1>2, <1>3, <1>4, <1>5, <1>6, ControlStep DEF TypeOK, InitLabels, HaltLabels, AllocLabels

(* Fork preserves the invariant. *)
LEMMA ForkStep ==
  ASSUME IInv, NEW c \in Cores, Fork(c)
  PROVE  IInv'
<1> USE DEF Fork, table, lists, locks, find_least_busy_core
<1>1. TypeOK /\ LockExclusion /\ BootOK(c) /\ CurrentOK(c) /\ CreateOK(c) /\ BootInv
  BY DEF IInv, BootInv, CurrentInv, CreateInv
<1>2. boots[c] = 0 /\ state[current[c]] = "RUNNING" /\ current[c] # Idle(c) /\ main_core_ready
  <2>1. boots[c] = 0
    BY <1>1, Booted DEF BootLabels, AllocLabels, HaltLabels
  <2>2. state[current[c]] = "RUNNING" /\ current[c] # Idle(c)
    BY <1>1, <2>1 DEF CurrentOK, RunningLabels, IdleLabels, WakeLabels
  <2>3. main_core_ready
    BY <1>1, <2>1 DEF BootOK, BootInv
  <2> QED
    BY <2>1, <2>2, <2>3
<1>3. CASE FindsSlot(c, 0)
  <2>1. PICK i \in 1 .. NUM_PROC - 1 :
          /\ state[<<0, i>>] = "UNUSED" /\ newp' = [newp EXCEPT ![c] = <<0, i>>]
          /\ pc' = [pc EXCEPT ![c] = "alloc_lock"]
    BY <1>3 DEF Unused, FindsSlot, Goto
  <2>2. <<0, i>> \in UserSlots /\ <<0, i>> \in Slots
    BY CoresFacts, SchedulerAssumption DEF UserSlots, Slots
  <2>3. pc'[c] = "alloc_lock" /\ newp'[c] = <<0, i>> /\ state'[newp'[c]] = "UNUSED"
        /\ \A d \in Cores : d # c => pc'[d] = pc[d] /\ newp'[d] = newp[d]
    BY <1>1, <2>1 DEF TypeOK
  <2>4. TypeOK'
    <3>1. newp' \in [Cores -> Slots \cup {NULL}] /\ pc' \in [Cores -> Labels]
      BY <1>1, <2>1, <2>2 DEF TypeOK, Labels, AllocLabels
    <3> QED
      BY <1>1, <3>1 DEF TypeOK
  <2>5. LockExclusion'
    <3>1. /\ HoldsPidLock(c)' <=> HoldsPidLock(c)
          /\ HoldsProcessLock(c)' <=> HoldsProcessLock(c)
      BY <1>1, <1>2, <2>3 DEF HoldsProcessLock, HoldsPidLock, AllocLabels, LockedLabels, ResumePoints
    <3> QED
      BY <1>1, <2>3, <3>1, LockStep
  <2>6. BootOK(c)'
    BY <1>1, <1>2, <2>3 DEF BootOK, BootLabels
  <2>7. CurrentOK(c)'
    BY <1>1, <1>2, <2>3 DEF CurrentOK, RunningLabels, WakeLabels, IdleLabels, AllocLabels, HaltLabels, Resumable
  <2>8. CreateOK(c)'
    BY <1>1, <1>2, <2>2, <2>3 DEF CreateOK, Creating, AllocLabels
  <2> QED
    BY <1>1, <2>3, <2>4, <2>5, <2>6, <2>7, <2>8, ControlStep DEF InitLabels, HaltLabels
<1>4. CASE FindsNone(c, 0)
  <2>3. pc'[c] = "halted" /\ newp' = newp
        /\ \A d \in Cores : d # c => pc'[d] = pc[d]
    BY <1>1, <1>4 DEF TypeOK, FindsNone, Goto
  <2>4. TypeOK'
    BY <1>1, <1>4 DEF TypeOK, Labels, FindsNone, Goto
  <2>5. LockExclusion'
    <3>1. /\ HoldsPidLock(c)' <=> HoldsPidLock(c)
          /\ HoldsProcessLock(c)' <=> HoldsProcessLock(c)
      BY <1>1, <1>2, <2>3 DEF HoldsProcessLock, HoldsPidLock, AllocLabels, LockedLabels, ResumePoints
    <3> QED
      BY <1>1, <2>3, <3>1, LockStep
  <2>6. BootOK(c)'
    BY <1>1, <1>2, <2>3 DEF BootOK, BootLabels
  <2>7. CurrentOK(c)'
    BY <1>1, <1>2, <2>3 DEF CurrentOK, RunningLabels, WakeLabels, IdleLabels, AllocLabels, HaltLabels, Resumable
  <2>8. CreateOK(c)'
    BY <1>1, <2>3 DEF CreateOK, Creating, AllocLabels
  <2> QED
    BY <1>1, <2>3, <2>4, <2>5, <2>6, <2>7, <2>8, ControlStep DEF InitLabels, HaltLabels
<1> QED
  BY <1>3, <1>4

(* CopyUvmFails preserves the invariant. *)
LEMMA CopyUvmFailsStep ==
  ASSUME IInv, NEW c \in Cores, CopyUvmFails(c)
  PROVE  IInv'
<1> USE DEF CopyUvmFails, Goto, table, lists, locks
<1>1. TypeOK /\ LockExclusion /\ BootOK(c) /\ CurrentOK(c) /\ CreateOK(c) /\ BootInv
  BY DEF IInv, BootInv, CurrentInv, CreateInv
<1>2. TypeOK'
  BY <1>1 DEF TypeOK, Labels, AllocLabels, LockedLabels, SpinLabels, ResumePoints
<1>3. LockExclusion'
  <2>1. boots[c] = 0 /\ pc'[c] = "halted"
    BY <1>1, Booted DEF TypeOK, BootLabels, AllocLabels, HaltLabels
  <2>2. /\ HoldsPidLock(c)' <=> HoldsPidLock(c)
        /\ HoldsProcessLock(c)' <=> HoldsProcessLock(c)
        /\ \A d \in Cores : d # c => pc'[d] = pc[d]
    BY <1>1, <2>1 DEF TypeOK, HoldsProcessLock, HoldsPidLock, AllocLabels, LockedLabels, ResumePoints
  <2> QED
    BY <1>1, <2>2, LockStep
<1>4. BootOK(c)'
  BY <1>1, CoresFacts DEF TypeOK, BootOK, BootInv, BootLabels, AllocLabels, HaltLabels
<1>5. CurrentOK(c)'
  BY <1>1, CoresFacts DEF TypeOK, CurrentOK, BootOK, BootLabels, RunningLabels, WakeLabels, IdleLabels, AllocLabels, HaltLabels, Resumable
<1>6. CreateOK(c)'
  BY <1>1 DEF TypeOK, CreateOK, Creating, AllocLabels
<1> QED
  BY <1>1, <1>2, <1>3, <1>4, <1>5, <1>6, ControlStep DEF TypeOK, InitLabels, HaltLabels, AllocLabels

(* ForkReturn preserves the invariant. *)
LEMMA ForkReturnStep ==
  ASSUME IInv, NEW c \in Cores, ForkReturn(c)
  PROVE  IInv'
<1> USE DEF ForkReturn, Goto, table, lists, locks
<1>1. TypeOK /\ LockExclusion /\ BootOK(c) /\ CurrentOK(c) /\ CreateOK(c) /\ BootInv
  BY DEF IInv, BootInv, CurrentInv, CreateInv
<1>2. TypeOK'
  BY <1>1 DEF TypeOK, Labels, AllocLabels, LockedLabels, SpinLabels, ResumePoints
<1>3. LockExclusion'
  BY <1>1, LockStep DEF TypeOK, HoldsProcessLock, HoldsPidLock, AllocLabels, LockedLabels, ResumePoints, BootOK, BootLabels, HaltLabels
<1>4. BootOK(c)'
  BY <1>1, CoresFacts DEF TypeOK, BootOK, BootInv, BootLabels, AllocLabels, HaltLabels
<1>5. CurrentOK(c)'
  BY <1>1, CoresFacts DEF TypeOK, CurrentOK, BootOK, BootLabels, RunningLabels, WakeLabels, IdleLabels, AllocLabels, HaltLabels, Resumable
<1>6. CreateOK(c)'
  BY <1>1 DEF TypeOK, CreateOK, Creating, AllocLabels
<1> QED
  BY <1>1, <1>2, <1>3, <1>4, <1>5, <1>6, ControlStep DEF TypeOK, InitLabels, HaltLabels, AllocLabels
-----------------------------------------------------------------------------
(* Steps that change one process.  What a step of core c on slot x leaves  *)
(* alone: the other cores, the other slots and their places on the lists.  *)

OtherCores(c) == \A d \in Cores : d # c =>
  pc'[d] = pc[d] /\ chan'[d] = chan[d] /\ newp'[d] = newp[d] /\ boots'[d] = boots[d]

OtherSlots(x) == \A p \in Slots : p # x =>
  state'[p] = state[p] /\ context'[p] = context[p] /\ pid'[p] = pid[p]

OtherPlaces(x) == \A d \in Cores, p \in Slots : p # x =>
  /\ OnList(ready_list'[d], p) <=> OnList(ready_list[d], p)
  /\ OnList(wait_list'[d], p) <=> OnList(wait_list[d], p)
  /\ OnList(kill_list'[d], p) <=> OnList(kill_list[d], p)

(* A slot in state INIT stays with its creator. *)
LEMMA InitKept ==
  ASSUME PlaceInv, NEW c \in Cores, NEW p \in Slots, state[p] = "INIT",
         \A d \in Cores : d # c => pc'[d] = pc[d] /\ newp'[d] = newp[d],
         pc[c] \in InitLabels => newp[c] # p \/ (pc'[c] \in InitLabels /\ newp'[c] = newp[c])
  PROVE  \E d \in Cores : newp'[d] = p /\ pc'[d] \in InitLabels
<1>1. PICK d \in Cores : newp[d] = p /\ pc[d] \in InitLabels
  BY DEF PlaceInv, PlaceOK
<1> QED
  BY <1>1

(* A step that moves core c only, and changes at most slot x: the parts of IInv. *)
LEMMA PointStep ==
  ASSUME IInv, NEW c \in Cores, NEW x \in Slots, x[2] # 0,
         TypeOK', LockExclusion', ListInv',
         OtherCores(c), OtherSlots(x), OtherPlaces(x), UNCHANGED current,
         \A d \in Cores : d # c /\ ready_list[d] # <<>> => ready_list'[d] # <<>>,
         \A d \in Cores : d # c => current[d] # x,
         \A d \in Cores : d # c /\ Creating(d) => newp[d] # x,
         pc[0] # "kmain", pc'[0] # "kmain",
         main_core_ready => main_core_ready', main_core_ready' <=> boots'[0] = 0,
         pid_num' >= 4,
         BootOK(c)', CurrentOK(c)', CreateOK(c)', PlaceOK(x)',
         state'[x] \in {"READY", "RUNNING", "SLEEP"} => context'[x] \in Resumable,
         state'[x] # "UNUSED" => pid'[x] >= 4,
         pc[c] \in {"kill", "kill_cs"} => current[c] = x \/ pc'[c] \in {"kill", "kill_cs"},
         pc[c] \in InitLabels => newp[c] = x \/ (pc'[c] \in InitLabels /\ newp'[c] = newp[c])
  PROVE  IInv'
<1>1. /\ TypeOK /\ BootInv /\ ListInv /\ CurrentInv /\ ContextInv /\ PidInv /\ CreateInv /\ PlaceInv
  BY DEF IInv
<1>2. \A d \in Cores : Idle(d) # x /\ Idle(d) \in Slots
  BY CoresFacts
<1>3. \A d \in Cores : /\ state'[Idle(d)] = state[Idle(d)]
                       /\ context'[Idle(d)] = context[Idle(d)]
                       /\ pid'[Idle(d)] = pid[Idle(d)]
  BY <1>2 DEF OtherSlots
<1>4. \A d \in Cores : d # c => /\ current[d] \in Slots
                               /\ state'[current[d]] = state[current[d]]
  BY <1>1 DEF OtherSlots, TypeOK
<1>5. BootInv'
  <2>1. ASSUME NEW d \in Cores, d # c PROVE BootOK(d)'
    BY <1>1, <1>3, <2>1 DEF BootInv, BootOK, OtherCores
  <2> QED
    BY <2>1 DEF BootInv
<1>6. CurrentInv'
  <2>1. ASSUME NEW d \in Cores, d # c PROVE CurrentOK(d)'
    <3>1. CurrentOK(d) /\ current'[d] = current[d] /\ current[d] # x /\ current[d] \in Slots
      BY <1>1, <1>4, <2>1 DEF CurrentInv
    <3>2. /\ pc'[d] = pc[d] /\ chan'[d] = chan[d] /\ boots'[d] = boots[d]
          /\ state'[current'[d]] = state[current[d]]
          /\ OnList(kill_list'[d], current'[d]) <=> OnList(kill_list[d], current[d])
          /\ ready_list[d] # <<>> => ready_list'[d] # <<>>
      BY <1>4, <2>1, <3>1 DEF OtherCores, OtherPlaces
    <3> QED
      BY <3>1, <3>2 DEF CurrentOK
  <2> QED
    BY <2>1 DEF CurrentInv
<1>7. ContextInv'
  <2>1. ASSUME NEW p \in Slots, p[2] # 0, state'[p] \in {"READY", "RUNNING", "SLEEP"}
        PROVE  context'[p] \in Resumable
    BY <1>1, <2>1 DEF ContextInv, OtherSlots
  <2>2. ASSUME NEW d \in Cores, current'[d] # Idle(d)
        PROVE  context'[Idle(d)] = "yield_rel" /\ state'[Idle(d)] = "READY"
    BY <1>1, <1>3, <2>2 DEF ContextInv
  <2> QED
    BY <2>1, <2>2 DEF ContextInv
<1>8. PidInv'
  <2>1. ASSUME NEW p \in Slots, p[2] # 0, state'[p] # "UNUSED" PROVE pid'[p] >= 4
    BY <1>1, <2>1 DEF PidInv, OtherSlots
  <2> QED
    BY <1>1, <1>3, <2>1 DEF PidInv
<1>9. CreateInv'
  <2>1. ASSUME NEW d \in Cores, d # c PROVE CreateOK(d)'
    <3>1. CreateOK(d) /\ pc'[d] = pc[d] /\ newp'[d] = newp[d] /\ boots'[d] = boots[d]
      BY <1>1, <2>1 DEF CreateInv, OtherCores
    <3>2. Creating(d) => /\ newp[d] \in Slots /\ newp[d] # x
                         /\ state'[newp[d]] = state[newp[d]] /\ context'[newp[d]] = context[newp[d]]
      BY <2>1, <3>1, CoresFacts DEF CreateOK, OtherSlots
    <3> QED
      BY <3>1, <3>2 DEF CreateOK, Creating, AllocLabels
  <2> QED
    BY <2>1 DEF CreateInv
<1>10. PlaceInv'
  <2>1. ASSUME NEW p \in Slots, p # x PROVE PlaceOK(p)'
    <3>1. PlaceOK(p) /\ state'[p] = state[p] /\ p[1] \in Cores
      BY <1>1, <2>1, CoresFacts DEF PlaceInv, OtherSlots
    <3>2. state[p] = "INIT" => \E d \in Cores : newp'[d] = p /\ pc'[d] \in InitLabels
      BY <1>1, <2>1, InitKept DEF OtherCores
    <3>3. state[p] = "KILLED" /\ ~OnList(kill_list[p[1]], p)
            => current[p[1]] = p /\ pc'[p[1]] \in {"kill", "kill_cs"}
      BY <2>1, <3>1 DEF PlaceOK, OtherCores
    <3>4. /\ OnList(ready_list'[p[1]], p) <=> OnList(ready_list[p[1]], p)
          /\ OnList(wait_list'[p[1]], p) <=> OnList(wait_list[p[1]], p)
          /\ OnList(kill_list'[p[1]], p) <=> OnList(kill_list[p[1]], p)
      BY <2>1, <3>1 DEF OtherPlaces
    <3> QED
      BY <3>1, <3>2, <3>3, <3>4 DEF PlaceOK
  <2> QED
    BY <2>1 DEF PlaceInv
<1> QED
  BY <1>5, <1>6, <1>7, <1>8, <1>9, <1>10 DEF IInv

(* Two cores never fill the same slot: at start-up each fills its own      *)
(* table, core 0 before the others start, and a fork holds process_lock.   *)
LEMMA CreatorsDiffer ==
  ASSUME TypeOK, LockExclusion, BootInv, CreateInv,
         NEW c \in Cores, NEW d \in Cores, c # d, Creating(c), Creating(d)
  PROVE  newp[c] # newp[d]
<1>1. /\ BootOK(c) /\ BootOK(d) /\ CreateOK(c) /\ CreateOK(d)
      /\ newp[c][1] = (IF boots[c] > 0 THEN c ELSE 0)
      /\ newp[d][1] = (IF boots[d] > 0 THEN d ELSE 0)
  BY DEF BootInv, CreateInv, CreateOK
<1>2. CASE boots[c] > 0 /\ boots[d] > 0
  BY <1>1, <1>2
<1>3. CASE boots[c] = 0 /\ boots[d] = 0
  <2>1. HoldsProcessLock(c) /\ HoldsProcessLock(d)
    BY <1>1, <1>3 DEF Creating, HoldsProcessLock, LockedLabels, BootOK, BootLabels
  <2> QED
    BY <2>1 DEF LockExclusion
<1>4. ASSUME NEW a \in Cores, NEW b \in Cores, a # b, boots[a] = 0, boots[b] > 0, Creating(a), BootOK(a)
      PROVE  b # 0
  <2>1. SUFFICES ASSUME b = 0 PROVE FALSE
    OBVIOUS
  <2>2. ~main_core_ready /\ pc[a] = "spin"
    BY <1>4, <2>1 DEF BootInv, BootOK
  <2> QED
    BY <1>4, <2>2 DEF Creating, AllocLabels
<1> QED
  BY <1>1, <1>2, <1>3, <1>4, Booted

(* A current process other than an idle one is not a slot being filled.    *)
LEMMA CurrentAlive ==
  ASSUME TypeOK, NEW d \in Cores, BootOK(d), CurrentOK(d)
  PROVE  current[d][2] # 0 => state[current[d]] \in {"RUNNING", "READY", "SLEEP", "KILLED"}
<1>1. SUFFICES ASSUME current[d][2] # 0
               PROVE  state[current[d]] \in {"RUNNING", "READY", "SLEEP", "KILLED"}
  OBVIOUS
<1>2. boots[d] = 0
  BY <1>1, Booted, CoresFacts DEF BootOK
<1>3. pc[d] \in Labels \ BootLabels
  BY <1>2 DEF TypeOK, BootOK
<1>4. CASE pc[d] \in WakeLabels
  BY <1>4 DEF CurrentOK
<1>5. CASE pc[d] \in RunningLabels \cup {"copy_uvm"} \cup AllocLabels \cup HaltLabels
  BY <1>2, <1>5 DEF CurrentOK
<1>6. CASE pc[d] \in {"kill", "kill_cs", "exit", "exit_sched", "yield_sched", "sleep_sched"}
  BY <1>6 DEF CurrentOK
<1> QED
  BY <1>3, <1>4, <1>5, <1>6 DEF CurrentOK, Labels, BootLabels, LockedLabels, SpinLabels, ResumePoints,
     RunningLabels, WakeLabels, Resumable, HaltLabels

(* Lists on which at most the place of x changes. *)
LEMMA ListStep ==
  ASSUME ListInv, NEW x \in Slots, OtherSlots(x), OtherPlaces(x),
         \A d \in Cores : /\ NoDuplicates(ready_list'[d])
                         /\ NoDuplicates(wait_list'[d])
                         /\ NoDuplicates(kill_list'[d]),
         \A d \in Cores :
           /\ OnList(ready_list'[d], x) => x[1] = d /\ x[2] # 0 /\ state'[x] = "READY"
           /\ OnList(wait_list'[d], x) => x[1] = d /\ x[2] # 0 /\ state'[x] = "SLEEP"
           /\ OnList(kill_list'[d], x) => x[1] = d /\ x[2] # 0 /\ state'[x] = "KILLED"
  PROVE  ListInv'
<1>1. ASSUME NEW d \in Cores, NEW p \in Slots, p # x
      PROVE  /\ OnList(ready_list'[d], p) => p[1] = d /\ p[2] # 0 /\ state'[p] = "READY"
             /\ OnList(wait_list'[d], p) => p[1] = d /\ p[2] # 0 /\ state'[p] = "SLEEP"
             /\ OnList(kill_list'[d], p) => p[1] = d /\ p[2] # 0 /\ state'[p] = "KILLED"
  BY <1>1 DEF ListInv, OtherSlots, OtherPlaces
<1> QED
  BY <1>1 DEF ListInv

(* exit marks its process before it has the lock: the invariant is preserved. *)
LEMMA SysExitStep ==
  ASSUME IInv, NEW c \in Cores, SysExit(c)
  PROVE  IInv'
<1>1. /\ TypeOK /\ LockExclusion /\ BootInv /\ ListInv /\ CurrentInv /\ ContextInv /\ PidInv
      /\ CreateInv /\ PlaceInv /\ BootOK(c) /\ CurrentOK(c) /\ CreateOK(c)
  BY DEF IInv, BootInv, CurrentInv, CreateInv
<1> USE DEF SysExit, Goto, table, lists, locks, CallsInto
<1>p. PICK x \in Slots : x = current[c]
  BY <1>1 DEF TypeOK
<1>a. /\ x = current[c] /\ x \in Slots /\ x[1] = c /\ x[2] # 0 /\ x # Idle(c) /\ boots[c] = 0
      /\ state[x] = "RUNNING" /\ pc[c] = "user" /\ pc[0] # "kmain"
  <2>1. boots[c] = 0 /\ pc[c] = "user"
    BY <1>1, <1>p, Booted DEF BootLabels, AllocLabels, HaltLabels
  <2>2. x \in Slots /\ x[1] = c /\ state[x] = "RUNNING" /\ x # Idle(c)
    BY <1>1, <1>p, <2>1 DEF TypeOK, CurrentOK, RunningLabels, IdleLabels, WakeLabels
  <2>3. pc[0] # "kmain"
    BY <1>1, <2>1, CoresFacts DEF BootInv, BootOK, BootLabels
  <2> QED
    BY <1>p, <2>1, <2>2, <2>3, CoresFacts
<1>b. /\ pc'[c] = "kill" /\ \A d \in Cores : d # c => pc'[d] = pc[d]
      /\ state'[x] = "KILLED" /\ \A p \in Slots : p # x => state'[p] = state[p]
  BY <1>1, <1>a DEF TypeOK
<1>c. UNCHANGED <<locks, main_core_ready, pid_num, pid, context, current, ready_list, wait_list, kill_list, chan, visit, newp, boots>>
  OBVIOUS
<1>2. TypeOK'
  BY <1>1, <1>a, <1>b DEF TypeOK, Labels, AllocLabels, LockedLabels, SpinLabels, ResumePoints, States
<1> HIDE DEF SysExit, Goto, table, lists, CallsInto
<1>3. LockExclusion'
  <2>1. /\ HoldsPidLock(c)' <=> HoldsPidLock(c)
        /\ HoldsProcessLock(c)' <=> HoldsProcessLock(c)
    BY <1>1, <1>a, <1>b, <1>c DEF HoldsProcessLock, HoldsPidLock, AllocLabels, LockedLabels, ResumePoints
  <2> QED
    BY <1>1, <1>a, <1>b, <1>c, <2>1, LockStep
<1>4. OtherCores(c) /\ OtherSlots(x) /\ OtherPlaces(x)
  BY <1>1, <1>a, <1>b, <1>c DEF OtherCores, OtherSlots, OtherPlaces
<1>5. ListInv'
  <2>1. \A d \in Cores : /\ NoDuplicates(ready_list'[d])
                         /\ NoDuplicates(wait_list'[d])
                         /\ NoDuplicates(kill_list'[d])
    BY <1>1, <1>a, <1>b, <1>c DEF ListInv
  <2>2. ASSUME NEW d \in Cores
        PROVE  /\ OnList(ready_list'[d], x) => x[1] = d /\ x[2] # 0 /\ state'[x] = "READY"
               /\ OnList(wait_list'[d], x) => x[1] = d /\ x[2] # 0 /\ state'[x] = "SLEEP"
               /\ OnList(kill_list'[d], x) => x[1] = d /\ x[2] # 0 /\ state'[x] = "KILLED"
    <3>1. /\ OnList(ready_list[d], x) => x[1] = d /\ state[x] = "READY"
          /\ OnList(wait_list[d], x) => x[1] = d /\ state[x] = "SLEEP"
          /\ OnList(kill_list[d], x) => x[1] = d /\ state[x] = "KILLED"
      BY <1>1, <1>a DEF ListInv
    <3> QED
      BY <1>a, <1>b, <1>c, <3>1
  <2> QED
    BY <1>1, <1>4, <2>1, <2>2, ListStep
<1>6. BootOK(c)'
  BY <1>1, <1>a, <1>b, <1>c DEF BootOK, BootLabels, AllocLabels, HaltLabels
<1>7. CurrentOK(c)'
  BY <1>1, <1>a, <1>b, <1>c DEF ListInv, CurrentOK, RunningLabels, WakeLabels, IdleLabels, AllocLabels, HaltLabels, Resumable
<1>8. CreateOK(c)'
  BY <1>1, <1>a, <1>b, <1>c DEF CreateOK, Creating, AllocLabels
<1>9. PlaceOK(x)'
  BY <1>1, <1>a, <1>b, <1>c DEF PlaceOK
<1>10. \A d \in Cores : d # c => current[d] # x /\ (Creating(d) => newp[d] # x)
  BY <1>1, <1>a DEF CurrentInv, CurrentOK, CreateInv, CreateOK, Creating, AllocLabels
<1>11. /\ state'[x] \in {"READY", "RUNNING", "SLEEP"} => context'[x] \in Resumable
       /\ state'[x] # "UNUSED" => pid'[x] >= 4
       /\ pid_num' >= 4
  BY <1>1, <1>a, <1>b, <1>c DEF ContextInv, PidInv
<1> QED
  <2>1. \A d \in Cores : d # c /\ ready_list[d] # <<>> => ready_list'[d] # <<>>
    BY <1>b, <1>c
  <2>2. /\ (main_core_ready => main_core_ready') /\ (main_core_ready' <=> boots'[0] = 0)
        /\ pc[0] # "kmain" /\ pc'[0] # "kmain"
    BY <1>1, <1>a, <1>b, <1>c, CoresFacts DEF BootInv
  <2>3. pc[c] \in {"kill", "kill_cs"} => current[c] = x \/ pc'[c] \in {"kill", "kill_cs"}
    BY <1>a, <1>b
  <2>4. pc[c] \in InitLabels => newp[c] = x \/ (pc'[c] \in InitLabels /\ newp'[c] = newp[c])
    BY <1>a, <1>b, <1>c DEF InitLabels, HaltLabels
  <2>5. IInv /\ UNCHANGED current /\ x \in Slots /\ x[2] # 0
    BY <1>a, <1>c
  <2> QED
    BY <1>2, <1>3, <1>4, <1>5, <1>6, <1>7, <1>8, <1>9, <1>10, <1>11, <2>1, <2>2, <2>3, <2>4, <2>5, PointStep

(* exit queues its process on the kill list: the invariant is preserved. *)
LEMMA KillStep ==
  ASSUME IInv, NEW c \in Cores, Kill(c)
  PROVE  IInv'
<1>1. /\ TypeOK /\ LockExclusion /\ BootInv /\ ListInv /\ CurrentInv /\ ContextInv /\ PidInv
      /\ CreateInv /\ PlaceInv /\ BootOK(c) /\ CurrentOK(c) /\ CreateOK(c)
  BY DEF IInv, BootInv, CurrentInv, CreateInv
<1> USE DEF Kill, Goto, table, lists, locks
<1>p. PICK x \in Slots : x = current[c]
  BY <1>1 DEF TypeOK
<1>a. /\ x = current[c] /\ x \in Slots /\ x[1] = c /\ x[2] # 0 /\ x # Idle(c) /\ boots[c] = 0
      /\ state[x] = "KILLED" /\ pc[c] = "kill_cs" /\ pc[0] # "kmain"
  <2>1. boots[c] = 0 /\ pc[c] = "kill_cs"
    BY <1>1, <1>p, Booted DEF BootLabels, AllocLabels, HaltLabels
  <2>2. x \in Slots /\ x[1] = c /\ state[x] = "KILLED" /\ x # Idle(c)
    BY <1>1, <1>p, <2>1 DEF TypeOK, CurrentOK, RunningLabels, IdleLabels, WakeLabels
  <2>3. pc[0] # "kmain"
    BY <1>1, <2>1, CoresFacts DEF BootInv, BootOK, BootLabels
  <2> QED
    BY <1>p, <2>1, <2>2, <2>3, CoresFacts
<1>b. /\ pc'[c] = "wake" /\ chan'[c] = -3 /\ process_lock' = 0
      /\ \A d \in Cores : d # c => pc'[d] = pc[d] /\ chan'[d] = chan[d] /\ kill_list'[d] = kill_list[d]
      /\ kill_list' \in [Cores -> Seq(Slots)]
      /\ \A q : OnList(kill_list'[c], q) <=> OnList(kill_list[c], q) \/ q = x
      /\ NoDuplicates(kill_list'[c])
  <2>1. kill_list[c] \in Seq(Slots) /\ ~OnList(kill_list[c], x) /\ NoDuplicates(kill_list[c])
    BY <1>1, <1>a DEF TypeOK, CurrentOK, ListInv
  <2>2. kill_list'[c] = Append(kill_list[c], x)
    BY <1>1, <1>a DEF TypeOK
  <2>3. /\ kill_list'[c] \in Seq(Slots) /\ NoDuplicates(kill_list'[c]) /\ kill_list'[c] # <<>>
        /\ \A q : OnList(kill_list'[c], q) <=> OnList(kill_list[c], q) \/ q = x
    BY <1>a, <2>1, <2>2, AppendList
  <2> QED
    BY <1>1, <1>a, <2>3 DEF TypeOK
<1>c. UNCHANGED <<pid_lock, main_core_ready, pid_num, state, pid, context, current, ready_list, wait_list, newp, boots>>
  OBVIOUS
<1>2. TypeOK'
  BY <1>1, <1>a, <1>b DEF TypeOK, Labels, AllocLabels, LockedLabels, SpinLabels, ResumePoints, States
<1> HIDE DEF Kill, Goto, table, lists
<1>3. LockExclusion'
  <2>1. /\ HoldsPidLock(c)' <=> HoldsPidLock(c)
        /\ HoldsProcessLock(c) /\ ~HoldsProcessLock(c)'
    BY <1>1, <1>a, <1>b, <1>c DEF HoldsProcessLock, HoldsPidLock, AllocLabels, LockedLabels, ResumePoints
  <2> QED
    BY <1>1, <1>a, <1>b, <1>c, <2>1, LockStep
<1>4. OtherCores(c) /\ OtherSlots(x) /\ OtherPlaces(x)
  BY <1>1, <1>a, <1>b, <1>c DEF OtherCores, OtherSlots, OtherPlaces
<1>5. ListInv'
  <2>1. \A d \in Cores : /\ NoDuplicates(ready_list'[d])
                         /\ NoDuplicates(wait_list'[d])
                         /\ NoDuplicates(kill_list'[d])
    BY <1>1, <1>a, <1>b, <1>c DEF ListInv
  <2>2. ASSUME NEW d \in Cores
        PROVE  /\ OnList(ready_list'[d], x) => x[1] = d /\ x[2] # 0 /\ state'[x] = "READY"
               /\ OnList(wait_list'[d], x) => x[1] = d /\ x[2] # 0 /\ state'[x] = "SLEEP"
               /\ OnList(kill_list'[d], x) => x[1] = d /\ x[2] # 0 /\ state'[x] = "KILLED"
    <3>1. /\ OnList(ready_list[d], x) => x[1] = d /\ state[x] = "READY"
          /\ OnList(wait_list[d], x) => x[1] = d /\ state[x] = "SLEEP"
          /\ OnList(kill_list[d], x) => x[1] = d /\ state[x] = "KILLED"
      BY <1>1, <1>a DEF ListInv
    <3> QED
      BY <1>a, <1>b, <1>c, <3>1
  <2> QED
    BY <1>1, <1>4, <2>1, <2>2, ListStep
<1>6. BootOK(c)'
  BY <1>1, <1>a, <1>b, <1>c DEF BootOK, BootLabels, AllocLabels, HaltLabels
<1>7. CurrentOK(c)'
  BY <1>1, <1>a, <1>b, <1>c DEF CurrentOK, RunningLabels, WakeLabels, IdleLabels, AllocLabels, HaltLabels, Resumable
<1>8. CreateOK(c)'
  BY <1>1, <1>a, <1>b, <1>c DEF CreateOK, Creating, AllocLabels
<1>9. PlaceOK(x)'
  BY <1>1, <1>a, <1>b, <1>c DEF PlaceOK
<1>10. \A d \in Cores : d # c => current[d] # x /\ (Creating(d) => newp[d] # x)
  BY <1>1, <1>a DEF CurrentInv, CurrentOK, CreateInv, CreateOK, Creating, AllocLabels
<1>11. /\ state'[x] \in {"READY", "RUNNING", "SLEEP"} => context'[x] \in Resumable
       /\ state'[x] # "UNUSED" => pid'[x] >= 4
       /\ pid_num' >= 4
  BY <1>1, <1>a, <1>b, <1>c DEF ContextInv, PidInv
<1> QED
  <2>1. \A d \in Cores : d # c /\ ready_list[d] # <<>> => ready_list'[d] # <<>>
    BY <1>b, <1>c
  <2>2. /\ (main_core_ready => main_core_ready') /\ (main_core_ready' <=> boots'[0] = 0)
        /\ pc[0] # "kmain" /\ pc'[0] # "kmain"
    BY <1>1, <1>a, <1>b, <1>c, CoresFacts DEF BootInv
  <2>3. pc[c] \in {"kill", "kill_cs"} => current[c] = x \/ pc'[c] \in {"kill", "kill_cs"}
    BY <1>a, <1>b
  <2>4. pc[c] \in InitLabels => newp[c] = x \/ (pc'[c] \in InitLabels /\ newp'[c] = newp[c])
    BY <1>a, <1>b, <1>c DEF InitLabels, HaltLabels
  <2>5. IInv /\ UNCHANGED current /\ x \in Slots /\ x[2] # 0
    BY <1>a, <1>c
  <2> QED
    BY <1>2, <1>3, <1>4, <1>5, <1>6, <1>7, <1>8, <1>9, <1>10, <1>11, <2>1, <2>2, <2>3, <2>4, <2>5, PointStep

(* sleep queues its process on the wait list: the invariant is preserved. *)
LEMMA SleepStep ==
  ASSUME IInv, NEW c \in Cores, Sleep(c)
  PROVE  IInv'
<1>1. /\ TypeOK /\ LockExclusion /\ BootInv /\ ListInv /\ CurrentInv /\ ContextInv /\ PidInv
      /\ CreateInv /\ PlaceInv /\ BootOK(c) /\ CurrentOK(c) /\ CreateOK(c)
  BY DEF IInv, BootInv, CurrentInv, CreateInv
<1> USE DEF Sleep, Goto, table, lists, locks
<1>p. PICK x \in Slots : x = current[c]
  BY <1>1 DEF TypeOK
<1>a. /\ x = current[c] /\ x \in Slots /\ x[1] = c /\ x[2] # 0 /\ x # Idle(c) /\ boots[c] = 0
      /\ state[x] = "RUNNING" /\ pc[c] = "sleep_cs" /\ pc[0] # "kmain"
  <2>1. boots[c] = 0 /\ pc[c] = "sleep_cs"
    BY <1>1, <1>p, Booted DEF BootLabels, AllocLabels, HaltLabels
  <2>2. x \in Slots /\ x[1] = c /\ state[x] = "RUNNING" /\ x # Idle(c)
    BY <1>1, <1>p, <2>1 DEF TypeOK, CurrentOK, RunningLabels, IdleLabels, WakeLabels
  <2>3. pc[0] # "kmain"
    BY <1>1, <2>1, CoresFacts DEF BootInv, BootOK, BootLabels
  <2> QED
    BY <1>p, <2>1, <2>2, <2>3, CoresFacts
<1>b. /\ pc'[c] = "sleep_sched"
      /\ \A d \in Cores : d # c => pc'[d] = pc[d] /\ wait_list'[d] = wait_list[d]
      /\ wait_list' \in [Cores -> Seq(Slots)]
      /\ \A q : OnList(wait_list'[c], q) <=> OnList(wait_list[c], q) \/ q = x
      /\ NoDuplicates(wait_list'[c])
      /\ state'[x] = "SLEEP" /\ \A p \in Slots : p # x => state'[p] = state[p]
  <2>1. wait_list[c] \in Seq(Slots) /\ ~OnList(wait_list[c], x) /\ NoDuplicates(wait_list[c])
    BY <1>1, <1>a DEF TypeOK, ListInv
  <2>2. wait_list'[c] = Append(wait_list[c], x)
    BY <1>1, <1>a DEF TypeOK
  <2>3. /\ wait_list'[c] \in Seq(Slots) /\ NoDuplicates(wait_list'[c]) /\ wait_list'[c] # <<>>
        /\ \A q : OnList(wait_list'[c], q) <=> OnList(wait_list[c], q) \/ q = x
    BY <1>a, <2>1, <2>2, AppendList
  <2> QED
    BY <1>1, <1>a, <2>3 DEF TypeOK
<1>c. UNCHANGED <<locks, main_core_ready, pid_num, pid, context, current, ready_list, kill_list, chan, visit, newp, boots>>
  OBVIOUS
<1>2. TypeOK'
  BY <1>1, <1>a, <1>b DEF TypeOK, Labels, AllocLabels, LockedLabels, SpinLabels, ResumePoints, States, SleepChannel
<1> HIDE DEF Sleep, Goto, table, lists
<1>3. LockExclusion'
  <2>1. /\ HoldsPidLock(c)' <=> HoldsPidLock(c)
        /\ HoldsProcessLock(c)' <=> HoldsProcessLock(c)
    BY <1>1, <1>a, <1>b, <1>c DEF HoldsProcessLock, HoldsPidLock, AllocLabels, LockedLabels, ResumePoints
  <2> QED
    BY <1>1, <1>a, <1>b, <1>c, <2>1, LockStep
<1>4. OtherCores(c) /\ OtherSlots(x) /\ OtherPlaces(x)
  BY <1>1, <1>a, <1>b, <1>c DEF OtherCores, OtherSlots, OtherPlaces
<1>5. ListInv'
  <2>1. \A d \in Cores : /\ NoDuplicates(ready_list'[d])
                         /\ NoDuplicates(wait_list'[d])
                         /\ NoDuplicates(kill_list'[d])
    BY <1>1, <1>a, <1>b, <1>c DEF ListInv
  <2>2. ASSUME NEW d \in Cores
        PROVE  /\ OnList(ready_list'[d], x) => x[1] = d /\ x[2] # 0 /\ state'[x] = "READY"
               /\ OnList(wait_list'[d], x) => x[1] = d /\ x[2] # 0 /\ state'[x] = "SLEEP"
               /\ OnList(kill_list'[d], x) => x[1] = d /\ x[2] # 0 /\ state'[x] = "KILLED"
    <3>1. /\ OnList(ready_list[d], x) => x[1] = d /\ state[x] = "READY"
          /\ OnList(wait_list[d], x) => x[1] = d /\ state[x] = "SLEEP"
          /\ OnList(kill_list[d], x) => x[1] = d /\ state[x] = "KILLED"
      BY <1>1, <1>a DEF ListInv
    <3> QED
      BY <1>a, <1>b, <1>c, <3>1
  <2> QED
    BY <1>1, <1>4, <2>1, <2>2, ListStep
<1>6. BootOK(c)'
  BY <1>1, <1>a, <1>b, <1>c DEF BootOK, BootLabels, AllocLabels, HaltLabels
<1>7. CurrentOK(c)'
  BY <1>1, <1>a, <1>b, <1>c DEF CurrentOK, RunningLabels, WakeLabels, IdleLabels, AllocLabels, HaltLabels, Resumable
<1>8. CreateOK(c)'
  BY <1>1, <1>a, <1>b, <1>c DEF CreateOK, Creating, AllocLabels
<1>9. PlaceOK(x)'
  BY <1>1, <1>a, <1>b, <1>c DEF PlaceOK
<1>10. \A d \in Cores : d # c => current[d] # x /\ (Creating(d) => newp[d] # x)
  BY <1>1, <1>a DEF CurrentInv, CurrentOK, CreateInv, CreateOK, Creating, AllocLabels
<1>11. /\ state'[x] \in {"READY", "RUNNING", "SLEEP"} => context'[x] \in Resumable
       /\ state'[x] # "UNUSED" => pid'[x] >= 4
       /\ pid_num' >= 4
  BY <1>1, <1>a, <1>b, <1>c DEF ContextInv, PidInv
<1> QED
  <2>1. \A d \in Cores : d # c /\ ready_list[d] # <<>> => ready_list'[d] # <<>>
    BY <1>b, <1>c
  <2>2. /\ (main_core_ready => main_core_ready') /\ (main_core_ready' <=> boots'[0] = 0)
        /\ pc[0] # "kmain" /\ pc'[0] # "kmain"
    BY <1>1, <1>a, <1>b, <1>c, CoresFacts DEF BootInv
  <2>3. pc[c] \in {"kill", "kill_cs"} => current[c] = x \/ pc'[c] \in {"kill", "kill_cs"}
    BY <1>a, <1>b
  <2>4. pc[c] \in InitLabels => newp[c] = x \/ (pc'[c] \in InitLabels /\ newp'[c] = newp[c])
    BY <1>a, <1>b, <1>c DEF InitLabels, HaltLabels
  <2>5. IInv /\ UNCHANGED current /\ x \in Slots /\ x[2] # 0
    BY <1>a, <1>c
  <2> QED
    BY <1>2, <1>3, <1>4, <1>5, <1>6, <1>7, <1>8, <1>9, <1>10, <1>11, <2>1, <2>2, <2>3, <2>4, <2>5, PointStep

(* AllocStack preserves the invariant. *)
LEMMA AllocStackStep ==
  ASSUME IInv, NEW c \in Cores, AllocStack(c)
  PROVE  IInv'
<1>1. /\ TypeOK /\ LockExclusion /\ BootInv /\ ListInv /\ CurrentInv /\ ContextInv /\ PidInv
      /\ CreateInv /\ PlaceInv /\ BootOK(c) /\ CurrentOK(c) /\ CreateOK(c)
  BY DEF IInv, BootInv, CurrentInv, CreateInv
<1> USE DEF AllocStack, Goto, table, lists, locks
<1>p. PICK x \in Slots : x = newp[c]
  BY <1>1, CoresFacts DEF CreateOK, Creating, AllocLabels
<1>a. /\ x = newp[c] /\ x \in UserSlots /\ x \in Slots /\ x[2] # 0
      /\ x[1] = (IF boots[c] > 0 THEN c ELSE 0) /\ x[1] \in Cores
      /\ state[x] = "UNUSED" /\ pc[c] = "alloc" /\ pc[0] # "kmain"
      /\ \A d \in Cores : d # c => current[d] # x /\ (Creating(d) => newp[d] # x)
      /\ current[c] # x
  <2>1. /\ x \in UserSlots /\ x[1] = (IF boots[c] > 0 THEN c ELSE 0)
        /\ state[x] = "UNUSED" /\ pc[c] = "alloc" /\ Creating(c)
    BY <1>1, <1>p DEF CreateOK, Creating, AllocLabels
  <2>2. pc[0] # "kmain"
    <3>1. boots[c] > 0 => pc[c] \in BootLabels \cup AllocLabels \cup HaltLabels
      BY <1>1 DEF BootOK
    <3>2. pc[0] = "kmain" => boots[0] > 0 /\ ~main_core_ready
      BY <1>1, CoresFacts DEF BootInv, BootOK, BootLabels
    <3> QED
      BY <1>1, <2>1, <3>2 DEF BootOK
  <2>3. ASSUME NEW d \in Cores, d # c, Creating(d) PROVE newp[d] # x
    BY <1>1, <1>p, <2>1, <2>3, CreatorsDiffer
  <2>4. ASSUME NEW d \in Cores PROVE current[d] # x
    <3>1. BootOK(d) /\ CurrentOK(d)
      BY <1>1 DEF BootInv, CurrentInv
    <3> QED
      BY <1>1, <2>1, <3>1, CurrentAlive, CoresFacts
  <2>5. x \in Slots /\ x[2] # 0 /\ x[1] \in Cores
    BY <2>1, CoresFacts
  <2> QED
    BY <1>p, <2>1, <2>2, <2>3, <2>4, <2>5
<1>b. /\ pc'[c] = "alloc_pid" /\ \A d \in Cores : d # c => pc'[d] = pc[d]
      /\ state'[x] = "INIT" /\ \A p \in Slots : p # x => state'[p] = state[p]
      /\ pid'[x] = pid_num /\ \A p \in Slots : p # x => pid'[p] = pid[p]
  BY <1>1, <1>a DEF TypeOK
<1>c. UNCHANGED <<locks, main_core_ready, pid_num, context, current, ready_list, wait_list, kill_list, chan, visit, newp, boots>>
  OBVIOUS
<1>2. TypeOK'
  BY <1>1, <1>a, <1>b DEF TypeOK, Labels, AllocLabels, LockedLabels, SpinLabels, ResumePoints, States
<1> HIDE DEF AllocStack, Goto, table, lists
<1>3. LockExclusion'
  <2>1. /\ HoldsPidLock(c)' <=> HoldsPidLock(c)
        /\ HoldsProcessLock(c)' <=> HoldsProcessLock(c)
    BY <1>1, <1>a, <1>b, <1>c DEF HoldsProcessLock, HoldsPidLock, AllocLabels, LockedLabels, ResumePoints
  <2> QED
    BY <1>1, <1>a, <1>b, <1>c, <2>1, LockStep
<1>4. OtherCores(c) /\ OtherSlots(x) /\ OtherPlaces(x)
  BY <1>1, <1>a, <1>b, <1>c DEF OtherCores, OtherSlots, OtherPlaces
<1>d. /\ current'[c] = current[c] /\ state'[current[c]] = state[current[c]]
      /\ state'[Idle(c)] = state[Idle(c)]
  <2>1. current[c] \in Slots /\ Idle(c) \in Slots /\ Idle(c) # x /\ current[c] # x
    BY <1>1, <1>a, CoresFacts, SMTT(30) DEF TypeOK
  <2> QED
    BY <1>4, <1>c, <2>1 DEF OtherSlots
<1>5. ListInv'
  <2>1. \A d \in Cores : /\ NoDuplicates(ready_list'[d])
                         /\ NoDuplicates(wait_list'[d])
                         /\ NoDuplicates(kill_list'[d])
    BY <1>1, <1>a, <1>b, <1>c DEF ListInv
  <2>2. ASSUME NEW d \in Cores
        PROVE  /\ OnList(ready_list'[d], x) => x[1] = d /\ x[2] # 0 /\ state'[x] = "READY"
               /\ OnList(wait_list'[d], x) => x[1] = d /\ x[2] # 0 /\ state'[x] = "SLEEP"
               /\ OnList(kill_list'[d], x) => x[1] = d /\ x[2] # 0 /\ state'[x] = "KILLED"
    <3>1. /\ OnList(ready_list[d], x) => x[1] = d /\ state[x] = "READY"
          /\ OnList(wait_list[d], x) => x[1] = d /\ state[x] = "SLEEP"
          /\ OnList(kill_list[d], x) => x[1] = d /\ state[x] = "KILLED"
      BY <1>1, <1>a DEF ListInv
    <3> QED
      BY <1>a, <1>b, <1>c, <3>1
  <2> QED
    BY <1>1, <1>4, <2>1, <2>2, ListStep
<1>6. BootOK(c)'
  BY <1>1, <1>a, <1>b, <1>c, <1>d DEF BootOK, BootLabels, AllocLabels, HaltLabels
<1>7. CurrentOK(c)'
  BY <1>1, <1>a, <1>b, <1>c, <1>d DEF CurrentOK, RunningLabels, WakeLabels, IdleLabels, AllocLabels, HaltLabels, Resumable
<1>8. CreateOK(c)'
  BY <1>1, <1>a, <1>b, <1>c DEF CreateOK, Creating, AllocLabels
<1>9. PlaceOK(x)'
  BY <1>1, <1>a, <1>b, <1>c DEF PlaceOK, InitLabels
<1>10. \A d \in Cores : d # c => current[d] # x /\ (Creating(d) => newp[d] # x)
  BY <1>1, <1>a DEF CurrentInv, CurrentOK, CreateInv, CreateOK, Creating, AllocLabels
<1>11. /\ state'[x] \in {"READY", "RUNNING", "SLEEP"} => context'[x] \in Resumable
       /\ state'[x] # "UNUSED" => pid'[x] >= 4
       /\ pid_num' >= 4
  BY <1>1, <1>a, <1>b, <1>c DEF ContextInv, PidInv
<1> QED
  <2>1. \A d \in Cores : d # c /\ ready_list[d] # <<>> => ready_list'[d] # <<>>
    BY <1>b, <1>c
  <2>2. /\ (main_core_ready => main_core_ready') /\ (main_core_ready' <=> boots'[0] = 0)
        /\ pc[0] # "kmain" /\ pc'[0] # "kmain"
    BY <1>1, <1>a, <1>b, <1>c, CoresFacts DEF BootInv
  <2>3. pc[c] \in {"kill", "kill_cs"} => current[c] = x \/ pc'[c] \in {"kill", "kill_cs"}
    BY <1>a, <1>b
  <2>4. pc[c] \in InitLabels => newp[c] = x \/ (pc'[c] \in InitLabels /\ newp'[c] = newp[c])
    BY <1>a, <1>b, <1>c DEF InitLabels, HaltLabels
  <2>5. IInv /\ UNCHANGED current /\ x \in Slots /\ x[2] # 0
    BY <1>a, <1>c
  <2> QED
    BY <1>2, <1>3, <1>4, <1>5, <1>6, <1>7, <1>8, <1>9, <1>10, <1>11, <2>1, <2>2, <2>3, <2>4, <2>5, PointStep

(* AllocPid preserves the invariant. *)
LEMMA AllocPidStep ==
  ASSUME IInv, NEW c \in Cores, AllocPid(c)
  PROVE  IInv'
<1>1. /\ TypeOK /\ LockExclusion /\ BootInv /\ ListInv /\ CurrentInv /\ ContextInv /\ PidInv
      /\ CreateInv /\ PlaceInv /\ BootOK(c) /\ CurrentOK(c) /\ CreateOK(c)
  BY DEF IInv, BootInv, CurrentInv, CreateInv
<1> USE DEF AllocPid, Goto, table, lists, locks
<1>p. PICK x \in Slots : x = newp[c]
  BY <1>1, CoresFacts DEF CreateOK, Creating, AllocLabels
<1>a. /\ x = newp[c] /\ x \in UserSlots /\ x \in Slots /\ x[2] # 0
      /\ x[1] = (IF boots[c] > 0 THEN c ELSE 0) /\ x[1] \in Cores
      /\ state[x] = "INIT" /\ pc[c] = "alloc_pid" /\ pc[0] # "kmain"
      /\ \A d \in Cores : d # c => current[d] # x /\ (Creating(d) => newp[d] # x)
      /\ current[c] # x
  <2>1. /\ x \in UserSlots /\ x[1] = (IF boots[c] > 0 THEN c ELSE 0)
        /\ state[x] = "INIT" /\ pc[c] = "alloc_pid" /\ Creating(c)
    BY <1>1, <1>p DEF CreateOK, Creating, AllocLabels
  <2>2. pc[0] # "kmain"
    <3>1. boots[c] > 0 => pc[c] \in BootLabels \cup AllocLabels \cup HaltLabels
      BY <1>1 DEF BootOK
    <3>2. pc[0] = "kmain" => boots[0] > 0 /\ ~main_core_ready
      BY <1>1, CoresFacts DEF BootInv, BootOK, BootLabels
    <3> QED
      BY <1>1, <2>1, <3>2 DEF BootOK
  <2>3. ASSUME NEW d \in Cores, d # c, Creating(d) PROVE newp[d] # x
    BY <1>1, <1>p, <2>1, <2>3, CreatorsDiffer
  <2>4. ASSUME NEW d \in Cores PROVE current[d] # x
    <3>1. BootOK(d) /\ CurrentOK(d)
      BY <1>1 DEF BootInv, CurrentInv
    <3> QED
      BY <1>1, <2>1, <3>1, CurrentAlive, CoresFacts
  <2>5. x \in Slots /\ x[2] # 0 /\ x[1] \in Cores
    BY <2>1, CoresFacts
  <2> QED
    BY <1>p, <2>1, <2>2, <2>3, <2>4, <2>5
<1>b. /\ pc'[c] = "alloc_map" /\ \A d \in Cores : d # c => pc'[d] = pc[d]
      /\ context'[x] = "pstart" /\ \A p \in Slots : p # x => context'[p] = context[p]
      /\ pid_num' = pid[x] + 1 /\ pid[x] >= 4 /\ pid[x] \in Nat
  BY <1>1, <1>a DEF TypeOK, PidInv
<1>c. UNCHANGED <<locks, main_core_ready, state, pid, current, ready_list, wait_list, kill_list, chan, visit, newp, boots>>
  OBVIOUS
<1>2. TypeOK'
  <2>1. pc' \in [Cores -> Labels] /\ context' \in [Slots -> ResumePoints \cup {"null"}]
    BY <1>1 DEF TypeOK, Labels, AllocLabels, ResumePoints
  <2>2. pid_num' \in Nat
    BY <1>b
  <2> QED
    BY <1>1, <2>1, <2>2 DEF TypeOK
<1> HIDE DEF AllocPid, Goto, table, lists
<1>3. LockExclusion'
  <2>1. /\ HoldsPidLock(c)' <=> HoldsPidLock(c)
        /\ HoldsProcessLock(c)' <=> HoldsProcessLock(c)
    BY <1>1, <1>a, <1>b, <1>c DEF HoldsProcessLock, HoldsPidLock, AllocLabels, LockedLabels, ResumePoints
  <2> QED
    BY <1>1, <1>a, <1>b, <1>c, <2>1, LockStep
<1>4. OtherCores(c) /\ OtherSlots(x) /\ OtherPlaces(x)
  BY <1>1, <1>a, <1>b, <1>c DEF OtherCores, OtherSlots, OtherPlaces
<1>d. /\ current'[c] = current[c] /\ state'[current[c]] = state[current[c]]
      /\ state'[Idle(c)] = state[Idle(c)]
  <2>1. current[c] \in Slots /\ Idle(c) \in Slots /\ Idle(c) # x /\ current[c] # x
    BY <1>1, <1>a, CoresFacts, SMTT(30) DEF TypeOK
  <2> QED
    BY <1>4, <1>c, <2>1 DEF OtherSlots
<1>5. ListInv'
  <2>1. \A d \in Cores : /\ NoDuplicates(ready_list'[d])
                         /\ NoDuplicates(wait_list'[d])
                         /\ NoDuplicates(kill_list'[d])
    BY <1>1, <1>a, <1>b, <1>c DEF ListInv
  <2>2. ASSUME NEW d \in Cores
        PROVE  /\ OnList(ready_list'[d], x) => x[1] = d /\ x[2] # 0 /\ state'[x] = "READY"
               /\ OnList(wait_list'[d], x) => x[1] = d /\ x[2] # 0 /\ state'[x] = "SLEEP"
               /\ OnList(kill_list'[d], x) => x[1] = d /\ x[2] # 0 /\ state'[x] = "KILLED"
    <3>1. /\ OnList(ready_list[d], x) => x[1] = d /\ state[x] = "READY"
          /\ OnList(wait_list[d], x) => x[1] = d /\ state[x] = "SLEEP"
          /\ OnList(kill_list[d], x) => x[1] = d /\ state[x] = "KILLED"
      BY <1>1, <1>a DEF ListInv
    <3> QED
      BY <1>a, <1>b, <1>c, <3>1
  <2> QED
    BY <1>1, <1>4, <2>1, <2>2, ListStep
<1>6. BootOK(c)'
  BY <1>1, <1>a, <1>b, <1>c, <1>d DEF BootOK, BootLabels, AllocLabels, HaltLabels
<1>7. CurrentOK(c)'
  BY <1>1, <1>a, <1>b, <1>c, <1>d DEF CurrentOK, RunningLabels, WakeLabels, IdleLabels, AllocLabels, HaltLabels, Resumable
<1>8. CreateOK(c)'
  BY <1>1, <1>a, <1>b, <1>c DEF CreateOK, Creating, AllocLabels
<1>9. PlaceOK(x)'
  BY <1>1, <1>a, <1>b, <1>c DEF PlaceOK, InitLabels
<1>10. \A d \in Cores : d # c => current[d] # x /\ (Creating(d) => newp[d] # x)
  BY <1>1, <1>a DEF CurrentInv, CurrentOK, CreateInv, CreateOK, Creating, AllocLabels
<1>11. /\ state'[x] \in {"READY", "RUNNING", "SLEEP"} => context'[x] \in Resumable
       /\ state'[x] # "UNUSED" => pid'[x] >= 4
       /\ pid_num' >= 4
  <2>1. pid_num' >= 4
    BY <1>b
  <2> QED
    BY <1>a, <1>b, <1>c, <2>1
<1> QED
  <2>1. \A d \in Cores : d # c /\ ready_list[d] # <<>> => ready_list'[d] # <<>>
    BY <1>b, <1>c
  <2>2. /\ (main_core_ready => main_core_ready') /\ (main_core_ready' <=> boots'[0] = 0)
        /\ pc[0] # "kmain" /\ pc'[0] # "kmain"
    BY <1>1, <1>a, <1>b, <1>c, CoresFacts DEF BootInv
  <2>3. pc[c] \in {"kill", "kill_cs"} => current[c] = x \/ pc'[c] \in {"kill", "kill_cs"}
    BY <1>a, <1>b
  <2>4. pc[c] \in InitLabels => newp[c] = x \/ (pc'[c] \in InitLabels /\ newp'[c] = newp[c])
    BY <1>a, <1>b, <1>c DEF InitLabels, HaltLabels
  <2>5. IInv /\ UNCHANGED current /\ x \in Slots /\ x[2] # 0
    BY <1>a, <1>c
  <2> QED
    BY <1>2, <1>3, <1>4, <1>5, <1>6, <1>7, <1>8, <1>9, <1>10, <1>11, <2>1, <2>2, <2>3, <2>4, <2>5, PointStep

(* fork makes the child ready: the invariant is preserved. *)
LEMMA CopyUvmStep ==
  ASSUME IInv, NEW c \in Cores, CopyUvm(c)
  PROVE  IInv'
<1>1. /\ TypeOK /\ LockExclusion /\ BootInv /\ ListInv /\ CurrentInv /\ ContextInv /\ PidInv
      /\ CreateInv /\ PlaceInv /\ BootOK(c) /\ CurrentOK(c) /\ CreateOK(c)
  BY DEF IInv, BootInv, CurrentInv, CreateInv
<1> USE DEF CopyUvm, Goto, table, lists, locks
<1>p. PICK x \in Slots : x = newp[c]
  BY <1>1, CoresFacts DEF CreateOK, Creating, AllocLabels
<1>a. /\ x = newp[c] /\ x \in UserSlots /\ x \in Slots /\ x[2] # 0
      /\ x[1] = (IF boots[c] > 0 THEN c ELSE 0) /\ x[1] \in Cores
      /\ state[x] = "INIT" /\ pc[c] = "copy_uvm" /\ pc[0] # "kmain"
      /\ \A d \in Cores : d # c => current[d] # x /\ (Creating(d) => newp[d] # x)
      /\ current[c] # x
  <2>1. /\ x \in UserSlots /\ x[1] = (IF boots[c] > 0 THEN c ELSE 0)
        /\ state[x] = "INIT" /\ pc[c] = "copy_uvm" /\ Creating(c)
    BY <1>1, <1>p DEF CreateOK, Creating, AllocLabels
  <2>2. pc[0] # "kmain"
    <3>1. boots[c] > 0 => pc[c] \in BootLabels \cup AllocLabels \cup HaltLabels
      BY <1>1 DEF BootOK
    <3>2. pc[0] = "kmain" => boots[0] > 0 /\ ~main_core_ready
      BY <1>1, CoresFacts DEF BootInv, BootOK, BootLabels
    <3> QED
      BY <1>1, <2>1, <3>2 DEF BootOK
  <2>3. ASSUME NEW d \in Cores, d # c, Creating(d) PROVE newp[d] # x
    BY <1>1, <1>p, <2>1, <2>3, CreatorsDiffer
  <2>4. ASSUME NEW d \in Cores PROVE current[d] # x
    <3>1. BootOK(d) /\ CurrentOK(d)
      BY <1>1 DEF BootInv, CurrentInv
    <3> QED
      BY <1>1, <2>1, <3>1, CurrentAlive, CoresFacts
  <2>5. x \in Slots /\ x[2] # 0 /\ x[1] \in Cores
    BY <2>1, CoresFacts
  <2> QED
    BY <1>p, <2>1, <2>2, <2>3, <2>4, <2>5
<1>b. /\ pc'[c] = "fork_ret" /\ process_lock' = 0 /\ boots[c] = 0 /\ x[1] = 0
      /\ \A d \in Cores : d # c => pc'[d] = pc[d]
      /\ \A d \in Cores : d # 0 => ready_list'[d] = ready_list[d]
      /\ ready_list' \in [Cores -> Seq(Slots)]
      /\ \A q : OnList(ready_list'[0], q) <=> OnList(ready_list[0], q) \/ q = x
      /\ NoDuplicates(ready_list'[0]) /\ ready_list'[0] # <<>>
      /\ state'[x] = "READY" /\ \A p \in Slots : p # x => state'[p] = state[p]
  <2>0. boots[c] = 0 /\ x[1] = 0 /\ 0 \in Cores
    BY <1>1, <1>a, Booted, CoresFacts DEF BootLabels, AllocLabels, HaltLabels
  <2>1. ready_list[0] \in Seq(Slots) /\ ~OnList(ready_list[0], x) /\ NoDuplicates(ready_list[0])
    BY <1>1, <1>a, <2>0 DEF TypeOK, ListInv
  <2>2. ready_list'[0] = Append(ready_list[0], x)
    BY <1>1, <1>a, <2>0 DEF TypeOK
  <2>3. /\ ready_list'[0] \in Seq(Slots) /\ NoDuplicates(ready_list'[0]) /\ ready_list'[0] # <<>>
        /\ \A q : OnList(ready_list'[0], q) <=> OnList(ready_list[0], q) \/ q = x
    BY <1>a, <2>1, <2>2, AppendList
  <2> QED
    BY <1>1, <1>a, <2>0, <2>3 DEF TypeOK
<1>c. UNCHANGED <<pid_lock, main_core_ready, pid_num, pid, context, current, wait_list, kill_list, chan, visit, newp, boots>>
  OBVIOUS
<1>2. TypeOK'
  BY <1>1, <1>a, <1>b DEF TypeOK, Labels, LockedLabels, ResumePoints, States
<1> HIDE DEF CopyUvm, Goto, table, lists
<1>3. LockExclusion'
  <2>1. /\ HoldsPidLock(c)' <=> HoldsPidLock(c)
        /\ HoldsProcessLock(c) /\ ~HoldsProcessLock(c)'
    BY <1>1, <1>a, <1>b, <1>c DEF HoldsProcessLock, HoldsPidLock, AllocLabels, LockedLabels, ResumePoints
  <2> QED
    BY <1>1, <1>a, <1>b, <1>c, <2>1, LockStep
<1>4. OtherCores(c) /\ OtherSlots(x) /\ OtherPlaces(x)
  BY <1>1, <1>a, <1>b, <1>c DEF OtherCores, OtherSlots, OtherPlaces
<1>d. /\ current'[c] = current[c] /\ state'[current[c]] = state[current[c]]
      /\ state'[Idle(c)] = state[Idle(c)]
  <2>1. current[c] \in Slots /\ Idle(c) \in Slots /\ Idle(c) # x /\ current[c] # x
    BY <1>1, <1>a, CoresFacts DEF TypeOK
  <2> QED
    BY <1>4, <1>c, <2>1 DEF OtherSlots
<1>5. ListInv'
  <2>1. \A d \in Cores : /\ NoDuplicates(ready_list'[d])
                         /\ NoDuplicates(wait_list'[d])
                         /\ NoDuplicates(kill_list'[d])
    BY <1>1, <1>a, <1>b, <1>c DEF ListInv
  <2>2. ASSUME NEW d \in Cores
        PROVE  /\ OnList(ready_list'[d], x) => x[1] = d /\ x[2] # 0 /\ state'[x] = "READY"
               /\ OnList(wait_list'[d], x) => x[1] = d /\ x[2] # 0 /\ state'[x] = "SLEEP"
               /\ OnList(kill_list'[d], x) => x[1] = d /\ x[2] # 0 /\ state'[x] = "KILLED"
    <3>1. /\ OnList(ready_list[d], x) => x[1] = d /\ state[x] = "READY"
          /\ OnList(wait_list[d], x) => x[1] = d /\ state[x] = "SLEEP"
          /\ OnList(kill_list[d], x) => x[1] = d /\ state[x] = "KILLED"
      BY <1>1, <1>a DEF ListInv
    <3> QED
      BY <1>a, <1>b, <1>c, <3>1
  <2> QED
    BY <1>1, <1>4, <2>1, <2>2, ListStep
<1>6. BootOK(c)'
  BY <1>1, <1>a, <1>b, <1>c, <1>d DEF BootOK, BootLabels, AllocLabels, HaltLabels
<1>7. CurrentOK(c)'
  BY <1>1, <1>a, <1>b, <1>c, <1>d DEF CurrentOK, RunningLabels, WakeLabels, IdleLabels, AllocLabels, HaltLabels, Resumable
<1>8. CreateOK(c)'
  BY <1>1, <1>a, <1>b, <1>c DEF CreateOK, Creating, AllocLabels
<1>9. PlaceOK(x)'
  BY <1>1, <1>a, <1>b, <1>c DEF PlaceOK
<1>10. \A d \in Cores : d # c => current[d] # x /\ (Creating(d) => newp[d] # x)
  BY <1>1, <1>a DEF CurrentInv, CurrentOK, CreateInv, CreateOK, Creating, AllocLabels
<1>11. /\ state'[x] \in {"READY", "RUNNING", "SLEEP"} => context'[x] \in Resumable
       /\ state'[x] # "UNUSED" => pid'[x] >= 4
       /\ pid_num' >= 4
  BY <1>1, <1>a, <1>b, <1>c DEF CreateOK, PidInv, Resumable
<1> QED
  <2>1. \A d \in Cores : d # c /\ ready_list[d] # <<>> => ready_list'[d] # <<>>
    BY <1>b
  <2>2. /\ (main_core_ready => main_core_ready') /\ (main_core_ready' <=> boots'[0] = 0)
        /\ pc'[0] # "kmain"
    BY <1>1, <1>a, <1>b, <1>c, CoresFacts DEF BootInv
  <2>3. pc[c] \notin {"kill", "kill_cs"}
    BY <1>a
  <2>4. IInv /\ UNCHANGED current /\ pid_num' >= 4 /\ newp[c] = x /\ x \in Slots /\ x[2] # 0
    BY <1>a, <1>c, <1>11
  <2> QED
    BY <1>2, <1>3, <1>4, <1>5, <1>6, <1>7, <1>8, <1>9, <1>10, <1>11, <1>a, <2>1, <2>2, <2>3, <2>4, PointStep

(* Start-up makes a process ready, without process_lock: the invariant is preserved. *)
LEMMA SetupUvmStep ==
  ASSUME IInv, NEW c \in Cores, SetupUvm(c)
  PROVE  IInv'
<1>1. /\ TypeOK /\ LockExclusion /\ BootInv /\ ListInv /\ CurrentInv /\ ContextInv /\ PidInv
      /\ CreateInv /\ PlaceInv /\ BootOK(c) /\ CurrentOK(c) /\ CreateOK(c)
  BY DEF IInv, BootInv, CurrentInv, CreateInv
<1> USE DEF SetupUvm, Goto, table, lists, locks
<1>p. PICK x \in Slots : x = newp[c]
  BY <1>1, CoresFacts DEF CreateOK, Creating, AllocLabels
<1>a. /\ x = newp[c] /\ x \in UserSlots /\ x \in Slots /\ x[2] # 0
      /\ x[1] = (IF boots[c] > 0 THEN c ELSE 0) /\ x[1] \in Cores
      /\ state[x] = "INIT" /\ pc[c] = "setup_uvm" /\ pc[0] # "kmain"
      /\ \A d \in Cores : d # c => current[d] # x /\ (Creating(d) => newp[d] # x)
      /\ current[c] # x
  <2>1. /\ x \in UserSlots /\ x[1] = (IF boots[c] > 0 THEN c ELSE 0)
        /\ state[x] = "INIT" /\ pc[c] = "setup_uvm" /\ Creating(c)
    BY <1>1, <1>p DEF CreateOK, Creating, AllocLabels
  <2>2. pc[0] # "kmain"
    <3>1. boots[c] > 0 => pc[c] \in BootLabels \cup AllocLabels \cup HaltLabels
      BY <1>1 DEF BootOK
    <3>2. pc[0] = "kmain" => boots[0] > 0 /\ ~main_core_ready
      BY <1>1, CoresFacts DEF BootInv, BootOK, BootLabels
    <3> QED
      BY <1>1, <2>1, <3>2 DEF BootOK
  <2>3. ASSUME NEW d \in Cores, d # c, Creating(d) PROVE newp[d] # x
    BY <1>1, <1>p, <2>1, <2>3, CreatorsDiffer
  <2>4. ASSUME NEW d \in Cores PROVE current[d] # x
    <3>1. BootOK(d) /\ CurrentOK(d)
      BY <1>1 DEF BootInv, CurrentInv
    <3> QED
      BY <1>1, <2>1, <3>1, CurrentAlive, CoresFacts
  <2>5. x \in Slots /\ x[2] # 0 /\ x[1] \in Cores
    BY <2>1, CoresFacts
  <2> QED
    BY <1>p, <2>1, <2>2, <2>3, <2>4, <2>5
<1>b. /\ boots[c] \in {1, 2} /\ boots'[c] = boots[c] - 1 /\ newp'[c] = NULL /\ x[1] = c
      /\ pc'[c] = IF boots[c] = 1 THEN "user" ELSE "init_process"
      /\ \A d \in Cores : d # c => pc'[d] = pc[d] /\ boots'[d] = boots[d] /\ newp'[d] = newp[d]
      /\ \A d \in Cores : d # c => ready_list'[d] = ready_list[d]
      /\ ready_list' \in [Cores -> Seq(Slots)]
      /\ \A q : OnList(ready_list'[c], q) <=> OnList(ready_list[c], q) \/ q = x
      /\ NoDuplicates(ready_list'[c]) /\ ready_list'[c] # <<>>
      /\ state'[x] = "READY" /\ \A p \in Slots : p # x => state'[p] = state[p]
      /\ current[c] = Idle(c) /\ state[Idle(c)] = "RUNNING"
      /\ main_core_ready' = (main_core_ready \/ boots[c] = 1)
  <2>0. boots[c] \in {1, 2} /\ current[c] = Idle(c) /\ state[Idle(c)] = "RUNNING" /\ x[1] = c
    BY <1>1, <1>a DEF TypeOK, BootOK, BootLabels
  <2>1. ready_list[c] \in Seq(Slots) /\ ~OnList(ready_list[c], x) /\ NoDuplicates(ready_list[c])
    BY <1>1, <1>a, <2>0 DEF TypeOK, ListInv
  <2>2. ready_list'[c] = Append(ready_list[c], x)
    BY <1>1, <1>a, <2>0 DEF TypeOK
  <2>3. /\ ready_list'[c] \in Seq(Slots) /\ NoDuplicates(ready_list'[c]) /\ ready_list'[c] # <<>>
        /\ \A q : OnList(ready_list'[c], q) <=> OnList(ready_list[c], q) \/ q = x
    BY <1>a, <2>1, <2>2, AppendList
  <2> QED
    BY <1>1, <1>a, <2>0, <2>3 DEF TypeOK
<1>c. UNCHANGED <<locks, pid_num, pid, context, current, wait_list, kill_list, chan>>
  OBVIOUS
<1>2. TypeOK'
  <2>1. pc' \in [Cores -> Labels]
    BY <1>1 DEF TypeOK, Labels
  <2>2. newp' \in [Cores -> Slots \cup {NULL}] /\ state' \in [Slots -> States] /\ main_core_ready' \in BOOLEAN
    BY <1>1 DEF TypeOK, States
  <2>3. boots' \in [Cores -> 0 .. 2]
    BY <1>1, <1>b DEF TypeOK
  <2> QED
    BY <1>1, <1>b, <2>1, <2>2, <2>3 DEF TypeOK
<1> HIDE DEF SetupUvm, Goto, table, lists
<1>3. LockExclusion'
  <2>1. /\ HoldsPidLock(c)' <=> HoldsPidLock(c)
        /\ HoldsProcessLock(c)' <=> HoldsProcessLock(c)
    BY <1>1, <1>a, <1>b, <1>c DEF HoldsProcessLock, HoldsPidLock, AllocLabels, LockedLabels, ResumePoints
  <2> QED
    BY <1>1, <1>a, <1>b, <1>c, <2>1, LockStep
<1>4. OtherCores(c) /\ OtherSlots(x) /\ OtherPlaces(x)
  BY <1>1, <1>a, <1>b, <1>c DEF OtherCores, OtherSlots, OtherPlaces
<1>d. /\ current'[c] = current[c] /\ state'[current[c]] = state[current[c]]
      /\ state'[Idle(c)] = state[Idle(c)]
  <2>1. current[c] \in Slots /\ Idle(c) \in Slots /\ Idle(c) # x /\ current[c] # x
    BY <1>1, <1>a, CoresFacts, SMTT(30) DEF TypeOK
  <2> QED
    BY <1>4, <1>c, <2>1 DEF OtherSlots
<1>5. ListInv'
  <2>1. \A d \in Cores : /\ NoDuplicates(ready_list'[d])
                         /\ NoDuplicates(wait_list'[d])
                         /\ NoDuplicates(kill_list'[d])
    BY <1>1, <1>a, <1>b, <1>c DEF ListInv
  <2>2. ASSUME NEW d \in Cores
        PROVE  /\ OnList(ready_list'[d], x) => x[1] = d /\ x[2] # 0 /\ state'[x] = "READY"
               /\ OnList(wait_list'[d], x) => x[1] = d /\ x[2] # 0 /\ state'[x] = "SLEEP"
               /\ OnList(kill_list'[d], x) => x[1] = d /\ x[2] # 0 /\ state'[x] = "KILLED"
    <3>1. /\ OnList(ready_list[d], x) => x[1] = d /\ state[x] = "READY"
          /\ OnList(wait_list[d], x) => x[1] = d /\ state[x] = "SLEEP"
          /\ OnList(kill_list[d], x) => x[1] = d /\ state[x] = "KILLED"
      BY <1>1, <1>a DEF ListInv
    <3> QED
      BY <1>a, <1>b, <1>c, <3>1
  <2> QED
    BY <1>1, <1>4, <2>1, <2>2, ListStep
<1>6. BootOK(c)'
  <2>1. c # 0 => main_core_ready
    BY <1>1, <1>a DEF BootOK
  <2>a. c # 0 => main_core_ready'
    BY <1>b, <2>1
  <2>b. current'[c] = Idle(c) /\ state'[Idle(c)] = "RUNNING"
    BY <1>b, <1>c, <1>d
  <2>2. CASE boots[c] = 1
    <3>1. pc'[c] = "user" /\ boots'[c] = 0
      BY <1>b, <2>2
    <3> QED
      BY <2>a, <2>b, <3>1 DEF BootOK, BootLabels
  <2>3. CASE boots[c] = 2
    <3>1. pc'[c] = "init_process" /\ boots'[c] = 1
      BY <1>b, <2>3
    <3> QED
      BY <2>a, <2>b, <3>1 DEF BootOK, BootLabels
  <2> QED
    BY <1>b, <2>2, <2>3
<1>7. CurrentOK(c)'
  <2>1. c # 0 => main_core_ready
    BY <1>1, <1>a DEF BootOK
  <2>2. state'[current'[c]] = "RUNNING" /\ current'[c] = Idle(c) /\ current'[c][1] = c
    BY <1>a, <1>b, <1>c, <1>d, CoresFacts
  <2>3. CASE boots[c] = 1
    <3>1. pc'[c] = "user"
      BY <1>b, <2>3
    <3> QED
      BY <2>2, <3>1 DEF CurrentOK, RunningLabels, WakeLabels, IdleLabels, AllocLabels, HaltLabels, Resumable
  <2>4. CASE boots[c] = 2
    <3>1. pc'[c] = "init_process" /\ boots'[c] = 1
      BY <1>b, <2>4
    <3> QED
      BY <2>2, <3>1 DEF CurrentOK, RunningLabels, WakeLabels, IdleLabels, AllocLabels, HaltLabels, Resumable
  <2> QED
    BY <1>b, <2>3, <2>4
<1>8. CreateOK(c)'
  BY <1>1, <1>a, <1>b, <1>c DEF CreateOK, Creating, AllocLabels
<1>9. PlaceOK(x)'
  BY <1>1, <1>a, <1>b, <1>c DEF PlaceOK
<1>10. \A d \in Cores : d # c => current[d] # x /\ (Creating(d) => newp[d] # x)
  BY <1>1, <1>a DEF CurrentInv, CurrentOK, CreateInv, CreateOK, Creating, AllocLabels
<1>11. /\ state'[x] \in {"READY", "RUNNING", "SLEEP"} => context'[x] \in Resumable
       /\ state'[x] # "UNUSED" => pid'[x] >= 4
       /\ pid_num' >= 4
  BY <1>1, <1>a, <1>b, <1>c DEF CreateOK, PidInv, Resumable
<1> QED
  <2>1. \A d \in Cores : d # c /\ ready_list[d] # <<>> => ready_list'[d] # <<>>
    BY <1>b
  <2>2. /\ (main_core_ready => main_core_ready') /\ (main_core_ready' <=> boots'[0] = 0)
        /\ pc'[0] # "kmain"
    <3>1. c # 0 => main_core_ready
      BY <1>1, <1>a DEF BootOK
    <3>2. main_core_ready <=> boots[0] = 0
      BY <1>1 DEF BootInv
    <3>3. CASE c = 0
      <4>1. ~main_core_ready /\ pc'[0] # "kmain"
        BY <1>a, <1>b, <3>2, <3>3, CoresFacts
      <4>2. boots'[0] = 0 <=> boots[0] = 1
        BY <1>b, <3>3
      <4> QED
        BY <1>b, <3>3, <4>1, <4>2
    <3>4. CASE c # 0
      BY <1>a, <1>b, <3>1, <3>2, <3>4, CoresFacts
    <3> QED
      BY <3>3, <3>4
  <2>3. pc[c] \notin {"kill", "kill_cs"}
    BY <1>a
  <2>4. IInv /\ UNCHANGED current /\ pid_num' >= 4 /\ newp[c] = x /\ x \in Slots /\ x[2] # 0
    BY <1>a, <1>c, <1>11
  <2> QED
    BY <1>2, <1>3, <1>4, <1>5, <1>6, <1>7, <1>8, <1>9, <1>10, <1>11, <1>a, <2>1, <2>2, <2>3, <2>4, PointStep

(* A process that yields joins the tail of its ready list. *)
LEMMA YieldUserStep ==
  ASSUME IInv, NEW c \in Cores, Yield(c), current[c][2] # 0
  PROVE  IInv'
<1>1. /\ TypeOK /\ LockExclusion /\ BootInv /\ ListInv /\ CurrentInv /\ ContextInv /\ PidInv
      /\ CreateInv /\ PlaceInv /\ BootOK(c) /\ CurrentOK(c) /\ CreateOK(c)
  BY DEF IInv, BootInv, CurrentInv, CreateInv
<1> USE DEF Yield, Goto, table, lists, locks
<1>p. PICK x \in Slots : x = current[c]
  BY <1>1 DEF TypeOK
<1>a. /\ x = current[c] /\ x \in Slots /\ x[1] = c /\ x[2] # 0 /\ x # Idle(c) /\ boots[c] = 0
      /\ state[x] = "RUNNING" /\ pc[c] = "yield_cs" /\ pc[0] # "kmain"
  <2>1. boots[c] = 0 /\ pc[c] = "yield_cs"
    BY <1>1, <1>p, Booted DEF BootLabels, AllocLabels, HaltLabels
  <2>2. x \in Slots /\ x[1] = c /\ state[x] = "RUNNING"
    BY <1>1, <1>p, <2>1 DEF TypeOK, CurrentOK, RunningLabels, IdleLabels, WakeLabels
  <2>3. pc[0] # "kmain"
    BY <1>1, <2>1, CoresFacts DEF BootInv, BootOK, BootLabels
  <2> QED
    BY <1>p, <2>1, <2>2, <2>3, CoresFacts
<1>b. /\ pc'[c] = "yield_sched"
      /\ \A d \in Cores : d # c => pc'[d] = pc[d] /\ ready_list'[d] = ready_list[d]
      /\ ready_list' \in [Cores -> Seq(Slots)]
      /\ \A q : OnList(ready_list'[c], q) <=> OnList(ready_list[c], q) \/ q = x
      /\ NoDuplicates(ready_list'[c]) /\ ready_list'[c] # <<>>
      /\ state'[x] = "READY" /\ \A p \in Slots : p # x => state'[p] = state[p]
  <2>0. pid[x] >= 4
    BY <1>1, <1>a DEF PidInv
  <2>1. ready_list[c] \in Seq(Slots) /\ ~OnList(ready_list[c], x) /\ NoDuplicates(ready_list[c])
    BY <1>1, <1>a DEF TypeOK, ListInv
  <2>2. ready_list'[c] = Append(ready_list[c], x)
    BY <1>1, <1>a, <2>0 DEF TypeOK
  <2>3. /\ ready_list'[c] \in Seq(Slots) /\ NoDuplicates(ready_list'[c]) /\ ready_list'[c] # <<>>
        /\ \A q : OnList(ready_list'[c], q) <=> OnList(ready_list[c], q) \/ q = x
    BY <1>a, <2>1, <2>2, AppendList
  <2> QED
    BY <1>1, <1>a, <2>3 DEF TypeOK
<1>c. UNCHANGED <<locks, main_core_ready, pid_num, pid, context, current, wait_list, kill_list, chan, visit, newp, boots>>
  OBVIOUS
<1>2. TypeOK'
  BY <1>1, <1>a, <1>b DEF TypeOK, Labels, AllocLabels, LockedLabels, SpinLabels, ResumePoints, States
<1> HIDE DEF Yield, Goto, table, lists
<1>3. LockExclusion'
  <2>1. /\ HoldsPidLock(c)' <=> HoldsPidLock(c)
        /\ HoldsProcessLock(c)' <=> HoldsProcessLock(c)
    BY <1>1, <1>a, <1>b, <1>c DEF HoldsProcessLock, HoldsPidLock, AllocLabels, LockedLabels, ResumePoints
  <2> QED
    BY <1>1, <1>a, <1>b, <1>c, <2>1, LockStep
<1>4. OtherCores(c) /\ OtherSlots(x) /\ OtherPlaces(x)
  BY <1>1, <1>a, <1>b, <1>c DEF OtherCores, OtherSlots, OtherPlaces
<1>5. ListInv'
  <2>1. \A d \in Cores : /\ NoDuplicates(ready_list'[d])
                         /\ NoDuplicates(wait_list'[d])
                         /\ NoDuplicates(kill_list'[d])
    BY <1>1, <1>a, <1>b, <1>c DEF ListInv
  <2>2. ASSUME NEW d \in Cores
        PROVE  /\ OnList(ready_list'[d], x) => x[1] = d /\ x[2] # 0 /\ state'[x] = "READY"
               /\ OnList(wait_list'[d], x) => x[1] = d /\ x[2] # 0 /\ state'[x] = "SLEEP"
               /\ OnList(kill_list'[d], x) => x[1] = d /\ x[2] # 0 /\ state'[x] = "KILLED"
    <3>1. /\ OnList(ready_list[d], x) => x[1] = d /\ state[x] = "READY"
          /\ OnList(wait_list[d], x) => x[1] = d /\ state[x] = "SLEEP"
          /\ OnList(kill_list[d], x) => x[1] = d /\ state[x] = "KILLED"
      BY <1>1, <1>a DEF ListInv
    <3> QED
      BY <1>a, <1>b, <1>c, <3>1
  <2> QED
    BY <1>1, <1>4, <2>1, <2>2, ListStep
<1>6. BootOK(c)'
  BY <1>1, <1>a, <1>b, <1>c DEF BootOK, BootLabels, AllocLabels, HaltLabels
<1>7. CurrentOK(c)'
  BY <1>1, <1>a, <1>b, <1>c DEF CurrentOK, RunningLabels, WakeLabels, IdleLabels, AllocLabels, HaltLabels, Resumable
<1>8. CreateOK(c)'
  BY <1>1, <1>a, <1>b, <1>c DEF CreateOK, Creating, AllocLabels
<1>9. PlaceOK(x)'
  BY <1>1, <1>a, <1>b, <1>c DEF PlaceOK
<1>10. \A d \in Cores : d # c => current[d] # x /\ (Creating(d) => newp[d] # x)
  BY <1>1, <1>a DEF CurrentInv, CurrentOK, CreateInv, CreateOK, Creating, AllocLabels
<1>11. /\ state'[x] \in {"READY", "RUNNING", "SLEEP"} => context'[x] \in Resumable
       /\ state'[x] # "UNUSED" => pid'[x] >= 4
       /\ pid_num' >= 4
  BY <1>1, <1>a, <1>b, <1>c DEF ContextInv, PidInv
<1> QED
  <2>1. \A d \in Cores : d # c /\ ready_list[d] # <<>> => ready_list'[d] # <<>>
    BY <1>b, <1>c
  <2>2. /\ (main_core_ready => main_core_ready') /\ (main_core_ready' <=> boots'[0] = 0)
        /\ pc[0] # "kmain" /\ pc'[0] # "kmain"
    BY <1>1, <1>a, <1>b, <1>c, CoresFacts DEF BootInv
  <2>3. pc[c] \in {"kill", "kill_cs"} => current[c] = x \/ pc'[c] \in {"kill", "kill_cs"}
    BY <1>a, <1>b
  <2>4. pc[c] \in InitLabels => newp[c] = x \/ (pc'[c] \in InitLabels /\ newp'[c] = newp[c])
    BY <1>a, <1>b, <1>c DEF InitLabels, HaltLabels
  <2>5. IInv /\ UNCHANGED current /\ x \in Slots /\ x[2] # 0
    BY <1>a, <1>c
  <2> QED
    BY <1>2, <1>3, <1>4, <1>5, <1>6, <1>7, <1>8, <1>9, <1>10, <1>11, <2>1, <2>2, <2>3, <2>4, <2>5, PointStep

(* wait zeroes the slot of a dead process: the invariant is preserved. *)
LEMMA ReapStep ==
  ASSUME IInv, NEW c \in Cores, Reap(c)
  PROVE  IInv'
<1>1. /\ TypeOK /\ LockExclusion /\ BootInv /\ ListInv /\ CurrentInv /\ ContextInv /\ PidInv
      /\ CreateInv /\ PlaceInv /\ BootOK(c) /\ CurrentOK(c) /\ CreateOK(c)
  BY DEF IInv, BootInv, CurrentInv, CreateInv
<1> USE DEF Reap, Goto, table, lists, locks
<1>i. PICK i \in DOMAIN kill_list[c] :
        /\ kill_list' = [kill_list EXCEPT ![c] = RemoveAt(@, i)]
        /\ state' = [state EXCEPT ![kill_list[c][i]] = "UNUSED"]
        /\ pid' = [pid EXCEPT ![kill_list[c][i]] = 0]
        /\ wait' = [wait EXCEPT ![kill_list[c][i]] = 0]
        /\ context' = [context EXCEPT ![kill_list[c][i]] = "null"]
        /\ call' = [call EXCEPT ![kill_list[c][i]] = NoCall, ![current[c]] = NoCall]
        /\ cloned' = [cloned EXCEPT ![kill_list[c][i]] = 0]
  OBVIOUS
<1>p. PICK x \in Slots : x = kill_list[c][i]
  BY <1>1, ElementOfSeq, LenProperties DEF TypeOK
<1>a. /\ x = kill_list[c][i] /\ x \in Slots /\ x[1] = c /\ x[2] # 0 /\ boots[c] = 0
      /\ state[x] = "KILLED" /\ pc[c] = "wait_cs" /\ pc[0] # "kmain"
      /\ current[c] \in Slots /\ current[c] # x /\ state[current[c]] = "RUNNING"
  <2>1. boots[c] = 0 /\ pc[c] = "wait_cs"
    BY <1>1, Booted DEF BootLabels, AllocLabels, HaltLabels
  <2>2. OnList(kill_list[c], x)
    BY <1>p DEF OnList
  <2>3. x[1] = c /\ state[x] = "KILLED" /\ x[2] # 0
    BY <1>1, <2>2 DEF ListInv
  <2>4. current[c] \in Slots /\ state[current[c]] = "RUNNING"
    BY <1>1, <2>1 DEF CurrentOK, RunningLabels, TypeOK
  <2>5. pc[0] # "kmain"
    BY <1>1, <2>1, CoresFacts DEF BootInv, BootOK, BootLabels
  <2> QED
    BY <1>p, <2>1, <2>3, <2>4, <2>5
<1>b. /\ pc'[c] = "user" /\ process_lock' = 0
      /\ \A d \in Cores : d # c => pc'[d] = pc[d] /\ kill_list'[d] = kill_list[d]
      /\ kill_list' \in [Cores -> Seq(Slots)]
      /\ NoDuplicates(kill_list'[c]) /\ ~OnList(kill_list'[c], x)
      /\ \A q \in Slots : q # x => (OnList(kill_list'[c], q) <=> OnList(kill_list[c], q))
      /\ state'[x] = "UNUSED" /\ \A p \in Slots : p # x => state'[p] = state[p]
      /\ \A p \in Slots : p # x => context'[p] = context[p] /\ pid'[p] = pid[p]
      /\ state'[current[c]] = "RUNNING"
  <2>1. kill_list[c] \in Seq(Slots) /\ NoDuplicates(kill_list[c])
    BY <1>1 DEF TypeOK, ListInv
  <2>2. kill_list'[c] = RemoveAt(kill_list[c], i)
    BY <1>1, <1>i DEF TypeOK
  <2>3. /\ kill_list'[c] \in Seq(Slots) /\ NoDuplicates(kill_list'[c]) /\ ~OnList(kill_list'[c], x)
        /\ \A q \in Slots : q # x => (OnList(kill_list'[c], q) <=> OnList(kill_list[c], q))
    BY <1>a, <2>1, <2>2, RemoveAtList
  <2>4. kill_list' \in [Cores -> Seq(Slots)]
    BY <1>1, <1>i, <2>2, <2>3 DEF TypeOK
  <2>5. state'[x] = "UNUSED" /\ \A p \in Slots : p # x => state'[p] = state[p]
    <3> HIDE DEF Reap, Goto, table, lists, locks
    <3>1. state \in [Slots -> States]
      BY <1>1 DEF TypeOK
    <3>2. state' = [state EXCEPT ![x] = "UNUSED"]
      BY <1>a, <1>i
    <3> QED
      BY <3>1, <3>2
  <2>6. \A p \in Slots : p # x => context'[p] = context[p] /\ pid'[p] = pid[p]
    BY <1>1, <1>a, <1>i DEF TypeOK
  <2>7. \A d \in Cores : d # c => pc'[d] = pc[d] /\ kill_list'[d] = kill_list[d]
    BY <1>1, <1>i DEF TypeOK
  <2>8. pc'[c] = "user" /\ process_lock' = 0
    BY <1>1 DEF TypeOK
  <2> QED
    BY <1>a, <2>3, <2>4, <2>5, <2>6, <2>7, <2>8
<1>c. UNCHANGED <<pid_lock, main_core_ready, pid_num, current, ready_list, wait_list, chan, visit, newp, boots>>
  OBVIOUS
<1>2. TypeOK'
  <2>1. pc' \in [Cores -> Labels] /\ state' \in [Slots -> States] /\ pid' \in [Slots -> Nat]
    BY <1>1, <1>i DEF TypeOK, Labels, States
  <2>2. wait' \in [Slots -> Int]
    BY <1>1, <1>i DEF TypeOK
  <2>5. context' \in [Slots -> ResumePoints \cup {"null"}]
    BY <1>1, <1>i DEF TypeOK
  <2>6. cloned' \in [Slots -> Nat]
    BY <1>1, <1>i DEF TypeOK
  <2>3. NoCall \in Calls
    BY DEF NoCall, Calls
  <2>4. call' \in [Slots -> Calls]
    BY <1>1, <1>i, <2>3 DEF TypeOK
  <2> QED
    BY <1>1, <1>b, <1>c, <2>1, <2>2, <2>4, <2>5, <2>6, ZenonT(40) DEF TypeOK
<1> HIDE DEF Reap, Goto, table, lists
<1>3. LockExclusion'
  <2>1. /\ HoldsPidLock(c)' <=> HoldsPidLock(c)
        /\ HoldsProcessLock(c) /\ ~HoldsProcessLock(c)'
    BY <1>1, <1>a, <1>b, <1>c DEF HoldsProcessLock, HoldsPidLock, AllocLabels, LockedLabels, ResumePoints
  <2> QED
    BY <1>1, <1>a, <1>b, <1>c, <2>1, LockStep
<1>4. OtherCores(c) /\ OtherSlots(x) /\ OtherPlaces(x)
  BY <1>1, <1>a, <1>b, <1>c DEF OtherCores, OtherSlots, OtherPlaces
<1>5. ListInv'
  <2>1. \A d \in Cores : /\ NoDuplicates(ready_list'[d])
                         /\ NoDuplicates(wait_list'[d])
                         /\ NoDuplicates(kill_list'[d])
    BY <1>1, <1>a, <1>b, <1>c DEF ListInv
  <2>2. ASSUME NEW d \in Cores
        PROVE  /\ OnList(ready_list'[d], x) => x[1] = d /\ x[2] # 0 /\ state'[x] = "READY"
               /\ OnList(wait_list'[d], x) => x[1] = d /\ x[2] # 0 /\ state'[x] = "SLEEP"
               /\ OnList(kill_list'[d], x) => x[1] = d /\ x[2] # 0 /\ state'[x] = "KILLED"
    <3>1. /\ OnList(ready_list[d], x) => x[1] = d /\ state[x] = "READY"
          /\ OnList(wait_list[d], x) => x[1] = d /\ state[x] = "SLEEP"
          /\ OnList(kill_list[d], x) => x[1] = d /\ state[x] = "KILLED"
      BY <1>1, <1>a DEF ListInv
    <3> QED
      BY <1>a, <1>b, <1>c, <3>1
  <2> QED
    BY <1>1, <1>4, <2>1, <2>2, ListStep
<1>6. BootOK(c)'
  BY <1>1, <1>a, <1>b, <1>c DEF BootOK, BootLabels, AllocLabels, HaltLabels
<1>7. CurrentOK(c)'
  BY <1>1, <1>a, <1>b, <1>c DEF CurrentOK, RunningLabels, WakeLabels, IdleLabels, AllocLabels, HaltLabels, Resumable
<1>8. CreateOK(c)'
  BY <1>1, <1>a, <1>b, <1>c DEF CreateOK, Creating, AllocLabels
<1>9. PlaceOK(x)'
  BY <1>1, <1>a, <1>b, <1>c DEF PlaceOK
<1>10. \A d \in Cores : d # c => current[d] # x /\ (Creating(d) => newp[d] # x)
  BY <1>1, <1>a DEF CurrentInv, CurrentOK, CreateInv, CreateOK, Creating, AllocLabels
<1>11. /\ state'[x] \in {"READY", "RUNNING", "SLEEP"} => context'[x] \in Resumable
       /\ state'[x] # "UNUSED" => pid'[x] >= 4
       /\ pid_num' >= 4
  BY <1>1, <1>a, <1>b, <1>c DEF ContextInv, PidInv
<1> QED
  <2>1. \A d \in Cores : d # c /\ ready_list[d] # <<>> => ready_list'[d] # <<>>
    BY <1>c
  <2>2. (main_core_ready => main_core_ready') /\ (main_core_ready' <=> boots'[0] = 0) /\ pc'[0] # "kmain"
    BY <1>1, <1>a, <1>b, <1>c, CoresFacts DEF BootInv
  <2>3. pc[c] \notin {"kill", "kill_cs"} \cup InitLabels
    BY <1>a DEF InitLabels, HaltLabels
  <2> QED
    BY <1>2, <1>3, <1>4, <1>5, <1>6, <1>7, <1>8, <1>9, <1>10, <1>11, <1>a, <1>c, <2>1, <2>2, <2>3, PointStep

(* wake_up moves one sleeper to its ready list: the invariant is preserved. *)
LEMMA WakeOneStep ==
  ASSUME IInv, NEW c \in Cores, WakeOne(c)
  PROVE  IInv'
<1>1. /\ TypeOK /\ LockExclusion /\ BootInv /\ ListInv /\ CurrentInv /\ ContextInv /\ PidInv
      /\ CreateInv /\ PlaceInv /\ BootOK(c) /\ CurrentOK(c) /\ CreateOK(c)
  BY DEF IInv, BootInv, CurrentInv, CreateInv
<1> USE DEF WakeOne, Goto, table, lists, locks
<1>e. PICK e \in Cores : \E i \in DOMAIN wait_list[e] :
        /\ state' = [state EXCEPT ![wait_list[e][i]] = "READY"]
        /\ ready_list' = [ready_list EXCEPT ![e] = Append(@, wait_list[e][i])]
        /\ wait_list' = [wait_list EXCEPT ![e] = RemoveAt(@, i)]
  <2>1. visit[c] \in Cores
    BY <1>1 DEF TypeOK
  <2> QED
    BY <2>1
<1>i. PICK i \in DOMAIN wait_list[e] :
        /\ state' = [state EXCEPT ![wait_list[e][i]] = "READY"]
        /\ ready_list' = [ready_list EXCEPT ![e] = Append(@, wait_list[e][i])]
        /\ wait_list' = [wait_list EXCEPT ![e] = RemoveAt(@, i)]
  BY <1>e
<1>p. PICK x \in Slots : x = wait_list[e][i]
  <2>1. wait_list[e] \in Seq(Slots)
    BY <1>1 DEF TypeOK
  <2> QED
    BY <2>1, ElementOfSeq, LenProperties
<1>a. /\ x = wait_list[e][i] /\ x \in Slots /\ x[1] = e /\ x[2] # 0 /\ boots[c] = 0
      /\ state[x] = "SLEEP" /\ pc[c] = "wake_cs" /\ pc[0] # "kmain"
      /\ \A d \in Cores : current[d] \in Slots /\ current[d] # x
  <2>1. boots[c] = 0 /\ pc[c] = "wake_cs"
    BY <1>1, Booted DEF BootLabels, AllocLabels, HaltLabels
  <2>2. OnList(wait_list[e], x)
    BY <1>p DEF OnList
  <2>3. x[1] = e /\ state[x] = "SLEEP" /\ x[2] # 0
    BY <1>1, <2>2 DEF ListInv
  <2>4. ASSUME NEW d \in Cores, current[d] = x PROVE FALSE
    <3>1. BootOK(d) /\ CurrentOK(d)
      BY <1>1 DEF BootInv, CurrentInv
    <3>2. boots[d] = 0
      BY <1>1, <2>3, <2>4, <3>1, Booted, CoresFacts DEF BootOK
    <3>3. pc[d] \in Labels \ BootLabels
      BY <1>1, <3>1, <3>2 DEF TypeOK, BootOK
    <3>4. pc[d] = "sleep_sched"
      BY <2>3, <2>4, <3>1, <3>2, <3>3 DEF CurrentOK, Labels, BootLabels, LockedLabels, SpinLabels,
         ResumePoints, RunningLabels, WakeLabels, Resumable, HaltLabels
    <3>5. HoldsProcessLock(c) /\ HoldsProcessLock(d) /\ c # d
      BY <2>1, <3>4 DEF HoldsProcessLock, LockedLabels
    <3> QED
      BY <1>1, <3>5 DEF LockExclusion
  <2>5. pc[0] # "kmain"
    BY <1>1, <2>1, CoresFacts DEF BootInv, BootOK, BootLabels
  <2> QED
    BY <1>1, <1>p, <2>1, <2>3, <2>4, <2>5 DEF TypeOK
<1>b. /\ \A d \in Cores : d # e => ready_list'[d] = ready_list[d] /\ wait_list'[d] = wait_list[d]
      /\ wait_list' \in [Cores -> Seq(Slots)] /\ ready_list' \in [Cores -> Seq(Slots)]
      /\ NoDuplicates(wait_list'[e]) /\ ~OnList(wait_list'[e], x)
      /\ \A q \in Slots : q # x => (OnList(wait_list'[e], q) <=> OnList(wait_list[e], q))
      /\ NoDuplicates(ready_list'[e]) /\ ready_list'[e] # <<>>
      /\ \A q : OnList(ready_list'[e], q) <=> OnList(ready_list[e], q) \/ q = x
      /\ state'[x] = "READY" /\ \A p \in Slots : p # x => state'[p] = state[p]
  <2>1. /\ wait_list[e] \in Seq(Slots) /\ NoDuplicates(wait_list[e])
        /\ ready_list[e] \in Seq(Slots) /\ NoDuplicates(ready_list[e]) /\ ~OnList(ready_list[e], x)
    BY <1>1, <1>a DEF TypeOK, ListInv
  <2>2. wait_list'[e] = RemoveAt(wait_list[e], i) /\ ready_list'[e] = Append(ready_list[e], x)
    BY <1>1, <1>a, <1>i, ZenonT(40) DEF TypeOK
  <2>3. /\ wait_list'[e] \in Seq(Slots) /\ NoDuplicates(wait_list'[e]) /\ ~OnList(wait_list'[e], x)
        /\ \A q \in Slots : q # x => (OnList(wait_list'[e], q) <=> OnList(wait_list[e], q))
    BY <1>a, <2>1, <2>2, RemoveAtList
  <2>4. /\ ready_list'[e] \in Seq(Slots) /\ NoDuplicates(ready_list'[e]) /\ ready_list'[e] # <<>>
        /\ \A q : OnList(ready_list'[e], q) <=> OnList(ready_list[e], q) \/ q = x
    BY <1>a, <2>1, <2>2, AppendList, SMTT(30)
  <2>5. wait_list' \in [Cores -> Seq(Slots)] /\ ready_list' \in [Cores -> Seq(Slots)]
    BY <1>1, <1>i, <2>2, <2>3, <2>4 DEF TypeOK
  <2>6. state'[x] = "READY" /\ \A p \in Slots : p # x => state'[p] = state[p]
    BY <1>1, <1>a, <1>i DEF TypeOK
  <2> QED
    BY <1>1, <1>i, <2>3, <2>4, <2>5, <2>6 DEF TypeOK
<1>c. UNCHANGED <<locks, main_core_ready, pid_num, pid, context, current, kill_list, pc, chan, visit, newp, boots>>
  OBVIOUS
<1>2. TypeOK'
  <2>1. state' \in [Slots -> States]
    BY <1>1, <1>i DEF TypeOK, States
  <2> QED
    BY <1>1, <1>b, <1>c, <2>1 DEF TypeOK
<1> HIDE DEF WakeOne, Goto, table, lists
<1>3. LockExclusion'
  <2>1. /\ HoldsPidLock(c)' <=> HoldsPidLock(c)
        /\ HoldsProcessLock(c)' <=> HoldsProcessLock(c)
    BY <1>1, <1>a, <1>b, <1>c DEF HoldsProcessLock, HoldsPidLock, AllocLabels, LockedLabels, ResumePoints
  <2> QED
    BY <1>1, <1>a, <1>b, <1>c, <2>1, LockStep
<1>4. OtherCores(c) /\ OtherSlots(x) /\ OtherPlaces(x)
  BY <1>1, <1>a, <1>b, <1>c DEF OtherCores, OtherSlots, OtherPlaces
<1>5. ListInv'
  <2>1. \A d \in Cores : /\ NoDuplicates(ready_list'[d])
                         /\ NoDuplicates(wait_list'[d])
                         /\ NoDuplicates(kill_list'[d])
    BY <1>1, <1>a, <1>b, <1>c, ZenonT(40) DEF ListInv
  <2>2. ASSUME NEW d \in Cores
        PROVE  /\ OnList(ready_list'[d], x) => x[1] = d /\ x[2] # 0 /\ state'[x] = "READY"
               /\ OnList(wait_list'[d], x) => x[1] = d /\ x[2] # 0 /\ state'[x] = "SLEEP"
               /\ OnList(kill_list'[d], x) => x[1] = d /\ x[2] # 0 /\ state'[x] = "KILLED"
    <3>1. /\ OnList(ready_list[d], x) => x[1] = d /\ state[x] = "READY"
          /\ OnList(wait_list[d], x) => x[1] = d /\ state[x] = "SLEEP"
          /\ OnList(kill_list[d], x) => x[1] = d /\ state[x] = "KILLED"
      BY <1>1, <1>a DEF ListInv
    <3> QED
      BY <1>a, <1>b, <1>c, <3>1
  <2> QED
    BY <1>1, <1>4, <2>1, <2>2, ListStep
<1>6. BootOK(c)'
  BY <1>1, <1>a, <1>c DEF BootOK, BootLabels, AllocLabels, HaltLabels
<1>7. CurrentOK(c)'
  <2>1. state'[current[c]] = state[current[c]] /\ state[current[c]] # "SLEEP"
    BY <1>1, <1>a, <1>b DEF CurrentOK, WakeLabels
  <2> QED
    BY <1>1, <1>a, <1>b, <1>c, <2>1 DEF CurrentOK, RunningLabels, WakeLabels, IdleLabels, AllocLabels, HaltLabels, Resumable
<1>8. CreateOK(c)'
  BY <1>1, <1>a, <1>b, <1>c DEF CreateOK, Creating, AllocLabels
<1>9. PlaceOK(x)'
  BY <1>a, <1>b DEF PlaceOK
<1>10. \A d \in Cores : d # c => current[d] # x /\ (Creating(d) => newp[d] # x)
  BY <1>1, <1>a DEF CurrentInv, CurrentOK, CreateInv, CreateOK, Creating, AllocLabels
<1>11. /\ state'[x] \in {"READY", "RUNNING", "SLEEP"} => context'[x] \in Resumable
       /\ state'[x] # "UNUSED" => pid'[x] >= 4
       /\ pid_num' >= 4
  BY <1>1, <1>a, <1>b, <1>c DEF ContextInv, PidInv
<1> QED
  <2>1. \A d \in Cores : d # c /\ ready_list[d] # <<>> => ready_list'[d] # <<>>
    BY <1>b
  <2>2. (main_core_ready => main_core_ready') /\ (main_core_ready' <=> boots'[0] = 0) /\ pc'[0] # "kmain"
    BY <1>1, <1>a, <1>c, CoresFacts DEF BootInv
  <2>3. pc[c] \notin {"kill", "kill_cs"} \cup InitLabels
    BY <1>a DEF InitLabels, HaltLabels
  <2> QED
    BY <1>2, <1>3, <1>4, <1>5, <1>6, <1>7, <1>8, <1>9, <1>10, <1>11, <1>a, <1>c, <2>1, <2>2, <2>3, PointStep

(* The idle process yields: it becomes READY but joins no list. *)
LEMMA YieldIdleStep ==
  ASSUME IInv, NEW c \in Cores, Yield(c), current[c][2] = 0
  PROVE  IInv'
<1>1. /\ TypeOK /\ LockExclusion /\ BootInv /\ ListInv /\ CurrentInv /\ ContextInv /\ PidInv
      /\ CreateInv /\ PlaceInv /\ BootOK(c) /\ CurrentOK(c) /\ CreateOK(c)
  BY DEF IInv, BootInv, CurrentInv, CreateInv
<1> USE DEF Yield, Goto, table, lists, locks
<1>a. /\ current[c] = Idle(c) /\ Idle(c) \in Slots /\ boots[c] = 0 /\ pc[c] = "yield_cs" /\ pc[0] # "kmain"
      /\ ready_list[c] # <<>> /\ pid[Idle(c)] = c /\ c < 4 /\ state[Idle(c)] = "RUNNING"
  <2>1. boots[c] = 0 /\ pc[c] = "yield_cs"
    BY <1>1, Booted DEF BootLabels, AllocLabels, HaltLabels
  <2>2. current[c] = Idle(c) /\ Idle(c) \in Slots /\ c < 4
    BY <1>1, CoresFacts DEF TypeOK, CurrentOK, Slots, Idle
  <2>3. pc[0] # "kmain"
    BY <1>1, <2>1, CoresFacts DEF BootInv, BootOK, BootLabels
  <2>4. pid[Idle(c)] = c /\ state[Idle(c)] = "RUNNING"
    BY <1>1, <2>1, <2>2, <2>3 DEF PidInv, CurrentOK, RunningLabels
  <2> QED
    BY <2>1, <2>2, <2>3, <2>4
<1>b. /\ pc'[c] = "yield_sched" /\ \A d \in Cores : d # c => pc'[d] = pc[d]
      /\ state'[Idle(c)] = "READY" /\ \A p \in Slots : p # Idle(c) => state'[p] = state[p]
      /\ ready_list' = ready_list
  <2>1. ready_list' = [ready_list EXCEPT ![c] = @]
    <3>1. ~(pid[current[c]] >= 4)
      BY <1>a, CoresFacts
    <3> QED
      BY <3>1
  <2>2. ready_list' = ready_list
    BY <1>1, <2>1 DEF TypeOK
  <2> QED
    BY <1>1, <1>a, <2>2 DEF TypeOK
<1>c. UNCHANGED <<process_lock, pid_lock, main_core_ready, pid_num, pid, context, current, wait_list,
                  kill_list, chan, visit, newp, boots>>
  OBVIOUS
<1>2. TypeOK'
  BY <1>1, <1>b DEF TypeOK, Labels, LockedLabels, States
<1> HIDE DEF Yield, Goto, table, lists
<1>3. LockExclusion'
  <2>1. /\ HoldsPidLock(c)' <=> HoldsPidLock(c)
        /\ HoldsProcessLock(c)' <=> HoldsProcessLock(c)
    BY <1>a, <1>b, <1>c DEF HoldsProcessLock, HoldsPidLock, AllocLabels, LockedLabels
  <2> QED
    BY <1>1, <1>b, <1>c, <2>1, LockStep
<1>d. \A d \in Cores : d # c =>
        /\ current[d] \in Slots /\ current[d] # Idle(c) /\ Idle(d) # Idle(c) /\ Idle(d) \in Slots
        /\ state'[current[d]] = state[current[d]] /\ state'[Idle(d)] = state[Idle(d)]
  <2>1. ASSUME NEW d \in Cores, d # c
        PROVE  /\ current[d] \in Slots /\ current[d] # Idle(c)
               /\ Idle(d) # Idle(c) /\ Idle(d) \in Slots
    <3>1. CurrentOK(d) /\ current[d] \in Slots
      BY <1>1 DEF CurrentInv, TypeOK
    <3> QED
      BY <2>1, <3>1, CoresFacts DEF CurrentOK
  <2> QED
    BY <1>b, <2>1
<1>4. BootInv'
  <2>1. ASSUME NEW d \in Cores, d # c PROVE BootOK(d)'
    <3>1. pc'[d] = pc[d] /\ boots'[d] = boots[d] /\ current'[d] = current[d]
      BY <1>b, <1>c, <2>1
    <3>2. main_core_ready' = main_core_ready /\ BootOK(d) /\ 0 \in Cores
      BY <1>1, <1>c, CoresFacts DEF BootInv
    <3>3. pc'[0] # "kmain" => pc[0] # "kmain"
      BY <1>a
    <3>4. state'[Idle(d)] = state[Idle(d)]
      BY <1>d, <2>1
    <3> QED
      BY <3>1, <3>2, <3>3, <3>4 DEF BootOK
  <2>2. BootOK(c)'
    BY <1>1, <1>a, <1>b, <1>c DEF BootOK, BootLabels
  <2> QED
    BY <1>1, <1>c, <2>1, <2>2 DEF BootInv
<1>5. ListInv'
  <2>1. \A p \in Slots : p[2] # 0 => state'[p] = state[p]
    BY <1>b, CoresFacts
  <2> QED
    BY <1>1, <1>b, <1>c, <2>1 DEF ListInv
<1>6. CurrentInv'
  <2>1. ASSUME NEW d \in Cores, d # c PROVE CurrentOK(d)'
    BY <1>1, <1>b, <1>c, <1>d, <2>1 DEF CurrentInv, CurrentOK
  <2>2. CurrentOK(c)'
    BY <1>1, <1>a, <1>b, <1>c DEF CurrentOK, RunningLabels, WakeLabels, IdleLabels, AllocLabels, HaltLabels, Resumable
  <2> QED
    BY <2>1, <2>2 DEF CurrentInv
<1>7. ContextInv'
  <2>1. \A p \in Slots : p[2] # 0 => state'[p] = state[p]
    BY <1>b, CoresFacts
  <2> QED
    BY <1>1, <1>a, <1>c, <1>d, <2>1 DEF ContextInv
<1>8. PidInv'
  <2>1. \A p \in Slots : p[2] # 0 => state'[p] = state[p]
    BY <1>b, CoresFacts
  <2> QED
    BY <1>1, <1>a, <1>c, <2>1 DEF PidInv
<1>9. CreateInv'
  <2>1. ASSUME NEW d \in Cores PROVE CreateOK(d)'
    <3>1. CreateOK(d) /\ (pc'[d] = pc[d] \/ d = c) /\ newp'[d] = newp[d] /\ boots'[d] = boots[d]
      BY <1>1, <1>b, <1>c DEF CreateInv
    <3>2. Creating(d) => newp[d] \in Slots /\ state'[newp[d]] = state[newp[d]] /\ context' = context
      BY <1>b, <1>c, <3>1, CoresFacts DEF CreateOK
    <3> QED
      BY <1>b, <1>c, <3>1, <3>2 DEF CreateOK, Creating, AllocLabels
  <2> QED
    BY <2>1 DEF CreateInv
<1>10. PlaceInv'
  <2>1. ASSUME NEW p \in Slots, p # Idle(c) PROVE PlaceOK(p)'
    <3>1. PlaceOK(p) /\ state'[p] = state[p] /\ p[1] \in Cores
      BY <1>1, <1>b, <2>1, CoresFacts DEF PlaceInv
    <3>2. state[p] = "INIT" => \E d \in Cores : newp'[d] = p /\ pc'[d] \in InitLabels
      BY <1>1, <1>a, <1>b, <1>c, InitKept DEF InitLabels, HaltLabels
    <3>3. pc[p[1]] \in {"kill", "kill_cs"} => pc'[p[1]] = pc[p[1]]
      BY <1>a, <1>b, <3>1
    <3> QED
      BY <1>b, <1>c, <3>1, <3>2, <3>3 DEF PlaceOK
  <2>2. PlaceOK(Idle(c))'
    BY <1>b, CoresFacts DEF PlaceOK
  <2> QED
    BY <2>1, <2>2 DEF PlaceInv
<1> QED
  BY <1>2, <1>3, <1>4, <1>5, <1>6, <1>7, <1>8, <1>9, <1>10 DEF IInv

(* Yield preserves the invariant. *)
LEMMA YieldStep ==
  ASSUME IInv, NEW c \in Cores, Yield(c)
  PROVE  IInv'
  BY YieldUserStep, YieldIdleStep

(* init_idle_process, before any other core has left its spin loop. *)
LEMMA InitIdleStep ==
  ASSUME IInv, NEW c \in Cores, InitIdle(c)
  PROVE  IInv'
<1>1. /\ TypeOK /\ LockExclusion /\ BootInv /\ ListInv /\ CurrentInv /\ ContextInv /\ PidInv
      /\ CreateInv /\ PlaceInv /\ BootOK(c) /\ CurrentOK(c) /\ CreateOK(c)
  BY DEF IInv, BootInv, CurrentInv, CreateInv
<1> USE DEF InitIdle, Goto, table, lists, locks
<1>a. c = 0 /\ pc[0] = "kmain" /\ boots[0] > 0 /\ ~main_core_ready
  BY <1>1 DEF BootInv, BootOK, BootLabels
<1>b. /\ pc'[c] = "init_process" /\ \A d \in Cores : d # c => pc'[d] = pc[d] /\ pc[d] = "spin"
      /\ \A p \in Slots : p[2] # 0 => state'[p] = state[p] /\ pid'[p] = pid[p]
      /\ \A p \in Slots : p[2] = 0 => state'[p] = "RUNNING" /\ pid'[p] = p[1]
      /\ \A d \in Cores : current'[d] = Idle(d) /\ boots[d] > 0
  <2>1. \A d \in Cores : d # c => pc[d] = "spin" /\ boots[d] > 0
    BY <1>1, <1>a DEF BootInv, BootOK, BootLabels
  <2> QED
    BY <1>1, <1>a, <2>1 DEF TypeOK
<1>c. UNCHANGED <<process_lock, pid_lock, main_core_ready, pid_num, context, ready_list, wait_list,
                  kill_list, chan, visit, newp, boots>>
  OBVIOUS
<1>2. TypeOK'
  <2>1. pc' \in [Cores -> Labels] /\ state' \in [Slots -> States]
    BY <1>1 DEF TypeOK, Labels, States
  <2>2. \A p \in Slots : p[1] \in Nat
    BY CoresFacts
  <2>3. pid' \in [Slots -> Nat]
    BY <1>1, <2>2 DEF TypeOK
  <2>4. current' \in [Cores -> Slots]
    BY CoresFacts
  <2> QED
    BY <1>1, <2>1, <2>3, <2>4 DEF TypeOK
<1> HIDE DEF InitIdle, Goto, table, lists
<1>3. LockExclusion'
  <2>1. /\ HoldsPidLock(c)' <=> HoldsPidLock(c)
        /\ HoldsProcessLock(c)' <=> HoldsProcessLock(c)
    BY <1>a, <1>b, <1>c DEF HoldsProcessLock, HoldsPidLock, AllocLabels, LockedLabels, ResumePoints
  <2> QED
    BY <1>1, <1>b, <1>c, <2>1, LockStep
<1>4. BootInv'
  <2>1. ASSUME NEW d \in Cores PROVE BootOK(d)'
    <3>1. state'[Idle(d)] = "RUNNING" /\ current'[d] = Idle(d) /\ boots'[d] > 0
      BY <1>b, <1>c, CoresFacts
    <3>2. pc'[d] = IF d = 0 THEN "init_process" ELSE "spin"
      BY <1>a, <1>b
    <3> QED
      BY <3>1, <3>2 DEF BootOK, BootLabels
  <2> QED
    BY <1>1, <1>c, <2>1 DEF BootInv
<1>5. ListInv'
  BY <1>1, <1>b, <1>c DEF ListInv
<1>6. CurrentInv'
  <2>1. ASSUME NEW d \in Cores PROVE CurrentOK(d)'
    <3>1. current'[d] = Idle(d) /\ current'[d][1] = d /\ boots'[d] # 0
      <4>1. boots[d] \in 0 .. 2 /\ boots[d] > 0
        BY <1>1, <1>b DEF TypeOK
      <4> QED
        BY <1>b, <1>c, <4>1, CoresFacts
    <3>2. pc'[d] \in {"init_process", "spin"}
      BY <1>b
    <3> QED
      BY <3>1, <3>2 DEF CurrentOK, RunningLabels, WakeLabels, IdleLabels, AllocLabels, HaltLabels, Resumable
  <2> QED
    BY <2>1 DEF CurrentInv
<1>7. ContextInv'
  BY <1>1, <1>b, <1>c DEF ContextInv
<1>8. PidInv'
  BY <1>1, <1>b, <1>c, CoresFacts DEF PidInv
<1>9. CreateInv'
  <2>1. ASSUME NEW d \in Cores PROVE CreateOK(d)'
    <3>1. pc'[d] \in {"init_process", "spin"}
      BY <1>b
    <3> QED
      BY <3>1 DEF CreateOK, Creating, AllocLabels
  <2> QED
    BY <2>1 DEF CreateInv
<1>10. PlaceInv'
  <2>1. ASSUME NEW p \in Slots, p[2] # 0 PROVE PlaceOK(p)'
    <3>1. PlaceOK(p) /\ state'[p] = state[p] /\ p[1] \in Cores
      BY <1>1, <1>b, <2>1, CoresFacts DEF PlaceInv
    <3>2. state[p] # "INIT" /\ pc[p[1]] \in {"kmain", "spin"}
      BY <1>a, <1>b, <3>1 DEF PlaceOK, InitLabels, HaltLabels
    <3>3. state[p] # "RUNNING"
      <4>1. current[p[1]] = Idle(p[1])
        BY <1>1, <1>b, <3>1 DEF BootInv, BootOK
      <4> QED
        BY <2>1, <3>1, <4>1, CoresFacts DEF PlaceOK
    <3> QED
      BY <1>c, <2>1, <3>1, <3>2, <3>3 DEF PlaceOK
  <2>2. ASSUME NEW p \in Slots, p[2] = 0 PROVE PlaceOK(p)'
    <3>1. p = Idle(p[1]) /\ p[1] \in Cores
      BY <2>2 DEF Slots, Idle
    <3> QED
      BY <1>b, <2>2, <3>1 DEF PlaceOK
  <2> QED
    BY <2>1, <2>2 DEF PlaceInv
<1> QED
  BY <1>2, <1>3, <1>4, <1>5, <1>6, <1>7, <1>8, <1>9, <1>10 DEF IInv

(* schedule(): the head of the ready list, or the idle process, takes over *)
(* with process_lock held, at a point that releases it.                    *)
LEMMA ScheduleStep ==
  ASSUME IInv, NEW c \in Cores, Schedule(c)
  PROVE  IInv'
<1>1. /\ TypeOK /\ LockExclusion /\ BootInv /\ ListInv /\ CurrentInv /\ ContextInv /\ PidInv
      /\ CreateInv /\ PlaceInv /\ BootOK(c) /\ CurrentOK(c) /\ CreateOK(c)
  BY DEF IInv, BootInv, CurrentInv, CreateInv
<1> USE DEF Schedule, Goto, table, lists, locks
<1>p. PICK prev \in Slots : prev = current[c]
  BY <1>1 DEF TypeOK
<1>n. PICK next \in Slots : next = NextProcess(c)
  <2>1. ready_list[c] \in Seq(Slots)
    BY <1>1 DEF TypeOK
  <2> QED
    BY <2>1, TailList, CoresFacts DEF NextProcess
<1>a. /\ boots[c] = 0 /\ pc[c] \in {"yield_sched", "sleep_sched", "exit_sched"} /\ pc[0] # "kmain"
      /\ prev[1] = c /\ state[prev] # "RUNNING"
      /\ pc[c] = "yield_sched" => state[prev] = "READY"
      /\ pc[c] = "exit_sched" => state[prev] = "KILLED"
      /\ prev = Idle(c) => pc[c] = "yield_sched"
  <2>1. boots[c] = 0 /\ pc[c] \in {"yield_sched", "sleep_sched", "exit_sched"}
    BY <1>1, Booted DEF BootLabels, AllocLabels, HaltLabels
  <2>2. pc[0] # "kmain"
    BY <1>1, <2>1, CoresFacts DEF BootInv, BootOK, BootLabels
  <2>3. /\ prev[1] = c /\ state[prev] # "RUNNING"
        /\ pc[c] = "yield_sched" => state[prev] = "READY"
        /\ pc[c] = "exit_sched" => state[prev] = "KILLED"
    BY <1>1, <1>p, <2>1 DEF CurrentOK
  <2>4. prev = Idle(c) => pc[c] = "yield_sched"
    BY <1>1, <1>p, <2>1 DEF CurrentOK, IdleLabels, WakeLabels
  <2> QED
    BY <2>1, <2>2, <2>3, <2>4
<1>b. /\ next[1] = c /\ state[next] = "READY"
      /\ next[2] # 0 \/ next = Idle(c)
      /\ next[2] # 0 => context[next] \in Resumable
      /\ next = Idle(c) /\ prev # next => context[next] = "yield_rel"
      /\ prev = next => pc[c] = "yield_sched"
  <2>1. CASE ready_list[c] = <<>>
    <3>1. next = Idle(c) /\ pc[c] # "yield_sched"
      BY <1>1, <1>n, <2>1 DEF NextProcess, CurrentOK
    <3>2. prev # Idle(c)
      BY <1>a, <3>1
    <3>3. state[next] = "READY" /\ context[next] = "yield_rel"
      BY <1>1, <1>p, <3>1, <3>2 DEF ContextInv
    <3> QED
      BY <3>1, <3>2, <3>3, CoresFacts
  <2>2. CASE ready_list[c] # <<>>
    <3>1. ready_list[c] \in Seq(Slots) /\ next = Head(ready_list[c])
      BY <1>1, <1>n, <2>2 DEF TypeOK, NextProcess
    <3>2. OnList(ready_list[c], next)
      BY <2>2, <3>1, TailList
    <3>3. next[1] = c /\ next[2] # 0 /\ state[next] = "READY"
      BY <1>1, <3>2 DEF ListInv
    <3>4. context[next] \in Resumable
      BY <1>1, <3>3 DEF ContextInv
    <3>5. prev = next => pc[c] = "yield_sched"
      BY <1>1, <1>p, <1>a, <3>3 DEF CurrentOK
    <3> QED
      BY <3>3, <3>4, <3>5, CoresFacts
  <2> QED
    BY <2>1, <2>2
<1> DEFINE return == ScheduleReturn(pc[c])
<1>c. /\ state' = [state EXCEPT ![next] = "RUNNING"]
      /\ current' = [current EXCEPT ![c] = next]
      /\ context' = IF next = prev THEN context ELSE [context EXCEPT ![prev] = return]
      /\ pc' = [pc EXCEPT ![c] = IF next = prev THEN return ELSE context[next]]
      /\ ready_list' = [ready_list EXCEPT ![c] = IF @ = <<>> THEN @ ELSE Tail(@)]
  BY <1>p, <1>n
<1>d. UNCHANGED <<process_lock, pid_lock, main_core_ready, pid_num, pid, wait, call, cloned, wait_list,
                  kill_list, chan, visit, newp, boots>>
  OBVIOUS
<1> HIDE DEF Schedule, Goto, table, lists
<1>r. /\ return \in ResumePoints
      /\ pc[c] = "yield_sched" => return = "yield_rel"
      /\ pc[c] # "exit_sched" => return \in Resumable
  BY <1>a DEF ScheduleReturn, ResumePoints, Resumable
<1> HIDE DEF return
<1>e. /\ pc'[c] \in Resumable
      /\ next = Idle(c) => pc'[c] = "yield_rel"
      /\ \A d \in Cores : d # c => pc'[d] = pc[d]
  <2>1. pc'[c] = (IF next = prev THEN return ELSE context[next]) /\ \A d \in Cores : d # c => pc'[d] = pc[d]
    BY <1>1, <1>c DEF TypeOK
  <2>2. CASE next = prev
    BY <1>b, <1>r, <2>1, <2>2 DEF Resumable
  <2>3. CASE next # prev
    BY <1>b, <2>1, <2>3 DEF Resumable
  <2> QED
    BY <2>1, <2>2, <2>3
<1>f. /\ state'[next] = "RUNNING" /\ \A p \in Slots : p # next => state'[p] = state[p]
      /\ current'[c] = next /\ \A d \in Cores : d # c => current'[d] = current[d]
  BY <1>1, <1>c DEF TypeOK
<1>g. /\ next # prev => context'[prev] = return
      /\ \A p \in Slots : p # prev \/ next = prev => context'[p] = context[p]
  <2>1. context \in [Slots -> ResumePoints \cup {"null"}]
    BY <1>1 DEF TypeOK
  <2> QED
    BY <1>c, <2>1
<1>h. /\ ready_list' \in [Cores -> Seq(Slots)]
      /\ \A d \in Cores : d # c => ready_list'[d] = ready_list[d]
      /\ NoDuplicates(ready_list'[c]) /\ ~OnList(ready_list'[c], next)
      /\ \A q \in Slots : q # next => (OnList(ready_list'[c], q) <=> OnList(ready_list[c], q))
  <2>1. ready_list[c] \in Seq(Slots) /\ NoDuplicates(ready_list[c])
    BY <1>1 DEF TypeOK, ListInv
  <2>2. /\ ready_list'[c] = IF ready_list[c] = <<>> THEN <<>> ELSE Tail(ready_list[c])
        /\ \A d \in Cores : d # c => ready_list'[d] = ready_list[d]
    BY <1>1, <1>c DEF TypeOK
  <2>3. CASE ready_list[c] = <<>>
    <3>1. ready_list'[c] = ready_list[c] /\ ~OnList(ready_list[c], next)
      BY <2>2, <2>3 DEF OnList
    <3>2. ready_list' \in [Cores -> Seq(Slots)]
      BY <1>1, <1>c, <2>1, <2>3 DEF TypeOK
    <3> QED
      BY <2>1, <2>2, <3>1, <3>2
  <2>4. CASE ready_list[c] # <<>>
    <3>1. next = Head(ready_list[c]) /\ ready_list'[c] = Tail(ready_list[c])
      BY <1>n, <2>2, <2>4 DEF NextProcess
    <3>2. ready_list'[c] \in Seq(Slots)
      BY <2>1, <2>4, <3>1, TailList
    <3>3. ready_list' \in [Cores -> Seq(Slots)]
      BY <1>1, <1>c, <2>4, <3>1, <3>2 DEF TypeOK
    <3> QED
      BY <2>1, <2>2, <2>4, <3>1, <3>3, TailList
  <2> QED
    BY <2>3, <2>4
<1>2. TypeOK'
  <2>1. pc' \in [Cores -> Labels]
    <3>1. pc'[c] \in Labels
      BY <1>e DEF Labels, LockedLabels, ResumePoints, Resumable
    <3> QED
      BY <1>1, <1>c, <3>1 DEF TypeOK
  <2>2. context' \in [Slots -> ResumePoints \cup {"null"}]
    BY <1>1, <1>c, <1>r DEF TypeOK
  <2>3. state' \in [Slots -> States] /\ current' \in [Cores -> Slots]
    BY <1>1, <1>c DEF TypeOK, States
  <2> QED
    BY <1>1, <1>d, <1>h, <2>1, <2>2, <2>3 DEF TypeOK
<1>3. LockExclusion'
  <2>1. /\ HoldsPidLock(c)' <=> HoldsPidLock(c)
        /\ HoldsProcessLock(c)' <=> HoldsProcessLock(c)
    BY <1>a, <1>e DEF HoldsProcessLock, HoldsPidLock, LockedLabels, ResumePoints, Resumable
  <2> QED
    BY <1>1, <1>d, <1>e, <2>1, LockStep
<1>i. \A d \in Cores : d # c =>
        /\ current[d] \in Slots /\ Idle(d) \in Slots
        /\ state'[current[d]] = state[current[d]] /\ state'[Idle(d)] = state[Idle(d)]
        /\ context'[Idle(d)] = context[Idle(d)]
  <2>1. ASSUME NEW d \in Cores, d # c
        PROVE  /\ current[d] \in Slots /\ current[d] # next
               /\ Idle(d) \in Slots /\ Idle(d) # next /\ Idle(d) # prev
    <3>1. CurrentOK(d) /\ current[d] \in Slots
      BY <1>1 DEF CurrentInv, TypeOK
    <3> QED
      BY <1>a, <1>b, <2>1, <3>1, CoresFacts DEF CurrentOK
  <2> QED
    BY <1>f, <1>g, <2>1
<1>4. BootInv'
  <2>1. ASSUME NEW d \in Cores, d # c PROVE BootOK(d)'
    <3>1. BootOK(d) /\ pc'[d] = pc[d] /\ current'[d] = current[d] /\ boots'[d] = boots[d]
      BY <1>1, <1>d, <1>e, <1>f, <2>1 DEF BootInv
    <3> QED
      BY <1>a, <1>d, <1>i, <2>1, <3>1 DEF BootOK
  <2>2. BootOK(c)'
    <3>1. c # 0 => main_core_ready
      BY <1>1, <1>a DEF BootOK
    <3> QED
      BY <1>a, <1>d, <1>e, <3>1 DEF BootOK, BootLabels, Resumable
  <2> QED
    BY <1>1, <1>d, <2>1, <2>2 DEF BootInv
<1>5. ListInv'
  <2>1. \A d \in Cores : ~OnList(wait_list[d], next) /\ ~OnList(kill_list[d], next)
    BY <1>1, <1>b DEF ListInv
  <2>2. \A d \in Cores : d # c => ~OnList(ready_list[d], next)
    BY <1>1, <1>b DEF ListInv
  <2>3. ASSUME NEW d \in Cores, NEW p \in Slots
        PROVE  /\ OnList(ready_list'[d], p) => p[1] = d /\ p[2] # 0 /\ state'[p] = "READY"
               /\ OnList(wait_list'[d], p) => p[1] = d /\ p[2] # 0 /\ state'[p] = "SLEEP"
               /\ OnList(kill_list'[d], p) => p[1] = d /\ p[2] # 0 /\ state'[p] = "KILLED"
    <3>1. /\ OnList(ready_list[d], p) => p[1] = d /\ p[2] # 0 /\ state[p] = "READY"
          /\ OnList(wait_list[d], p) => p[1] = d /\ p[2] # 0 /\ state[p] = "SLEEP"
          /\ OnList(kill_list[d], p) => p[1] = d /\ p[2] # 0 /\ state[p] = "KILLED"
      BY <1>1 DEF ListInv
    <3> QED
      BY <1>d, <1>f, <1>h, <2>1, <2>2, <3>1
  <2>4. \A d \in Cores : /\ NoDuplicates(ready_list'[d])
                         /\ NoDuplicates(wait_list'[d])
                         /\ NoDuplicates(kill_list'[d])
    BY <1>1, <1>d, <1>h DEF ListInv
  <2> QED
    BY <2>3, <2>4 DEF ListInv
<1>6. CurrentInv'
  <2>1. ASSUME NEW d \in Cores, d # c PROVE CurrentOK(d)'
    <3>1. /\ CurrentOK(d) /\ pc'[d] = pc[d] /\ current'[d] = current[d] /\ boots'[d] = boots[d]
          /\ chan'[d] = chan[d] /\ ready_list'[d] = ready_list[d] /\ kill_list'[d] = kill_list[d]
          /\ state'[current'[d]] = state[current[d]]
      BY <1>1, <1>d, <1>e, <1>f, <1>h, <1>i, <2>1 DEF CurrentInv
    <3> QED
      BY <3>1 DEF CurrentOK
  <2>2. CurrentOK(c)'
    BY <1>b, <1>e, <1>f DEF CurrentOK, RunningLabels, WakeLabels, IdleLabels, AllocLabels, HaltLabels, Resumable
  <2> QED
    BY <2>1, <2>2 DEF CurrentInv
<1>7. ContextInv'
  <2>1. ASSUME NEW p \in Slots, p[2] # 0, state'[p] \in {"READY", "RUNNING", "SLEEP"}
        PROVE  context'[p] \in Resumable
    <3>1. CASE p = prev /\ next # prev
      <4>1. state[prev] # "KILLED"
        BY <1>f, <2>1, <3>1
      <4> QED
        BY <1>a, <1>g, <1>r, <3>1, <4>1
    <3>2. CASE p # prev \/ next = prev
      <4>1. state[p] \in {"READY", "RUNNING", "SLEEP"}
        BY <1>b, <1>f, <2>1
      <4> QED
        BY <1>1, <1>g, <2>1, <3>2, <4>1 DEF ContextInv
    <3> QED
      BY <3>1, <3>2
  <2>2. ASSUME NEW d \in Cores, d # c, current'[d] # Idle(d)
        PROVE  context'[Idle(d)] = "yield_rel" /\ state'[Idle(d)] = "READY"
    BY <1>1, <1>f, <1>i, <2>2 DEF ContextInv
  <2>3. ASSUME next # Idle(c)
        PROVE  context'[Idle(c)] = "yield_rel" /\ state'[Idle(c)] = "READY"
    <3>1. Idle(c) \in Slots /\ state'[Idle(c)] = state[Idle(c)]
      BY <1>f, <2>3, CoresFacts
    <3>2. CASE prev = Idle(c)
      BY <1>a, <1>g, <1>r, <2>3, <3>1, <3>2
    <3>3. CASE prev # Idle(c)
      BY <1>1, <1>p, <1>g, <3>1, <3>3 DEF ContextInv
    <3> QED
      BY <3>2, <3>3
  <2> QED
    BY <1>f, <2>1, <2>2, <2>3 DEF ContextInv
<1>8. PidInv'
  <2>1. pc'[0] # "kmain"
    BY <1>a, <1>e, CoresFacts DEF Resumable
  <2>2. \A p \in Slots : state'[p] # "UNUSED" => state[p] # "UNUSED"
    BY <1>b, <1>f
  <2> QED
    BY <1>1, <1>a, <1>d, <2>1, <2>2 DEF PidInv
<1>9. CreateInv'
  <2>1. ASSUME NEW d \in Cores, d # c PROVE CreateOK(d)'
    <3>1. CreateOK(d) /\ pc'[d] = pc[d] /\ newp'[d] = newp[d] /\ boots'[d] = boots[d]
      BY <1>1, <1>d, <1>e, <2>1 DEF CreateInv
    <3>2. Creating(d) => /\ newp[d] \in Slots /\ newp[d][2] # 0 /\ state[newp[d]] \in {"UNUSED", "INIT"}
      BY <3>1, CoresFacts DEF CreateOK, Creating, AllocLabels
    <3>3. Creating(d) => newp[d] # next /\ newp[d] # prev
      BY <1>1, <1>b, <1>p, <3>2, CurrentAlive
    <3>4. Creating(d) => state'[newp[d]] = state[newp[d]] /\ context'[newp[d]] = context[newp[d]]
      BY <1>f, <1>g, <3>2, <3>3
    <3> QED
      BY <3>1, <3>4 DEF CreateOK, Creating, AllocLabels
  <2>2. CreateOK(c)'
    BY <1>e DEF CreateOK, Creating, AllocLabels, Resumable
  <2> QED
    BY <2>1, <2>2 DEF CreateInv
<1>10. PlaceInv'
  <2>1. ASSUME NEW p \in Slots, p # next PROVE PlaceOK(p)'
    <3>1. PlaceOK(p) /\ state'[p] = state[p] /\ p[1] \in Cores
      BY <1>1, <1>f, <2>1, CoresFacts DEF PlaceInv
    <3>2. state[p] = "INIT" => \E d \in Cores : newp'[d] = p /\ pc'[d] \in InitLabels
      BY <1>1, <1>a, <1>d, <1>e, InitKept DEF InitLabels, HaltLabels
    <3>3. OnList(ready_list[p[1]], p) => OnList(ready_list'[p[1]], p)
      BY <1>h, <2>1, <3>1
    <3>4. state[p] = "KILLED" /\ ~OnList(kill_list[p[1]], p)
            => current'[p[1]] = p /\ pc'[p[1]] \in {"kill", "kill_cs"}
      BY <1>a, <1>e, <1>f, <3>1 DEF PlaceOK
    <3>5. state[p] = "RUNNING" => current'[p[1]] = p
      BY <1>a, <1>p, <1>f, <3>1 DEF PlaceOK
    <3> QED
      BY <1>d, <3>1, <3>2, <3>3, <3>4, <3>5 DEF PlaceOK
  <2>2. PlaceOK(next)'
    BY <1>b, <1>f DEF PlaceOK
  <2> QED
    BY <2>1, <2>2 DEF PlaceInv
<1> QED
  BY <1>2, <1>3, <1>4, <1>5, <1>6, <1>7, <1>8, <1>9, <1>10 DEF IInv
-----------------------------------------------------------------------------
(* Every step preserves the invariant: one lemma per action. *)
LEMMA IInvStep == IInv /\ [Next]_vars => IInv'
<1> SUFFICES ASSUME IInv, [Next]_vars PROVE IInv'
  OBVIOUS
<1>1. ASSUME UNCHANGED vars PROVE IInv'
  <2>1. UNCHANGED <<process_lock, pid_lock, main_core_ready, pid_num, state, pid, wait, context, call,
                    cloned, current, ready_list, wait_list, kill_list, pc, chan, visit, newp, boots>>
    BY <1>1 DEF vars
  <2>2. TypeOK' /\ BootInv' /\ ListInv' /\ CurrentInv' /\ ContextInv'
    BY <2>1 DEF IInv, TypeOK, BootInv, BootOK, ListInv, CurrentInv, CurrentOK, ContextInv
  <2>3. LockExclusion' /\ PidInv' /\ CreateInv' /\ PlaceInv'
    BY <2>1 DEF IInv, LockExclusion, HoldsProcessLock, HoldsPidLock, PidInv, CreateInv, CreateOK, Creating,
       PlaceInv, PlaceOK
  <2> QED
    BY <2>2, <2>3 DEF IInv
<1>2. ASSUME NEW c \in Cores, AcquireProcessLock(c) \/ AcquirePidLock(c) PROVE IInv'
  BY <1>2, AcquireProcessLockStep, AcquirePidLockStep
<1>3. ASSUME NEW c \in Cores, KernelStep(c) PROVE IInv'
  BY <1>3, AllocStackStep, AllocPidStep, AllocPageMapStep, InitIdleStep, LeaveSpinStep, InitProcessStep,
     SetupUvmStep, WakeOneStep, WakeNextStep, WakeReturnStep, ScheduleStep, YieldReturnStep, YieldStep, SleepStep,
     ReleaseToUserStep, ReleaseToLoopStep, ReleaseAndReturnStep, KillStep, WaitSleepsStep, ReapStep,
     GetProcessStateStep, ForkStep, CopyUvmStep, ForkReturnStep
     DEF KernelStep
<1>4. ASSUME NEW c \in Cores, Failure(c) PROVE IInv'
  BY <1>4, AllocFailsStep, SetupUvmFailsStep, CopyUvmFailsStep DEF Failure
<1>5. ASSUME NEW c \in Cores, Irq(c) PROVE IInv'
  BY <1>5, TimerIrqStep, UartIrqStep DEF Irq
<1>6. ASSUME NEW c \in Cores, Syscall(c) PROVE IInv'
  BY <1>6, SysSleepStep, SysExitStep, SysWaitStep, SysGetPsStep, SysForkStep DEF Syscall
<1> QED
  BY <1>1, <1>2, <1>3, <1>4, <1>5, <1>6 DEF Next

(***************************************************************************)
(* IInv is an invariant of the scheduler: start-up order, the place of     *)
(* every process, what each core does with its current process and would   *)
(* resume, and who holds the locks.                                        *)
(***************************************************************************)
THEOREM InvariantHolds == Spec => []IInv
  BY IInvInit, IInvStep, PTL DEF Spec

(***************************************************************************)
(* Every variable keeps its type: no list holds a pointer that is not a    *)
(* process, and swap() never resumes at an address it did not save.        *)
(***************************************************************************)
THEOREM TypeCorrect == Spec => []TypeOK
<1>1. IInv => TypeOK
  BY DEF IInv
<1> QED
  BY <1>1, InvariantHolds, PTL

(***************************************************************************)
(* process_lock and pid_lock exclude, though process_lock is taken by one  *)
(* process and released by the next (process.c, handler.s).                *)
(***************************************************************************)
THEOREM LocksExclude == Spec => []LockExclusion
<1>1. IInv => LockExclusion
  BY DEF IInv
<1> QED
  BY <1>1, InvariantHolds, PTL

(***************************************************************************)
(* Every process is in exactly the place its state names: what process.c   *)
(* does to its lists keeps them disjoint and without duplicates.           *)
(***************************************************************************)
THEOREM EveryProcessOnePlace == Spec => []OnePlace
<1>1. ASSUME IInv PROVE OnePlace
  <2>1. /\ TypeOK /\ LockExclusion /\ BootInv /\ ListInv /\ CurrentInv /\ CreateInv /\ PlaceInv
    BY <1>1 DEF IInv
  <2>2. \A c, d \in Cores : Creating(c) /\ Creating(d) /\ newp[c] = newp[d] => c = d
    BY <2>1, CreatorsDiffer
  <2>3. \A c \in Cores : /\ NoDuplicates(ready_list[c]) /\ NoDuplicates(wait_list[c])
                         /\ NoDuplicates(kill_list[c]) /\ ~OnList(ready_list[c], Idle(c))
    BY <2>1, CoresFacts DEF ListInv
  <2>4. \A p \in Slots, c \in Cores :
          /\ OnList(ready_list[c], p) => c = p[1] /\ state[p] = "READY"
          /\ OnList(wait_list[c], p) => c = p[1] /\ state[p] = "SLEEP"
          /\ OnList(kill_list[c], p) => c = p[1] /\ state[p] = "KILLED"
          /\ current[c] = p => c = p[1]
    BY <2>1 DEF ListInv, CurrentInv, CurrentOK
  <2>5. \A p \in Slots :
       /\ state[p] = "READY" => OnList(ready_list[p[1]], p) \/ p = Idle(p[1])
       /\ state[p] = "SLEEP" => OnList(wait_list[p[1]], p)
       /\ state[p] = "KILLED" =>
            OnList(kill_list[p[1]], p) \/ (current[p[1]] = p /\ pc[p[1]] \in {"kill", "kill_cs"})
       /\ state[p] = "RUNNING" => current[p[1]] = p
       /\ state[p] = "INIT" => \E c \in Cores : newp[c] = p
    BY <2>1 DEF PlaceInv, PlaceOK
  <2> QED
    BY <2>2, <2>3, <2>4, <2>5 DEF OnePlace
<1>2. IInv => OnePlace
  BY <1>1
<1> QED
  BY <1>2, InvariantHolds, PTL

(***************************************************************************)
(* swap() resumes only what was saved, at a point that releases            *)
(* process_lock: schedule() of process.c never returns into an exit().     *)
(***************************************************************************)
THEOREM OnlySavedContexts == Spec => []ResumesSavedContext
<1>1. ASSUME IInv, NEW c \in Cores, NextProcess(c) # current[c]
      PROVE  context[NextProcess(c)] \in Resumable
  <2>1. ListInv /\ ContextInv /\ ready_list[c] \in Seq(Slots)
    BY <1>1 DEF IInv, TypeOK
  <2>2. CASE ready_list[c] = <<>>
    BY <1>1, <2>1, <2>2 DEF NextProcess, ContextInv, Resumable
  <2>3. CASE ready_list[c] # <<>>
    <3>1. NextProcess(c) \in Slots /\ OnList(ready_list[c], NextProcess(c))
      BY <2>1, <2>3, TailList DEF NextProcess
    <3> QED
      BY <2>1, <3>1 DEF ListInv, ContextInv
  <2> QED
    BY <2>2, <2>3
<1>2. IInv => ResumesSavedContext
  BY <1>1 DEF ResumesSavedContext, Resumable
<1> QED
  BY <1>2, InvariantHolds, PTL
-----------------------------------------------------------------------------
(* The promises to processes. *)

\* What core c can do: a disjunct of Next.
CoreStep(c) ==
  AcquireProcessLock(c) \/ AcquirePidLock(c) \/ KernelStep(c) \/ Failure(c) \/ Irq(c) \/ Syscall(c)

-----------------------------------------------------------------------------
(* The life cycle of a process: what a step of core c does to slot x. *)

\* Every slot but x keeps its state, pid, channel and clone mark.
OnlySlot(x) == \A p \in Slots : p # x =>
  state'[p] = state[p] /\ pid'[p] = pid[p] /\ wait'[p] = wait[p] /\ cloned'[p] = cloned[p]

\* alloc_new_process takes a slot and draws a pid.
Takes(c, x) ==
  /\ pc[c] = "alloc" /\ newp[c] = x /\ state[x] = "UNUSED"
  /\ state'[x] = "INIT" /\ pid'[x] = pid_num /\ UNCHANGED <<wait, cloned, current>>

\* The start-up code or fork makes the new process ready.
MakesReady(c, x) ==
  /\ pc[c] \in {"setup_uvm", "copy_uvm"} /\ newp[c] = x /\ state[x] = "INIT" /\ state'[x] = "READY"
  /\ pc[c] = "copy_uvm" =>
       newp'[c] = x /\ current[x[1]] \in Slots /\ cloned'[x] = pid[current[x[1]]]
  /\ UNCHANGED <<pid, wait, current>>

\* wake_up moves a sleeper to its ready list.
Wakes(c, x) ==
  /\ pc[c] = "wake_cs" /\ state[x] = "SLEEP" /\ state'[x] = "READY"
  /\ UNCHANGED <<pid, wait, cloned, current>>

\* schedule() switches to x.
SwitchesTo(c, x) ==
  /\ pc[c] \in {"yield_sched", "sleep_sched", "exit_sched"}
  /\ x[1] = c /\ state[x] = "READY" /\ state'[x] = "RUNNING"
  /\ current'[c] = x /\ \A d \in Cores : d # c => current'[d] = current[d]
  /\ UNCHANGED <<pid, wait, cloned>>

\* The current process gives up its core in yield, sleep or exit.
GivesUp(c, x) ==
  /\ current[c] = x /\ x[1] = c /\ state[x] = "RUNNING"
  /\ \/ pc[c] = "yield_cs" /\ state'[x] = "READY" /\ UNCHANGED wait
     \/ pc[c] = "sleep_cs" /\ state'[x] = "SLEEP" /\ wait'[x] = SleepChannel(call[x].fn)
     \/ pc[c] = "user" /\ state'[x] = "KILLED" /\ wait'[x] = pid[x]
  /\ UNCHANGED <<pid, cloned, current>>

\* wait() frees x.
Reaps(c, x) ==
  /\ pc[c] = "wait_cs" /\ x[1] = c /\ OnList(kill_list[c], x) /\ state[x] = "KILLED"
  /\ state'[x] = "UNUSED" /\ ~OnList(kill_list'[c], x)
  /\ UNCHANGED current

\* init_idle_process, on core 0 and before anything else.
MakesIdle(c) ==
  /\ pc[c] = "kmain" /\ c = 0
  /\ state' = [p \in Slots |-> IF p[2] = 0 THEN "RUNNING" ELSE state[p]]
  /\ pid' = [p \in Slots |-> IF p[2] = 0 THEN p[1] ELSE pid[p]]
  /\ UNCHANGED <<wait, cloned, current, pid_num>>

\* All the ways a step of core c can change a process.
LifeStep(c) ==
  \/ UNCHANGED <<state, pid, wait, cloned, current>>
  \/ MakesIdle(c)
  \/ \E x \in Slots :
       /\ OnlySlot(x)
       /\ \/ Takes(c, x) \/ MakesReady(c, x) \/ Wakes(c, x) \/ SwitchesTo(c, x)
          \/ GivesUp(c, x) \/ Reaps(c, x)

(* Every step of the scheduler is one of the life cycle. *)
LEMMA LifeCycle ==
  ASSUME IInv, NEW c \in Cores, CoreStep(c)
  PROVE  LifeStep(c)
<1>1. /\ TypeOK /\ LockExclusion /\ BootInv /\ ListInv /\ CurrentInv /\ ContextInv /\ PidInv
      /\ CreateInv /\ PlaceInv /\ BootOK(c) /\ CurrentOK(c) /\ CreateOK(c)
  BY DEF IInv, BootInv, CurrentInv, CreateInv
<1>t. /\ state \in [Slots -> States] /\ pid \in [Slots -> Nat] /\ wait \in [Slots -> Int]
      /\ cloned \in [Slots -> Nat] /\ current \in [Cores -> Slots]
  BY <1>1 DEF TypeOK
<1> USE DEF Goto, table, lists, locks
<1>2. CASE AcquireProcessLock(c) \/ AcquirePidLock(c) \/ Failure(c) \/ Irq(c)
  BY <1>2 DEF AcquireProcessLock, AcquirePidLock, Failure, AllocFails, SetupUvmFails, CopyUvmFails, Irq,
     TimerIrq, UartIrq, LifeStep
<1>3. CASE SysSleep(c) \/ SysWait(c) \/ SysGetPs(c) \/ SysFork(c)
  BY <1>3 DEF SysSleep, SysWait, SysGetPs, SysFork, LifeStep
<1>4. CASE AllocPid(c) \/ AllocPageMap(c) \/ LeaveSpin(c) \/ InitProcess(c) \/ WakeNext(c) \/ WakeReturn(c)
           \/ YieldReturn(c)
  BY <1>4 DEF AllocPid, AllocPageMap, LeaveSpin, InitProcess, WakeNext, WakeReturn, YieldReturn, LifeStep
<1>5. CASE ReleaseToUser(c) \/ ReleaseToLoop(c) \/ ReleaseAndReturn(c) \/ Kill(c) \/ WaitSleeps(c)
           \/ GetProcessState(c) \/ Fork(c) \/ ForkReturn(c)
  BY <1>5 DEF ReleaseToUser, ReleaseToLoop, ReleaseAndReturn, Kill, WaitSleeps, GetProcessState, Fork,
     ForkReturn, LifeStep
<1>6. CASE AllocStack(c)
  <2>1. newp[c] \in Slots /\ state[newp[c]] = "UNUSED" /\ pc[c] = "alloc"
    BY <1>1, <1>6, CoresFacts DEF AllocStack, CreateOK, Creating, AllocLabels
  <2>2. OnlySlot(newp[c]) /\ Takes(c, newp[c])
    BY <1>t, <1>6, <2>1 DEF AllocStack, OnlySlot, Takes
  <2> QED
    BY <2>1, <2>2 DEF LifeStep
<1>7. CASE SetupUvm(c)
  <2>1. newp[c] \in Slots /\ state[newp[c]] = "INIT" /\ pc[c] = "setup_uvm"
    BY <1>1, <1>7, CoresFacts DEF SetupUvm, CreateOK, Creating, AllocLabels
  <2>2. OnlySlot(newp[c]) /\ MakesReady(c, newp[c])
    BY <1>t, <1>7, <2>1 DEF SetupUvm, OnlySlot, MakesReady
  <2> QED
    BY <2>1, <2>2 DEF LifeStep
<1>8. CASE CopyUvm(c)
  <2>1. newp[c] \in Slots /\ state[newp[c]] = "INIT" /\ pc[c] = "copy_uvm"
    BY <1>1, <1>8, CoresFacts DEF CopyUvm, CreateOK, Creating, AllocLabels
  <2>2. current[newp[c][1]] \in Slots
    BY <1>t, <2>1, CoresFacts
  <2>3. OnlySlot(newp[c])
    BY <1>t, <1>8, <2>1 DEF CopyUvm, OnlySlot
  <2>4. MakesReady(c, newp[c])
    BY <1>t, <1>8, <2>1, <2>2 DEF CopyUvm, MakesReady
  <2> QED
    BY <2>1, <2>3, <2>4 DEF LifeStep
<1>9. CASE WakeOne(c)
  <2>0. PICK d \in Cores :
          \E i \in DOMAIN wait_list[d] : state' = [state EXCEPT ![wait_list[d][i]] = "READY"]
    <3>1. visit[c] \in Cores
      BY <1>1 DEF TypeOK
    <3> QED
      BY <1>9, <3>1 DEF WakeOne
  <2>1. PICK i \in DOMAIN wait_list[d] : state' = [state EXCEPT ![wait_list[d][i]] = "READY"]
    BY <2>0
  <2>2. PICK x \in Slots : x = wait_list[d][i]
    BY <1>1, ElementOfSeq, LenProperties DEF TypeOK
  <2>3. OnList(wait_list[d], x)
    BY <2>2 DEF OnList
  <2>4. state[x] = "SLEEP"
    BY <1>1, <2>3 DEF ListInv
  <2>5. state' = [state EXCEPT ![x] = "READY"] /\ UNCHANGED <<pid, wait, cloned, current>> /\ pc[c] = "wake_cs"
    BY <1>9, <2>1, <2>2 DEF WakeOne
  <2>6. OnlySlot(x) /\ Wakes(c, x)
    BY <1>t, <2>4, <2>5 DEF OnlySlot, Wakes
  <2> QED
    BY <2>6 DEF LifeStep
<1>10. CASE Schedule(c)
  <2>1. ready_list[c] \in Seq(Slots)
    BY <1>1 DEF TypeOK
  <2>2. PICK x \in Slots : x = NextProcess(c)
    BY <2>1, TailList, CoresFacts DEF NextProcess
  <2>3. x[1] = c /\ state[x] = "READY"
    <3>1. CASE ready_list[c] # <<>>
      <4>1. OnList(ready_list[c], x)
        BY <2>1, <2>2, <3>1, TailList DEF NextProcess
      <4> QED
        BY <1>1, <4>1 DEF ListInv
    <3>2. CASE ready_list[c] = <<>>
      <4>1. x = Idle(c) /\ pc[c] \in {"sleep_sched", "exit_sched"}
        BY <1>1, <1>10, <2>2, <3>2 DEF Schedule, NextProcess, CurrentOK
      <4>2. current[c] # Idle(c)
        <5>1. boots[c] = 0
          BY <1>1, <4>1, Booted DEF BootLabels, AllocLabels, HaltLabels
        <5> QED
          BY <1>1, <4>1, <5>1 DEF CurrentOK, IdleLabels, WakeLabels
      <4> QED
        BY <1>1, <4>1, <4>2, CoresFacts DEF ContextInv
    <3> QED
      BY <3>1, <3>2
  <2>4. /\ pc[c] \in {"yield_sched", "sleep_sched", "exit_sched"}
        /\ state' = [state EXCEPT ![x] = "RUNNING"] /\ current' = [current EXCEPT ![c] = x]
        /\ UNCHANGED <<pid, wait, cloned>>
    BY <1>10, <2>2 DEF Schedule
  <2>5. OnlySlot(x) /\ SwitchesTo(c, x)
    BY <1>t, <2>3, <2>4 DEF OnlySlot, SwitchesTo
  <2> QED
    BY <2>5 DEF LifeStep
<1>11. CASE Yield(c) \/ Sleep(c) \/ SysExit(c)
  <2>1. PICK x \in Slots : x = current[c]
    BY <1>t
  <2>2. x[1] = c /\ state[x] = "RUNNING"
    BY <1>1, <1>11, <2>1 DEF Yield, Sleep, SysExit, CallsInto, CurrentOK, RunningLabels
  <2>3. CASE Yield(c)
    <3>1. OnlySlot(x) /\ GivesUp(c, x)
      BY <1>t, <2>1, <2>2, <2>3 DEF Yield, OnlySlot, GivesUp
    <3> QED
      BY <3>1 DEF LifeStep
  <2>4. CASE Sleep(c)
    <3>1. /\ pc[c] = "sleep_cs" /\ state' = [state EXCEPT ![x] = "SLEEP"]
          /\ wait' = [wait EXCEPT ![x] = SleepChannel(call[x].fn)] /\ UNCHANGED <<pid, cloned, current>>
      BY <2>1, <2>4 DEF Sleep
    <3>2. OnlySlot(x) /\ GivesUp(c, x)
      BY <1>t, <2>1, <2>2, <3>1 DEF OnlySlot, GivesUp
    <3> QED
      BY <3>2 DEF LifeStep
  <2>5. CASE SysExit(c)
    <3>1. OnlySlot(x) /\ GivesUp(c, x)
      BY <1>t, <2>1, <2>2, <2>5 DEF SysExit, CallsInto, OnlySlot, GivesUp
    <3> QED
      BY <3>1 DEF LifeStep
  <2> QED
    BY <1>11, <2>3, <2>4, <2>5
<1>12. CASE Reap(c)
  <2>1. PICK i \in DOMAIN kill_list[c] :
          /\ kill_list' = [kill_list EXCEPT ![c] = RemoveAt(@, i)]
          /\ state' = [state EXCEPT ![kill_list[c][i]] = "UNUSED"]
          /\ pid' = [pid EXCEPT ![kill_list[c][i]] = 0]
          /\ wait' = [wait EXCEPT ![kill_list[c][i]] = 0]
          /\ cloned' = [cloned EXCEPT ![kill_list[c][i]] = 0]
    BY <1>12 DEF Reap
  <2>2. PICK x \in Slots : x = kill_list[c][i]
    BY <1>1, ElementOfSeq, LenProperties DEF TypeOK
  <2>3. kill_list[c] \in Seq(Slots) /\ NoDuplicates(kill_list[c]) /\ kill_list'[c] = RemoveAt(kill_list[c], i)
    BY <1>1, <2>1 DEF TypeOK, ListInv
  <2>4. OnList(kill_list[c], x) /\ ~OnList(kill_list'[c], x)
    BY <2>2, <2>3, RemoveAtList
  <2>5. x[1] = c /\ state[x] = "KILLED"
    BY <1>1, <2>4 DEF ListInv
  <2>6. pc[c] = "wait_cs" /\ UNCHANGED current
    BY <1>12 DEF Reap
  <2>7. OnlySlot(x)
    <3> HIDE DEF Goto, table, lists, locks
    <3>1. /\ state' = [state EXCEPT ![x] = "UNUSED"] /\ pid' = [pid EXCEPT ![x] = 0]
          /\ wait' = [wait EXCEPT ![x] = 0] /\ cloned' = [cloned EXCEPT ![x] = 0]
      BY <2>1, <2>2
    <3> QED
      BY <1>t, <3>1 DEF OnlySlot
  <2>8. state'[x] = "UNUSED"
    BY <1>t, <2>1, <2>2
  <2>9. Reaps(c, x)
    BY <2>4, <2>5, <2>6, <2>8 DEF Reaps
  <2> QED
    BY <2>7, <2>9 DEF LifeStep
<1>13. CASE InitIdle(c)
  <2>1. pc[0] = "kmain" /\ c = 0
    BY <1>1, <1>13 DEF InitIdle, BootOK
  <2>2. ASSUME NEW d \in Cores PROVE current[d] = Idle(d)
    <3>1. boots[d] > 0
      BY <1>1, <2>1, CoresFacts, Booted DEF BootInv, BootOK, BootLabels
    <3> QED
      BY <1>1, <3>1 DEF BootInv, BootOK
  <2>3. current' = current
    BY <1>t, <1>13, <2>2 DEF InitIdle
  <2> QED
    BY <1>13, <2>1, <2>3 DEF InitIdle, MakesIdle, LifeStep
<1> QED
  BY <1>2, <1>3, <1>4, <1>5, <1>6, <1>7, <1>8, <1>9, <1>10, <1>11, <1>12, <1>13
     DEF CoreStep, KernelStep, Syscall

(***************************************************************************)
(* wait() never frees a process a core still executes on, the dead stay    *)
(* dead, and schedule() switches only to a process that was ready.         *)
(***************************************************************************)
THEOREM DeadStayDead == Spec => ReapsStoppedProcess
<1> DEFINE A == /\ \A p \in Slots : state[p] # "UNUSED" /\ state'[p] = "UNUSED"
                     => \A c \in Cores : current[c] # p
                /\ \A p \in Slots : state[p] = "KILLED" => state'[p] \in {"KILLED", "UNUSED"}
                /\ \A c \in Cores : current'[c] # current[c] => state[current'[c]] = "READY"
<1>1. ASSUME IInv, NEW c \in Cores, CoreStep(c) PROVE A
  <2>1. /\ ListInv /\ CurrentInv /\ BootInv /\ PlaceInv /\ current \in [Cores -> Slots]
        /\ CurrentOK(c) /\ BootOK(c)
    BY <1>1 DEF IInv, TypeOK, CurrentInv, BootInv
  <2>2. CASE UNCHANGED <<state, pid, wait, cloned, current>>
    BY <2>2
  <2>3. CASE MakesIdle(c)
    <3>1. ASSUME NEW p \in Slots, state[p] = "KILLED" PROVE state'[p] = "KILLED"
      <4>1. pc[0] = "kmain"
        BY <2>3 DEF MakesIdle
      <4>a. boots[0] > 0 /\ p[1] \in Cores
        BY <2>1, <4>1, CoresFacts DEF BootInv, BootOK, BootLabels
      <4>2. pc[p[1]] \notin {"kill", "kill_cs"}
        BY <2>1, <4>1, <4>a DEF BootInv, BootOK
      <4>3. OnList(kill_list[p[1]], p)
        BY <2>1, <3>1, <4>2 DEF PlaceInv, PlaceOK
      <4>4. p[2] # 0
        BY <2>1, <4>3, CoresFacts DEF ListInv
      <4> QED
        BY <2>3, <3>1, <4>4 DEF MakesIdle
    <3>2. ASSUME NEW p \in Slots, state'[p] = "UNUSED" PROVE state[p] = "UNUSED"
      BY <2>3, <3>2 DEF MakesIdle
    <3>3. current' = current
      BY <2>3 DEF MakesIdle
    <3> QED
      BY <3>1, <3>2, <3>3
  <2>4. ASSUME NEW x \in Slots, OnlySlot(x),
               Takes(c, x) \/ MakesReady(c, x) \/ Wakes(c, x) \/ SwitchesTo(c, x) \/ GivesUp(c, x)
        PROVE  A
    <3>1. state'[x] # "UNUSED" /\ state[x] # "KILLED"
      BY <2>4 DEF Takes, MakesReady, Wakes, SwitchesTo, GivesUp
    <3>2. \A d \in Cores : current'[d] # current[d] => d = c /\ current'[c] = x /\ state[x] = "READY"
      BY <2>4 DEF Takes, MakesReady, Wakes, SwitchesTo, GivesUp
    <3> QED
      BY <2>4, <3>1, <3>2 DEF OnlySlot
  <2>5. ASSUME NEW x \in Slots, OnlySlot(x), Reaps(c, x) PROVE A
    <3>1. state[x] = "KILLED" /\ state'[x] = "UNUSED" /\ x[1] = c /\ current' = current /\ pc[c] = "wait_cs"
      BY <2>5 DEF Reaps
    <3>2. state[current[c]] = "RUNNING" /\ \A d \in Cores : current[d][1] = d
      BY <2>1, <3>1 DEF CurrentInv, CurrentOK, RunningLabels
    <3>3. \A d \in Cores : current[d] # x
      BY <3>1, <3>2
    <3>4. \A p \in Slots : p # x => state'[p] = state[p]
      BY <2>5 DEF OnlySlot
    <3> QED
      BY <3>1, <3>3, <3>4
  <2> QED
    BY <1>1, <2>2, <2>3, <2>4, <2>5, LifeCycle DEF LifeStep
<1>2. IInv /\ [Next]_vars => [A]_vars
  BY <1>1 DEF Next, CoreStep
<1> QED
  BY <1>2, InvariantHolds, PTL DEF Spec, ReapsStoppedProcess

-----------------------------------------------------------------------------
(* Which operation takes a core into the control points that matter here,  *)
(* and out of them.                                                        *)

ControlFlow(c) ==
  /\ pc'[c] # "kmain"
  /\ pc[c] = "spin" => LeaveSpin(c)
  /\ pc[c] = "alloc" => AllocStack(c) \/ UNCHANGED state
  /\ pc'[c] = "alloc_pid" => AllocStack(c)
  /\ pc[c] = "alloc_pid" \/ pid_num' # pid_num => AllocPid(c)
  /\ pc[c] = "wake_cs" => WakeOne(c) \/ WakeNext(c) \/ WakeReturn(c)
  /\ pc'[c] = "wake_cs" => pc[c] \in WakeLabels
  /\ UNCHANGED visit \/ WakeNext(c) \/ WakeReturn(c)
  /\ pc[c] \in WakeLabels => WakeReturn(c) \/ (pc'[c] \in WakeLabels /\ chan'[c] = chan[c])
  /\ pc'[c] = "sleep" => SysSleep(c) \/ WaitSleeps(c) \/ ReleaseToLoop(c)
  /\ pc'[c] = "sleep_cs" => pc[c] = "sleep" /\ UNCHANGED <<table, lists, current>>
  /\ Forking(c)' => Forking(c) \/ c \in ForkCores
  /\ pc'[c] = "fork_ret" => CopyUvm(c)

(* Every step follows the control flow and moves its own core only. *)
LEMMA ControlStays ==
  ASSUME IInv, NEW c \in Cores, CoreStep(c)
  PROVE  ControlFlow(c) /\ OtherCores(c)
<1>1. /\ pc \in [Cores -> Labels] /\ newp \in [Cores -> Slots \cup {NULL}]
      /\ chan \in [Cores -> {0, -1, -2, -3}] /\ boots \in [Cores -> 0 .. 2]
      /\ BootOK(c) /\ CurrentOK(c) /\ TypeOK
  BY DEF IInv, TypeOK, BootInv, CurrentInv
<1> USE <1>1 DEF ControlFlow, OtherCores, Goto, Forking, AllocLabels, WakeLabels, table, lists, locks
<1>2. CASE AcquireProcessLock(c)
  BY <1>2 DEF AcquireProcessLock, SpinLabels, Locked
<1>3. CASE AcquirePidLock(c)
  BY <1>3 DEF AcquirePidLock
<1>4. CASE Failure(c)
  BY <1>4 DEF Failure, AllocFails, SetupUvmFails, CopyUvmFails
<1>5. CASE Irq(c)
  BY <1>5 DEF Irq, TimerIrq, UartIrq
<1>6. CASE SysSleep(c)
  <2>1. pc[c] = "user" /\ pc' = [pc EXCEPT ![c] = "sleep"] /\ UNCHANGED <<pid_num, chan, visit, newp, boots>>
    BY <1>6 DEF SysSleep, CallsInto
  <2> QED
    BY <1>6, <2>1
<1>7. CASE SysExit(c) \/ SysWait(c) \/ SysGetPs(c) \/ SysFork(c)
  BY <1>7 DEF SysExit, SysWait, SysGetPs, SysFork, CallsInto
<1>8. CASE AllocStack(c) \/ AllocPid(c)
  BY <1>8 DEF AllocStack, AllocPid
<1>9. CASE AllocPageMap(c) \/ SetupUvm(c)
  BY <1>9 DEF AllocPageMap, SetupUvm
<1>10. CASE InitIdle(c) \/ LeaveSpin(c)
  BY <1>10 DEF InitIdle, LeaveSpin
<1>11. CASE InitProcess(c)
  <2>1. /\ pc[c] = "init_process" /\ pc' = [pc EXCEPT ![c] = "alloc_lock"]
        /\ \E i \in Unused(c) : newp' = [newp EXCEPT ![c] = <<c, i>>]
        /\ UNCHANGED <<pid_num, chan, visit, boots>>
    BY <1>11 DEF InitProcess, FindsSlot
  <2>2. boots[c] > 0
    BY <2>1 DEF BootOK, BootLabels
  <2> QED
    BY <2>1, <2>2
<1>12. CASE WakeOne(c)
  <2>1. pc[c] = "wake_cs" /\ UNCHANGED <<pc, pid_num, chan, visit, newp, boots>>
    BY <1>12 DEF WakeOne
  <2> QED
    BY <1>12, <2>1
<1>a. CASE WakeNext(c)
  <2>1. pc[c] = "wake_cs" /\ UNCHANGED <<pc, pid_num, chan, newp, boots>>
    BY <1>a DEF WakeNext
  <2> QED
    BY <1>a, <2>1
<1>13. CASE WakeReturn(c)
  <2>1. /\ pc[c] = "wake_cs" /\ chan' = [chan EXCEPT ![c] = 0] /\ UNCHANGED <<pid_num, newp, boots>>
        /\ pc' = [pc EXCEPT ![c] = pc'[c]] /\ pc'[c] \in {"yield", "user", "exit"}
    BY <1>13 DEF WakeReturn
  <2> QED
    BY <1>13, <2>1
<1>14. CASE Schedule(c)
  <2>1. /\ pc[c] \in {"yield_sched", "sleep_sched", "exit_sched"} /\ UNCHANGED <<pid_num, chan, visit, newp, boots>>
        /\ pc' = [pc EXCEPT ![c] = IF NextProcess(c) = current[c] THEN ScheduleReturn(pc[c])
                                   ELSE context[NextProcess(c)]]
    BY <1>14 DEF Schedule
  <2>2. ScheduleReturn(pc[c]) \in ResumePoints
    BY <2>1 DEF ScheduleReturn, ResumePoints
  <2>3. NextProcess(c) \in Slots
    BY TailList, CoresFacts DEF NextProcess, TypeOK
  <2>4. context[NextProcess(c)] \in ResumePoints \cup {"null"}
    BY <2>3 DEF TypeOK
  <2> QED
    BY <2>1, <2>2, <2>4 DEF ResumePoints
<1>15. CASE YieldReturn(c) \/ Yield(c) \/ Sleep(c)
  BY <1>15 DEF YieldReturn, Yield, Sleep
<1>16. CASE ReleaseToUser(c) \/ ReleaseToLoop(c) \/ ReleaseAndReturn(c)
  BY <1>16 DEF ReleaseToUser, ReleaseToLoop, ReleaseAndReturn
<1>17. CASE Kill(c) \/ WaitSleeps(c) \/ GetProcessState(c)
  BY <1>17 DEF Kill, WaitSleeps, GetProcessState
<1>18. CASE Reap(c)
  <2>1. pc[c] = "wait_cs" /\ pc' = [pc EXCEPT ![c] = "user"] /\ UNCHANGED <<pid_num, chan, visit, newp, boots>>
    BY <1>18 DEF Reap
  <2> QED
    BY <2>1
<1>19. CASE Fork(c)
  <2>1. /\ pc[c] = "fork_cs" /\ pc' = [pc EXCEPT ![c] = pc'[c]] /\ pc'[c] \in {"alloc_lock", "halted"}
        /\ \A d \in Cores : d # c => newp'[d] = newp[d]
        /\ UNCHANGED <<pid_num, chan, visit, boots>>
    BY <1>19 DEF Fork, FindsSlot, FindsNone
  <2> QED
    BY <2>1
<1>20. CASE CopyUvm(c) \/ ForkReturn(c)
  BY <1>20 DEF CopyUvm, ForkReturn
<1> QED
  BY <1>2, <1>3, <1>4, <1>5, <1>6, <1>7, <1>8, <1>9, <1>10, <1>11, <1>12, <1>13, <1>14, <1>15, <1>16,
     <1>17, <1>18, <1>19, <1>20, <1>a
     DEF CoreStep, KernelStep, Syscall

-----------------------------------------------------------------------------
(* Pids. *)

(* The pids drawn stay unique whatever a core does. *)
LEMMA PidsDrawnStep ==
  ASSUME IInv, PidsDrawn, NEW c \in Cores, CoreStep(c)
  PROVE  PidsDrawn'
<1>1. /\ TypeOK /\ LockExclusion /\ BootInv /\ PidInv /\ CreateInv /\ CreateOK(c) /\ TypeOK'
      /\ pid_num \in Nat /\ pid \in [Slots -> Nat] /\ IInv'
  BY IInvStep DEF IInv, TypeOK, CreateInv, Next, CoreStep
<1>2. LifeStep(c) /\ ControlFlow(c) /\ OtherCores(c)
  BY LifeCycle, ControlStays
<1>3. \A d \in Cores : pc[d] = "alloc_pid" =>
        newp[d] \in Slots /\ state[newp[d]] = "INIT" /\ HoldsPidLock(d)
  BY <1>1, CoresFacts DEF CreateInv, CreateOK, Creating, AllocLabels, HoldsPidLock
<1>k. pc'[0] # "kmain"
  <2>1. pc[0] = "kmain" => c = 0
    <3>1. SUFFICES ASSUME pc[0] = "kmain", c # 0 PROVE FALSE
      OBVIOUS
    <3>2. pc[c] = "spin" /\ ~main_core_ready
      BY <1>1, <3>1, CoresFacts DEF BootInv, BootOK, BootLabels
    <3> QED
      BY <1>2, <3>2 DEF ControlFlow, LeaveSpin
  <2> QED
    BY <1>2, <2>1, CoresFacts DEF ControlFlow, OtherCores
<1>4. CASE AllocPid(c)
  <2>1. /\ pc[c] = "alloc_pid" /\ pid_num' = pid[newp[c]] + 1 /\ pc'[c] = "alloc_map"
        /\ UNCHANGED <<state, pid, newp>>
    BY <1>1, <1>4 DEF AllocPid, Goto, TypeOK
  <2>2. pid_num' = pid_num + 1
    BY <2>1 DEF PidsDrawn
  <2>3. \A d \in Cores : pc[d] = "alloc_pid" => d = c
    BY <1>1, <1>3, <2>1 DEF LockExclusion
  <2>4. \A d \in Cores : pc'[d] # "alloc_pid"
    BY <1>2, <2>1, <2>3 DEF OtherCores
  <2>5. \A p \in Slots : state[p] # "UNUSED" => pid[p] < pid_num \/ p = newp[c]
    BY <2>3 DEF PidsDrawn
  <2>6. \A p \in Slots : state[p] # "UNUSED" => pid[p] < pid_num'
    BY <1>1, <2>1, <2>2, <2>5 DEF PidsDrawn
  <2> QED
    BY <1>k, <2>1, <2>4, <2>6 DEF PidsDrawn, PidsUnique
<1>5. CASE AllocStack(c)
  <2>1. PICK x \in Slots : x = newp[c] /\ state[x] = "UNUSED"
    BY <1>1, <1>5, CoresFacts DEF AllocStack, CreateOK, Creating, AllocLabels
  <2>2. /\ pc[c] = "alloc" /\ pc'[c] = "alloc_pid" /\ UNCHANGED <<pid_num, newp>>
        /\ state'[x] = "INIT" /\ pid'[x] = pid_num
        /\ \A p \in Slots : p # x => state'[p] = state[p] /\ pid'[p] = pid[p]
    BY <1>1, <1>5, <2>1 DEF AllocStack, Goto, TypeOK
  <2>3. \A d \in Cores : pc[d] # "alloc_pid"
    BY <1>1, <1>3, <2>2 DEF LockExclusion, HoldsPidLock
  <2>4. \A d \in Cores : pc'[d] = "alloc_pid" => d = c
    BY <1>2, <2>3 DEF OtherCores
  <2>5. \A p \in Slots : state[p] # "UNUSED" => pid[p] < pid_num
    BY <2>3 DEF PidsDrawn
  <2>6. \A p \in Slots : p # x /\ state'[p] # "UNUSED" => pid'[p] < pid_num /\ pid'[p] # pid_num
    BY <1>1, <2>2, <2>5
  <2>7. PidsUnique'
    BY <2>2, <2>6 DEF PidsDrawn, PidsUnique
  <2> QED
    BY <1>k, <2>1, <2>2, <2>4, <2>6, <2>7 DEF PidsDrawn
<1>6. CASE ~AllocPid(c) /\ ~AllocStack(c)
  <2>1. /\ pid_num' = pid_num /\ pc[c] # "alloc_pid" /\ pc'[c] # "alloc_pid"
    BY <1>2, <1>6 DEF ControlFlow
  <2>2. \A d \in Cores : /\ pc'[d] = "alloc_pid" <=> pc[d] = "alloc_pid"
                         /\ pc[d] = "alloc_pid" => newp'[d] = newp[d]
    BY <1>2, <2>1 DEF OtherCores
  <2>3. CASE MakesIdle(c)
    <3>1. \A p \in Slots : state[p] = "UNUSED"
      BY <2>3 DEF MakesIdle, PidsDrawn
    <3>2. \A d \in Cores : pc'[d] # "alloc_pid"
      BY <1>3, <2>2, <3>1
    <3>3. \A p \in Slots : state'[p] # "UNUSED" => p[2] = 0 /\ pid'[p] = p[1]
      BY <2>3, <3>1 DEF MakesIdle
    <3>a. pid_num >= 4
      BY <1>1 DEF PidInv
    <3>b. \A d \in Cores : d \in Nat /\ d < 4
      BY CoresFacts
    <3>c. \A d \in Cores : d < pid_num
      BY <1>1, <3>a, <3>b
    <3>4. \A p \in Slots : p[2] = 0 => p = Idle(p[1]) /\ p[1] < pid_num
      BY <3>c, CoresFacts
    <3>5. PidsUnique'
      BY <3>3, <3>4 DEF PidsUnique
    <3> QED
      BY <1>k, <2>1, <3>2, <3>3, <3>4, <3>5 DEF PidsDrawn
  <2>4. CASE ~MakesIdle(c)
    <3>1. \A p \in Slots : state'[p] # "UNUSED" => state[p] # "UNUSED" /\ pid'[p] = pid[p]
      <4>1. CASE UNCHANGED <<state, pid, wait, cloned, current>>
        BY <4>1
      <4>2. ASSUME NEW x \in Slots, OnlySlot(x),
                   MakesReady(c, x) \/ Wakes(c, x) \/ SwitchesTo(c, x) \/ GivesUp(c, x) \/ Reaps(c, x)
            PROVE  state'[x] # "UNUSED" => state[x] # "UNUSED" /\ pid'[x] = pid[x]
        BY <4>2 DEF MakesReady, Wakes, SwitchesTo, GivesUp, Reaps
      <4>3. ASSUME NEW x \in Slots PROVE ~Takes(c, x)
        BY <1>2, <1>6 DEF ControlFlow, Takes
      <4> QED
        BY <1>2, <2>4, <4>1, <4>2, <4>3 DEF LifeStep, OnlySlot
    <3>2. \A d \in Cores : pc[d] = "alloc_pid" => state'[newp[d]] # "UNUSED"
      BY <1>1, <1>2, <1>3, <2>1, <2>2, CoresFacts DEF IInv, CreateInv, CreateOK, OtherCores
    <3>3. ASSUME NEW p \in Slots, state'[p] # "UNUSED"
          PROVE  pid'[p] < pid_num' \/ \E d \in Cores : pc'[d] = "alloc_pid" /\ newp'[d] = p
      BY <2>1, <2>2, <3>1, <3>3 DEF PidsDrawn
    <3>4. ASSUME NEW d \in Cores, pc'[d] = "alloc_pid" PROVE pid'[newp'[d]] = pid_num'
      BY <1>3, <2>1, <2>2, <3>1, <3>2, <3>4 DEF PidsDrawn
    <3>5. PidsUnique'
      BY <3>1 DEF PidsDrawn, PidsUnique
    <3> QED
      BY <1>k, <3>3, <3>4, <3>5 DEF PidsDrawn
  <2> QED
    BY <2>3, <2>4
<1> QED
  BY <1>4, <1>5, <1>6

(***************************************************************************)
(* No two live processes have the same pid, though the cores draw pids     *)
(* concurrently and pid_num++ is a load and a store (alloc_new_process).   *)
(***************************************************************************)
THEOREM PidsStayUnique == Spec => []PidsUnique
<1>1. Init => PidsDrawn
  BY CoresFacts DEF Init, PidsDrawn, PidsUnique
<1>2. IInv /\ PidsDrawn /\ [Next]_vars => PidsDrawn'
  <2>1. PidsDrawn /\ UNCHANGED vars => PidsDrawn'
    BY DEF PidsDrawn, PidsUnique, vars
  <2> QED
    BY <2>1, PidsDrawnStep DEF Next, CoreStep
<1>3. PidsDrawn => PidsUnique
  BY DEF PidsDrawn
<1> QED
  BY <1>1, <1>2, <1>3, InvariantHolds, PTL DEF Spec

-----------------------------------------------------------------------------
(* What a step does to the calls of processes and to the lists. *)

\* Core c changes the call of its running process and of one it reaps, at most.
CallsKept(c) == \A p \in Slots :
  call'[p] # call[p] => (p = current[c] /\ state'[p] = "RUNNING") \/ (p[1] = c /\ state'[p] = "UNUSED")

\* Only sleep() adds to a wait list and only exit() to a kill list, each its own core's process.
ListsGrow(c) == \A d \in Cores, p \in Slots :
  /\ OnList(wait_list'[d], p) => OnList(wait_list[d], p) \/ (d = c /\ p = current[c] /\ Sleep(c))
  /\ OnList(kill_list'[d], p) => OnList(kill_list[d], p) \/ (d = c /\ p = current[c] /\ Kill(c))

(* Every step keeps to that. *)
LEMMA CallsAndLists ==
  ASSUME IInv, NEW c \in Cores, CoreStep(c)
  PROVE  CallsKept(c) /\ ListsGrow(c)
<1>1. /\ call \in [Slots -> Calls] /\ current \in [Cores -> Slots] /\ state \in [Slots -> States]
      /\ wait_list \in [Cores -> Seq(Slots)] /\ kill_list \in [Cores -> Seq(Slots)]
      /\ CurrentOK(c) /\ ListInv /\ visit[c] \in Cores
  BY DEF IInv, TypeOK, CurrentInv
<1> USE DEF Goto, table, lists, locks
<1>2. ASSUME UNCHANGED <<call, wait_list, kill_list>> PROVE CallsKept(c) /\ ListsGrow(c)
  BY <1>2 DEF CallsKept, ListsGrow
<1>3. CASE AcquireProcessLock(c) \/ AcquirePidLock(c) \/ Failure(c) \/ Irq(c)
  BY <1>2, <1>3 DEF AcquireProcessLock, AcquirePidLock, Failure, AllocFails, SetupUvmFails, CopyUvmFails, Irq,
     TimerIrq, UartIrq
<1>4. CASE SysExit(c) \/ SysGetPs(c) \/ SysFork(c)
  BY <1>2, <1>4 DEF SysExit, SysGetPs, SysFork
<1>5. CASE AllocStack(c) \/ AllocPid(c) \/ AllocPageMap(c) \/ InitIdle(c) \/ LeaveSpin(c) \/ InitProcess(c)
           \/ SetupUvm(c) \/ WakeNext(c) \/ WakeReturn(c)
  BY <1>2, <1>5 DEF AllocStack, AllocPid, AllocPageMap, InitIdle, LeaveSpin, InitProcess, SetupUvm, WakeNext,
     WakeReturn
<1>6. CASE Schedule(c) \/ YieldReturn(c) \/ Yield(c) \/ ReleaseToUser(c) \/ ReleaseToLoop(c) \/ WaitSleeps(c)
           \/ GetProcessState(c) \/ Fork(c) \/ CopyUvm(c) \/ ForkReturn(c)
  BY <1>2, <1>6 DEF Schedule, YieldReturn, Yield, ReleaseToUser, ReleaseToLoop, WaitSleeps, GetProcessState, Fork,
     CopyUvm, ForkReturn
<1>7. CASE SysSleep(c) \/ SysWait(c) \/ ReleaseAndReturn(c)
  <2>1. UNCHANGED <<state, wait_list, kill_list>> /\ \A p \in Slots : p # current[c] => call'[p] = call[p]
    BY <1>1, <1>7 DEF SysSleep, SysWait, ReleaseAndReturn
  <2>2. state[current[c]] = "RUNNING"
    BY <1>1, <1>7 DEF SysSleep, SysWait, ReleaseAndReturn, CallsInto, CurrentOK, RunningLabels, Resumable
  <2> QED
    BY <2>1, <2>2 DEF CallsKept, ListsGrow
<1>8. CASE Sleep(c)
  <2>1. /\ wait_list'[c] = Append(wait_list[c], current[c])
        /\ \A d \in Cores : d # c => wait_list'[d] = wait_list[d]
        /\ UNCHANGED <<kill_list, call>>
    BY <1>1, <1>8 DEF Sleep
  <2>2. \A p : OnList(wait_list'[c], p) <=> OnList(wait_list[c], p) \/ p = current[c]
    BY <1>1, <2>1, AppendList
  <2> QED
    BY <1>8, <2>1, <2>2 DEF CallsKept, ListsGrow
<1>9. CASE Kill(c)
  <2>1. /\ kill_list'[c] = Append(kill_list[c], current[c])
        /\ \A d \in Cores : d # c => kill_list'[d] = kill_list[d]
        /\ UNCHANGED <<wait_list, call>>
    BY <1>1, <1>9 DEF Kill
  <2>2. \A p : OnList(kill_list'[c], p) <=> OnList(kill_list[c], p) \/ p = current[c]
    BY <1>1, <2>1, AppendList
  <2> QED
    BY <1>9, <2>1, <2>2 DEF CallsKept, ListsGrow
<1>10. CASE WakeOne(c)
  <2>1. PICK e \in Cores :
          \E i \in DOMAIN wait_list[e] : wait_list' = [wait_list EXCEPT ![e] = RemoveAt(@, i)]
    BY <1>1, <1>10 DEF WakeOne
  <2>2. PICK i \in DOMAIN wait_list[e] : wait_list' = [wait_list EXCEPT ![e] = RemoveAt(@, i)]
    BY <2>1
  <2>3. /\ wait_list'[e] = RemoveAt(wait_list[e], i)
        /\ \A d \in Cores : d # e => wait_list'[d] = wait_list[d]
    BY <1>1, <2>2
  <2>4. \A p : OnList(wait_list'[e], p) => OnList(wait_list[e], p)
    BY <1>1, <2>3, RemoveAtList
  <2>5. UNCHANGED <<call, kill_list>>
    BY <1>10 DEF WakeOne
  <2> QED
    BY <2>3, <2>4, <2>5 DEF CallsKept, ListsGrow
<1>11. CASE Reap(c)
  <2>1. PICK i \in DOMAIN kill_list[c] :
          /\ kill_list' = [kill_list EXCEPT ![c] = RemoveAt(@, i)]
          /\ state' = [state EXCEPT ![kill_list[c][i]] = "UNUSED"]
          /\ call' = [call EXCEPT ![kill_list[c][i]] = NoCall, ![current[c]] = NoCall]
    BY <1>11 DEF Reap
  <2>2. /\ kill_list'[c] = RemoveAt(kill_list[c], i)
        /\ \A d \in Cores : d # c => kill_list'[d] = kill_list[d]
    BY <1>1, <2>1
  <2>3. PICK x \in Slots : x = kill_list[c][i]
    BY <1>1, ElementOfSeq, LenProperties
  <2>4. \A p : OnList(kill_list'[c], p) => OnList(kill_list[c], p)
    BY <1>1, <2>2, RemoveAtList
  <2>5. OnList(kill_list[c], x)
    BY <2>3 DEF OnList
  <2>6. x[1] = c /\ state[x] = "KILLED" /\ state[current[c]] = "RUNNING"
    BY <1>1, <1>11, <2>5 DEF ListInv, Reap, CurrentOK, RunningLabels
  <2>7. state'[x] = "UNUSED" /\ state'[current[c]] = "RUNNING"
    BY <1>1, <2>1, <2>3, <2>6
  <2>8. \A p \in Slots : p # x /\ p # current[c] => call'[p] = call[p]
    BY <1>1, <2>1, <2>3
  <2>9. UNCHANGED wait_list
    BY <1>11 DEF Reap
  <2> QED
    BY <2>2, <2>4, <2>6, <2>7, <2>8, <2>9 DEF CallsKept, ListsGrow
<1> QED
  BY <1>3, <1>4, <1>5, <1>6, <1>7, <1>8, <1>9, <1>10, <1>11 DEF CoreStep, KernelStep, Syscall

-----------------------------------------------------------------------------
(* wake_up() *)

(* PassInv is preserved: while wake_up makes its pass it holds             *)
(* process_lock, so that nobody goes to sleep on a list behind it.         *)
LEMMA PassInvStep ==
  ASSUME IInv, PassInv, NEW c \in Cores, CoreStep(c)
  PROVE  PassInv'
<1>1. /\ TypeOK /\ LockExclusion /\ ListInv /\ ListInv' /\ visit \in [Cores -> Cores]
  BY IInvStep DEF IInv, TypeOK, Next, CoreStep
<1>2. LifeStep(c) /\ ControlFlow(c) /\ OtherCores(c) /\ ListsGrow(c)
  BY LifeCycle, ControlStays, CallsAndLists
<1>3. ASSUME NEW d \in Cores, pc[d] = "wake_cs", NEW e \in Cores, NEW p \in Slots, OnList(wait_list'[e], p)
      PROVE  OnList(wait_list[e], p) /\ wait'[p] = wait[p]
  <2>1. OnList(wait_list[e], p)
    <3>1. SUFFICES ASSUME Sleep(c) PROVE FALSE
      BY <1>2, <1>3 DEF ListsGrow
    <3>2. HoldsProcessLock(c) /\ HoldsProcessLock(d) /\ c # d
      BY <1>3, <3>1 DEF Sleep, HoldsProcessLock, LockedLabels
    <3> QED
      BY <1>1, <3>2 DEF LockExclusion
  <2>2. state[p] = "SLEEP" /\ state'[p] = "SLEEP"
    BY <1>1, <1>3, <2>1 DEF ListInv
  <2>3. ASSUME NEW x \in Slots, OnlySlot(x), Takes(c, x) \/ MakesReady(c, x) \/ Wakes(c, x)
               \/ SwitchesTo(c, x) \/ GivesUp(c, x) \/ Reaps(c, x)
        PROVE  wait'[p] = wait[p]
    <3>1. p # x
      BY <2>2, <2>3 DEF Takes, MakesReady, Wakes, SwitchesTo, GivesUp, Reaps
    <3> QED
      BY <2>3, <3>1 DEF OnlySlot
  <2>4. wait'[p] = wait[p]
    BY <1>2, <2>3 DEF LifeStep, MakesIdle
  <2> QED
    BY <2>1, <2>4
<1>4. ASSUME NEW d \in Cores, d # c PROVE PassOK(d)'
  <2>1. visit'[d] = visit[d] /\ pc'[d] = pc[d] /\ chan'[d] = chan[d]
    BY <1>1, <1>2, <1>4 DEF ControlFlow, OtherCores, WakeNext, WakeReturn
  <2> QED
    BY <1>3, <2>1 DEF PassInv, PassOK
<1>5. PassOK(c)'
  <2>1. CASE WakeReturn(c)
    BY <1>1, <2>1, CoresFacts DEF WakeReturn, Goto, TypeOK, PassOK
  <2>2. CASE WakeNext(c)
    <3>1. /\ pc[c] = "wake_cs" /\ pc' = pc /\ chan' = chan /\ Matches(wait_list[visit[c]], chan[c]) = {}
          /\ visit'[c] = visit[c] + 1 /\ visit[c] \in Cores
      BY <1>1, <2>2 DEF WakeNext
    <3>2. ASSUME NEW e \in Cores, NEW p \in Slots, e < visit'[c], OnList(wait_list'[e], p)
          PROVE  wait'[p] # chan[c]
      <4>1. OnList(wait_list[e], p) /\ wait'[p] = wait[p]
        BY <1>3, <3>1, <3>2
      <4>2. e < visit[c] \/ e = visit[c]
        BY <3>1, <3>2, SchedulerAssumption DEF Cores
      <4>3. CASE e < visit[c]
        BY <3>1, <4>1, <4>3 DEF PassInv, PassOK
      <4>4. CASE e = visit[c]
        BY <3>1, <4>1, <4>4 DEF OnList, Matches
      <4> QED
        BY <4>2, <4>3, <4>4
    <3> QED
      BY <3>1, <3>2 DEF PassOK
  <2>3. CASE pc[c] = "wake_cs" /\ ~WakeNext(c) /\ ~WakeReturn(c)
    <3>1. visit' = visit /\ pc' = pc /\ chan' = chan
      BY <1>2, <2>3 DEF ControlFlow, WakeOne
    <3> QED
      BY <1>3, <2>3, <3>1 DEF PassInv, PassOK
  <2>4. CASE pc[c] # "wake_cs"
    <3>1. visit' = visit /\ visit[c] = 0
      BY <1>2, <2>4 DEF ControlFlow, WakeNext, WakeReturn, PassInv, PassOK
    <3>2. \A e \in Cores : ~(e < visit'[c])
      BY <3>1, CoresFacts
    <3> QED
      BY <3>1, <3>2 DEF PassOK
  <2> QED
    BY <2>1, <2>2, <2>3, <2>4
<1> QED
  BY <1>4, <1>5 DEF PassInv

(* PassInv holds in every state. *)
LEMMA PassHolds == Spec => []PassInv
<1>1. Init => PassInv
  BY DEF Init, PassInv, PassOK, OnList
<1>2. IInv /\ PassInv /\ [Next]_vars => PassInv'
  <2>1. PassInv /\ UNCHANGED vars => PassInv'
    BY DEF PassInv, PassOK, vars
  <2> QED
    BY <2>1, PassInvStep DEF Next, CoreStep
<1> QED
  BY <1>1, <1>2, InvariantHolds, PTL DEF Spec

(* Where the pass ends, no list of any core has a sleeper of the channel. *)
LEMMA PassComplete ==
  ASSUME TypeOK, PassInv, NEW c \in Cores, WakeReturn(c), NEW e \in Cores, NEW p \in Slots,
         OnList(wait_list[e], p)
  PROVE  wait[p] # chan[c]
<1>1. /\ pc[c] = "wake_cs" /\ visit[c] \in Cores /\ visit[c] + 1 \notin Cores
      /\ Matches(wait_list[visit[c]], chan[c]) = {}
  BY DEF WakeReturn, TypeOK
<1>2. e < visit[c] \/ e = visit[c]
  BY <1>1, SchedulerAssumption DEF Cores
<1>3. CASE e < visit[c]
  BY <1>1, <1>3 DEF PassInv, PassOK
<1>4. CASE e = visit[c]
  BY <1>1, <1>4 DEF OnList, Matches
<1> QED
  BY <1>2, <1>3, <1>4

(***************************************************************************)
(* wake_up(w) returns only when no process of any core is left asleep on   *)
(* w, although its one pass never looks at a list twice: process_lock      *)
(* keeps every process off the lists that the pass has left.               *)
(***************************************************************************)
THEOREM NoSleeperLeft == Spec => WakeUpEmptiesChannel
<1> DEFINE A == \A c \in Cores : pc[c] = "wake_cs" /\ pc'[c] # "wake_cs" =>
                  \A p \in Slots : ~(state'[p] = "SLEEP" /\ wait'[p] = chan[c])
<1>1. ASSUME IInv, PassInv, NEW d \in Cores, CoreStep(d), NEW c \in Cores, pc[c] = "wake_cs",
             pc'[c] # "wake_cs", NEW p \in Slots, state'[p] = "SLEEP", wait'[p] = chan[c]
      PROVE  FALSE
  <2>1. c = d
    BY <1>1, ControlStays DEF OtherCores
  <2>2. ~WakeOne(c) /\ ~WakeNext(c)
    BY <1>1 DEF WakeOne, WakeNext
  <2>3. WakeReturn(c)
    BY <1>1, <2>1, <2>2, ControlStays DEF ControlFlow
  <2>4. state[p] = "SLEEP" /\ wait[p] = chan[c] /\ p[1] \in Cores
    BY <1>1, <2>3, CoresFacts DEF WakeReturn, table
  <2>5. OnList(wait_list[p[1]], p)
    BY <1>1, <2>4 DEF IInv, PlaceInv, PlaceOK
  <2> QED
    BY <1>1, <2>3, <2>4, <2>5, PassComplete DEF IInv
<1>2. IInv /\ PassInv /\ [Next]_vars => [A]_vars
  BY <1>1 DEF Next, CoreStep
<1> QED
  BY <1>2, InvariantHolds, PassHolds, PTL DEF Spec, WakeUpEmptiesChannel

-----------------------------------------------------------------------------
(* wait() and exit() *)

(* WaitInv is preserved: between the search of wait() and its place on the *)
(* wait list no child of the core can die unseen.                          *)
LEMMA WaitInvStep ==
  ASSUME IInv, PassInv, WaitInv, NEW c \in Cores, CoreStep(c)
  PROVE  WaitInv'
<1>1. /\ TypeOK /\ ListInv /\ CurrentInv /\ PlaceInv /\ CurrentOK(c) /\ IInv' /\ ListInv' /\ TypeOK' /\ CurrentInv'
  BY IInvStep DEF IInv, CurrentInv, Next, CoreStep
<1>t. /\ wait \in [Slots -> Int] /\ current \in [Cores -> Slots] /\ call \in [Slots -> Calls]
      /\ current' \in [Cores -> Slots]
  BY <1>1 DEF TypeOK
<1>2. LifeStep(c) /\ ControlFlow(c) /\ OtherCores(c) /\ CallsKept(c) /\ ListsGrow(c)
  BY LifeCycle, ControlStays, CallsAndLists
<1>3. ASSUME NEW p \in Slots, state'[p] = "SLEEP" PROVE call'[p] = call[p]
  BY <1>2, <1>3 DEF CallsKept
<1>4. SleepersOK'
  <2>1. ASSUME NEW p \in Slots, state'[p] = "SLEEP" PROVE wait'[p] = SleepChannel(call[p].fn)
    <3>1. CASE UNCHANGED <<state, pid, wait, cloned, current>>
      BY <2>1, <3>1 DEF WaitInv, SleepersOK
    <3>2. CASE MakesIdle(c)
      <4>1. state[p] = "SLEEP" /\ wait' = wait
        BY <2>1, <3>2 DEF MakesIdle
      <4> QED
        BY <4>1 DEF WaitInv, SleepersOK
    <3>3. ASSUME NEW x \in Slots, OnlySlot(x), Takes(c, x) \/ MakesReady(c, x) \/ Wakes(c, x)
                 \/ SwitchesTo(c, x) \/ GivesUp(c, x) \/ Reaps(c, x)
          PROVE  wait'[p] = SleepChannel(call[p].fn)
      <4>1. CASE p # x
        BY <2>1, <3>3, <4>1 DEF OnlySlot, WaitInv, SleepersOK
      <4>2. CASE p = x
        BY <2>1, <3>3, <4>2 DEF Takes, MakesReady, Wakes, SwitchesTo, GivesUp, Reaps
      <4> QED
        BY <4>1, <4>2
    <3> QED
      BY <1>2, <3>1, <3>2, <3>3 DEF LifeStep
  <2> QED
    BY <1>3, <2>1 DEF SleepersOK
<1>5. ASSUME NEW d \in Cores, NEW q \in Slots, OnList(kill_list'[d], q), OnList(kill_list[d], q)
      PROVE  wait'[q] = wait[q]
  <2>1. state[q] = "KILLED" /\ state'[q] = "KILLED"
    BY <1>1, <1>5 DEF ListInv
  <2>2. ASSUME NEW x \in Slots, OnlySlot(x), Takes(c, x) \/ MakesReady(c, x) \/ Wakes(c, x)
               \/ SwitchesTo(c, x) \/ GivesUp(c, x) \/ Reaps(c, x)
        PROVE  wait'[q] = wait[q]
    <3>1. q # x
      BY <2>1, <2>2 DEF Takes, MakesReady, Wakes, SwitchesTo, GivesUp, Reaps
    <3> QED
      BY <2>2, <3>1 DEF OnlySlot
  <2> QED
    BY <1>2, <2>2 DEF LifeStep, MakesIdle
<1>6. ASSUME NEW d \in Cores PROVE NothingToReap(d)'
  <2>1. SUFFICES ASSUME pc'[d] \in {"sleep", "sleep_cs"}, NEW q \in Slots, OnList(kill_list'[d], q)
                 PROVE  ~Awaits(current[d], q)'
    BY DEF NothingToReap
  <2>2. CASE d # c
    <3>1. pc[d] \in {"sleep", "sleep_cs"} /\ OnList(kill_list[d], q)
      BY <1>2, <2>1, <2>2 DEF OtherCores, ListsGrow
    <3>2. wait'[q] = wait[q]
      BY <1>5, <2>1, <3>1
    <3>3. current'[d] = current[d]
      BY <1>2, <2>2 DEF LifeStep, MakesIdle, Takes, MakesReady, Wakes, SwitchesTo, GivesUp, Reaps
    <3>4. current[d] \in Slots /\ current[d][1] = d /\ current[c][1] = c
      BY <1>1, <1>t DEF CurrentInv, CurrentOK
    <3>5. call'[current[d]] = call[current[d]]
      BY <1>2, <2>2, <3>4 DEF CallsKept
    <3>6. ~Awaits(current[d], q)
      BY <3>1 DEF WaitInv, NothingToReap
    <3> QED
      BY <3>2, <3>3, <3>5, <3>6 DEF Awaits
  <2>3. CASE d = c /\ pc'[c] = "sleep_cs"
    <3>1. pc[c] = "sleep" /\ UNCHANGED <<wait, call, kill_list, current>>
      BY <1>2, <2>3 DEF ControlFlow, table, lists
    <3>2. ~Awaits(current[c], q)
      BY <2>1, <2>3, <3>1 DEF WaitInv, NothingToReap
    <3> QED
      BY <2>3, <3>1, <3>2 DEF Awaits
  <2>4. CASE d = c /\ SysSleep(c)
    <3>1. PICK fn \in {"sys_sleep", "read_key_buffer"} : call' = [call EXCEPT ![current[c]] = [fn |-> fn, arg |-> 0]]
      BY <2>4 DEF SysSleep
    <3>2. call'[current[c]].fn # "wait" /\ current' = current
      BY <1>t, <2>4, <3>1 DEF SysSleep
    <3> QED
      BY <2>4, <3>2 DEF Awaits
  <2>5. CASE d = c /\ WaitSleeps(c)
    <3>1. Matches(kill_list[c], call[current[c]].arg) = {} /\ UNCHANGED <<wait, call, kill_list, current>>
      BY <2>5 DEF WaitSleeps, table, lists
    <3> QED
      BY <2>1, <2>5, <3>1 DEF Matches, OnList, Awaits
  <2>6. CASE d = c /\ pc'[c] = "sleep" /\ ReleaseToLoop(c)
    <3>1. call[current[c]].fn # "wait"
      BY <1>1, <2>6 DEF ReleaseToLoop, Goto, TypeOK
    <3> QED
      BY <2>6, <3>1 DEF ReleaseToLoop, Awaits, table
  <2> QED
    BY <1>2, <2>1, <2>2, <2>3, <2>4, <2>5, <2>6 DEF ControlFlow
<1>7. ASSUME NEW d \in Cores PROVE WakesParent(d)'
  <2>1. SUFFICES ASSUME NEW p \in Slots, NEW q \in Slots, OnList(wait_list'[d], p), OnList(kill_list'[d], q),
                        Awaits(p, q)'
                 PROVE  pc'[d] \in WakeLabels /\ chan'[d] = -3
    BY DEF WakesParent
  <2>2. CASE d = c /\ Kill(c)
    BY <1>1, <2>2 DEF Kill, Goto, TypeOK, WakeLabels
  <2>3. CASE ~(d = c /\ Kill(c))
    <3>1. OnList(kill_list[d], q) /\ wait'[q] = wait[q]
      BY <1>2, <1>5, <2>1, <2>3 DEF ListsGrow
    <3>2. state'[p] = "SLEEP" /\ call'[p] = call[p]
      BY <1>1, <1>3, <2>1 DEF ListInv
    <3>3. Awaits(p, q)
      BY <2>1, <3>1, <3>2 DEF Awaits
    <3>4. OnList(wait_list[d], p)
      <4>1. SUFFICES ASSUME d = c, p = current[c], Sleep(c) PROVE FALSE
        BY <1>2, <2>1 DEF ListsGrow
      <4>2. pc[c] = "sleep_cs"
        BY <4>1 DEF Sleep
      <4> QED
        BY <3>1, <3>3, <4>1, <4>2 DEF WaitInv, NothingToReap
    <3>5. pc[d] \in WakeLabels /\ chan[d] = -3
      BY <3>1, <3>3, <3>4 DEF WaitInv, WakesParent
    <3>6. CASE d # c
      BY <1>2, <3>5, <3>6 DEF OtherCores
    <3>7. CASE d = c
      <4>1. SUFFICES ASSUME WakeReturn(c) PROVE FALSE
        BY <1>2, <3>5, <3>7 DEF ControlFlow
      <4>2. wait[p] # -3
        BY <1>1, <3>4, <3>5, <3>7, <4>1, PassComplete
      <4>3. wait[p] = SleepChannel("wait")
        <5>1. state[p] = "SLEEP" /\ call[p].fn = "wait"
          BY <1>1, <3>3, <3>4 DEF ListInv, Awaits
        <5> QED
          BY <5>1 DEF WaitInv, SleepersOK
      <4>4. wait[p] = -3
        BY <4>3 DEF SleepChannel
      <4> QED
        BY <4>2, <4>4
    <3> QED
      BY <3>6, <3>7
  <2> QED
    BY <2>2, <2>3
<1> QED
  BY <1>4, <1>6, <1>7 DEF WaitInv

(***************************************************************************)
(* No lost wake-up of a parent: wait() unlocks between its search and its  *)
(* sleep, yet a sleeping parent whose child is on the kill list is about   *)
(* to be woken, by an exit() on its core that is still in wake_up(-3).     *)
(***************************************************************************)
THEOREM ParentsWake == Spec => []NoLostChildWakeup
<1>1. Init => WaitInv
  BY CoresFacts DEF Init, WaitInv, SleepersOK, NothingToReap, WakesParent, OnList
<1>2. IInv /\ PassInv /\ WaitInv /\ [Next]_vars => WaitInv'
  <2>1. WaitInv /\ UNCHANGED vars => WaitInv'
    BY DEF WaitInv, SleepersOK, NothingToReap, WakesParent, Awaits, vars
  <2> QED
    BY <2>1, WaitInvStep DEF Next, CoreStep
<1>3. IInv /\ WaitInv => NoLostChildWakeup
  <2>1. SUFFICES ASSUME IInv, WaitInv, NEW c \in Cores, NEW i \in DOMAIN wait_list[c],
                        NEW j \in DOMAIN kill_list[c], Awaits(wait_list[c][i], kill_list[c][j])
                 PROVE  pc[c] \in WakeLabels /\ chan[c] = -3
    BY DEF NoLostChildWakeup, Awaits, WakeLabels
  <2>2. wait_list[c][i] \in Slots /\ kill_list[c][j] \in Slots
    BY <2>1, ElementOfSeq, LenProperties DEF IInv, TypeOK
  <2>3. OnList(wait_list[c], wait_list[c][i]) /\ OnList(kill_list[c], kill_list[c][j])
    BY DEF OnList
  <2>4. WakesParent(c)
    BY <2>1 DEF WaitInv
  <2> QED
    BY <2>1, <2>2, <2>3, <2>4 DEF WakesParent
<1> QED
  BY <1>1, <1>2, <1>3, InvariantHolds, PassHolds, PTL DEF Spec

-----------------------------------------------------------------------------
(* fork() *)

(* Where programs fork on core 0 only, ForkInv is preserved: nobody else   *)
(* touches core 0's table while its fork() returns.                        *)
LEMMA ForkInvStep ==
  ASSUME ForkCores \subseteq {0}, IInv, ForkInv, NEW c \in Cores, CoreStep(c)
  PROVE  ForkInv'
<1>1. /\ TypeOK /\ BootInv /\ CurrentInv /\ CreateInv /\ CurrentOK(c) /\ BootOK(c) /\ CreateOK(c)
      /\ current \in [Cores -> Slots] /\ pid \in [Slots -> Nat]
  BY DEF IInv, TypeOK, BootInv, CurrentInv, CreateInv
<1>2. LifeStep(c) /\ ControlFlow(c) /\ OtherCores(c)
  BY LifeCycle, ControlStays
<1>3. ASSUME NEW d \in Cores, Forking(d)' PROVE d \in ForkCores
  BY <1>2, <1>3 DEF OtherCores, ControlFlow, Forking, ForkInv
<1>4. ASSUME NEW d \in Cores, pc'[d] = "fork_ret"
      PROVE  state'[newp'[d]] = "READY" /\ cloned'[newp'[d]] = pid'[current'[d]]
  <2>1. d = 0
    BY <1>3, <1>4 DEF Forking
  <2>2. CASE d = c
    <3>1. CopyUvm(c) /\ pc[c] = "copy_uvm"
      BY <1>2, <1>4, <2>2 DEF ControlFlow, CopyUvm
    <3>2. boots[c] = 0 /\ newp[c] \in Slots /\ newp[c][1] = 0
      BY <1>1, <3>1, CoresFacts, Booted DEF BootLabels, AllocLabels, HaltLabels, CreateOK, Creating
    <3>3. /\ state'[newp[c]] = "READY" /\ newp' = newp /\ pid' = pid /\ current' = current
          /\ cloned'[newp[c]] = pid[current[newp[c][1]]]
      BY <1>1, <3>1, <3>2 DEF CopyUvm, TypeOK
    <3> QED
      BY <2>1, <2>2, <3>2, <3>3
  <2>3. CASE d # c
    <3>1. pc[0] = "fork_ret" /\ newp'[0] = newp[0] /\ c # 0
      BY <1>2, <1>4, <2>1, <2>3 DEF OtherCores
    <3>2. boots[0] = 0
      BY <1>1, <3>1, CoresFacts, Booted DEF BootInv, BootLabels, AllocLabels, HaltLabels
    <3>3. newp[0] \in Slots /\ newp[0][1] = 0
      BY <1>1, <3>1, <3>2, CoresFacts DEF CreateInv, CreateOK
    <3>4. /\ state[newp[0]] = "READY" /\ cloned[newp[0]] = pid[current[0]]
          /\ state[current[0]] = "RUNNING" /\ current[0] \in Slots /\ current[0][1] = 0
      BY <1>1, <3>1, CoresFacts DEF ForkInv, CurrentInv, CurrentOK, RunningLabels
    <3>5. CASE UNCHANGED <<state, pid, wait, cloned, current>>
      BY <2>1, <3>1, <3>4, <3>5
    <3>6. CASE MakesIdle(c)
      BY <3>1, <3>6 DEF MakesIdle
    <3>7. ASSUME NEW x \in Slots, OnlySlot(x), Takes(c, x) \/ MakesReady(c, x) \/ Wakes(c, x)
                 \/ SwitchesTo(c, x) \/ GivesUp(c, x) \/ Reaps(c, x)
          PROVE  /\ state'[newp[0]] = "READY" /\ cloned'[newp[0]] = cloned[newp[0]]
                 /\ current'[0] = current[0] /\ pid'[current[0]] = pid[current[0]]
      <4>1. newp[0] # x
        BY <3>1, <3>3, <3>4, <3>7 DEF Takes, MakesReady, Wakes, SwitchesTo, GivesUp, Reaps
      <4>2. current'[0] = current[0] /\ pid'[current[0]] = pid[current[0]]
        BY <3>1, <3>4, <3>7, CoresFacts
           DEF Takes, MakesReady, Wakes, SwitchesTo, GivesUp, Reaps, OnlySlot
      <4> QED
        BY <3>3, <3>4, <3>7, <4>1, <4>2 DEF OnlySlot
    <3>8. newp'[d] = newp[0] /\ current'[d] = current'[0]
      BY <2>1, <3>1
    <3> QED
      BY <1>2, <3>1, <3>4, <3>5, <3>6, <3>7, <3>8 DEF LifeStep
  <2> QED
    BY <2>2, <2>3
<1> QED
  BY <1>3, <1>4 DEF ForkInv

(***************************************************************************)
(* When programs fork on core 0 only, fork() returns the pid of a process  *)
(* that is still there and is a clone of its caller, though it reads the   *)
(* pid behind its unlock.  (On another core it clones core 0's process.)   *)
(***************************************************************************)
THEOREM ForkClonesCaller == ForkCores \subseteq {0} => (Spec => []ForkReturnsClone)
<1> SUFFICES ASSUME ForkCores \subseteq {0} PROVE Spec => []ForkReturnsClone
  OBVIOUS
<1>1. Init => ForkInv
  BY DEF Init, ForkInv, Forking, AllocLabels
<1>2. IInv /\ ForkInv /\ [Next]_vars => ForkInv'
  <2>1. ForkInv /\ UNCHANGED vars => ForkInv'
    BY DEF ForkInv, Forking, vars
  <2> QED
    BY <2>1, ForkInvStep DEF Next, CoreStep
<1>3. ForkInv => ForkReturnsClone
  BY DEF ForkInv, ForkReturnsClone
<1> QED
  BY <1>1, <1>2, <1>3, InvariantHolds, PTL DEF Spec
=============================================================================
