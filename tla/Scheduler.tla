----------------------------- MODULE Scheduler -----------------------------
(***************************************************************************)
(* Process management of src/src/process.c on MAXCORES cores: the process  *)
(* tables, the per-core ready, wait and kill lists, yield, sleep, wake_up, *)
(* exit, wait, fork and the start-up of the cores, with the interrupts and *)
(* system calls of handler.c and syscall.c that call them.                 *)
(*                                                                         *)
(* One core is one sequential thread of control: the kernel runs with      *)
(* interrupts masked, so pc[c] is the kernel's control point on core c, or *)
(* "user" while the current process (or the idle loop) executes with       *)
(* interrupts enabled.  process_lock is taken in yield, sleep and exit and *)
(* released by the process that schedule() switches to, at its own resume  *)
(* point: context[p] is that point, the return address swap() saves.       *)
(*                                                                         *)
(* Taking a spinlock_t is one atomic step, which SpinLock.tla justifies.   *)
(* Code between two lock operations is one step where it touches only what *)
(* the lock protects or what belongs to the core.                          *)
(***************************************************************************)
EXTENDS Integers, Sequences, SequencesExt

CONSTANTS MAXCORES,       \* number of cores, include/process.h
          NUM_PROC,       \* slots of one core's process table, include/process.h
          NULL,           \* the NULL pointer
          \* What the programs may do, and bounds.
          Syscalls,       \* the system calls user programs issue
          ForkCores,      \* cores whose programs call fork
          WaitPids,       \* the arguments programs pass to wait
          MaxPid,         \* bound: no fork is issued once pid_num exceeds it
          KallocMayFail   \* kalloc, setup_uvm and copy_uvm may run out of memory

Cores == 0 .. MAXCORES - 1

Slots == Cores \X (0 .. NUM_PROC - 1)

Idle(c) == <<c, 0>>

\* The slots of processes other than the idle ones.
UserSlots == Cores \X (1 .. NUM_PROC - 1)

SyscallNames == {"fork", "exit", "wait", "sys_sleep", "read_key_buffer", "ps"}

\* Pids below 4 are the idle processes' (yield tests pid >= 4); a table has
\* room for the idle process and the two that core 0 starts.
ASSUME SchedulerAssumption ==
  /\ MAXCORES \in 1 .. 4
  /\ NUM_PROC \in Nat /\ NUM_PROC >= 3
  /\ NULL \notin Slots
  /\ Syscalls \subseteq SyscallNames
  /\ ForkCores \subseteq Cores
  /\ WaitPids \subseteq Nat
  /\ MaxPid \in Nat
  /\ KallocMayFail \in BOOLEAN

VARIABLES
  process_lock, pid_lock,   \* the lock words
  main_core_ready,          \* main.c: secondary cores may start
  pid_num,                  \* next pid
  \* process_table: one variable per field the scheduler uses
  state, pid, wait,
  context,                  \* where swap() resumes the process
  call,                     \* the sleeping kernel function on its stack, and its argument
  cloned,                   \* pid whose address space and trap frame fork copied, or 0
  \* pc[MAXCORES]: struct ProcessControl
  current, ready_list, wait_list, kill_list,
  \* control and locals of each core
  pc, chan, visit, newp, boots

table == <<state, pid, wait, context, call, cloned>>
lists == <<ready_list, wait_list, kill_list>>
locks == <<process_lock, pid_lock>>
vars == <<process_lock, pid_lock, main_core_ready, pid_num, state, pid, wait, context,
          call, cloned, current, ready_list, wait_list, kill_list, pc, chan, visit, newp,
          boots>>

States == {"UNUSED", "INIT", "RUNNING", "READY", "SLEEP", "KILLED"}

ResumePoints == {"pstart", "yield_rel", "sleep_rel", "exit_ret"}

\* Inside alloc_new_process, at the spin_lock and holding pid_lock.
AllocLabels == {"alloc_lock", "alloc", "alloc_pid", "alloc_map"}

\* Control points at which the core holds process_lock.
LockedLabels == {"wake_cs", "yield_cs", "sleep_cs", "kill_cs", "wait_cs", "fork_cs", "ps_cs",
                 "yield_sched", "sleep_sched", "exit_sched", "copy_uvm"} \cup ResumePoints

\* Control points that spin for process_lock.
SpinLabels == {"wake", "yield", "sleep", "kill", "wait", "fork", "ps", "exit"}

Labels == {"kmain", "spin", "init_process", "setup_uvm", "user", "fork_ret",
           "halted", "halted_pid"} \cup AllocLabels \cup LockedLabels \cup SpinLabels

NoCall == [fn |-> "none", arg |-> 0]

Calls == [fn : {"none", "wait", "sys_sleep", "read_key_buffer"}, arg : Nat]

TypeOK ==
  /\ process_lock \in {0, 1} /\ pid_lock \in {0, 1}
  /\ main_core_ready \in BOOLEAN
  /\ pid_num \in Nat
  /\ state \in [Slots -> States]
  /\ pid \in [Slots -> Nat]
  /\ wait \in [Slots -> Int]
  /\ context \in [Slots -> ResumePoints \cup {"null"}]
  /\ call \in [Slots -> Calls]
  /\ cloned \in [Slots -> Nat]
  /\ current \in [Cores -> Slots]
  /\ ready_list \in [Cores -> Seq(Slots)]
  /\ wait_list \in [Cores -> Seq(Slots)]
  /\ kill_list \in [Cores -> Seq(Slots)]
  /\ pc \in [Cores -> Labels]
  /\ chan \in [Cores -> {0, -1, -2, -3}]
  /\ visit \in [Cores -> Cores]
  /\ newp \in [Cores -> Slots \cup {NULL}]
  /\ boots \in [Cores -> 0 .. 2]

-----------------------------------------------------------------------------
(* Reset: .bss is zero, core 0 is in KMain and the others in secondary_main. *)
Init ==
  /\ process_lock = 0 /\ pid_lock = 0
  /\ main_core_ready = FALSE
  /\ pid_num = 4
  /\ state = [p \in Slots |-> "UNUSED"]
  /\ pid = [p \in Slots |-> 0]
  /\ wait = [p \in Slots |-> 0]
  /\ context = [p \in Slots |-> "null"]
  /\ call = [p \in Slots |-> NoCall]
  /\ cloned = [p \in Slots |-> 0]
  /\ current = [c \in Cores |-> Idle(c)]
  /\ ready_list = [c \in Cores |-> <<>>]
  /\ wait_list = [c \in Cores |-> <<>>]
  /\ kill_list = [c \in Cores |-> <<>>]
  /\ pc = [c \in Cores |-> IF c = 0 THEN "kmain" ELSE "spin"]
  /\ chan = [c \in Cores |-> 0]
  /\ visit = [c \in Cores |-> 0]
  /\ newp = [c \in Cores |-> NULL]
  /\ boots = [c \in Cores |-> IF c = 0 THEN 2 ELSE 1]

Goto(c, l) == pc' = [pc EXCEPT ![c] = l]

-----------------------------------------------------------------------------
(* Spin locks. *)

\* The control point behind each spin_lock(&process_lock).
Locked(l) ==
  CASE l = "wake"  -> "wake_cs"   [] l = "yield" -> "yield_cs"
    [] l = "sleep" -> "sleep_cs"  [] l = "kill"  -> "kill_cs"
    [] l = "wait"  -> "wait_cs"   [] l = "fork"  -> "fork_cs"
    [] l = "ps"    -> "ps_cs"     [] l = "exit"  -> "exit_sched"

AcquireProcessLock(c) ==
  /\ pc[c] \in SpinLabels
  /\ process_lock = 0
  /\ process_lock' = 1
  /\ Goto(c, Locked(pc[c]))
  /\ UNCHANGED <<pid_lock, main_core_ready, pid_num, table, current, lists, chan, visit, newp, boots>>

\* Mutant for PidsUnique: alloc_new_process without spin_lock(&pid_lock).
AcquirePidLockNoWait(c) ==
  /\ pc[c] = "alloc_lock"
  /\ pid_lock' = 1
  /\ Goto(c, "alloc")
  /\ UNCHANGED <<process_lock, main_core_ready, pid_num, table, current, lists, chan, visit, newp, boots>>

AcquirePidLock(c) ==
  /\ pc[c] = "alloc_lock"
  /\ pid_lock = 0
  /\ pid_lock' = 1
  /\ Goto(c, "alloc")
  /\ UNCHANGED <<process_lock, main_core_ready, pid_num, table, current, lists, chan, visit, newp, boots>>

-----------------------------------------------------------------------------
(* alloc_new_process, shared by the start-up code and fork. *)

\* The slots find_unused_process would accept in core t's table.
Unused(t) == {i \in 1 .. NUM_PROC - 1 : state[<<t, i>>] = "UNUSED"}

\* find_unused_process(t) by core c: the first such slot.
FindsSlot(c, t) ==
  \E i \in Unused(t) : /\ \A j \in Unused(t) : i <= j
                       /\ newp' = [newp EXCEPT ![c] = <<t, i>>]
                       /\ Goto(c, "alloc_lock")

\* It returns NULL and the caller's ASSERT stops the core.
FindsNone(c, t) ==
  /\ Unused(t) = {}
  /\ Goto(c, "halted")
  /\ UNCHANGED newp

\* Mutant for TypeOK: pstart is not put on the new kernel stack.
AllocPidNoPstart(c) ==
  /\ pc[c] = "alloc_pid"
  /\ pid_num' = pid[newp[c]] + 1
  /\ Goto(c, "alloc_map")
  /\ UNCHANGED <<locks, main_core_ready, table, current, lists, chan, visit, newp, boots>>

\* kalloc() of the kernel stack, PROC_INIT, and the load of pid_num++.
AllocStack(c) ==
  /\ pc[c] = "alloc"
  /\ state' = [state EXCEPT ![newp[c]] = "INIT"]
  /\ pid' = [pid EXCEPT ![newp[c]] = pid_num]
  /\ Goto(c, "alloc_pid")
  /\ UNCHANGED <<locks, main_core_ready, pid_num, wait, context, call, cloned, current, lists,
                 chan, visit, newp, boots>>

\* The store of pid_num++, and the stack that makes swap() return to pstart.
AllocPid(c) ==
  /\ pc[c] = "alloc_pid"
  /\ pid_num' = pid[newp[c]] + 1
  /\ context' = [context EXCEPT ![newp[c]] = "pstart"]
  /\ Goto(c, "alloc_map")
  /\ UNCHANGED <<locks, main_core_ready, state, pid, wait, call, cloned, current, lists,
                 chan, visit, newp, boots>>

\* kalloc() of the top-level page table, and spin_unlock(&pid_lock).
AllocPageMap(c) ==
  /\ pc[c] = "alloc_map"
  /\ pid_lock' = 0
  /\ Goto(c, IF boots[c] > 0 THEN "setup_uvm" ELSE "copy_uvm")
  /\ UNCHANGED <<process_lock, main_core_ready, pid_num, table, current, lists, chan, visit, newp, boots>>

\* A kalloc() that returns NULL: ASSERT stops the core, pid_lock stays taken.
AllocFails(c) ==
  /\ KallocMayFail
  /\ pc[c] \in {"alloc", "alloc_map"}
  /\ Goto(c, "halted_pid")
  /\ UNCHANGED <<locks, main_core_ready, pid_num, table, current, lists, chan, visit, newp, boots>>

-----------------------------------------------------------------------------
(* Start-up. *)

\* KMain on core 0 up to init_idle_process.
InitIdle(c) ==
  /\ pc[c] = "kmain"
  /\ state' = [p \in Slots |-> IF p[2] = 0 THEN "RUNNING" ELSE state[p]]
  /\ pid' = [p \in Slots |-> IF p[2] = 0 THEN p[1] ELSE pid[p]]
  /\ current' = [d \in Cores |-> Idle(d)]
  /\ Goto(c, "init_process")
  /\ UNCHANGED <<locks, main_core_ready, pid_num, wait, context, call, cloned, lists, chan, visit,
                 newp, boots>>

\* while (main_core_ready == 0) of secondary_main.
LeaveSpin(c) ==
  /\ pc[c] = "spin"
  /\ main_core_ready
  /\ Goto(c, "init_process")
  /\ UNCHANGED <<locks, main_core_ready, pid_num, table, current, lists, chan, visit, newp, boots>>

\* init_test4_process and init_user_process: alloc_new_process(-1), which
\* finds a slot in the core's own table.
InitProcess(c) ==
  /\ pc[c] = "init_process"
  /\ FindsSlot(c, c)
  /\ UNCHANGED <<locks, main_core_ready, pid_num, table, current, lists, chan, visit, boots>>

\* setup_uvm succeeds; the process is made ready, without process_lock.
\* After its last process core 0 lets the others start and enables interrupts.
SetupUvm(c) ==
  /\ pc[c] = "setup_uvm"
  /\ state' = [state EXCEPT ![newp[c]] = "READY"]
  /\ ready_list' = [ready_list EXCEPT ![c] = Append(@, newp[c])]
  /\ newp' = [newp EXCEPT ![c] = NULL]
  /\ boots' = [boots EXCEPT ![c] = @ - 1]
  /\ main_core_ready' = (main_core_ready \/ boots[c] = 1)
  /\ Goto(c, IF boots[c] = 1 THEN "user" ELSE "init_process")
  /\ UNCHANGED <<locks, pid_num, pid, wait, context, call, cloned, current, wait_list, kill_list,
                 chan, visit>>

\* ASSERT(setup_uvm(...)) fails and stops the core.
SetupUvmFails(c) ==
  /\ KallocMayFail
  /\ pc[c] = "setup_uvm"
  /\ Goto(c, "halted")
  /\ UNCHANGED <<locks, main_core_ready, pid_num, table, current, lists, chan, visit, newp, boots>>

-----------------------------------------------------------------------------
(* Interrupts, taken in user mode or in the idle loop. *)

\* Mutant for SleepersWake: the timer handler without wake_up(-1).
TimerIrqNoWakeUp(c) ==
  /\ pc[c] = "user"
  /\ Goto(c, "yield")
  /\ UNCHANGED <<locks, main_core_ready, pid_num, table, current, lists, chan, visit, newp, boots>>

\* timer_interrupt_handler: wake_up(-1); handler() then calls yield().
TimerIrq(c) ==
  /\ pc[c] = "user"
  /\ chan' = [chan EXCEPT ![c] = -1]
  /\ Goto(c, "wake")
  /\ UNCHANGED <<locks, main_core_ready, pid_num, table, current, lists, visit, newp, boots>>

\* keyboard_handler: wake_up(-2).  The UART interrupt is routed to core 0.
UartIrq(c) ==
  /\ c = 0
  /\ "read_key_buffer" \in Syscalls
  /\ pc[c] = "user"
  /\ chan' = [chan EXCEPT ![c] = -2]
  /\ Goto(c, "wake")
  /\ UNCHANGED <<locks, main_core_ready, pid_num, table, current, lists, visit, newp, boots>>

-----------------------------------------------------------------------------
(* remove_list, wake_up *)

\* The positions of list l that remove_list(l, w) would accept.
Matches(l, w) == {i \in DOMAIN l : wait[l[i]] = w}

\* The position it removes: the first one.
IsFirstMatch(i, l, w) == i \in Matches(l, w) /\ \A j \in Matches(l, w) : i <= j

\* Mutant for WakeUpEmptiesChannel: if for while, one process of each list is woken.
WakeOneOfEach(c) ==
  /\ pc[c] = "wake_cs"
  /\ \E i \in DOMAIN wait_list[visit[c]] :
       LET d == visit[c] IN
       /\ IsFirstMatch(i, wait_list[d], chan[c])
       /\ state' = [state EXCEPT ![wait_list[d][i]] = "READY"]
       /\ ready_list' = [ready_list EXCEPT ![d] = Append(@, wait_list[d][i])]
       /\ wait_list' = [wait_list EXCEPT ![d] = RemoveAt(@, i)]
       /\ visit' = IF d + 1 \in Cores THEN [visit EXCEPT ![c] = d + 1] ELSE visit
  /\ UNCHANGED <<locks, main_core_ready, pid_num, pid, wait, context, call, cloned, current,
                 kill_list, pc, chan, newp, boots>>

\* One turn of wake_up's inner loop: the first match of the list it is at goes
\* back to the ready list of the same core.
WakeOne(c) ==
  /\ pc[c] = "wake_cs"
  /\ \E i \in DOMAIN wait_list[visit[c]] :
       LET d == visit[c] IN
       /\ IsFirstMatch(i, wait_list[d], chan[c])
       /\ state' = [state EXCEPT ![wait_list[d][i]] = "READY"]
       /\ ready_list' = [ready_list EXCEPT ![d] = Append(@, wait_list[d][i])]
       /\ wait_list' = [wait_list EXCEPT ![d] = RemoveAt(@, i)]
  /\ UNCHANGED <<locks, main_core_ready, pid_num, pid, wait, context, call, cloned, current,
                 kill_list, pc, chan, visit, newp, boots>>

\* remove_list has found nothing more on this list: the pass goes on to the next core's.
WakeNext(c) ==
  /\ pc[c] = "wake_cs"
  /\ Matches(wait_list[visit[c]], chan[c]) = {}
  /\ visit[c] + 1 \in Cores
  /\ visit' = [visit EXCEPT ![c] = @ + 1]
  /\ UNCHANGED <<locks, main_core_ready, pid_num, table, current, lists, pc, chan, newp, boots>>

\* The pass ends behind the last core's list, whatever is on the others by then:
\* unlock, and return to the timer handler, to the keyboard handler or to exit.
WakeReturn(c) ==
  /\ pc[c] = "wake_cs"
  /\ Matches(wait_list[visit[c]], chan[c]) = {}
  /\ visit[c] + 1 \notin Cores
  /\ process_lock' = 0
  /\ Goto(c, CASE chan[c] = -1 -> "yield" [] chan[c] = -2 -> "user" [] OTHER -> "exit")
  /\ chan' = [chan EXCEPT ![c] = 0]
  /\ visit' = [visit EXCEPT ![c] = 0]
  /\ UNCHANGED <<pid_lock, main_core_ready, pid_num, table, current, lists, newp, boots>>

-----------------------------------------------------------------------------
(* schedule, yield, sleep *)

\* Where schedule() returns to when its caller is resumed.
ScheduleReturn(l) ==
  CASE l = "yield_sched" -> "yield_rel" [] l = "sleep_sched" -> "sleep_rel"
    [] l = "exit_sched" -> "exit_ret"

\* The process schedule() picks.
NextProcess(c) == IF ready_list[c] = <<>> THEN Idle(c) ELSE Head(ready_list[c])

\* Mutant for ResumesSavedContext: swap(&current->context, ...), saved in the wrong process.
ScheduleSavesInNext(c) ==
  /\ pc[c] \in {"yield_sched", "sleep_sched", "exit_sched"}
  /\ LET next == NextProcess(c) IN
     /\ state' = [state EXCEPT ![next] = "RUNNING"]
     /\ current' = [current EXCEPT ![c] = next]
     /\ context' = [context EXCEPT ![next] = ScheduleReturn(pc[c])]
     /\ Goto(c, context[next])
  /\ ready_list' = [ready_list EXCEPT ![c] = IF @ = <<>> THEN @ ELSE Tail(@)]
  /\ UNCHANGED <<locks, main_core_ready, pid_num, pid, wait, call, cloned, wait_list, kill_list,
                 chan, visit, newp, boots>>

\* schedule(), switch_process and swap: the previous process's return point
\* is saved and the next one continues at its own, process_lock still held.
Schedule(c) ==
  /\ pc[c] \in {"yield_sched", "sleep_sched", "exit_sched"}
  /\ LET prev == current[c]
         next == NextProcess(c)
         return == ScheduleReturn(pc[c]) IN
     /\ state' = [state EXCEPT ![next] = "RUNNING"]
     /\ current' = [current EXCEPT ![c] = next]
     /\ context' = IF next = prev THEN context ELSE [context EXCEPT ![prev] = return]
     /\ Goto(c, IF next = prev THEN return ELSE context[next])
  /\ ready_list' = [ready_list EXCEPT ![c] = IF @ = <<>> THEN @ ELSE Tail(@)]
  /\ UNCHANGED <<locks, main_core_ready, pid_num, pid, wait, call, cloned, wait_list, kill_list,
                 chan, visit, newp, boots>>

\* yield with nothing ready: unlock and return.
YieldReturn(c) ==
  /\ pc[c] = "yield_cs"
  /\ ready_list[c] = <<>>
  /\ process_lock' = 0
  /\ Goto(c, "user")
  /\ UNCHANGED <<pid_lock, main_core_ready, pid_num, table, current, lists, chan, visit, newp, boots>>

\* Mutant for ReadyRuns: the yielding process goes to the head of the list.
YieldToHead(c) ==
  /\ pc[c] = "yield_cs"
  /\ ready_list[c] # <<>>
  /\ state' = [state EXCEPT ![current[c]] = "READY"]
  /\ ready_list' = [ready_list EXCEPT ![c] =
                      IF pid[current[c]] >= 4 THEN <<current[c]>> \o @ ELSE @]
  /\ Goto(c, "yield_sched")
  /\ UNCHANGED <<locks, main_core_ready, pid_num, pid, wait, context, call, cloned, current,
                 wait_list, kill_list, chan, visit, newp, boots>>

\* yield up to schedule(): idle processes (pid < 4) are not queued.
Yield(c) ==
  /\ pc[c] = "yield_cs"
  /\ ready_list[c] # <<>>
  /\ state' = [state EXCEPT ![current[c]] = "READY"]
  /\ ready_list' = [ready_list EXCEPT ![c] =
                      IF pid[current[c]] >= 4 THEN Append(@, current[c]) ELSE @]
  /\ Goto(c, "yield_sched")
  /\ UNCHANGED <<locks, main_core_ready, pid_num, pid, wait, context, call, cloned, current,
                 wait_list, kill_list, chan, visit, newp, boots>>

\* The argument each kernel function passes to sleep().
SleepChannel(fn) ==
  CASE fn = "sys_sleep" -> -1 [] fn = "read_key_buffer" -> -2 [] OTHER -> -3

\* sleep up to schedule().
Sleep(c) ==
  /\ pc[c] = "sleep_cs"
  /\ state' = [state EXCEPT ![current[c]] = "SLEEP"]
  /\ wait' = [wait EXCEPT ![current[c]] = SleepChannel(call[current[c]].fn)]
  /\ wait_list' = [wait_list EXCEPT ![c] = Append(@, current[c])]
  /\ Goto(c, "sleep_sched")
  /\ UNCHANGED <<locks, main_core_ready, pid_num, pid, context, call, cloned, current,
                 ready_list, kill_list, chan, visit, newp, boots>>

\* Mutant for LockExclusion: new processes start at trap_return, not at pstart.
ReleaseToUserNoPstart(c) ==
  /\ pc[c] \in {"pstart", "yield_rel"}
  /\ process_lock' = IF pc[c] = "pstart" THEN process_lock ELSE 0
  /\ Goto(c, "user")
  /\ UNCHANGED <<pid_lock, main_core_ready, pid_num, table, current, lists, chan, visit, newp, boots>>

\* A process resumed in pstart or behind yield's schedule(): unlock and return to it.
ReleaseToUser(c) ==
  /\ pc[c] \in {"pstart", "yield_rel"}
  /\ process_lock' = 0
  /\ Goto(c, "user")
  /\ UNCHANGED <<pid_lock, main_core_ready, pid_num, table, current, lists, chan, visit, newp, boots>>

\* A process resumed in sleep(): unlock, and back into wait's or sys_sleep's
\* loop.
ReleaseToLoop(c) ==
  /\ pc[c] = "sleep_rel"
  /\ process_lock' = 0
  /\ \/ call[current[c]].fn = "wait" /\ Goto(c, "wait")
     \/ call[current[c]].fn = "sys_sleep" /\ Goto(c, "sleep")
  /\ UNCHANGED <<pid_lock, main_core_ready, pid_num, table, current, lists, chan, visit, newp, boots>>

\* A process resumed in sleep(): unlock and leave sys_sleep or read_key_buffer.
ReleaseAndReturn(c) ==
  /\ pc[c] = "sleep_rel"
  /\ call[current[c]].fn \in {"sys_sleep", "read_key_buffer"}
  /\ process_lock' = 0
  /\ call' = [call EXCEPT ![current[c]] = NoCall]
  /\ Goto(c, "user")
  /\ UNCHANGED <<pid_lock, main_core_ready, pid_num, state, pid, wait, context, cloned,
                 current, lists, chan, visit, newp, boots>>

-----------------------------------------------------------------------------
(* System calls: issued by a process in user mode, never by the idle loop. *)

CallsInto(c, name) ==
  /\ name \in Syscalls
  /\ pc[c] = "user"
  /\ current[c] # Idle(c)

\* sys_sleep, and sys_keyboard_read on an empty buffer: the calls that sleep.
SysSleep(c) ==
  /\ \E fn \in {"sys_sleep", "read_key_buffer"} :
       CallsInto(c, fn) /\ call' = [call EXCEPT ![current[c]] = [fn |-> fn, arg |-> 0]]
  /\ Goto(c, "sleep")
  /\ UNCHANGED <<locks, main_core_ready, pid_num, state, pid, wait, context, cloned, current,
                 lists, chan, visit, newp, boots>>

\* sys_exit, exec of a missing file and a user-mode fault: exit() up to its
\* first spin_lock.
SysExit(c) ==
  /\ CallsInto(c, "exit")
  /\ state' = [state EXCEPT ![current[c]] = "KILLED"]
  /\ wait' = [wait EXCEPT ![current[c]] = pid[current[c]]]
  /\ Goto(c, "kill")
  /\ UNCHANGED <<locks, main_core_ready, pid_num, pid, context, call, cloned, current, lists,
                 chan, visit, newp, boots>>

\* Mutant for NoLostChildWakeup and WaitedForIsReaped: exit without wake_up(-3).
KillNoWakeUp(c) ==
  /\ pc[c] = "kill_cs"
  /\ kill_list' = [kill_list EXCEPT ![c] = Append(@, current[c])]
  /\ process_lock' = 0
  /\ Goto(c, "exit")
  /\ UNCHANGED <<pid_lock, main_core_ready, pid_num, table, current, ready_list, wait_list,
                 chan, visit, newp, boots>>

\* exit: onto the kill list, unlock, wake_up(-3).
Kill(c) ==
  /\ pc[c] = "kill_cs"
  /\ kill_list' = [kill_list EXCEPT ![c] = Append(@, current[c])]
  /\ process_lock' = 0
  /\ chan' = [chan EXCEPT ![c] = -3]
  /\ Goto(c, "wake")
  /\ UNCHANGED <<pid_lock, main_core_ready, pid_num, table, current, ready_list, wait_list,
                 visit, newp, boots>>

\* sys_wait.
SysWait(c) ==
  /\ CallsInto(c, "wait")
  /\ \E p \in WaitPids : call' = [call EXCEPT ![current[c]] = [fn |-> "wait", arg |-> p]]
  /\ Goto(c, "wait")
  /\ UNCHANGED <<locks, main_core_ready, pid_num, state, pid, wait, context, cloned, current,
                 lists, chan, visit, newp, boots>>

\* wait finds no such process: unlock, sleep(-3).
WaitSleeps(c) ==
  /\ pc[c] = "wait_cs"
  /\ Matches(kill_list[c], call[current[c]].arg) = {}
  /\ process_lock' = 0
  /\ Goto(c, "sleep")
  /\ UNCHANGED <<pid_lock, main_core_ready, pid_num, table, current, lists, chan, visit, newp, boots>>

\* Mutant for ReapsStoppedProcess: wait searches the kill lists of all cores.
ReapOnAnyCore(c) ==
  /\ pc[c] = "wait_cs"
  /\ \E d \in Cores : \E i \in Matches(kill_list[d], call[current[c]].arg) :
       /\ kill_list' = [kill_list EXCEPT ![d] = RemoveAt(@, i)]
       /\ state' = [state EXCEPT ![kill_list[d][i]] = "UNUSED"]
       /\ pid' = [pid EXCEPT ![kill_list[d][i]] = 0]
  /\ call' = [call EXCEPT ![current[c]] = NoCall]
  /\ process_lock' = 0
  /\ Goto(c, "user")
  /\ UNCHANGED <<pid_lock, main_core_ready, pid_num, wait, context, cloned, current, ready_list,
                 wait_list, chan, visit, newp, boots>>

\* wait reaps: stack and address space are freed and the slot is zeroed.
Reap(c) ==
  /\ pc[c] = "wait_cs"
  /\ \E i \in DOMAIN kill_list[c] : LET p == kill_list[c][i] IN
     /\ IsFirstMatch(i, kill_list[c], call[current[c]].arg)
     /\ kill_list' = [kill_list EXCEPT ![c] = RemoveAt(@, i)]
     /\ state' = [state EXCEPT ![p] = "UNUSED"]
     /\ pid' = [pid EXCEPT ![p] = 0]
     /\ wait' = [wait EXCEPT ![p] = 0]
     /\ context' = [context EXCEPT ![p] = "null"]
     /\ call' = [call EXCEPT ![p] = NoCall, ![current[c]] = NoCall]
     /\ cloned' = [cloned EXCEPT ![p] = 0]
  /\ process_lock' = 0
  /\ Goto(c, "user")
  /\ UNCHANGED <<pid_lock, main_core_ready, pid_num, current, ready_list, wait_list,
                 chan, visit, newp, boots>>

\* sys_get_processstate and getProcessState, which only reads.
SysGetPs(c) ==
  /\ CallsInto(c, "ps")
  /\ Goto(c, "ps")
  /\ UNCHANGED <<locks, main_core_ready, pid_num, table, current, lists, chan, visit, newp, boots>>

GetProcessState(c) ==
  /\ pc[c] = "ps_cs"
  /\ process_lock' = 0
  /\ Goto(c, "user")
  /\ UNCHANGED <<pid_lock, main_core_ready, pid_num, table, current, lists, chan, visit, newp, boots>>

-----------------------------------------------------------------------------
(* fork *)

\* Mutant for OnePlace, ForkReturnsClone and IInv: the search loop behind the return.
least_busy_core ==
  CHOOSE c \in Cores : \A d \in Cores :
    \/ Len(ready_list[c]) < Len(ready_list[d])
    \/ Len(ready_list[c]) = Len(ready_list[d]) /\ c <= d

\* Returns 0 before its search loop.
find_least_busy_core == 0

SysFork(c) ==
  /\ CallsInto(c, "fork")
  /\ c \in ForkCores
  /\ pid_num <= MaxPid
  /\ Goto(c, "fork")
  /\ UNCHANGED <<locks, main_core_ready, pid_num, table, current, lists, chan, visit, newp, boots>>

\* The slot comes from the target core's table; ASSERT(0) stops the core,
\* process_lock held, when the table is full.
Fork(c) ==
  /\ pc[c] = "fork_cs"
  /\ FindsSlot(c, find_least_busy_core) \/ FindsNone(c, find_least_busy_core)
  /\ UNCHANGED <<locks, main_core_ready, pid_num, table, current, lists, chan, visit, boots>>

\* copy_uvm and the copies of files and trap frame from the target core's
\* current process; the child is ready on the target core; unlock.
CopyUvm(c) ==
  LET t == newp[c][1] IN   \* target_core
  /\ pc[c] = "copy_uvm"
  /\ current[t] # Idle(t)
  /\ cloned' = [cloned EXCEPT ![newp[c]] = pid[current[t]]]
  /\ state' = [state EXCEPT ![newp[c]] = "READY"]
  /\ ready_list' = [ready_list EXCEPT ![t] = Append(@, newp[c])]
  /\ process_lock' = 0
  /\ Goto(c, "fork_ret")
  /\ UNCHANGED <<pid_lock, main_core_ready, pid_num, pid, wait, context, call, current,
                 wait_list, kill_list, chan, visit, newp, boots>>

\* copy_uvm runs out of memory (ASSERT(0)), or follows the physical page_map
\* of an idle process and faults: the core stops with process_lock held.
CopyUvmFails(c) ==
  /\ pc[c] = "copy_uvm"
  /\ KallocMayFail \/ current[newp[c][1]] = Idle(newp[c][1])
  /\ Goto(c, "halted")
  /\ UNCHANGED <<locks, main_core_ready, pid_num, table, current, lists, chan, visit, newp, boots>>

\* return process->pid, read after the unlock.
ForkReturn(c) ==
  /\ pc[c] = "fork_ret"
  /\ newp' = [newp EXCEPT ![c] = NULL]
  /\ Goto(c, "user")
  /\ UNCHANGED <<locks, main_core_ready, pid_num, table, current, lists, chan, visit, boots>>
-----------------------------------------------------------------------------
\* What the kernel does by itself, besides taking the locks.
KernelStep(c) ==
  \/ AllocStack(c) \/ AllocPid(c) \/ AllocPageMap(c)
  \/ InitIdle(c) \/ LeaveSpin(c) \/ InitProcess(c) \/ SetupUvm(c)
  \/ WakeOne(c) \/ WakeNext(c) \/ WakeReturn(c)
  \/ Schedule(c) \/ YieldReturn(c) \/ Yield(c) \/ Sleep(c)
  \/ ReleaseToUser(c) \/ ReleaseToLoop(c) \/ ReleaseAndReturn(c)
  \/ Kill(c) \/ WaitSleeps(c) \/ Reap(c) \/ GetProcessState(c)
  \/ Fork(c) \/ CopyUvm(c) \/ ForkReturn(c)

Failure(c) == AllocFails(c) \/ SetupUvmFails(c) \/ CopyUvmFails(c)

Irq(c) == TimerIrq(c) \/ UartIrq(c)

Syscall(c) == SysSleep(c) \/ SysExit(c) \/ SysWait(c) \/ SysGetPs(c) \/ SysFork(c)

Next == \E c \in Cores :
  AcquireProcessLock(c) \/ AcquirePidLock(c) \/ KernelStep(c) \/ Failure(c) \/ Irq(c) \/ Syscall(c)

Spec == Init /\ [][Next]_vars

(***************************************************************************)
(* A core executes its instructions.  Its timer interrupts it again and    *)
(* again: the timer is rearmed in the handler and the interrupt is taken   *)
(* on the return to user mode.  A core that spins on a lock that is free   *)
(* again and again obtains it: an assumption on the exclusive monitor,     *)
(* stronger than what SpinLock.tla shows of the loop.                      *)
(***************************************************************************)
Fairness == \A c \in Cores :
  /\ WF_vars(KernelStep(c)) /\ WF_vars(AcquirePidLock(c))
  /\ SF_vars(TimerIrq(c))
  /\ SF_vars(AcquireProcessLock(c))

FairSpec == Spec /\ Fairness
-----------------------------------------------------------------------------
(* Safety. *)

\* Core c holds process_lock: a core stopped in fork keeps it.
HoldsProcessLock(c) ==
  pc[c] \in LockedLabels \/ (pc[c] \in AllocLabels \cup {"halted", "halted_pid"} /\ boots[c] = 0)

HoldsPidLock(c) == pc[c] \in {"alloc", "alloc_pid", "alloc_map", "halted_pid"}

(***************************************************************************)
(* The locks exclude across context switches: each lock word is 1 exactly  *)
(* while one core is in code that believes it holds the lock, although     *)
(* process_lock is taken by one process and released by another (yield,    *)
(* sleep, exit, pstart of process.c and handler.s).                        *)
(***************************************************************************)
LockExclusion ==
  /\ process_lock = 1 <=> \E c \in Cores : HoldsProcessLock(c)
  /\ pid_lock = 1 <=> \E c \in Cores : HoldsPidLock(c)
  /\ \A c, d \in Cores : HoldsProcessLock(c) /\ HoldsProcessLock(d) => c = d
  /\ \A c, d \in Cores : HoldsPidLock(c) /\ HoldsPidLock(d) => c = d

\* Core c is making a process: it has a slot and has not made it ready.
Creating(c) == pc[c] \in AllocLabels \cup {"setup_uvm", "copy_uvm"}

OnList(l, p) == \E i \in DOMAIN l : l[i] = p

NoDuplicates(l) == \A i, j \in DOMAIN l : l[i] = l[j] => i = j

(***************************************************************************)
(* Every process is in exactly one place, the one its state names, and on  *)
(* the lists of the core whose table it is in: ready, sleeping and dead    *)
(* processes are on that list once and on no other; a running one is its   *)
(* core's current_process; one being created belongs to one creator; the   *)
(* idle processes are never queued.  The lists are intrusive (struct List  *)
(* is the first member of struct Process), so a process queued twice       *)
(* corrupts them.                                                          *)
(***************************************************************************)
OnePlace ==
  /\ \A c \in Cores :
       /\ NoDuplicates(ready_list[c])
       /\ NoDuplicates(wait_list[c])
       /\ NoDuplicates(kill_list[c])
       /\ ~OnList(ready_list[c], Idle(c))
  /\ \A p \in Slots, c \in Cores :
       /\ OnList(ready_list[c], p) => c = p[1] /\ state[p] = "READY"
       /\ OnList(wait_list[c], p) => c = p[1] /\ state[p] = "SLEEP"
       /\ OnList(kill_list[c], p) => c = p[1] /\ state[p] = "KILLED"
       /\ current[c] = p => c = p[1]
  /\ \A p \in Slots :
       /\ state[p] = "READY" => OnList(ready_list[p[1]], p) \/ p = Idle(p[1])
       /\ state[p] = "SLEEP" => OnList(wait_list[p[1]], p)
       /\ state[p] = "KILLED" =>
            OnList(kill_list[p[1]], p) \/ (current[p[1]] = p /\ pc[p[1]] \in {"kill", "kill_cs"})
       /\ state[p] = "RUNNING" => current[p[1]] = p
       /\ state[p] = "INIT" => \E c \in Cores : newp[c] = p
  /\ \A c, d \in Cores : Creating(c) /\ Creating(d) /\ newp[c] = newp[d] => c = d

(***************************************************************************)
(* schedule() only resumes what was saved: a process waiting for its turn  *)
(* (or the idle process, unless it is running) has a resume point behind   *)
(* which process_lock is released; never that of an exit.                  *)
(***************************************************************************)
ResumesSavedContext ==
  \A c \in Cores : main_core_ready /\ NextProcess(c) # current[c] =>
    context[NextProcess(c)] \in {"pstart", "yield_rel", "sleep_rel"}

(***************************************************************************)
(* Two live processes never have the same pid, though the cores draw pids  *)
(* concurrently at start-up and in fork: wait() finds children by pid.     *)
(***************************************************************************)
PidsUnique ==
  \A p, q \in Slots :
    state[p] # "UNUSED" /\ state[q] # "UNUSED" /\ pid[p] = pid[q] => p = q

(***************************************************************************)
(* No lost wake-up of a parent: a process that sleeps in wait() for a pid  *)
(* which is on its core's kill list is about to be woken, by an exit() on  *)
(* that core that has not finished its wake_up(-3).                        *)
(***************************************************************************)
NoLostChildWakeup ==
  \A c \in Cores : \A i \in DOMAIN wait_list[c], j \in DOMAIN kill_list[c] :
    LET p == wait_list[c][i] IN
    call[p].fn = "wait" /\ wait[kill_list[c][j]] = call[p].arg
      => pc[c] \in {"wake", "wake_cs"} /\ chan[c] = -3

(***************************************************************************)
(* When fork reads the pid it returns, behind its unlock, the child it     *)
(* made is still there and is a clone of the caller: not a slot that was   *)
(* reaped meanwhile, nor a copy of what another core was running.          *)
(***************************************************************************)
ForkReturnsClone ==
  \A c \in Cores : pc[c] = "fork_ret" =>
    /\ state[newp[c]] # "UNUSED"
    /\ cloned[newp[c]] = pid[current[c]]

(***************************************************************************)
(* wake_up reaches the sleepers of all cores: when a core returns from     *)
(* wake_up(w), no process of any core is left asleep on w.                 *)
(***************************************************************************)
WakeUpEmptiesChannel ==
  [][\A c \in Cores : pc[c] = "wake_cs" /\ pc'[c] # "wake_cs" =>
       \A p \in Slots : ~(state'[p] = "SLEEP" /\ wait'[p] = chan[c])]_vars

(***************************************************************************)
(* wait() frees the stack and the slot of a process only when no core is   *)
(* still executing on that stack: an exiting process is on the kill list   *)
(* while it runs wake_up(-3) and schedule().  And the dead stay dead,      *)
(* whatever the other cores' wake_up and wait do: a KILLED process is only *)
(* ever reaped, and a core only ever switches to one that was READY.       *)
(***************************************************************************)
ReapsStoppedProcess ==
  [][/\ \A p \in Slots : state[p] # "UNUSED" /\ state'[p] = "UNUSED"
          => \A c \in Cores : current[c] # p
     /\ \A p \in Slots : state[p] = "KILLED" => state'[p] \in {"KILLED", "UNUSED"}
     /\ \A c \in Cores : current'[c] # current[c] => state[current'[c]] = "READY"]_vars
-----------------------------------------------------------------------------
(* Liveness. *)

\* Every process that is ready gets to run: the ready list is served in turn.
ReadyRuns == \A p \in UserSlots : state[p] = "READY" ~> state[p] = "RUNNING"

\* A process in sys_sleep is woken: some core's timer wakes channel -1.
SleepersWake ==
  \A p \in UserSlots : state[p] = "SLEEP" /\ call[p].fn = "sys_sleep" ~> state[p] = "READY"

\* A dead process that some process of its core waits for is reaped.
WaitedForIsReaped ==
  \A p \in UserSlots :
    OnList(kill_list[p[1]], p) /\ (\E q \in Slots : /\ q[1] = p[1]
                                                   /\ call[q] = [fn |-> "wait", arg |-> pid[p]])
      ~> ~OnList(kill_list[p[1]], p)
=============================================================================
