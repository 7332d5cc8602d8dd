---------------------------- MODULE SchedulerInv ----------------------------
(***************************************************************************)
(* The inductive invariant of Scheduler.tla.  LockExclusion, TypeOK and    *)
(* OnePlace are not inductive alone: that the process a core switches to   *)
(* releases process_lock depends on what its saved context is, which       *)
(* depends on where processes are, which depends on the lock.              *)
(***************************************************************************)
EXTENDS Scheduler

Resumable == {"pstart", "yield_rel", "sleep_rel"}

BootLabels == {"kmain", "spin", "init_process", "setup_uvm"}

HaltLabels == {"halted", "halted_pid"}

WakeLabels == {"wake", "wake_cs"}

\* Control points of the kernel on behalf of a process that is alive.
RunningLabels == {"user", "yield", "yield_cs", "sleep", "sleep_cs", "wait", "wait_cs", "fork",
                  "fork_cs", "ps", "ps_cs", "fork_ret"} \cup Resumable

\* Where the idle loop can be.
IdleLabels == {"user", "yield", "yield_cs", "yield_sched", "yield_rel"} \cup WakeLabels

\* Where a slot in state INIT can be waiting to be made ready.
InitLabels == {"alloc_pid", "alloc_map", "setup_uvm", "copy_uvm"} \cup HaltLabels

\* The start-up order: core 0 first, alone; each core on its idle process.
BootOK(c) ==
  /\ ~main_core_ready /\ c # 0 => pc[c] = "spin"
  /\ pc[c] = "kmain" => c = 0
  /\ pc[c] = "spin" => c # 0
  /\ pc[c] \in BootLabels => boots[c] > 0
  /\ boots[c] > 0 =>
       /\ pc[c] \in BootLabels \cup AllocLabels \cup HaltLabels
       /\ current[c] = Idle(c)
       /\ pc[0] # "kmain" => state[Idle(c)] = "RUNNING"

BootInv == (main_core_ready <=> boots[0] = 0) /\ \A c \in Cores : BootOK(c)

\* What is on a list, and that it is there once.
ListInv ==
  /\ \A c \in Cores :
       /\ NoDuplicates(ready_list[c])
       /\ NoDuplicates(wait_list[c])
       /\ NoDuplicates(kill_list[c])
  /\ \A c \in Cores, p \in Slots :
       /\ OnList(ready_list[c], p) => p[1] = c /\ p[2] # 0 /\ state[p] = "READY"
       /\ OnList(wait_list[c], p) => p[1] = c /\ p[2] # 0 /\ state[p] = "SLEEP"
       /\ OnList(kill_list[c], p) => p[1] = c /\ p[2] # 0 /\ state[p] = "KILLED"

\* The state of a core's current process at each control point.
CurrentOK(c) ==
  /\ current[c][1] = c
  /\ pc[c] \in RunningLabels \cup {"copy_uvm"} => state[current[c]] = "RUNNING"
  /\ boots[c] = 0 /\ pc[c] \in AllocLabels \cup HaltLabels => state[current[c]] = "RUNNING"
  /\ pc[c] \in WakeLabels =>
       /\ chan[c] # 0
       /\ chan[c] # -3 => state[current[c]] = "RUNNING"
       /\ chan[c] = -3 => state[current[c]] = "KILLED" /\ OnList(kill_list[c], current[c])
  /\ pc[c] \in {"kill", "kill_cs"} =>
       state[current[c]] = "KILLED" /\ ~OnList(kill_list[c], current[c])
  /\ pc[c] \in {"exit", "exit_sched"} =>
       state[current[c]] = "KILLED" /\ OnList(kill_list[c], current[c])
  /\ pc[c] = "yield_sched" => state[current[c]] = "READY" /\ ready_list[c] # <<>>
  /\ pc[c] = "sleep_sched" => state[current[c]] = "SLEEP"
  /\ pc[c] # "exit_ret"
  /\ boots[c] = 0 /\ current[c] = Idle(c) => pc[c] \in IdleLabels /\ (pc[c] \in WakeLabels => chan[c] # -3)

CurrentInv == \A c \in Cores : CurrentOK(c)

\* What swap() would resume.
ContextInv ==
  /\ \A p \in Slots :
       p[2] # 0 /\ state[p] \in {"READY", "RUNNING", "SLEEP"} => context[p] \in Resumable
  /\ \A c \in Cores :
       current[c] # Idle(c) => context[Idle(c)] = "yield_rel" /\ state[Idle(c)] = "READY"

\* The idle processes keep their pids, other processes have larger ones.
PidInv ==
  /\ pid_num >= 4
  /\ \A c \in Cores : pc[0] # "kmain" => pid[Idle(c)] = c
  /\ \A p \in Slots : p[2] # 0 /\ state[p] # "UNUSED" => pid[p] >= 4

\* A slot being filled: by whom, and how far it is.
CreateOK(c) ==
  /\ Creating(c) \/ pc[c] = "fork_ret" =>
       newp[c] \in UserSlots /\ newp[c][1] = (IF boots[c] > 0 THEN c ELSE 0)
  /\ pc[c] \in {"alloc_lock", "alloc"} => state[newp[c]] = "UNUSED"
  /\ pc[c] \in {"alloc_pid", "alloc_map", "setup_uvm", "copy_uvm"} => state[newp[c]] = "INIT"
  /\ pc[c] \in {"alloc_map", "setup_uvm", "copy_uvm"} => context[newp[c]] = "pstart"

CreateInv == \A c \in Cores : CreateOK(c)

\* No process is lost: each one is where its state says.
PlaceOK(p) ==
  /\ state[p] = "READY" => OnList(ready_list[p[1]], p) \/ p = Idle(p[1])
  /\ state[p] = "SLEEP" => OnList(wait_list[p[1]], p)
  /\ state[p] = "KILLED" =>
       OnList(kill_list[p[1]], p) \/ (current[p[1]] = p /\ pc[p[1]] \in {"kill", "kill_cs"})
  /\ state[p] = "RUNNING" => current[p[1]] = p
  /\ state[p] = "INIT" => \E c \in Cores : newp[c] = p /\ pc[c] \in InitLabels

PlaceInv == \A p \in Slots : PlaceOK(p)

(***************************************************************************)
(* The invariant: the start-up order, where each process is, what each     *)
(* core is doing with its current process, what it would resume, and who   *)
(* holds the locks.                                                        *)
(***************************************************************************)
IInv == /\ TypeOK /\ LockExclusion /\ BootInv /\ ListInv /\ CurrentInv
        /\ ContextInv /\ PidInv /\ CreateInv /\ PlaceInv
-----------------------------------------------------------------------------
(* What four properties need besides IInv. *)

(***************************************************************************)
(* A pid below pid_num is drawn; the one that equals pid_num is between    *)
(* its load and its store, under pid_lock.                                 *)
(***************************************************************************)
PidsDrawn ==
  /\ pc[0] = "kmain" => \A p \in Slots : state[p] = "UNUSED"
  /\ \A p \in Slots : state[p] # "UNUSED" =>
       pid[p] < pid_num \/ \E c \in Cores : pc[c] = "alloc_pid" /\ newp[c] = p
  /\ \A c \in Cores : pc[c] = "alloc_pid" => pid[newp[c]] = pid_num
  /\ PidsUnique

(***************************************************************************)
(* wake_up's pass over the lists: it starts at core 0, and no process has  *)
(* gone to sleep on the channel again on a list that it has been past.     *)
(***************************************************************************)
PassOK(c) ==
  /\ pc[c] # "wake_cs" => visit[c] = 0
  /\ pc[c] = "wake_cs" =>
       \A d \in Cores, p \in Slots : d < visit[c] /\ OnList(wait_list[d], p) => wait[p] # chan[c]

PassInv == \A c \in Cores : PassOK(c)

\* Process q is one that p, in wait(), is looking for.
Awaits(p, q) == call[p].fn = "wait" /\ wait[q] = call[p].arg

(***************************************************************************)
(* A sleeper sleeps on the channel of the function it is in; a process on  *)
(* its way from wait()'s search to sleep() has still nothing to reap; and  *)
(* if one that sleeps has, its core is in exit()'s wake_up(-3).            *)
(***************************************************************************)
SleepersOK ==
  \A p \in Slots : state[p] = "SLEEP" => wait[p] = SleepChannel(call[p].fn)

NothingToReap(c) ==
  pc[c] \in {"sleep", "sleep_cs"} =>
    \A q \in Slots : OnList(kill_list[c], q) => ~Awaits(current[c], q)

WakesParent(c) ==
  (\E p, q \in Slots : OnList(wait_list[c], p) /\ OnList(kill_list[c], q) /\ Awaits(p, q))
    => pc[c] \in WakeLabels /\ chan[c] = -3

WaitInv == SleepersOK /\ \A c \in Cores : NothingToReap(c) /\ WakesParent(c)

\* Core c is in fork().
Forking(c) ==
  \/ pc[c] \in {"fork", "fork_cs", "copy_uvm", "fork_ret"}
  \/ pc[c] \in AllocLabels /\ boots[c] = 0

\* With programs that fork on core 0 only, fork() runs there only and its
\* child stays ready, and a clone of the caller, until fork() returns.
ForkInv ==
  /\ \A c \in Cores : Forking(c) => c \in ForkCores
  /\ \A c \in Cores : pc[c] = "fork_ret" =>
       state[newp[c]] = "READY" /\ cloned[newp[c]] = pid[current[c]]
=============================================================================
