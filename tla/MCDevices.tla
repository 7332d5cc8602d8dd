----------------------------- MODULE MCDevices -----------------------------
(***************************************************************************)
(* The parts of the kernel that run beside the scheduler, all with the     *)
(* fairness of their modules: the keyboard buffer, sys_sleep on the tick   *)
(* counter, the console and the start of the machine.  They share no       *)
(* variable, so their interleavings add nothing: a behaviour exercises the *)
(* one named by part, and the others stay as they were initialised.        *)
(* Keyboard is extended, so that its assumption is evaluated with it.      *)
(* DevicesProofs proves the safety properties for every value of the       *)
(* constants.                                                              *)
(*                                                                         *)
(* Keyboard: one reader on core 0, two keys, a buffer of four slots, which *)
(* wraps around and fills up.  Beyond OneReader ImplementsKeyQueue fails,  *)
(* in two ways.  With two readers on core 0 one key wakes both and both    *)
(* advance front.  With one reader on core 1 a key may be read between     *)
(* write_key_buffer and wake_up: the wake-up then ends the next read's     *)
(* sleep beside an empty buffer.                                           *)
(*                                                                         *)
(* Ticks: the timers of two cores, whose increments race, and a counter of *)
(* three bits, as the model's counter has to wrap around somewhere.        *)
(* Sleeps do end early here: without its second disjunct LongEnough fails. *)
(*                                                                         *)
(* Console: two cores in printk, with two messages each, and one in        *)
(* sys_write with one, of two characters.  Boot: the code's own addresses, *)
(* and four cores.                                                         *)
(***************************************************************************)
EXTENDS Keyboard, FiniteSets

CONSTANTS Timers, Home, Sleeper, Width, MaxSleep, Lag, Stale,   \* of Ticks
          Kernel, User, MessageSize, Printks, Writes,           \* of Console
          Secondary, Ends                                       \* of Boot

VARIABLES part,
          running, ticks, tpc, loaded, missed, spc, old, want, elapsed, overwritten, waited,
          print_lock, pc, i, left, uart, line,
          step, pa, pmd1, pmd2, pmd0, linked, mmu, image, fs, spin_table, main_core_ready,
          initialised, heap, at

T == INSTANCE Ticks WITH Core <- Timers

C == INSTANCE Console WITH Size <- MessageSize,
       Messages <- [c \in Kernel \cup User |-> IF c \in Kernel THEN Printks ELSE Writes]

B == INSTANCE Boot

keyboard == vars   \* of Keyboard
timers == <<running, ticks, tpc, loaded, missed, spc, old, want, elapsed, overwritten, waited>>
console == <<print_lock, pc, i, left, uart, line>>
boot == <<step, pa, pmd1, pmd2, pmd0, linked, mmu, image, fs, spin_table, main_core_ready,
          initialised, heap, at>>
mcvars == <<part, keyboard, timers, console, boot>>

(* The bounds of sys_sleep are far below the modulus, as Ticks assumes. *)
ASSUME SleepBounds ==
  /\ Home \in Timers /\ IsFiniteSet(Timers)
  /\ MaxSleep \in Nat /\ Lag \in Nat /\ Stale \in Nat /\ 2^Width \in Nat
  /\ MaxSleep + Lag + Stale < 2^Width

(* A core runs printk or a program; one of the programs writes, as LineIsWhole needs it. *)
ASSUME ConsoleAssumption ==
  /\ Kernel \cap User = {}
  /\ MessageSize \in Nat \ {0} /\ Printks \in Nat /\ Writes \in Nat

ASSUME WriterAssumption == C!OneWriter

(* Core 0 is not among the cores it starts, and the kernel ends at a page. *)
ASSUME BootAssumption == 0 \notin Secondary /\ Ends \subseteq Nat

(* Keyboard is instantiated as ImplementsKeyQueue needs it. *)
ASSUME QueueAssumption == OneReader

Parts == {"keyboard", "timers", "console", "boot"}

MCInit ==
  /\ part \in Parts
  /\ Init /\ T!Init /\ C!Init /\ B!Init

(* A part that has done its work and may stop. *)
Finished ==
  /\ \/ part = "console" /\ C!Finished
     \/ part = "boot" /\ B!Running
  /\ UNCHANGED mcvars

MCNext ==
  \/ part = "keyboard" /\ Next /\ UNCHANGED <<part, timers, console, boot>>
  \/ part = "timers" /\ T!Next /\ UNCHANGED <<part, keyboard, console, boot>>
  \/ part = "console" /\ C!Next /\ UNCHANGED <<part, keyboard, timers, boot>>
  \/ part = "boot" /\ B!Next /\ UNCHANGED <<part, keyboard, timers, console>>
  \/ Finished

(* The fair steps of a part are disabled until something starts it. *)
MCFairness == Fairness /\ T!Fairness /\ C!Fairness /\ B!Fairness

MCSpec == MCInit /\ [][MCNext]_mcvars /\ MCFairness
-----------------------------------------------------------------------------
(* The state of every part has its type: indices stay in the ring buffer, counters in range. *)
MCTypeOK == TypeOK /\ T!TypeOK /\ C!TypeOK /\ B!TypeOK

(***************************************************************************)
(* With every core's timer running, sys_sleep(n) returns before n timer    *)
(* interrupts have been counted only if meanwhile a store of ticks++       *)
(* overwrote an increment that another core had made after the load.       *)
(***************************************************************************)
EarlyOnlyAfterRace == T!EarlyOnlyAfterRace

(* Every sys_sleep returns, also when the increments of two cores race. *)
SleepEnds == T!SleepEnds

(***************************************************************************)
(* Every character a core has written is on the line or in the UART, in    *)
(* order, although the flag was read before other cores wrote; and the     *)
(* messages of printk are not mixed with one another.                      *)
(***************************************************************************)
LineIsWhole == C!LineIsWhole

(* Every printk and sys_write returns: no core is held up by print_lock or by the flag. *)
AllWritten == C!AllWritten

(***************************************************************************)
(* Once any core has translation on, each page the kernel uses is mapped   *)
(* to itself, memory as normal and devices as device memory; no core       *)
(* creates a process before core 0 has set up what it needs; and the file  *)
(* system is in its place, outside the heap, when init_fs reads it.        *)
(***************************************************************************)
ReadyBeforeUse == B!ReadyBeforeUse

(* Once core 0 has started, all cores come up, whatever their order. *)
AllCoresStart == B!AllCoresStart
=============================================================================
