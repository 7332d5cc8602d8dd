-------------------------------- MODULE Boot --------------------------------
(***************************************************************************)
(* From reset to the first processes: setup_vm2 builds the kernel's page   *)
(* tables, enable_mmu turns translation on, boot.s moves the file system   *)
(* image and clears .bss, KMain releases the other cores and initialises   *)
(* the kernel, and the cores wait for main_core_ready before they use it   *)
(* (src/src/boot.s, src/src/mmu.s, src/src/memory.c, src/src/main.c).      *)
(*                                                                         *)
(* Addresses are counted in pages of 2 MB and have the values of the code. *)
(* A descriptor is a pair of a page and an index into MAIR_EL1.            *)
(***************************************************************************)
EXTENDS Integers, Sequences

CONSTANTS Secondary,   \* the cores besides core 0
          Ends         \* the possible values of PA_UP(&end)

Core == Secondary \cup {0}

Pages(first, end) == first..end - 1

RAM_MAX_ADDR == 416
PERIPHERAL_BASE == 504
PERIPHERAL_END == 512
LOCAL_PERIPH_BASE == 512
LOCAL_PERIPH_END == 520
MEMORY_END == 384
FS_BASE == 384
FS_END == 409     \* FS_SIZE is 101 * 16 * 63 * 512 bytes

NORMAL == 1       \* TD_ATTR_NORMAL and TD_ATTR_DEVICE
DEVICE == 0

Invalid == <<>>

VARIABLES step,          \* where core 0 is: the number of steps of Order it has done
          pa,            \* the loop variable of setup_vm2
          pmd1, pmd2, pmd0,   \* the valid entries of the last tables of TTBR1 and TTBR0
          linked,        \* the tables that higher ones point to
          mmu,           \* the cores with translation on
          image,         \* what lies behind .data: the file system or zeros
          fs,            \* what FS_BASE holds
          spin_table,    \* the cores that core 0 has released
          main_core_ready,
          initialised,   \* the parts of the kernel that are initialised
          heap,          \* the pages that the allocator was given
          at             \* where each secondary core is

tables == <<pa, pmd1, pmd2, pmd0, linked>>
vars == <<step, tables, mmu, image, fs, spin_table, main_core_ready, initialised, heap, at>>

(* What core 0 does, in order: start, setup_vm2, enable_mmu, boot.s, KMain. *)
Order == <<"start", "pud", "pmd", "ram", "periph", "local", "ttbr0", "enable_mmu", "memcpy", "memset",
           "init_uart", "start_secondary_core", "init_memory", "init_fs", "init_system_call",
           "init_process", "init_timer", "init_interrupt_controller", "ready", "enable_irq", "idle">>

At(s) == Order[step + 1] = s
Advance == step' = step + 1

TypeOK ==
  /\ step \in 0..Len(Order) - 1
  /\ pa \in Nat
  /\ \A table \in {pmd1, pmd2, pmd0} : DOMAIN table \subseteq 0..511
  /\ linked \subseteq {"pud1", "pmd1", "pmd2", "pmd0"}
  /\ mmu \subseteq Core /\ spin_table \subseteq Secondary
  /\ image \in {"files", "zeros"} /\ fs \in {"nothing", "files", "zeros"}
  /\ main_core_ready \in {0, 1}
  /\ heap \subseteq Pages(0, MEMORY_END)
  /\ at \in [Secondary -> {"parked", "entry", "waiting", "init_process", "init_timer",
                            "enable_irq", "running"}]

Init ==
  /\ step = 0 /\ pa = 0
  /\ pmd1 = <<>> /\ pmd2 = <<>> /\ pmd0 = <<>>
  /\ linked = {} /\ mmu = {}
  /\ image = "files" /\ fs = "nothing"
  /\ spin_table = {} /\ main_core_ready = 0
  /\ initialised = {} /\ heap = {}
  /\ at = [c \in Secondary |-> "parked"]

Others == <<mmu, image, fs, spin_table, main_core_ready, initialised, heap, at>>
-----------------------------------------------------------------------------
(* start, kernel_entry and el1_entry: core 0 leaves EL2 and takes its stack. *)
Start == At("start") /\ Advance /\ UNCHANGED <<tables, Others>>

(* setup_vm2: PGD[0] and PUD[0] of TTBR1. *)
Link(s, table) ==
  /\ At(s) /\ Advance
  /\ linked' = linked \cup {table}
  /\ UNCHANGED <<pa, pmd1, pmd2, pmd0, Others>>

(* A loop of setup_vm2 over pa. *)
Loop(s, end, next) ==
  /\ At(s)
  /\ IF pa + 1 < end THEN pa' = pa + 1 /\ UNCHANGED step ELSE pa' = next /\ Advance

(* A table in which entry n is written. *)
Entered(table, n, descriptor) ==
  [m \in DOMAIN table \cup {n} |-> IF m = n THEN descriptor ELSE table[m]]

MapRam ==
  /\ Loop("ram", RAM_MAX_ADDR, PERIPHERAL_BASE)
  /\ pmd1' = Entered(pmd1, pa, <<pa, NORMAL>>)
  /\ UNCHANGED <<pmd2, pmd0, linked, Others>>

MapPeripherals ==
  /\ Loop("periph", PERIPHERAL_END, LOCAL_PERIPH_BASE)
  /\ pmd1' = Entered(pmd1, pa, <<pa, DEVICE>>)
  /\ UNCHANGED <<pmd2, pmd0, linked, Others>>

(* PUD[1] and the interrupt controller and timers of the cores. *)
MapLocal ==
  /\ Loop("local", LOCAL_PERIPH_END, 0)
  /\ linked' = linked \cup {"pmd2"}
  /\ pmd2' = Entered(pmd2, pa - LOCAL_PERIPH_BASE, <<pa, DEVICE>>)
  /\ UNCHANGED <<pmd1, pmd0, Others>>

(* TTBR0: the first page, where boot.s still runs and the spin table is. *)
MapLow ==
  /\ At("ttbr0") /\ Advance
  /\ linked' = linked \cup {"pmd0"}
  /\ pmd0' = Entered(pmd0, 0, <<0, NORMAL>>)
  /\ UNCHANGED <<pa, pmd1, pmd2, Others>>

SetupVm2 == Link("pud", "pud1") \/ Link("pmd", "pmd1") \/ MapRam \/ MapPeripherals \/ MapLocal \/ MapLow
-----------------------------------------------------------------------------
(* enable_mmu of core 0. *)
EnableMmu ==
  /\ At("enable_mmu") /\ Advance
  /\ mmu' = mmu \cup {0}
  /\ UNCHANGED <<tables, image, fs, spin_table, main_core_ready, initialised, heap, at>>

(* boot.s: the image behind .data is copied to FS_BASE. *)
CopyFs ==
  /\ At("memcpy") /\ Advance
  /\ fs' = image
  /\ UNCHANGED <<tables, mmu, image, spin_table, main_core_ready, initialised, heap, at>>

(* boot.s: .bss, which lies where the image was, is cleared. *)
ClearBss ==
  /\ At("memset") /\ Advance
  /\ image' = "zeros"
  /\ UNCHANGED <<tables, mmu, fs, spin_table, main_core_ready, initialised, heap, at>>

StartSecondaryCores ==
  /\ At("start_secondary_core") /\ Advance
  /\ spin_table' = Secondary
  /\ UNCHANGED <<tables, mmu, image, fs, main_core_ready, initialised, heap, at>>

(* init_memory: buddy_init from PA_UP(&end) to MEMORY_END. *)
InitMemory ==
  /\ At("init_memory") /\ Advance
  /\ \E end \in Ends : heap' = Pages(end, MEMORY_END)
  /\ initialised' = initialised \cup {"init_memory"}
  /\ UNCHANGED <<tables, mmu, image, fs, spin_table, main_core_ready, at>>

(* Mutant for ReadyBeforeUse: the other cores are let go before the processes are set up. *)
KMainReadyEarly ==
  \E s \in {"init_uart", "init_fs", "init_system_call", "init_process", "init_timer",
            "init_interrupt_controller", "enable_irq"} :
     /\ At(s) /\ Advance
     /\ initialised' = initialised \cup {s}
     /\ main_core_ready' = IF s = "init_uart" THEN 1 ELSE main_core_ready
     /\ UNCHANGED <<tables, mmu, image, fs, spin_table, heap, at>>

(* The other calls of KMain. *)
KMain ==
  \E s \in {"init_uart", "init_fs", "init_system_call", "init_process", "init_timer",
            "init_interrupt_controller", "enable_irq"} :
     /\ At(s) /\ Advance
     /\ initialised' = initialised \cup {s}
     /\ UNCHANGED <<tables, mmu, image, fs, spin_table, main_core_ready, heap, at>>

(* Mutant for AllCoresStart: the store is lost. *)
NeverReady == At("ready") /\ Advance /\ UNCHANGED <<tables, Others>>

Ready ==
  /\ At("ready") /\ Advance
  /\ main_core_ready' = 1
  /\ UNCHANGED <<tables, mmu, image, fs, spin_table, initialised, heap, at>>

Core0 == SetupVm2 \/ EnableMmu \/ CopyFs \/ ClearBss \/ StartSecondaryCores \/ InitMemory \/ KMain \/ Ready
-----------------------------------------------------------------------------
Goto(c, from, to) == at[c] = from /\ at' = [at EXCEPT ![c] = to]

(* The spin table sends a core to start, el1_entry and slave_loop. *)
Released(c) ==
  /\ c \in spin_table
  /\ Goto(c, "parked", "entry")
  /\ UNCHANGED <<step, tables, mmu, image, fs, spin_table, main_core_ready, initialised, heap>>

(* slave_loop: enable_mmu, then secondary_main. *)
SlaveLoop(c) ==
  /\ Goto(c, "entry", "waiting")
  /\ mmu' = mmu \cup {c}
  /\ UNCHANGED <<step, tables, image, fs, spin_table, main_core_ready, initialised, heap>>

(* while (main_core_ready == 0), init_process, init_timer, enable_irq. *)
SecondaryMain(c) ==
  /\ \/ main_core_ready = 1 /\ Goto(c, "waiting", "init_process")
     \/ Goto(c, "init_process", "init_timer")
     \/ Goto(c, "init_timer", "enable_irq")
     \/ Goto(c, "enable_irq", "running")
  /\ UNCHANGED <<step, tables, mmu, image, fs, spin_table, main_core_ready, initialised, heap>>

(* One more turn of the loop over main_core_ready. *)
Wait(c) == at[c] = "waiting" /\ main_core_ready = 0 /\ UNCHANGED vars

Slave(c) == Released(c) \/ SlaveLoop(c) \/ SecondaryMain(c)

Next == Start \/ Core0 \/ \E c \in Secondary : Slave(c) \/ Wait(c)

(* Once the machine is on, every core keeps running. *)
Fairness == WF_vars(Core0) /\ \A c \in Secondary : WF_vars(Slave(c))

FairSpec == Init /\ [][Next]_vars /\ Fairness
-----------------------------------------------------------------------------
(* The walk of the MMU for a kernel address, P2V(page), and for a low one. *)
Valid(table, n) == IF n \in DOMAIN table THEN table[n] ELSE Invalid

Ttbr1(page) ==
  CASE {"pud1", "pmd1"} \subseteq linked /\ page < 512 -> Valid(pmd1, page)
    [] {"pud1", "pmd2"} \subseteq linked /\ page \in 512..1023 -> Valid(pmd2, page - 512)
    [] OTHER -> Invalid

Ttbr0(page) == IF "pmd0" \in linked THEN Valid(pmd0, page) ELSE Invalid

(* The pages of devices that the kernel uses: IRQ_BASIC_PENDING, UART0_DR, CNTP_EL0. *)
Devices == {504, 505, 512}

(***************************************************************************)
(* Once any core has translation on, each page the kernel uses - its own,  *)
(* the allocator's up to MEMORY_END, the file system's and the devices' -  *)
(* is mapped to itself, memory as normal and devices as device memory; the *)
(* code that has just turned it on and the spin table are mapped low.      *)
(***************************************************************************)
MapsKernel ==
  mmu # {} =>
     /\ \A page \in Pages(0, MEMORY_END) \cup Pages(FS_BASE, FS_END) : Ttbr1(page) = <<page, NORMAL>>
     /\ \A page \in Devices : Ttbr1(page) = <<page, DEVICE>>
     /\ Ttbr0(0) = <<0, NORMAL>>

(***************************************************************************)
(* No core creates a process before the allocator, the file system and the *)
(* process tables are set up, although core 0 releases the others first;   *)
(* and the image is in its place, outside the heap, when init_fs reads it. *)
(***************************************************************************)
InitialisedBeforeUse ==
  /\ \A c \in Secondary : at[c] \in {"init_process", "init_timer", "enable_irq", "running"} =>
        {"init_uart", "init_memory", "init_fs", "init_system_call", "init_process"} \subseteq initialised
  /\ "init_fs" \in initialised =>
        fs = "files" /\ 0 \in mmu /\ heap \cap Pages(FS_BASE, FS_END) = {}

(* Every page and every part of the kernel is ready when it is first used. *)
ReadyBeforeUse == MapsKernel /\ InitialisedBeforeUse

Running == At("idle") /\ \A c \in Secondary : at[c] = "running"

(* Once core 0 has started, all cores come up, whatever their order. *)
AllCoresStart == step > 0 ~> Running
=============================================================================
