# TinyMultiCoreOSDI: TLA+ models and proofs

The repository is a small AArch64 kernel for the Raspberry Pi 3 (QEMU `raspi3b`), extended
from one core to four: per-core process tables and run queues, one global `process_lock`, a
buddy allocator of 2 MB pages, and a read-only FAT16 file system in memory. The models follow
the code of `src/src`; paths below are relative to the repository.

## Inventory

| Component | State | Operations | Interacts through |
|---|---|---|---|
| spin locks (`liba.s`) | one lock word each: `process_lock`, `pid_lock`, `list_lock`, `allocator.lock` | `spin_lock`, `spin_unlock` | shared memory, exclusive monitor |
| processes and scheduling (`process.c`) | `process_table[4][30]`, `pc[4]` (current process, ready, wait and kill lists), `pid_num` | `yield`, `sleep`, `wake_up`, `exit`, `wait`, `fork`, `exec`, `getProcessState`, start-up | called from interrupts and system calls; `process_lock` across `swap` |
| process lists (`lib.c`) | `next`/`tail` pointers in `struct Process` | append, remove head, remove by channel | always under `process_lock`, except at start-up |
| start-up (`boot.s`, `mmu.s`, `main.c`) | kernel page tables, MMU on or off per core, `.bss` and the file system image, spin table, `main_core_ready` | `setup_vm2`, `enable_mmu`, `KMain`, `secondary_main` | core 0 releases cores 1 to 3 |
| traps (`handler.c`, `handler.s`) | `ticks`, trap frames, saved contexts | timer, UART, system call, fault; `pstart`, `swap` | `wake_up`, `yield`, `system_call` |
| page allocator (`memory.c`) | `allocator.free_lists`, whose nodes lie in the free pages | `buddy_init`, `kalloc`, `kfree` | `allocator.lock` |
| address spaces (`memory.c`) | stack, three tables and one page of each process | `setup_uvm`, `copy_uvm`, `map_page`, `free_page`, `free_table`, `free_vm` | `kalloc`, `kfree`, called by start-up, `fork`, `wait` |
| open files (`file.c`) | `fcb_table`, `file_desc_table`, `Process.file` | `open_file`, `read_file`, `close_file` | no lock; `fork` and `wait` copy and drop references |
| FAT16 reader (`file.c`) | none (the image is constant) | `search_file`, `split_path`, `read_raw_data` | called by `open_file` and `read_file` |
| keyboard (`keyboard.c`, `uart.c`) | ring buffer of 500; the UART's data register and receive interrupt | `uart_handler`, `keyboard_handler`, `read_key_buffer` | interrupt on core 0, channel -2 |
| timer (`handler.c`, `syscall.c`) | `ticks`, a timer per core | `timer_interrupt_handler`, `sys_sleep` | channel -1; no lock on `ticks` |
| console (`print.c`, `uart.c`) | `print_lock`, the UART | `printk`, `sys_write`, `write_char` | printk locks, sys_write does not |
| memory functions (`liba.s`) | registers | `memset`, `memcmp`, `memcpy` = `memmove` | called everywhere |

What is hard here: the kernel runs with interrupts masked, so within a core it is sequential,
but four cores run it at once; `process_lock` is taken by one process and released by another
after a context switch; `exit` releases the lock twice before it is off its stack; the file
tables and `ticks` have no lock at all; the allocator's lists can be damaged by an unlucky order
of frees; the console and the keyboard test a flag and act on it later. `PROJECT.json` lists these
hazards with their lines and the properties that cover them.

What makes each part correct: a lock excludes and is obtained; every process is in one place, runs
again, and is freed once, by the right one; no page is handed out twice, shared or leaked; a file is
closed by its last user and read as it is on the image; a key that the interrupt handler has read and a
character that is written are neither lost nor doubled nor reordered; a sleep lasts what was asked, unless
two cores' `ticks++` collide, and it ends; nothing is used before it is set up.

## Modules

| Module | What it is |
|---|---|
| `Exclusion` | abstract lock: at most one holder |
| `SpinLock` | `liba.s` instruction by instruction, with the exclusive monitor; implements `Exclusion` |
| `SpinLockProofs` | typing, exclusion and refinement, proved |
| `Scheduler` | `process.c` with the entry points of `handler.c`, `syscall.c`, `main.c` |
| `SchedulerInv` | the inductive invariant `IInv` and what is added to it for processes |
| `SchedulerProofs` | `IInv`, what follows from it, and what the scheduler promises its processes, proved |
| `Buddy` | `kalloc`/`kfree` and `buddy_init` with the pointers of the lists |
| `BuddyProofs` | the lists are sound, no page is handed out twice, proved |
| `AddressSpace` | the pages of processes, from `alloc_new_process` to `free_vm` |
| `FileTable` | FCB and descriptor tables, reference counts, positions |
| `FileTableProofs` | exact counts and how reads move positions, on one core, proved |
| `FatRead`, `FatNames` | `read_raw_data` cluster by cluster; `split_path` and `search_file` |
| `ListQueues` | abstract process lists: sequences with atomic operations |
| `ProcessLists` | `lib.c` with its pointers and `list_lock`; implements `ListQueues` |
| `ProcessListsProofs` | that refinement for any number of lists and processes, proved |
| `KeyQueue` | abstract keyboard: a bounded queue |
| `Keyboard` | ring buffer, interrupt handler and readers; implements `KeyQueue` |
| `Ticks` | `ticks++` of all cores and `sys_sleep` |
| `Console` | `printk` and `sys_write` down to the UART, character by character |
| `PrintFormat` | the format loop of `printk` and its conversions |
| `MemLib` | `memset`, `memcmp`, `memcpy` with their registers |
| `MemLibProofs` | what they promise, for any memory, proved |
| `Boot` | reset to the first processes: page tables, MMU, image, `.bss`, `KMain`, the other cores |
| `MCSpinLock`, `MCScheduler`, `MCBuddy`, `MCFileTable` | instances for TLC |
| `MCDevices` | instances of `Keyboard`, `Ticks`, `Console`, `Boot`, checked with their fairness |
| `DevicesProofs` | the ring is a queue, only the race on `ticks` cuts a sleep short, console lines whole, cores start ready, types, proved |
| `MCRoutines` | instances of `MemLib`, `PrintFormat`, `FatNames`, `FatRead`, `AddressSpace`, `ProcessLists` |
| `RoutinesProofs` | every page has one owner, fork copies, files are read and found, memory functions work, types, proved |

`MCDevices` and `MCRoutines` choose one component at the start (`part`) and let only that one step.
`Keyboard` and `AddressSpace` are extended there, so that their assumptions are evaluated and the runs check
the very properties the theorems state; the others are instances. The theorems of `DevicesProofs`,
`ProcessListsProofs` and `RoutinesProofs` are about `MCSpec` with its constants left open, so they speak of the properties the runs check.
The components share no variable, so every behaviour of each is there, and interleaving them would
multiply states and add nothing. Where components do interact through state, the interaction is
inside one module: interrupt and reader in `Keyboard`, timers and sleepers in `Ticks`, start-up of all
cores in `Scheduler` and `Boot`, allocation of several cores in `AddressSpace`.

Mutants (definitions marked "Mutant for ...") are variants of an operation with a
plausible bug; substituting one must break the property it names. They are not part of any
specification.

### Scheduler: correspondence with the code

`pc[c]` is the kernel's control point on core `c`, or `"user"` while the current process or the
idle loop executes with interrupts enabled; interrupts and system calls are the actions enabled
there. The fields of `struct Process` are functions on `Slots = Cores \X 0..NUM_PROC-1`; slot 0
of each core is its idle process. `context[p]` abstracts the saved stack by what matters: the
point `swap` returns to (`pstart`, behind `schedule` in `yield`, in `sleep`, in `exit`). `call[p]`
is the system call whose frame is on the stack of a sleeping process. `cloned[p]` records from
which process `fork` copied. The lists are sequences.

Taking a lock is one action per `spin_lock`. The code between two lock operations is one action
where it touches only what the lock protects or belongs to the core. `wake_up` is one pass over the wait
lists: `visit[c]` is the list it has come to, an action moves one process of it (`WakeOne`), goes on to the
next list when this one has no sleeper of the channel left (`WakeNext`), or returns at the last one
(`WakeReturn`); no list is looked at again. `alloc_new_process` is split at `pid_num++`, because at start-up no other
lock is held. Failures of `ASSERT` stop the core with whatever locks it holds: control points
`halted` and `halted_pid`. Forking while core 0 idles makes `copy_uvm` follow the idle process's
physical page table pointer; the fault stops the core (`CopyUvmFails`).

Abstracted: whether a `sys_sleep` that is woken has slept long enough (both happen), whether the
keyboard buffer is empty (a read that returns at once changes nothing here), and what the programs
do: any sequence of the system calls in `Syscalls`. `exec` changes no scheduling state unless it
exits (`SysExit`). `wait` is called with the pids of `WaitPids`. `AllocStack` has the stores of `state` and
`pid` in one step: between them, under `pid_lock`, the new slot is in state INIT with pid 0, on no list.
`TimerIrq` is a timer interrupt that is really pending: `timer_interrupt_handler`'s test of the timer's status
and the endless loop of `handler` for an unknown interrupt are left out.

### Buddy

Addresses are counted in 2 MB pages; `links` holds the `next` and `prev` of all list nodes, the
heads `FreeList(i)` being negative addresses. `Size` is the code's `1UL << i`. `start_addr` is any of `StartPages`: the page behind the kernel
depends on its size. The memset of a new page is an action of its own, because it is behind the
unlock. With an odd start page the lists stay sound, which is proved; with start page 2 they do in
every instance checked. For start page 4 (a kernel of 6 to 8 MB) they
do not: the buddy address is computed relative to `start_addr`, the carving is by absolute
alignment, and TLC finds a block linked on two lists. The kernel is linked at 0x80000 and is
smaller than 2 MB, so its start page is 1.

### FileTable

`count++` and `count--` of an FCB are a load and a store. A call of one core is not interleaved with
another of the same core. `open_file` sets up a descriptor store by store (`OpenClear`, `OpenFcb`,
`OpenCount`, `OpenLink`). `read_file` is its test, `read_raw_data`, and the load and the store of
`position +=`, each a step of its own, since nothing is locked. The sum of position and size has the width of
`uint32_t` (`Word` values), so a large size can pass the test; then `read_raw_data` goes on to the end of the
file's clusters (`Chain[f]` bytes, a multiple of `ClusterSize` in the code), fails its ASSERT on the chain
(`assert_raw`), or, when its own sum in the middle of a cluster wraps too, copies nearly 2^32 bytes, which
ends in a fault. The bytes it copies are `FatRead`'s subject. `fork` and `wait` are one action each (they
hold `process_lock`), for a process of the core. A NULL `fcb`, of a descriptor another core has freed, makes the
core stop (`fault`). `CloseDesc` has the stores of `close_file` behind `put_fcb` in one step; another core has
the same descriptor only after both have taken one free slot in `open_file`.

### AddressSpace

The kernel maps one user address, so of each table one entry is used. Each `kalloc` is a step and may
find no memory; the failures follow the code: `setup_uvm` cleans up with `kfree` and `free_vm`, all others
end in an `ASSERT` with the locks held. `kfree` gives a page back or loses it, as `Buddy` shows. `wait`
holds `process_lock` through `free_vm`, but the start-up of other cores allocates between its steps.

### FatRead, FatNames, PrintFormat, MemLib

One action per turn of a loop, but `FatNames`, where `split_path` and `search_file` with their loops are one
action; compared at the return with a definition written independently of the
code: the slice of the file, the spellings of a name, the shortest numeral with a given value, the
simultaneous assignment of a region. Sizes of fields, clusters and integers are constants.

### ProcessLists

`list_lock` is modelled as the word it is, with `remove_list_head`'s two unlocks; callers hold
`process_lock` except the first append of each core at start-up. The refinement to `ListQueues` holds
although the second unlock may release another core's hold: the only callers without `process_lock`
append to their own core's list.

### Keyboard, Ticks, Console, Boot

A core in the kernel has interrupts masked, so handlers and system calls of one core exclude each
other and those of different cores interleave. `Keyboard`: the UART holds one character (`dr`) and raises its interrupt (`pending`); the
handler reads the character, writes the buffer, wakes the readers and clears the interrupt, and a key may
arrive between any two of these. The reader keeps the `front` it read before
its sleep and does not test again. `Ticks`: the timers of all cores run; the counter has `Width` bits, which in the
code are 64 and never wrap; `Lag` and `Stale` bound
how long a woken process waits for its core and how many ticks fall into another core's `ticks++`. The history
variables `elapsed` and `overwritten` record, for each sleep, the ticks counted and whether a store has overwritten
another core's.
`Console`: a UART without FIFO takes one character while it sends another. `Boot`: pages and limits have
the values of the code; the MMU's walk is an operator on the tables.

## Runs

| Run | Instance | Shows |
|---|---|---|
| `spinlock` | 3 cores | the loop implements `Exclusion`; the word is truthful; some contender obtains the lock |
| `processes` | 2 cores, 4 slots each; fork (core 0), exit, wait; pids up to 7; allocation may fail | `TypeOK`, `LockExclusion`, `PidsUnique`, `OnePlace`, `IInv`, `NoLostChildWakeup`, `ForkReturnsClone`, `ReapsStoppedProcess` |
| `progress` | 2 cores, 3 slots; sys_sleep, keyboard, ps; fair | `ResumesSavedContext`, `WakeUpEmptiesChannel`, `ReadyRuns`, `SleepersWake` |
| `reaping` | 1 core; fork, exit, wait; fair | `WaitedForIsReaped` |
| `buddy` | 8 pages, orders 0 to 2, start pages 1 to 3, 2 cores | `ListsSound`, `NoPageTwice`, `FreePagesExact` |
| `files` | 3 processes on one core, 2 descriptors each, table of 2, 2 files; words of 3 bits, reads of any size | `CountsExact`, `ReadsAdvance` |
| `devices` | see `MCDevices` | `ImplementsKeyQueue`, `KeyEndsRead`; `EarlyOnlyAfterRace`, `SleepEnds`; `LineIsWhole`, `AllWritten`; `ReadyBeforeUse`, `AllCoresStart` |
| `routines` | see `MCRoutines` | `RoutinesKeepPromise`, `PrintsArguments`, `SearchIsExact`, `ReadsTheFile`, `PagesAccountedFor`, `ChildIsCopy`, `ImplementsQueues` |
| `fork_on_other_core` | as `processes`, core 1 may fork | **violated** `ForkReturnsClone` |
| `buddy_loses_pages` | as `buddy` | **violated** `NothingLost` |
| `files_on_two_cores` | 2 processes on 2 cores | **violated** `PutFcbAssertion` |
| `fat_read_assert` | as FatRead in `routines` | **violated** `WalkStaysOnChain` |

Bounds. Two cores suffice for every pairwise race on `process_lock`. Four slots are the idle process,
the two that core 0 starts and one child, whose slot is used again after it is reaped; `MaxPid` stops
forks, not exits or waits, and a full table is reached. The orders 0 to 2 and eight pages give splits
and merges of two levels and blocks whose buddy lies outside memory. `files` fills the descriptors of
a process and the kernel's table, and its words of three bits let the sum of `read_file` and that of
`read_raw_data` wrap. A ring buffer of four slots fills and wraps. Two timers and a sleep of up to three ticks
overwrite ticks before, during and at the end of it. A memory of six bytes lets two regions touch, overlap by one byte and coincide.
Integers of five bits have one and two digits in either base, a least integer and zero. Files of up to
three clusters of three bytes have reads that begin and end inside, at and across clusters. Ten pages
are two processes exactly, so a third runs out of memory at each of its steps. Deadlock is checked
except where the code may stop for good: a full table or a failed allocation halts the core with a lock
held, and the calls of `routines` simply return.

Findings (violated runs). (1) `find_least_busy_core` returns 0 always and `fork` takes the process
to clone from that core: a fork on another core clones a stranger. (2) `buddy_free` drops a page
whose buddy is in use. (3) The counts of open files are updated without a lock; two cores that load
`TEST4.BIN` at start-up can lose an increment, and a later close fails its ASSERT. (4) A read of 0 bytes
at the end of a file whose size is a multiple of the cluster size walks to the end mark of the chain and
fails `ASSERT(index < 0xfff7)`; `routines` shows that every other read returns the file's bytes.

Limits of what holds, met while choosing instances. The keyboard is a queue for one reader on core 0,
which is where the shell runs: two readers are both woken by one key and both advance `front`, and a
reader on another core can sleep beside a key. A key that reaches the UART after `read_char` and before `uart_handler` writes ICR loses its
interrupt: it stays in the data register, and no later key gets past it; the queue is one of the keys that
`keyboard_handler` has read. A sleep may end early when a store of `ticks++` overwrites what other cores have
counted: the counter is set back, and the unsigned difference is huge (it always ends). One core
in `sys_write` beside the cores in `printk` loses nothing; with two a character can be lost. The lists of
`Buddy` are sound if the first page behind the kernel is odd, as it is; those of a kernel of 6 to 8 MB would not be.

Fairness. A core in the kernel executes its next step (weak fairness of the kernel steps). The
timer is rearmed by its handler and is pending when the kernel returns to user mode: strong fairness
of `TimerIrq`, since user mode is entered again and again. A core that spins on `process_lock`
obtains it if it is free again and again: strong fairness of the acquisition. The last is an
assumption on the hardware: the test-and-set loop itself guarantees only that *some* core obtains
the lock, which is what `SpinLock` shows, under the assumption that a `stxr` with an armed monitor
is not refused for ever. A woken reader gets its core (`Keyboard`, strong: interrupts use it in
between), as `ReadyRuns` shows in `progress`. In `Ticks` each core is fair as a whole, since its timer and
its processes take turns. `Console`: cores in the kernel and the UART go on (weak); each core has few
messages, so a core may not be overtaken on `print_lock` for ever. `Boot`: once core 0 has started, cores
run on. Programs are under no obligation to make calls.

## Proofs

`SpinLockProofs` (any set of cores): `TypeOK /\ LockWordTruthful` is inductive. The third conjunct of
`LockWordTruthful` carries the argument: a core at its `stxr` whose monitor is armed has read a 0
that is still there. `Refinement` maps the holder to the core at `held`.

`SchedulerProofs` (one to four cores, any table size of at least 3, any programs, with and without
allocation failures; from `SchedulerAssumption` only): `IInv` is inductive, one lemma per action.
From it follow `TypeCorrect`, `LocksExclude`, `EveryProcessOnePlace` and `OnlySavedContexts`.
`LockExclusion` needs to know that the process switched to resumes at a point that releases the lock
(`ContextInv`); that needs to know where processes are and in which state (`ListInv`, `PlaceInv`),
what a core's current process is at each control point (`CurrentInv`), that start-up happens in order
(`BootInv`: without it, two creators could fill one slot, since start-up holds no lock), who fills a
slot (`CreateInv`), and that only idle processes have pids below 4 (`PidInv`, for `yield`'s test);
and each of these is preserved because of the lock. `ControlStep` and `PointStep` state once what
a step that moves one core, or changes one slot, has to preserve.

The second half of the module, under the same assumption, first says what a step may do to the life of a slot
(`OnlySlot`, `Takes`, `MakesReady`, `Wakes`, `SwitchesTo` and so on), so that each property needs only a few
cases:

- `DeadStayDead` and `NoSleeperLeft` follow from `IInv` step by step: the first from the kill lists' part of
  `ListInv`, the second with `PassInv`: on the lists that the pass of `wake_up` has left behind there is no sleeper of the
  channel again, since nobody can go to sleep beside the lock.
- `PidsStayUnique` needs `PidsDrawn`: every pid in use is below `pid_num`, but for the one whose creator is
  between storing it and `pid_num++`. At start-up only `pid_lock` keeps two creators apart there.
- `ParentsWake` needs `WaitInv`: who is about to sleep in `wait()` has still nothing to reap, although `wait()`
  releases `process_lock` before it calls `sleep` (only an `exit` of the same core adds to the kill list it has
  searched, and the core is in the kernel meanwhile); and if a sleeping parent has a dead child, its core is inside `exit`'s
  `wake_up(-3)`.
- `ForkClonesCaller` needs `ForkInv`, and that only processes of core 0 fork (`ForkCores \subseteq {0}`):
  without it the property is false, as `fork_on_other_core` shows.

`BuddyProofs` (any `MAX_ORDER`, memory size and cores). The inductive invariant is `Sound` (each list a ring
with `prev` inverse to `next`, blocks that do not overlap, those of two pages and more at even pages), `PagesInv` (free and used pages lie
in what `buddy_init` has carved) and `UsedInv` (used pages are not free). The hypothesis `OddStart` says that
the first page behind the kernel is odd. It is what makes merging sound: `buddy_free` looks for the buddy
relative to `start_addr`, but carving aligns absolutely. From an odd start a pair of pages that was merged
begins at an odd page, so its buddy at order 1 is at an odd page too and on no list, and the loop ends
there. The kernel of this repository ends in page 0, so its start page is 1. That the walk along a list ends and visits the list's blocks (a list is what is reached from its
head) is proved by least elements of sets of numbers, and so is the existence of the recursive functions.

`FileTableProofs` is for one core (`SingleCore`; `files_on_two_cores` refutes `PutFcbAsserts` for two), for any
finite number of processes, any files and descriptors and any width of a word. `CountsExact` speaks of cores
between calls only; `CallOK`, `DescCounts` and `FileCounts` say what holds at each point of a call, where one count
may be ahead of or behind its references (`More`, `Less`), `HalfCounts` what holds while `open_file` has set up a part
of a descriptor, and `NoFiles` that a process that is not alive has none. `ReadsAdvanceBySize` rests on `ReadInv`: a
read stores to the position that it has tested, which no other call has moved. A read then moves the position by
its size and stays in the file, or the sum has wrapped, and the position comes to the end of the last cluster.

`MemLibProofs` (any memory that has a last address, `Bounded`). The invariants of the loops say which bytes
are done and, for `memcpy`, that none still to be read has been overwritten; this is where the direction of the copy counts.

`DevicesProofs`, from the assumptions of `Keyboard` and `MCDevices`:

- Keyboard. `IndicesInBuffer` holds for any readers and any size but 0. `RingIsQueue` needs `OneReader` (a
  single reader, on core 0, and two slots or more), which TLC evaluates for the instance of `devices`
  (`QueueAssumption`); the limits above say what two readers do. Its invariant `ReadInv` says that past its sleep
  the reader still has the present `front` and a key is there. Each step is then shown to be a step of `KeyQueue`
  or a stutter.
- Ticks. `SleepsEarlyOnlyAfterRace`: any number of cores whose timers run, of sleepers, and any width. `FreshInv`
  says that a core whose load no other store has followed adds to the counter as it is; so, as long as no store
  has overwritten others' ticks since a sleeper read `old_ticks`, the counter is ahead of it by the ticks
  counted (`CountInv`). `WaitInv` bounds what a woken process waits for its core; `SleepBounds` keeps the sums below the modulus.
- Console. `LineStaysWhole`, for messages of any number and length and any cores in `printk`, needs `OneWriter`
  (one core in `sys_write`; TLC evaluates it as `WriterAssumption`). `RoomInv` is the heart: a core that has seen
  the UART idle still finds room, and if two have, the UART is empty. From it nothing is ever dropped, so the
  characters on the line and in the UART are all that was written (`AllThere`), and neighbours among those of
  `printk` follow each other in a message (`Ordered`), because `print_lock` keeps other cores of `printk` out.
- Boot. `CoresStartReady`, for any number of cores and any end of the kernel: `TablesInv` says how far each loop of
  `setup_vm2` has filled its table, `OrderInv` what core 0 has set up at each step, and `SecondaryInv` that
  another core moves only after its release and passes its loop only after `main_core_ready`.
- `DevicesTypeCorrect` collects the types.

`ProcessListsProofs` (any number of cores, lists, processes and events, from `ListsAssumption`). `ListsInv` says that there are sequences
`C` with each list's `next` leading along its own (`Chains`), no process on two lists or on one and in the
hands of a call (`Apart`), and `tail` the last process except between two stores of a call (`TailsInv`); and
what a call knows at each of its points (`AppendOK`, `RemoveOK`). `list_lock` takes no part in it, as it may be
released twice: by `CallersInv` two cores in calls are never at the same list, since one has
`process_lock` and the other is in its start-up, appending to its own list (`Exclusive`). Following the
pointers gives `C` back, so each step is a step of `ListQueues` or a stutter.

`RoutinesProofs`, from the assumptions of `AddressSpace` and `MCRoutines`:

- `EveryPageHasOneOwner` and `ForkCopies`: any process table and number of pages, from `AddressSpaceAssumption`.
  `PagesAccountedFor` is not inductive by itself: when `map_page` stores a new table over an entry, or `free_vm` frees one, nothing says that the entry
  was empty or the page not also another level's. `Shape` says which pointers are set in each state of a
  process, `Distinct` that its pages differ, `ForkOK` that a fork's parent stays live meanwhile.
- `FilesAreRead`: any cluster size, file length and chain. The file is the chain `Nth` of clusters followed from the
  first. `WalkInv` says that `count` clusters are left to the one of the position, `TransferInv` that the buffer
  holds the next `read_size` bytes of the file and `index` is the cluster behind them.
- `FilesAreFound`: names, paths and directories of any length over any letters without blank, dot or slash.
  `split_path` is shown to return name and extension exactly for the spellings of an entry.
- `MemoryFunctionsWork` takes the result of `MemLibProofs` over to `MCRoutines`.
- `RoutinesTypeCorrect` collects the types. For `PrintFormat` it takes that the digits `printk` finds for a number
  exist and form a sequence, for `AddressSpace` that its pointers lead to pages.

Recursive functions (`Nth`, the walk along a list, the digits of a number) are shown to exist, and facts about
all their values to hold, by least elements of sets of numbers.

Only model-checked:

- Liveness, which needs ENABLED: `SomeCoreObtains`, `ReadyRuns`, `SleepersWake`, `WaitedForIsReaped`,
  `KeyEndsRead`, `SleepEnds`, `AllWritten`, `AllCoresStart`.
- `PrintsArguments`: it compares what the loop of `printk` has written with all pieces of the format joined by
  folds over sequences of sequences, whose values for every length take an induction over an operator, which the
  provers installed cannot instantiate.

## Not modelled

- Code without callers: `setup_vm` of `mmu.s` (replaced by `setup_vm2`), `invalidate_dcache`,
  `get_list_count`; the branches compiled out by `#if` (`LinkListMode`).
- Calls that only read or print: `sys_get_file_size`, `sys_getcpuid`, `sys_getPID`, `sys_read_root_directory`,
  `check_sctlr_el1`, `dump_os_img_head`, `debug_spinlock`, `checkmm`.
- Register save areas and trap frames beyond what fork clones, and the registers of the interrupt
  controller: the models have the control flow they produce.
- Weak memory ordering beyond the acquire and release of the locks, and the memory types: `enable_mmu`
  sets MAIR_EL1 so that both attributes are write-back cacheable, although one is named device;
  `ReadyBeforeUse` is about the attribute a page selects, not what it selects.
- What a read copies when the 32-bit sum of position and size wraps: the sizes of `FatRead` do not wrap it;
  `FileTable` has the wrap and what becomes of the position.
- The limit of `printk`'s `buffer[1024]`, which the code does not test: the text of `PrintFormat` has no bound.
- The layout of the boot sector and directory entries, beyond names, clusters and sizes.

## Plan

Done: all components are modelled, in whole or in the parts that change state, and every safety property of
the passing runs but `PrintsArguments` is proved.

What would come next: `PrintsArguments` by a definition of the expected text without folds; `BuddyProofs` for an even
first page, which needs a bound on the orders at which blocks merge; `CountsStayExact` for several cores, once the
code has a lock around the file tables.
