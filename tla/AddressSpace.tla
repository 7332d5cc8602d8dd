--------------------------- MODULE AddressSpace ---------------------------
(***************************************************************************)
(* The memory of processes: alloc_new_process, setup_uvm, copy_uvm,        *)
(* map_page, free_page, free_table and free_vm, called at start-up, by     *)
(* fork and by wait (src/src/memory.c, src/src/process.c).  A process has  *)
(* a kernel stack, three levels of page tables and one page of user        *)
(* memory, mapped at 0x400000, each a page from kalloc.                    *)
(*                                                                         *)
(* The kernel maps one address only, so of each table one entry is ever    *)
(* used: entry[t].  kalloc is an atomic step (allocator.lock) that takes a *)
(* free page; kfree gives a page back or, as Buddy.tla shows, loses it.    *)
(* Start-up runs on all cores at once; alloc_new_process holds pid_lock,   *)
(* fork and wait hold process_lock.                                        *)
(***************************************************************************)
EXTENDS Integers

CONSTANTS Slot,      \* the process table
          Boot,      \* the slots that start-up fills, one core each
          Main,      \* the one of core 0; programs of other cores do not fork
          MaxPage,   \* the allocator's pages are 1..MaxPage
          Image,     \* the contents of user memory
          Zero       \* memory that is cleared

ASSUME AddressSpaceAssumption == MaxPage \in Nat /\ Zero \in Image

Page == 1..MaxPage

NULL == 0        \* an invalid entry, a null pointer

VARIABLES free,      \* what kalloc can return
          allocated, \* what kalloc has returned and kfree has not got back
          entry,     \* the used entry of each page that is a table
          data,      \* the contents of each page that is user memory
          state,     \* where each slot is in its life
          stack, page_map,   \* fields of struct Process
          page,      \* page[p]: the variable page of setup_uvm, new_page of copy_uvm
          clones     \* clones[p]: the processes a fork that fills slot p copies

vars == <<free, allocated, entry, data, state, stack, page_map, page, clones>>

Making == {"stack", "map", "page", "pud", "pmd", "load"}
Freeing == {"free_page", "free_pmd", "free_pud", "free_pgd", "free_map"}

TypeOK ==
  /\ free \subseteq Page /\ allocated \subseteq Page
  /\ entry \in [Page -> Page \cup {NULL}]
  /\ data \in [Page -> Image]
  /\ state \in [Slot -> {"unused", "live", "dead", "failed", "stopped"} \cup Making \cup Freeing]
  /\ stack \in [Slot -> Page \cup {NULL}]
  /\ page_map \in [Slot -> Page \cup {NULL}]
  /\ page \in [Slot -> Page \cup {NULL}]
  /\ clones \in [Slot -> SUBSET Slot]

Init ==
  /\ free = Page /\ allocated = {}
  /\ entry = [t \in Page |-> NULL]
  /\ data = [t \in Page |-> Zero]
  /\ state = [p \in Slot |-> IF p \in Boot THEN "stack" ELSE "unused"]
  /\ stack = [p \in Slot |-> NULL]
  /\ page_map = [p \in Slot |-> NULL]
  /\ page = [p \in Slot |-> NULL]
  /\ clones = [p \in Slot |-> {}]

OnCore0(p) == p = Main \/ p \notin Boot

Forking(p) == clones[p] # {}

(* fork and wait hold process_lock; a fork that fails never releases it. *)
ProcessLockFree ==
  \A p \in Slot : ~Forking(p) /\ ~(state[p] \in Freeing /\ stack[p] = NULL)

(* alloc_new_process holds pid_lock from the first kalloc to the last. *)
PidLockFree == \A p \in Slot : state[p] \notin {"map", "stopped"}

(* kalloc takes a page; any would do, here it is the least. *)
Kalloc(a) ==
  /\ a \in free /\ \A b \in free : a <= b
  /\ free' = free \ {a}
  /\ allocated' = allocated \cup {a}

(* kfree, with the clearing that kalloc does before the next use of the page. *)
Kfree(a) ==
  /\ allocated' = allocated \ {a}
  /\ free' \in {free, free \cup {a}}
  /\ data' = [data EXCEPT ![a] = Zero]

Goto(p, s) == state' = [state EXCEPT ![p] = s]
-----------------------------------------------------------------------------
(* find_pud_entry(map, 0x400000, 0, 0): the table that maps user memory, or NULL. *)
find_pud_entry(map) == IF entry[map] = NULL THEN NULL ELSE entry[entry[map]]

(* Where 0x400000 of a process leads. *)
UserPage(p) ==
  LET pmd == find_pud_entry(page_map[p]) IN IF pmd = NULL THEN NULL ELSE entry[pmd]

(* What a program sees in its memory. *)
View(p) == data[UserPage(p)]
-----------------------------------------------------------------------------
(* fork takes process_lock and a slot. *)
Fork(p, q) ==
  /\ state[p] = "unused"
  /\ state[q] = "live" /\ OnCore0(q)
  /\ ProcessLockFree
  /\ Goto(p, "stack")
  /\ clones' = [clones EXCEPT ![p] = {q}]
  /\ UNCHANGED <<free, allocated, entry, data, stack, page_map, page>>

(* alloc_new_process: the kernel stack. *)
AllocStack(p) ==
  /\ state[p] = "stack" /\ PidLockFree
  /\ \E a \in free : Kalloc(a) /\ stack' = [stack EXCEPT ![p] = a]
  /\ Goto(p, "map")
  /\ UNCHANGED <<entry, data, page_map, page, clones>>

(* alloc_new_process: the root table, which memset clears. *)
AllocMap(p) ==
  /\ state[p] = "map"
  /\ \E a \in free : /\ Kalloc(a)
                     /\ page_map' = [page_map EXCEPT ![p] = a]
                     /\ entry' = [entry EXCEPT ![a] = NULL]
  /\ Goto(p, "page")
  /\ UNCHANGED <<data, stack, page, clones>>

(* Mutant for ChildIsCopy: the parent's memory is not copied. *)
AllocPageCleared(p) ==
  /\ state[p] = "page"
  /\ \E a \in free : /\ Kalloc(a)
                     /\ page' = [page EXCEPT ![p] = a]
                     /\ data' = [data EXCEPT ![a] = Zero]
  /\ Goto(p, "pud")
  /\ UNCHANGED <<entry, stack, page_map, clones>>

(* setup_uvm and copy_uvm: the page of user memory.  copy_uvm fills it at once. *)
AllocPage(p) ==
  /\ state[p] = "page"
  /\ \E a \in free :
        /\ Kalloc(a)
        /\ page' = [page EXCEPT ![p] = a]
        /\ \E v \in IF Forking(p) THEN {View(q) : q \in clones[p]} ELSE {Zero} :
              data' = [data EXCEPT ![a] = v]
  /\ Goto(p, "pud")
  /\ UNCHANGED <<entry, stack, page_map, clones>>

(* map_page, find_pgd_entry: the second table. *)
AllocPud(p) ==
  /\ state[p] = "pud"
  /\ \E a \in free : /\ Kalloc(a)
                     /\ entry' = [entry EXCEPT ![a] = NULL, ![page_map[p]] = a]
  /\ Goto(p, "pmd")
  /\ UNCHANGED <<data, stack, page_map, page, clones>>

(***************************************************************************)
(* map_page, find_pud_entry: the third table, and in it the entry of the   *)
(* page.  A fork is then complete and releases process_lock.               *)
(***************************************************************************)
AllocPmd(p) ==
  /\ state[p] = "pmd"
  /\ \E a \in free :
        /\ Kalloc(a)
        /\ entry' = [entry EXCEPT ![a] = page[p], ![entry[page_map[p]]] = a]
  /\ Goto(p, IF Forking(p) THEN "live" ELSE "load")
  /\ clones' = [clones EXCEPT ![p] = {}]
  /\ page' = [page EXCEPT ![p] = NULL]
  /\ UNCHANGED <<data, stack, page_map>>

(* setup_uvm reads the program's file. *)
Load(p, v) ==
  /\ state[p] = "load"
  /\ data' = [data EXCEPT ![UserPage(p)] = v]
  /\ Goto(p, "live")
  /\ UNCHANGED <<free, allocated, entry, stack, page_map, page, clones>>

(* setup_uvm cannot open or read the file: free_vm. *)
LoadFails(p) ==
  /\ state[p] = "load"
  /\ Goto(p, "free_page")
  /\ UNCHANGED <<free, allocated, entry, data, stack, page_map, page, clones>>

(* setup_uvm finds no memory for a table: the page is freed, then free_vm. *)
MapPageFails(p) ==
  /\ state[p] \in {"pud", "pmd"} /\ ~Forking(p) /\ free = {}
  /\ Kfree(page[p])
  /\ page' = [page EXCEPT ![p] = NULL]
  /\ Goto(p, "free_page")
  /\ UNCHANGED <<entry, stack, page_map, clones>>

(* The other failures of kalloc end in an ASSERT, with all that is allocated and locked. *)
KallocFails(p) ==
  /\ free = {}
  /\ \/ state[p] = "stack" /\ PidLockFree /\ Goto(p, "stopped")
     \/ state[p] = "map" /\ Goto(p, "stopped")
     \/ state[p] = "page" /\ Goto(p, "failed")
     \/ state[p] \in {"pud", "pmd"} /\ Forking(p) /\ Goto(p, "failed")
  /\ UNCHANGED <<free, allocated, entry, data, stack, page_map, page, clones>>
-----------------------------------------------------------------------------
(* A program stores into its memory, or exec loads another one. *)
Store(p, v) ==
  /\ state[p] = "live" /\ \A q \in Slot : p \notin clones[q]
  /\ data' = [data EXCEPT ![UserPage(p)] = v]
  /\ UNCHANGED <<free, allocated, entry, state, stack, page_map, page, clones>>

Exit(p) ==
  /\ state[p] = "live" /\ ProcessLockFree
  /\ Goto(p, "dead")
  /\ UNCHANGED <<free, allocated, entry, data, stack, page_map, page, clones>>

(* A process of core 0 waits for another: process_lock, kfree(stack), free_vm(page_map). *)
Wait(p) ==
  /\ state[p] = "dead" /\ OnCore0(p)
  /\ \E q \in Slot : state[q] = "live" /\ OnCore0(q)
  /\ ProcessLockFree
  /\ Kfree(stack[p])
  /\ stack' = [stack EXCEPT ![p] = NULL]
  /\ Goto(p, "free_page")
  /\ UNCHANGED <<entry, page_map, page, clones>>

(* Mutant for PagesAccountedFor: the entry of the freed page stays valid for free_table. *)
FreePageKeepsEntry(p) ==
  LET pmd == find_pud_entry(page_map[p]) IN
  /\ state[p] = "free_page"
  /\ IF pmd # NULL /\ entry[pmd] # NULL
       THEN Kfree(entry[pmd])
       ELSE UNCHANGED <<free, allocated, data>>
  /\ Goto(p, "free_pmd")
  /\ UNCHANGED <<entry, stack, page_map, page, clones>>

(* free_page(map, 0x400000): the user memory, and its entry is cleared. *)
FreePage(p) ==
  LET pmd == find_pud_entry(page_map[p]) IN
  /\ state[p] = "free_page"
  /\ IF pmd # NULL /\ entry[pmd] # NULL
       THEN Kfree(entry[pmd]) /\ entry' = [entry EXCEPT ![pmd] = NULL]
       ELSE UNCHANGED <<free, allocated, entry, data>>
  /\ Goto(p, "free_pmd")
  /\ UNCHANGED <<stack, page_map, page, clones>>

(* One table of free_table: what its valid entry points to is freed. *)
FreeEntries(p, t) ==
  /\ IF t # NULL /\ entry[t] # NULL
       THEN Kfree(entry[t])
       ELSE UNCHANGED <<free, allocated, data>>
  /\ UNCHANGED <<entry, stack, page_map, page, clones>>

(* free_table(pgd, 0): the tables below a table before the table itself. *)
FreeTable(p) ==
  \/ state[p] = "free_pmd" /\ Goto(p, "free_pud") /\ FreeEntries(p, find_pud_entry(page_map[p]))
  \/ state[p] = "free_pud" /\ Goto(p, "free_pgd") /\ FreeEntries(p, entry[page_map[p]])
  \/ state[p] = "free_pgd" /\ Goto(p, "free_map") /\ FreeEntries(p, page_map[p])

(***************************************************************************)
(* free_vm ends with the root.  wait then clears the slot and releases     *)
(* process_lock; after setup_uvm the ASSERT of start-up stops the core.    *)
(***************************************************************************)
FreeMap(p) ==
  /\ state[p] = "free_map"
  /\ Kfree(page_map[p])
  /\ page_map' = [page_map EXCEPT ![p] = NULL]
  /\ Goto(p, IF stack[p] = NULL THEN "unused" ELSE "failed")
  /\ UNCHANGED <<entry, stack, page, clones>>

Make(p) == AllocStack(p) \/ AllocMap(p) \/ AllocPage(p) \/ AllocPud(p) \/ AllocPmd(p)
Fail(p) == LoadFails(p) \/ MapPageFails(p) \/ KallocFails(p)
free_vm(p) == FreePage(p) \/ FreeTable(p) \/ FreeMap(p)

Next ==
  \/ \E p \in Slot : Make(p) \/ Fail(p) \/ Exit(p) \/ Wait(p) \/ free_vm(p)
  \/ \E p \in Slot, v \in Image : Load(p, v) \/ Store(p, v)
  \/ \E p, q \in Slot : Fork(p, q)

Spec == Init /\ [][Next]_vars
-----------------------------------------------------------------------------
(***************************************************************************)
(* The pages of a process: its stack, the page not yet mapped, and what    *)
(* can be reached from its root, less the levels that free_vm is done with. *)
(***************************************************************************)
Space(p) ==
  LET map == page_map[p]
      pud == IF map = NULL \/ state[p] = "free_map" THEN NULL ELSE entry[map]
      pmd == IF pud = NULL \/ state[p] = "free_pgd" THEN NULL ELSE entry[pud]
      user == IF pmd = NULL \/ state[p] = "free_pud" THEN NULL ELSE entry[pmd]
  IN {stack[p], page[p], map, pud, pmd, user} \ {NULL}

(***************************************************************************)
(* No page belongs to two processes, whether as stack, table or memory,    *)
(* and each belongs to a process only while it is allocated: free_table    *)
(* reads no table that was freed, and no page is freed twice, although     *)
(* other cores allocate between the steps.                                 *)
(***************************************************************************)
SpacesDisjoint ==
  /\ \A p \in Slot : Space(p) \subseteq allocated
  /\ \A p, q \in Slot : p # q => Space(p) \cap Space(q) = {}
  /\ free \cap allocated = {}

(***************************************************************************)
(* Every allocated page is reachable from a process: fork, exit and wait   *)
(* in any order, and start-up that fails half way, leave no page behind    *)
(* that nobody could free.                                                 *)
(***************************************************************************)
NothingLeaks == allocated \subseteq UNION {Space(p) : p \in Slot}

(* Every page is free, lost by kfree, or exactly one process's. *)
PagesAccountedFor == SpacesDisjoint /\ NothingLeaks

(* When fork has finished, the child sees what its parent sees. *)
ChildIsCopy ==
  [][\A p \in Slot : Forking(p) /\ state'[p] = "live" =>
        \A q \in clones[p] : View(p)' = View(q)']_vars
=============================================================================
