------------------------------- MODULE Buddy -------------------------------
(***************************************************************************)
(* The page allocator of src/src/memory.c in the configuration the kernel  *)
(* is built with (BuddyMode): buddy_init, kalloc and kfree.  The free      *)
(* lists are modelled with their pointers, because a free block's list     *)
(* node lies in the block itself and kfree can link one twice.             *)
(*                                                                         *)
(* Addresses are counted in 2 MB pages.  kalloc and kfree hold             *)
(* allocator.lock around all they do to the lists, so that part is one     *)
(* step (SpinLock.tla); the memset of the new page is behind the unlock.   *)
(***************************************************************************)
EXTENDS Integers

CONSTANTS MAX_ORDER,    \* include/memory.h
          StartPages,   \* the first page behind the kernel, PA_UP(&end)
          EndPage,      \* MEMORY_END
          Core

ASSUME BuddyAssumption ==
  /\ MAX_ORDER \in Nat \ {0}
  /\ EndPage \in Nat
  /\ StartPages \subseteq 1 .. EndPage - 1

Orders == 0 .. MAX_ORDER - 1

Pages == 1 .. EndPage - 1

\* The pages of a block: 1UL << i.
Size[i \in Nat] == IF i = 0 THEN 1 ELSE 2 * Size[i - 1]

\* The address of allocator.free_lists[i].
FreeList(i) == -1 - i

FreeLists == {FreeList(i) : i \in Orders}

NULL == 0

VARIABLES
  start_addr,  \* allocator.start_addr
  current,     \* buddy_init's current: the pages below it are on the lists
  links,       \* the next and prev fields of all list nodes
  used,        \* the pages kalloc has handed out and kfree has not got back
  page         \* page[c]: the page kalloc is about to clear on core c, or NULL

vars == <<start_addr, current, links, used, page>>

TypeOK ==
  /\ start_addr \in StartPages
  /\ current \in start_addr .. EndPage
  /\ links.next \in [Pages \cup FreeLists -> Pages \cup FreeLists \cup {NULL}]
  /\ links.prev \in [Pages \cup FreeLists -> Pages \cup FreeLists \cup {NULL}]
  /\ used \subseteq Pages
  /\ page \in [Core -> Pages \cup {NULL}]

\* Every list_init done.
Init ==
  /\ start_addr \in StartPages
  /\ current = start_addr
  /\ LET self == [n \in Pages \cup FreeLists |-> IF n \in FreeLists THEN n ELSE NULL]
     IN  links = [next |-> self, prev |-> self]
  /\ used = {}
  /\ page = [c \in Core |-> NULL]

-----------------------------------------------------------------------------
(* The doubly linked lists. *)

list_add(l, head, node) ==
  [next |-> [l.next EXCEPT ![node] = l.next[head], ![head] = node],
   prev |-> [l.prev EXCEPT ![node] = head, ![l.next[head]] = node]]

\* Mutant for ListsSound: the predecessor is relinked, the successor is not.
list_del_next(l, node) ==
  [next |-> [l.next EXCEPT ![l.prev[node]] = l.next[node]], prev |-> l.prev]

list_del(l, node) ==
  [next |-> [l.next EXCEPT ![l.prev[node]] = l.next[node]],
   prev |-> [l.prev EXCEPT ![l.next[node]] = l.prev[node]]]

list_empty(l, i) == l.next[FreeList(i)] = FreeList(i)

\* The blocks met by walking list i from its head.
Blocks(l, i) ==
  LET walk[k \in 0 .. EndPage] ==
        IF k = 0 THEN l.next[FreeList(i)]
        ELSE LET node == walk[k - 1] IN IF node \in Pages THEN l.next[node] ELSE node
  IN  {walk[k] : k \in 0 .. EndPage} \cap Pages

-----------------------------------------------------------------------------
(* buddy_init *)

\* Mutant for TypeOK: the room that remains is not tested.
Aligned(i) == current % Size[i] = 0

Fits(i) == EndPage - current >= Size[i] /\ current % Size[i] = 0

\* One turn of the loop: the largest block that fits and is aligned.
BuddyInit ==
  /\ current < EndPage
  /\ \E i \in Orders :
       /\ Fits(i) /\ \A j \in Orders : Fits(j) => j <= i
       /\ links' = list_add(links, FreeList(i), current)
       /\ current' = current + Size[i]
  /\ UNCHANGED <<start_addr, used, page>>

-----------------------------------------------------------------------------
(* kalloc *)

\* The lists after block, of order i, is taken and its halves are given back.
Split(l, block, i) ==
  LET rest[k \in 0 .. i] ==
        IF k = i THEN list_del(l, block) ELSE list_add(rest[k + 1], FreeList(k), block + Size[k])
  IN  rest[0]

\* Mutant for FreePagesExact: the halves are not given back.
KallocKeepsHalves(c) ==
  /\ current = EndPage /\ page[c] = NULL
  /\ \E i \in Orders : LET block == links.next[FreeList(i)] IN
       /\ ~list_empty(links, i) /\ \A j \in Orders : j < i => list_empty(links, j)
       /\ links' = list_del(links, block)
       /\ used' = used \cup {block}
       /\ page' = [page EXCEPT ![c] = block]
  /\ UNCHANGED <<start_addr, current>>

\* Mutant for NoPageTwice: the block found is not taken off its list.
KallocLeavesBlock(c) ==
  /\ current = EndPage /\ page[c] = NULL
  /\ \E i \in Orders : LET block == links.next[FreeList(i)] IN
       /\ ~list_empty(links, i) /\ \A j \in Orders : j < i => list_empty(links, j)
       /\ links' = links
       /\ used' = used \cup {block}
       /\ page' = [page EXCEPT ![c] = block]
  /\ UNCHANGED <<start_addr, current>>

\* buddy_alloc(0) under the lock: the first block of the smallest order there is.
Kalloc(c) ==
  /\ current = EndPage /\ page[c] = NULL
  /\ \E i \in Orders : LET block == links.next[FreeList(i)] IN
       /\ ~list_empty(links, i) /\ \A j \in Orders : j < i => list_empty(links, j)
       /\ links' = Split(links, block, i)
       /\ used' = used \cup {block}
       /\ page' = [page EXCEPT ![c] = block]
  /\ UNCHANGED <<start_addr, current>>

\* buddy_alloc(0) finds nothing and kalloc returns NULL.
KallocFails(c) ==
  /\ current = EndPage /\ page[c] = NULL
  /\ \A i \in Orders : list_empty(links, i)
  /\ UNCHANGED vars

\* memset(res, 0, PAGE_SIZE), behind the unlock: the node fields go too.
Memset(c) ==
  /\ page[c] # NULL
  /\ links' = [next |-> [links.next EXCEPT ![page[c]] = NULL],
                prev |-> [links.prev EXCEPT ![page[c]] = NULL]]
  /\ page' = [page EXCEPT ![c] = NULL]
  /\ UNCHANGED <<start_addr, current, used>>

-----------------------------------------------------------------------------
(* kfree *)

\* allocator.start_addr + ((addr - allocator.start_addr) ^ Size[i])
Buddy(addr, i) == IF ((addr - start_addr) \div Size[i]) % 2 = 0 THEN addr + Size[i] ELSE addr - Size[i]

(***************************************************************************)
(* buddy_free(addr, 0): as long as the buddy is on the list of its order,  *)
(* the buddy is replaced there by the lower of the two.                    *)
(***************************************************************************)
buddy_free(l, addr) ==
  LET loop[i \in 0 .. MAX_ORDER - 1] ==
        IF i = 0 THEN [links |-> l, addr |-> addr, found |-> TRUE]
        ELSE LET s == loop[i - 1]
                 buddy == Buddy(s.addr, i - 1)
                 low == IF s.addr < buddy THEN s.addr ELSE buddy
             IN  IF s.found /\ buddy \in Blocks(s.links, i - 1)
                 THEN [links |-> list_add(list_del(s.links, buddy), FreeList(i - 1), low),
                       addr |-> low, found |-> TRUE]
                 ELSE [links |-> s.links, addr |-> s.addr, found |-> FALSE]
  IN  loop[MAX_ORDER - 1].links

Kfree(v) ==
  /\ v \in used
  /\ \A c \in Core : page[c] # v
  /\ links' = buddy_free(links, v)
  /\ used' = used \ {v}
  /\ UNCHANGED <<start_addr, current, page>>

Next ==
  \/ BuddyInit
  \/ \E c \in Core : Kalloc(c) \/ KallocFails(c) \/ Memset(c)
  \/ \E v \in Pages : Kfree(v)

Spec == Init /\ [][Next]_vars
-----------------------------------------------------------------------------
\* The pages of a block.
Extent(block, i) == block .. block + Size[i] - 1

\* The pages that some later kalloc could return.
Free(l) == UNION {UNION {Extent(b, i) : b \in Blocks(l, i)} : i \in Orders}

FreePages == Free(links)

(***************************************************************************)
(* The free lists are sound: prev and next are inverse along each list,    *)
(* and no page is in two free blocks, after any sequence of splits and     *)
(* frees on any cores.                                                     *)
(***************************************************************************)
ListsSound ==
  /\ \A i \in Orders : \A n \in Blocks(links, i) \cup {FreeList(i)} :
       links.prev[links.next[n]] = n
  /\ \A i, j \in Orders : \A a \in Blocks(links, i), b \in Blocks(links, j) :
       <<a, i>> # <<b, j>> => Extent(a, i) \cap Extent(b, j) = {}

(***************************************************************************)
(* No page is handed out twice: a page in use is in no free block (so the  *)
(* memset, which kalloc does without the lock, never hits a list node) and *)
(* two cores never clear the same page.                                    *)
(***************************************************************************)
NoPageTwice ==
  /\ used \cap FreePages = {}
  /\ \A c, d \in Core : page[c] = page[d] /\ page[c] # NULL => c = d

(***************************************************************************)
(* kalloc takes exactly one page out of free memory, whatever block it     *)
(* splits for it, and buddy_init puts every page between start and its     *)
(* current position on the lists.                                          *)
(***************************************************************************)
FreePagesExact ==
  [][/\ used' \ used # {} => /\ FreePages' = FreePages \ (used' \ used)
                             /\ used' \ used \subseteq FreePages
     /\ current' # current => FreePages' = start_addr .. current' - 1]_vars

(***************************************************************************)
(* What kfree is for, by its comment in memory.c: every page is in use or  *)
(* free.                                                                   *)
(***************************************************************************)
NothingLost == FreePages \cup used = start_addr .. current - 1
=============================================================================
