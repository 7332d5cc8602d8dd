-------------------------- MODULE RoutinesProofs --------------------------
(***************************************************************************)
(* The routines that the kernel's handlers call, for every value of the    *)
(* constants: every page has one owner and fork copies its parent,         *)
(* read_file gives a program the bytes of its file, search_file finds the  *)
(* entry a path spells, the memory functions keep their promise, and       *)
(* nothing leaves its type.                                                *)
(***************************************************************************)
EXTENDS ProcessListsProofs

-----------------------------------------------------------------------------
(* AddressSpace: the memory of processes. *)

(* The levels of a process's tables, as Space follows them. *)
Pud(p) == IF page_map[p] = NULL \/ state[p] = "free_map" THEN NULL ELSE entry[page_map[p]]
Pmd(p) == IF Pud(p) = NULL \/ state[p] = "free_pgd" THEN NULL ELSE entry[Pud(p)]
User(p) == IF Pmd(p) = NULL \/ state[p] = "free_pud" THEN NULL ELSE entry[Pmd(p)]

NotIn(x, S) == x = NULL \/ x \notin S

(* No page has two uses in a process. *)
Distinct(p) ==
  /\ NotIn(stack[p], {page[p], page_map[p], Pud(p), Pmd(p), User(p)})
  /\ NotIn(page[p], {page_map[p], Pud(p), Pmd(p), User(p)})
  /\ NotIn(page_map[p], {Pud(p), Pmd(p), User(p)})
  /\ NotIn(Pud(p), {Pmd(p), User(p)})
  /\ NotIn(Pmd(p), {User(p)})

(***************************************************************************)
(* What a process has in each state of its life: a pointer that is about   *)
(* to be overwritten is NULL, and one that is about to be followed or      *)
(* freed is not.                                                           *)
(***************************************************************************)
Shape(p) ==
  /\ state[p] \in {"unused", "stack"} => stack[p] = NULL
  /\ state[p] \in {"map", "page", "pud", "pmd", "load", "live", "dead"} => stack[p] # NULL
  /\ state[p] \in {"unused", "stack", "map", "stopped"} => page_map[p] = NULL
  /\ state[p] \in {"page", "pud", "pmd"} \cup Freeing => page_map[p] # NULL
  /\ state[p] \in {"page", "pud"} => Pud(p) = NULL
  /\ state[p] = "pmd" => Pud(p) # NULL /\ Pmd(p) = NULL
  /\ state[p] \in {"load", "live", "dead"} => User(p) # NULL
  /\ state[p] = "free_pmd" => User(p) = NULL
  /\ state[p] \in {"pud", "pmd"} => page[p] # NULL
  /\ state[p] \notin {"pud", "pmd", "failed"} => page[p] = NULL

(* A fork copies one process, which stays live, and the copy, once made, stays equal to it. *)
ForkOK(p) ==
  Forking(p) =>
    /\ state[p] \in {"stack", "map", "page", "pud", "pmd", "failed", "stopped"}
    /\ \A q, r \in clones[p] : q = r
    /\ \A q \in clones[p] : /\ state[q] = "live"
                            /\ state[p] \in {"pud", "pmd"} => data[page[p]] = data[User(q)]

(* The inductive invariant. *)
Inv ==
  /\ TypeOK
  /\ PagesAccountedFor
  /\ \A p \in Slot : Distinct(p)
  /\ \A p \in Slot : Shape(p)
  /\ \A p \in Slot : ForkOK(p)

-----------------------------------------------------------------------------
LEMMA PageFacts == NULL \notin Page
BY AddressSpaceAssumption DEF NULL, Page

(* The pages of a process, by name. *)
LEMMA SpaceIs ==
  ASSUME NEW p \in Slot
  PROVE  Space(p) = {stack[p], page[p], page_map[p], Pud(p), Pmd(p), User(p)} \ {NULL}
BY DEF Space, Pud, Pmd, User

LEMMA LevelTypes ==
  ASSUME TypeOK, NEW p \in Slot
  PROVE  /\ stack[p] \in Page \cup {NULL} /\ page[p] \in Page \cup {NULL}
         /\ page_map[p] \in Page \cup {NULL}
         /\ Pud(p) \in Page \cup {NULL}
         /\ Pmd(p) \in Page \cup {NULL}
         /\ User(p) \in Page \cup {NULL}
         /\ Space(p) \subseteq Page
<1>1. page_map[p] \in Page \cup {NULL} /\ stack[p] \in Page \cup {NULL} /\ page[p] \in Page \cup {NULL}
  BY DEF TypeOK
<1>2. Pud(p) \in Page \cup {NULL}
  BY <1>1 DEF TypeOK, Pud
<1>3. Pmd(p) \in Page \cup {NULL}
  BY <1>2 DEF TypeOK, Pmd
<1>4. User(p) \in Page \cup {NULL}
  BY <1>3 DEF TypeOK, User
<1> QED
  BY <1>1, <1>2, <1>3, <1>4, SpaceIs

(***************************************************************************)
(* A step of process p changes its own slot, and the entries and contents  *)
(* of its own pages and of free ones.                                      *)
(***************************************************************************)
Touches(p) ==
  /\ \A q \in Slot : q # p =>
        /\ state'[q] = state[q] /\ stack'[q] = stack[q] /\ page_map'[q] = page_map[q]
        /\ page'[q] = page[q] /\ clones'[q] = clones[q]
  /\ \A t \in Page : t \notin Space(p) /\ t \notin free => entry'[t] = entry[t] /\ data'[t] = data[t]

(* Such a step leaves the other processes' memory alone. *)
LEMMA OtherSpaces ==
  ASSUME Inv, NEW p \in Slot, NEW q \in Slot, p # q, Touches(p)
  PROVE  /\ Pud(q)' = Pud(q) /\ Pmd(q)' = Pmd(q) /\ User(q)' = User(q)
         /\ Space(q)' = Space(q)
         /\ Distinct(q)'
         /\ Shape(q)'
         /\ \A t \in Space(q) : data'[t] = data[t]
<1>1. \A t \in Space(q) : t \in Page /\ t # NULL /\ entry'[t] = entry[t] /\ data'[t] = data[t]
  BY LevelTypes, PageFacts DEF Inv, Touches, PagesAccountedFor, SpacesDisjoint
<1>2. /\ state'[q] = state[q] /\ stack'[q] = stack[q] /\ page_map'[q] = page_map[q]
      /\ page'[q] = page[q]
  BY DEF Touches
<1>3. Pud(q)' = Pud(q)
  <2>1. page_map[q] # NULL => page_map[q] \in Space(q)
    BY SpaceIs
  <2> QED
    BY <1>1, <1>2, <2>1 DEF Pud
<1>4. Pmd(q)' = Pmd(q)
  <2>1. Pud(q) # NULL => Pud(q) \in Space(q)
    BY SpaceIs
  <2> QED
    BY <1>1, <1>2, <1>3, <2>1 DEF Pmd
<1>5. User(q)' = User(q)
  <2>1. Pmd(q) # NULL => Pmd(q) \in Space(q)
    BY SpaceIs
  <2> QED
    BY <1>1, <1>2, <1>4, <2>1 DEF User
<1>6. Space(q)' = {stack'[q], page'[q], page_map'[q], Pud(q)', Pmd(q)', User(q)'} \ {NULL}
  BY DEF Space, Pud, Pmd, User
<1>7. Space(q)' = Space(q)
  BY <1>2, <1>3, <1>4, <1>5, <1>6, SpaceIs
<1>8. Distinct(q)'
  BY <1>2, <1>3, <1>4, <1>5 DEF Inv, Distinct
<1>9. Shape(q)'
  BY <1>2, <1>3, <1>4, <1>5 DEF Inv, Shape
<1> QED
  BY <1>1, <1>3, <1>4, <1>5, <1>7, <1>8, <1>9

-----------------------------------------------------------------------------
(* The three things a step of p may do to its pages: nothing, take a free page, give one back. *)
Keeps(p) == Space(p)' = Space(p) /\ free' = free /\ allocated' = allocated

Takes(p, a) ==
  /\ a \in free /\ Space(p)' = Space(p) \cup {a}
  /\ free' = free \ {a} /\ allocated' = allocated \cup {a}

Gives(p, a) ==
  /\ a \in Space(p) /\ Space(p)' = Space(p) \ {a}
  /\ allocated' = allocated \ {a} /\ free' \in {free, free \cup {a}}

Accounts(p) == Keeps(p) \/ \E a \in Page : Takes(p, a) \/ Gives(p, a)

(* A process that is being copied stays live and keeps its memory. *)
StaysForCopy(p) ==
  (\E q \in Slot : p \in clones[q]) =>
     state'[p] = "live" /\ User(p)' = User(p) /\ data'[User(p)] = data[User(p)]

LEMMA AccountsStep ==
  ASSUME Inv, NEW p \in Slot, Touches(p), Accounts(p)
  PROVE  PagesAccountedFor'
<1>1. \A q \in Slot : q # p => Space(q)' = Space(q)
  BY OtherSpaces
<1>2. /\ \A q \in Slot : Space(q) \subseteq allocated
      /\ \A q, r \in Slot : q # r => Space(q) \cap Space(r) = {}
      /\ free \cap allocated = {}
      /\ \A t \in allocated : \E q \in Slot : t \in Space(q)
  BY DEF Inv, PagesAccountedFor, SpacesDisjoint, NothingLeaks
<1>3. SUFFICES /\ \A q \in Slot : Space(q)' \subseteq allocated'
               /\ \A q, r \in Slot : q # r => Space(q)' \cap Space(r)' = {}
               /\ free' \cap allocated' = {}
               /\ \A t \in allocated' : \E q \in Slot : t \in Space(q)'
  BY DEF PagesAccountedFor, SpacesDisjoint, NothingLeaks
<1>4. CASE Keeps(p)
  BY <1>1, <1>2, <1>4 DEF Keeps
<1>5. ASSUME NEW a \in Page, Takes(p, a)
      PROVE  /\ \A q \in Slot : Space(q)' \subseteq allocated'
             /\ \A q, r \in Slot : q # r => Space(q)' \cap Space(r)' = {}
             /\ free' \cap allocated' = {}
             /\ \A t \in allocated' : \E q \in Slot : t \in Space(q)'
  BY <1>1, <1>2, <1>5 DEF Takes
<1>6. ASSUME NEW a \in Page, Gives(p, a)
      PROVE  /\ \A q \in Slot : Space(q)' \subseteq allocated'
             /\ \A q, r \in Slot : q # r => Space(q)' \cap Space(r)' = {}
             /\ free' \cap allocated' = {}
             /\ \A t \in allocated' : \E q \in Slot : t \in Space(q)'
  <2>1. \A q \in Slot : q # p => a \notin Space(q)
    BY <1>2, <1>6 DEF Gives
  <2>2. \A q \in Slot : Space(q)' \subseteq allocated'
    BY <1>1, <1>2, <1>6, <2>1 DEF Gives
  <2>3. \A q, r \in Slot : q # r => Space(q)' \cap Space(r)' = {}
    BY <1>1, <1>2, <1>6 DEF Gives
  <2>4. free' \cap allocated' = {}
    BY <1>2, <1>6 DEF Gives
  <2>5. \A t \in allocated' : \E q \in Slot : t \in Space(q)'
    BY <1>1, <1>2, <1>6 DEF Gives
  <2> QED
    BY <2>2, <2>3, <2>4, <2>5
<1> QED
  BY <1>4, <1>5, <1>6 DEF Accounts

LEMMA ForksStep ==
  ASSUME Inv, NEW p \in Slot, Touches(p), StaysForCopy(p), NEW q \in Slot, q # p
  PROVE  ForkOK(q)'
<1>1. /\ state'[q] = state[q] /\ page'[q] = page[q] /\ clones'[q] = clones[q]
      /\ Forking(q)' = Forking(q)
  BY DEF Touches, Forking
<1>0. /\ Forking(q) => state[q] \in {"stack", "map", "page", "pud", "pmd", "failed", "stopped"}
      /\ \A r, u \in clones[q] : r = u
  BY DEF Inv, ForkOK, Forking
<1>2. SUFFICES ASSUME Forking(q), NEW r \in clones[q]
               PROVE  /\ state'[r] = "live"
                      /\ state[q] \in {"pud", "pmd"} => data'[page[q]] = data'[User(r)']
  BY <1>0, <1>1 DEF ForkOK
<1>3. r \in Slot /\ state[r] = "live" /\ r # q
  BY <1>2 DEF Inv, TypeOK, ForkOK
<1>4. state[q] \in {"pud", "pmd"} => data[page[q]] = data[User(r)] /\ page[q] # NULL
  BY <1>2 DEF Inv, ForkOK, Shape
<1>5. User(r) # NULL
  BY <1>3 DEF Inv, Shape
<1>6. state[q] \in {"pud", "pmd"} => data'[page[q]] = data[page[q]]
  BY <1>4, OtherSpaces, SpaceIs
<1>7. CASE r = p
  BY <1>2, <1>4, <1>6, <1>7 DEF StaysForCopy
<1>8. CASE r # p
  <2>1. state'[r] = "live"
    BY <1>3, <1>8 DEF Touches
  <2>2. User(r)' = User(r) /\ data'[User(r)] = data[User(r)]
    BY <1>3, <1>5, <1>8, OtherSpaces, SpaceIs
  <2> QED
    BY <1>4, <1>6, <2>1, <2>2
<1> QED
  BY <1>7, <1>8

(* What must be shown of each step. *)
StepOK(p) ==
  /\ Touches(p) /\ Accounts(p) /\ StaysForCopy(p)
  /\ TypeOK' /\ Distinct(p)' /\ Shape(p)' /\ ForkOK(p)'

LEMMA StepOKSuffices ==
  ASSUME Inv, NEW p \in Slot, StepOK(p)
  PROVE  Inv'
<1>1. PagesAccountedFor'
  BY AccountsStep DEF StepOK
<1>2. \A q \in Slot : Distinct(q)' /\ Shape(q)'
  BY OtherSpaces DEF StepOK
<1>3. \A q \in Slot : ForkOK(q)'
  BY ForksStep DEF StepOK
<1> QED
  BY <1>1, <1>2, <1>3 DEF Inv, StepOK

(* Only a live process is copied, so a step of another needs no care. *)
LEMMA NotCopied ==
  ASSUME Inv, NEW p \in Slot, state[p] # "live"
  PROVE  StaysForCopy(p)
BY DEF Inv, ForkOK, StaysForCopy, Forking

(* The copied processes stay as they are in a step of the process that is made. *)
LEMMA ForkingStep ==
  ASSUME Inv, NEW p \in Slot, Touches(p), clones'[p] = clones[p], state[p] # "live",
         Forking(p) => state'[p] \in {"map", "page", "pud", "pmd", "failed", "stopped"},
         state'[p] \in {"pud", "pmd"} => \A q \in clones[p] : data'[page'[p]] = data[User(q)]
  PROVE  ForkOK(p)'
<1>1. \A q \in clones[p] : q \in Slot /\ q # p /\ state[q] = "live" /\ User(q) # NULL
  BY DEF Inv, TypeOK, ForkOK, Forking, Shape
<1>2. \A q \in clones[p] : state'[q] = "live"
  BY <1>1 DEF Touches
<1>3. \A q \in clones[p] : User(q)' = User(q) /\ data'[User(q)] = data[User(q)]
  BY <1>1, OtherSpaces, SpaceIs
<1>4. \A q, r \in clones[p] : q = r
  BY DEF Inv, ForkOK, Forking
<1>5. Forking(p)' = Forking(p)
  BY DEF Forking
<1> QED
  BY <1>2, <1>3, <1>4, <1>5 DEF ForkOK

LEMMA SpaceIsNext ==
  ASSUME NEW p \in Slot
  PROVE  Space(p)' = {stack'[p], page'[p], page_map'[p], Pud(p)', Pmd(p)', User(p)'} \ {NULL}
BY DEF Space, Pud, Pmd, User
-----------------------------------------------------------------------------
(* alloc_new_process: the stack. *)
LEMMA AllocStackStep ==
  ASSUME Inv, NEW p \in Slot, AllocStack(p)
  PROVE  StepOK(p)
<1> USE DEF Goto, Kalloc
<1>1. PICK a \in free : Kalloc(a) /\ stack' = [stack EXCEPT ![p] = a]
  BY DEF AllocStack
<1>2. a \in Page /\ a # NULL /\ state[p] = "stack" /\ state'[p] = "map"
  BY <1>1, PageFacts DEF AllocStack, Inv, TypeOK
<1>3. /\ stack[p] = NULL /\ page[p] = NULL /\ page_map[p] = NULL
      /\ stack'[p] = a /\ page'[p] = NULL /\ page_map'[p] = NULL
  BY <1>1, <1>2 DEF AllocStack, Inv, TypeOK, Shape
<1>4. /\ Pud(p) = NULL /\ Pmd(p) = NULL /\ User(p) = NULL
      /\ Pud(p)' = NULL /\ Pmd(p)' = NULL /\ User(p)' = NULL
  BY <1>3 DEF Pud, Pmd, User
<1>5. TypeOK'
  BY <1>1, <1>2 DEF AllocStack, Inv, TypeOK, Making
<1>6. Touches(p)
  BY <1>1 DEF AllocStack, Touches, Inv, TypeOK
<1>7. Accounts(p)
  BY <1>1, <1>2, <1>3, <1>4, SpaceIs, SpaceIsNext DEF Accounts, Takes
<1>8. Distinct(p)' /\ Shape(p)'
  BY <1>2, <1>3, <1>4 DEF Distinct, Shape, NotIn, Freeing
<1>9. ForkOK(p)'
  BY <1>2, <1>6, ForkingStep DEF AllocStack
<1> QED
  BY <1>2, <1>5, <1>6, <1>7, <1>8, <1>9, NotCopied DEF StepOK

(* alloc_new_process: the root table, cleared. *)
LEMMA AllocMapStep ==
  ASSUME Inv, NEW p \in Slot, AllocMap(p)
  PROVE  StepOK(p)
<1> USE DEF Goto, Kalloc
<1>1. PICK a \in free : /\ Kalloc(a)
                        /\ page_map' = [page_map EXCEPT ![p] = a]
                        /\ entry' = [entry EXCEPT ![a] = NULL]
  BY DEF AllocMap
<1>2. a \in Page /\ a # NULL /\ state[p] = "map" /\ state'[p] = "page"
  BY <1>1, PageFacts DEF AllocMap, Inv, TypeOK
<1>3. /\ stack[p] # NULL /\ page[p] = NULL /\ page_map[p] = NULL
      /\ stack'[p] = stack[p] /\ page'[p] = NULL /\ page_map'[p] = a
  BY <1>1, <1>2 DEF AllocMap, Inv, TypeOK, Shape
<1>4. /\ Pud(p) = NULL /\ Pmd(p) = NULL /\ User(p) = NULL
      /\ Pud(p)' = NULL /\ Pmd(p)' = NULL /\ User(p)' = NULL
  BY <1>1, <1>2, <1>3 DEF Pud, Pmd, User, Inv, TypeOK
<1>5. TypeOK'
  BY <1>1, <1>2 DEF AllocMap, Inv, TypeOK, Making
<1>6. Touches(p)
  BY <1>1 DEF AllocMap, Touches, Inv, TypeOK
<1>7. Accounts(p)
  BY <1>1, <1>2, <1>3, <1>4, SpaceIs, SpaceIsNext DEF Accounts, Takes
<1>8. stack[p] # a
  BY <1>1, <1>3, SpaceIs DEF Inv, PagesAccountedFor, SpacesDisjoint
<1>9. Distinct(p)' /\ Shape(p)'
  BY <1>2, <1>3, <1>4, <1>8 DEF Distinct, Shape, NotIn, Freeing
<1>10. ForkOK(p)'
  BY <1>2, <1>6, ForkingStep DEF AllocMap
<1> QED
  BY <1>2, <1>5, <1>6, <1>7, <1>9, <1>10, NotCopied DEF StepOK

(* setup_uvm and copy_uvm: the page of user memory. *)
LEMMA AllocPageStep ==
  ASSUME Inv, NEW p \in Slot, AllocPage(p)
  PROVE  StepOK(p)
<1> USE DEF Goto, Kalloc
<1>1. PICK a \in free :
         /\ Kalloc(a)
         /\ page' = [page EXCEPT ![p] = a]
         /\ \E v \in IF Forking(p) THEN {View(q) : q \in clones[p]} ELSE {Zero} :
               data' = [data EXCEPT ![a] = v]
  BY DEF AllocPage
<1>c. ASSUME NEW q \in clones[p]
      PROVE  View(q) = data[User(q)] /\ View(q) \in Image
  <2>1. q \in Slot /\ state[q] = "live" /\ User(q) # NULL
    BY DEF Inv, TypeOK, ForkOK, Forking, Shape
  <2>2. View(q) = data[User(q)]
    BY <2>1 DEF View, UserPage, find_pud_entry, User, Pmd, Pud
  <2>3. User(q) \in Page
    BY <2>1, LevelTypes DEF Inv
  <2> QED
    BY <2>2, <2>3 DEF Inv, TypeOK
<1>u. \A q, r \in clones[p] : q = r
  BY DEF Inv, ForkOK, Forking
<1>v. PICK v \in Image : data' = [data EXCEPT ![a] = v] /\ \A q \in clones[p] : v = View(q)
  <2>1. CASE Forking(p)
    BY <1>1, <1>c, <1>u, <2>1
  <2>2. CASE ~Forking(p)
    BY AddressSpaceAssumption, <1>1, <2>2 DEF Forking
  <2> QED
    BY <2>1, <2>2
<1>2. a \in Page /\ a # NULL /\ state[p] = "page" /\ state'[p] = "pud"
  BY <1>1, PageFacts DEF AllocPage, Inv, TypeOK
<1>3. /\ stack[p] # NULL /\ page[p] = NULL /\ page_map[p] # NULL
      /\ stack'[p] = stack[p] /\ page'[p] = a /\ page_map'[p] = page_map[p]
  BY <1>1, <1>2 DEF AllocPage, Inv, TypeOK, Shape
<1>4. /\ Pud(p) = NULL /\ Pmd(p) = NULL /\ User(p) = NULL
      /\ Pud(p)' = NULL /\ Pmd(p)' = NULL /\ User(p)' = NULL
  BY <1>2, <1>3 DEF Pud, Pmd, User, Inv, Shape, AllocPage
<1>s. \A q \in clones[p] : data'[a] = data[User(q)]
  BY <1>c, <1>v, <1>2 DEF Inv, TypeOK
<1>5. TypeOK'
  BY <1>1, <1>v, <1>2 DEF AllocPage, Inv, TypeOK, Making
<1>6. Touches(p)
  BY <1>1, <1>v DEF AllocPage, Touches, Inv, TypeOK
<1>7. Accounts(p)
  BY <1>1, <1>2, <1>3, <1>4, SpaceIs, SpaceIsNext DEF Accounts, Takes
<1>8. stack[p] # a /\ page_map[p] # a
  BY <1>1, <1>3, SpaceIs DEF Inv, PagesAccountedFor, SpacesDisjoint
<1>d. stack[p] # page_map[p]
  BY <1>3 DEF Inv, Distinct, NotIn
<1>9. Distinct(p)' /\ Shape(p)'
  BY <1>2, <1>3, <1>4, <1>8, <1>d DEF Distinct, Shape, NotIn, Freeing
<1>10. ForkOK(p)'
  BY <1>2, <1>3, <1>6, <1>s, ForkingStep DEF AllocPage
<1> QED
  BY <1>2, <1>5, <1>6, <1>7, <1>9, <1>10, NotCopied DEF StepOK

(* map_page: the second table. *)
LEMMA AllocPudStep ==
  ASSUME Inv, NEW p \in Slot, AllocPud(p)
  PROVE  StepOK(p)
<1> USE DEF Goto, Kalloc
<1>1. PICK a \in free : /\ Kalloc(a)
                        /\ entry' = [entry EXCEPT ![a] = NULL, ![page_map[p]] = a]
  BY DEF AllocPud
<1>2. a \in Page /\ a # NULL /\ state[p] = "pud" /\ state'[p] = "pmd"
  BY <1>1, PageFacts DEF AllocPud, Inv, TypeOK
<1>3. /\ stack[p] # NULL /\ page[p] # NULL /\ page_map[p] # NULL
      /\ stack'[p] = stack[p] /\ page'[p] = page[p] /\ page_map'[p] = page_map[p]
  BY <1>1, <1>2 DEF AllocPud, Inv, TypeOK, Shape
<1>4. stack[p] # a /\ page_map[p] # a /\ page[p] # a
  BY <1>1, <1>3, SpaceIs DEF Inv, PagesAccountedFor, SpacesDisjoint
<1>5. stack[p] # page_map[p] /\ stack[p] # page[p] /\ page[p] # page_map[p]
  BY <1>3 DEF Inv, Distinct, NotIn
<1>6. page_map[p] \in Page /\ page_map[p] \in Space(p)
  BY <1>3, SpaceIs DEF Inv, TypeOK
<1>7. /\ Pud(p) = NULL /\ Pmd(p) = NULL /\ User(p) = NULL
      /\ Pud(p)' = a /\ Pmd(p)' = NULL /\ User(p)' = NULL
  <2>1. Pud(p) = NULL /\ Pmd(p) = NULL /\ User(p) = NULL
    BY <1>2 DEF Pmd, User, Inv, Shape
  <2>2. entry'[page_map[p]] = a /\ entry'[a] = NULL
    BY <1>1, <1>2, <1>4, <1>6 DEF Inv, TypeOK
  <2>3. Pud(p)' = a
    BY <1>2, <1>3, <2>2 DEF Pud
  <2> QED
    BY <1>2, <2>1, <2>2, <2>3 DEF Pmd, User
<1>8. TypeOK'
  BY <1>1, <1>2 DEF AllocPud, Inv, TypeOK, Making
<1>9. Touches(p)
  BY <1>1, <1>6 DEF AllocPud, Touches, Inv, TypeOK
<1>10. Accounts(p)
  BY <1>1, <1>2, <1>3, <1>7, SpaceIs, SpaceIsNext DEF Accounts, Takes
<1>11. Distinct(p)' /\ Shape(p)'
  BY <1>2, <1>3, <1>4, <1>5, <1>7 DEF Distinct, Shape, NotIn, Freeing
<1>12. ForkOK(p)'
  <2>1. \A q \in clones[p] : data[page[p]] = data[User(q)]
    BY <1>2 DEF Inv, ForkOK, Forking
  <2>2. data' = data /\ page' = page /\ clones' = clones
    BY DEF AllocPud
  <2> QED
    BY <1>2, <1>9, <2>1, <2>2, ForkingStep
<1> QED
  BY <1>2, <1>8, <1>9, <1>10, <1>11, <1>12, NotCopied DEF StepOK

(* map_page: the third table, with the page in it. *)
LEMMA AllocPmdStep ==
  ASSUME Inv, NEW p \in Slot, AllocPmd(p)
  PROVE  StepOK(p) /\ User(p)' = page[p]
<1> USE DEF Goto, Kalloc
<1>1. PICK a \in free :
         /\ Kalloc(a)
         /\ entry' = [entry EXCEPT ![a] = page[p], ![entry[page_map[p]]] = a]
  BY DEF AllocPmd
<1>2. a \in Page /\ a # NULL /\ state[p] = "pmd" /\ state'[p] \in {"live", "load"}
  BY <1>1, PageFacts DEF AllocPmd, Inv, TypeOK
<1>3. /\ stack[p] # NULL /\ page[p] # NULL /\ page_map[p] # NULL /\ Pud(p) # NULL
      /\ stack'[p] = stack[p] /\ page'[p] = NULL /\ page_map'[p] = page_map[p]
  BY <1>1, <1>2 DEF AllocPmd, Inv, TypeOK, Shape, Pud
<1>4. Pud(p) = entry[page_map[p]]
  BY <1>2, <1>3 DEF Pud
<1>5. stack[p] # a /\ page_map[p] # a /\ page[p] # a /\ Pud(p) # a
  BY <1>1, <1>3, SpaceIs DEF Inv, PagesAccountedFor, SpacesDisjoint
<1>6. /\ stack[p] # page_map[p] /\ stack[p] # page[p] /\ page[p] # page_map[p]
      /\ Pud(p) # page_map[p] /\ Pud(p) # stack[p] /\ Pud(p) # page[p]
  BY <1>3 DEF Inv, Distinct, NotIn
<1>7. Pud(p) \in Page /\ Pud(p) \in Space(p) /\ page[p] \in Page /\ page_map[p] \in Page
  BY <1>3, SpaceIs, LevelTypes DEF Inv, TypeOK
<1>8. /\ Pmd(p) = NULL /\ User(p) = NULL
      /\ Pud(p)' = Pud(p) /\ Pmd(p)' = a /\ User(p)' = page[p]
  <2>1. Pmd(p) = NULL /\ User(p) = NULL
    BY <1>2 DEF User, Inv, Shape
  <2>2. /\ entry'[page_map[p]] = Pud(p) /\ entry'[Pud(p)] = a /\ entry'[a] = page[p]
    BY <1>1, <1>2, <1>4, <1>5, <1>6, <1>7 DEF Inv, TypeOK
  <2>3. Pud(p)' = Pud(p)
    BY <1>2, <1>3, <2>2 DEF Pud
  <2>4. Pmd(p)' = a
    BY <1>2, <1>3, <2>2, <2>3 DEF Pmd
  <2> QED
    BY <1>2, <2>1, <2>2, <2>3, <2>4 DEF User
<1>9. TypeOK'
  BY <1>1, <1>2, <1>7 DEF AllocPmd, Inv, TypeOK, Making
<1>10. Touches(p)
  <2>1. \A t \in Page : t \notin Space(p) /\ t \notin free => entry'[t] = entry[t]
    BY <1>1, <1>4, <1>7 DEF Inv, TypeOK
  <2> QED
    BY <2>1 DEF AllocPmd, Touches, Inv, TypeOK
<1>11. Accounts(p)
  <2>1. Space(p)' = Space(p) \cup {a}
    BY <1>2, <1>3, <1>8, SpaceIs, SpaceIsNext
  <2> QED
    BY <1>1, <1>2, <2>1 DEF Accounts, Takes
<1>12. Distinct(p)' /\ Shape(p)'
  BY <1>2, <1>3, <1>5, <1>6, <1>8 DEF Distinct, Shape, NotIn, Freeing
<1>13. ForkOK(p)'
  BY DEF AllocPmd, ForkOK, Forking, Inv, TypeOK
<1> QED
  BY <1>2, <1>8, <1>9, <1>10, <1>11, <1>12, <1>13, NotCopied DEF StepOK
-----------------------------------------------------------------------------
(* A step that writes no table and is not within free_vm keeps the tables. *)
LEMMA SameTables ==
  ASSUME NEW p \in Slot, entry' = entry, page_map'[p] = page_map[p],
         state[p] \notin {"free_pud", "free_pgd", "free_map"},
         state'[p] \notin {"free_pud", "free_pgd", "free_map"}
  PROVE  Pud(p)' = Pud(p) /\ Pmd(p)' = Pmd(p) /\ User(p)' = User(p)
BY DEF Pud, Pmd, User

LEMMA ForkStep ==
  ASSUME Inv, NEW p \in Slot, NEW q \in Slot, Fork(p, q)
  PROVE  StepOK(p)
<1>1. /\ state[p] = "unused" /\ state'[p] = "stack" /\ state[q] = "live" /\ p # q
      /\ entry' = entry /\ stack' = stack /\ page' = page /\ page_map' = page_map
      /\ free' = free /\ allocated' = allocated /\ data' = data
      /\ clones'[p] = {q}
  BY DEF Fork, Goto, Inv, TypeOK
<1>2. Pud(p)' = Pud(p) /\ Pmd(p)' = Pmd(p) /\ User(p)' = User(p)
  BY <1>1, SameTables
<1>3. TypeOK'
  BY DEF Fork, Goto, Inv, TypeOK, Making
<1>4. Touches(p)
  BY DEF Fork, Goto, Touches, Inv, TypeOK
<1>5. Accounts(p)
  BY <1>1, <1>2, SpaceIs, SpaceIsNext DEF Accounts, Keeps
<1>6. Distinct(p)'
  BY <1>1, <1>2 DEF Inv, Distinct
<1>7. Shape(p)'
  BY <1>1, <1>2 DEF Inv, Shape, Freeing
<1>8. ForkOK(p)'
  BY <1>1 DEF ForkOK, Fork, Goto, Inv, TypeOK
<1> QED
  BY <1>1, <1>3, <1>4, <1>5, <1>6, <1>7, <1>8, NotCopied DEF StepOK

(* setup_uvm reads the file into the page, or a program stores into its memory. *)
LEMMA WriteStep ==
  ASSUME Inv, NEW p \in Slot, NEW v \in Image, Load(p, v) \/ Store(p, v)
  PROVE  StepOK(p) /\ ~Forking(p)
<1>1. /\ state[p] \in {"load", "live"} /\ state'[p] = "live"
      /\ entry' = entry /\ stack' = stack /\ page' = page /\ page_map' = page_map
      /\ free' = free /\ allocated' = allocated /\ clones' = clones
      /\ data' = [data EXCEPT ![UserPage(p)] = v]
  BY DEF Load, Store, Goto, Inv, TypeOK
<1>2. Pud(p)' = Pud(p) /\ Pmd(p)' = Pmd(p) /\ User(p)' = User(p)
  BY <1>1, SameTables
<1>3. User(p) \in Page /\ User(p) \in Space(p) /\ UserPage(p) = User(p)
  <2>1. User(p) # NULL
    BY <1>1 DEF Inv, Shape
  <2>2. UserPage(p) = User(p)
    BY <1>1, <2>1 DEF UserPage, find_pud_entry, User, Pmd, Pud
  <2> QED
    BY <2>1, <2>2, SpaceIs, LevelTypes DEF Inv
<1>4. TypeOK'
  BY <1>1, <1>3 DEF Load, Store, Goto, Inv, TypeOK
<1>5. Touches(p)
  <2>1. \A t \in Page : t \notin Space(p) => data'[t] = data[t]
    BY <1>1, <1>3 DEF Inv, TypeOK
  <2> QED
    BY <1>1, <2>1 DEF Load, Store, Goto, Touches, Inv, TypeOK
<1>6. Accounts(p)
  BY <1>1, <1>2, SpaceIs, SpaceIsNext DEF Accounts, Keeps
<1>7. Distinct(p)'
  BY <1>1, <1>2 DEF Inv, Distinct
<1>8. Shape(p)'
  BY <1>1, <1>2 DEF Inv, Shape, Freeing
<1>9. ~Forking(p) /\ ForkOK(p)'
  BY <1>1 DEF Inv, ForkOK, Forking
<1>10. StaysForCopy(p)
  <2>1. CASE state[p] = "load"
    BY <2>1, NotCopied
  <2>2. CASE Store(p, v)
    BY <2>2 DEF Store, StaysForCopy
  <2> QED
    BY <2>1, <2>2 DEF Load
<1> QED
  BY <1>4, <1>5, <1>6, <1>7, <1>8, <1>9, <1>10 DEF StepOK

(* A step that only moves p on: setup_uvm fails, kalloc fails, exit. *)
LEMMA MoveStep ==
  ASSUME Inv, NEW p \in Slot, LoadFails(p) \/ KallocFails(p) \/ Exit(p)
  PROVE  StepOK(p) /\ state'[p] # "live"
<1> USE DEF Goto
<1>1. /\ entry' = entry /\ stack' = stack /\ page' = page /\ page_map' = page_map
      /\ free' = free /\ allocated' = allocated /\ clones' = clones /\ data' = data
  BY DEF LoadFails, KallocFails, Exit
<1>2. \/ state[p] = "load" /\ state' = [state EXCEPT ![p] = "free_page"]
      \/ state[p] \in {"stack", "map"} /\ state' = [state EXCEPT ![p] = "stopped"]
      \/ state[p] \in {"page", "pud", "pmd"} /\ state' = [state EXCEPT ![p] = "failed"]
      \/ state[p] = "live" /\ ProcessLockFree /\ state' = [state EXCEPT ![p] = "dead"]
  BY DEF LoadFails, KallocFails, Exit
<1>3. Pud(p)' = Pud(p) /\ Pmd(p)' = Pmd(p) /\ User(p)' = User(p)
  <2>1. /\ state[p] \notin {"free_pud", "free_pgd", "free_map"}
        /\ state'[p] \notin {"free_pud", "free_pgd", "free_map"}
    BY <1>2 DEF Inv, TypeOK
  <2> QED
    BY <1>1, <2>1, SameTables
<1>4. TypeOK'
  BY <1>1, <1>2 DEF Inv, TypeOK, Making, Freeing
<1>5. Touches(p)
  BY <1>1, <1>2 DEF Touches, Inv, TypeOK
<1>6. Accounts(p)
  BY <1>1, <1>3, SpaceIs, SpaceIsNext DEF Accounts, Keeps
<1>7. Distinct(p)'
  BY <1>1, <1>3 DEF Inv, Distinct
<1>8. Shape(p)'
  <2>1. Shape(p) /\ state[p] \in {"load", "stack", "map", "page", "pud", "pmd", "live"}
    BY <1>2 DEF Inv
  <2>2. \/ state[p] = "load" /\ state'[p] = "free_page"
        \/ state[p] \in {"stack", "map"} /\ state'[p] = "stopped"
        \/ state[p] \in {"page", "pud", "pmd"} /\ state'[p] = "failed"
        \/ state[p] = "live" /\ state'[p] = "dead"
    BY <1>2 DEF Inv, TypeOK
  <2>3. User(p) # NULL => page_map[p] # NULL
    BY DEF User, Pmd, Pud
  <2> QED
    BY <1>1, <1>3, <2>1, <2>2, <2>3 DEF Shape, Freeing
<1>9. ForkOK(p)' /\ StaysForCopy(p)
  <2>1. CASE state[p] = "live"
    BY <1>1, <1>2, <2>1 DEF ProcessLockFree, Forking, ForkOK, StaysForCopy
  <2>2. CASE state[p] # "live"
    <3>1. Forking(p) => state[p] # "load"
      BY DEF Inv, ForkOK
    <3>2. Forking(p) => state'[p] \in {"failed", "stopped"}
      BY <1>2, <2>2, <3>1 DEF Inv, TypeOK
    <3>3. state'[p] \notin {"pud", "pmd"}
      BY <1>2 DEF Inv, TypeOK
    <3> QED
      BY <1>1, <1>5, <2>2, <3>2, <3>3, ForkingStep, NotCopied
  <2> QED
    BY <2>1, <2>2
<1>10. state'[p] # "live"
  BY <1>2 DEF Inv, TypeOK
<1> QED
  BY <1>4, <1>5, <1>6, <1>7, <1>8, <1>9, <1>10 DEF StepOK
-----------------------------------------------------------------------------
(* kfree of a page of p, after which p does not have it any more. *)
LEMMA KfreeGives ==
  ASSUME Inv, NEW p \in Slot, NEW a, a \in Space(p), Kfree(a)
  PROVE  /\ a \in Page
         /\ free' \subseteq Page /\ allocated' \subseteq Page /\ data' \in [Page -> Image]
         /\ \A t \in Page : t \notin Space(p) => data'[t] = data[t]
         /\ Space(p)' = Space(p) \ {a} => Accounts(p)
<1>1. a \in Page
  BY LevelTypes DEF Inv
<1>2. free' \subseteq Page /\ allocated' \subseteq Page /\ data' \in [Page -> Image]
  BY AddressSpaceAssumption, <1>1 DEF Kfree, Inv, TypeOK
<1>3. \A t \in Page : t \notin Space(p) => data'[t] = data[t]
  BY <1>1 DEF Kfree, Inv, TypeOK
<1>4. Space(p)' = Space(p) \ {a} => Gives(p, a)
  BY DEF Kfree, Gives
<1> QED
  BY <1>1, <1>2, <1>3, <1>4 DEF Accounts

(* setup_uvm without memory for a table: its page is freed. *)
LEMMA MapPageFailsStep ==
  ASSUME Inv, NEW p \in Slot, MapPageFails(p)
  PROVE  StepOK(p) /\ state'[p] # "live"
<1>1. /\ state[p] \in {"pud", "pmd"} /\ state'[p] = "free_page" /\ ~Forking(p)
      /\ page_map' = page_map /\ stack' = stack /\ entry' = entry /\ clones' = clones
      /\ page'[p] = NULL /\ Kfree(page[p])
  BY DEF MapPageFails, Goto, Inv, TypeOK
<1>2. page[p] # NULL /\ page_map[p] # NULL
  BY <1>1 DEF Inv, Shape
<1>3. Pud(p)' = Pud(p) /\ Pmd(p)' = Pmd(p) /\ User(p)' = User(p)
  BY <1>1, SameTables
<1>4. /\ page[p] # stack[p] /\ page[p] # page_map[p] /\ page[p] # Pud(p)
      /\ page[p] # Pmd(p) /\ page[p] # User(p)
  BY <1>2 DEF Inv, Distinct, NotIn
<1>5. Space(p)' = Space(p) \ {page[p]}
  BY <1>1, <1>2, <1>3, <1>4, SpaceIs, SpaceIsNext
<1>6. page[p] \in Space(p)
  BY <1>2, SpaceIs
<1>7. /\ free' \subseteq Page /\ allocated' \subseteq Page /\ data' \in [Page -> Image]
      /\ \A t \in Page : t \notin Space(p) => data'[t] = data[t]
      /\ Accounts(p)
  BY <1>1, <1>5, <1>6, KfreeGives
<1>8. TypeOK'
  BY <1>1, <1>7 DEF MapPageFails, Goto, Inv, TypeOK, Freeing
<1>9. Touches(p)
  BY <1>1, <1>7 DEF MapPageFails, Goto, Touches, Inv, TypeOK
<1>10. Distinct(p)'
  BY <1>1, <1>3 DEF Inv, Distinct, NotIn
<1>11. Shape(p)'
  BY <1>1, <1>2, <1>3 DEF Shape, Freeing
<1>12. ForkOK(p)'
  BY <1>1 DEF ForkOK, Forking
<1> QED
  BY <1>1, <1>7, <1>8, <1>9, <1>10, <1>11, <1>12, NotCopied DEF StepOK

(* wait: the stack of a process that has exited. *)
LEMMA WaitStep ==
  ASSUME Inv, NEW p \in Slot, Wait(p)
  PROVE  StepOK(p) /\ state'[p] # "live"
<1>1. /\ state[p] = "dead" /\ state'[p] = "free_page"
      /\ page_map' = page_map /\ page' = page /\ entry' = entry /\ clones' = clones
      /\ stack'[p] = NULL /\ Kfree(stack[p])
  BY DEF Wait, Goto, Inv, TypeOK
<1>2. stack[p] # NULL /\ User(p) # NULL /\ page[p] = NULL
  BY <1>1 DEF Inv, Shape
<1>3. Pud(p)' = Pud(p) /\ Pmd(p)' = Pmd(p) /\ User(p)' = User(p)
  BY <1>1, SameTables
<1>4. /\ stack[p] # page[p] /\ stack[p] # page_map[p] /\ stack[p] # Pud(p)
      /\ stack[p] # Pmd(p) /\ stack[p] # User(p)
  BY <1>2 DEF Inv, Distinct, NotIn
<1>5. Space(p)' = Space(p) \ {stack[p]}
  BY <1>1, <1>2, <1>3, <1>4, SpaceIs, SpaceIsNext
<1>6. stack[p] \in Space(p)
  BY <1>2, SpaceIs
<1>7. /\ free' \subseteq Page /\ allocated' \subseteq Page /\ data' \in [Page -> Image]
      /\ \A t \in Page : t \notin Space(p) => data'[t] = data[t]
      /\ Accounts(p)
  BY <1>1, <1>5, <1>6, KfreeGives
<1>8. TypeOK'
  BY <1>1, <1>7 DEF Wait, Goto, Inv, TypeOK, Freeing
<1>9. Touches(p)
  BY <1>1, <1>7 DEF Wait, Goto, Touches, Inv, TypeOK
<1>10. Distinct(p)'
  BY <1>1, <1>3 DEF Inv, Distinct, NotIn
<1>11. Shape(p)'
  <2>1. page_map[p] # NULL
    BY <1>2 DEF User, Pmd, Pud
  <2> QED
    BY <1>1, <1>2, <1>3, <2>1 DEF Shape, Freeing
<1>12. ForkOK(p)'
  BY <1>1 DEF Inv, ForkOK, Forking
<1> QED
  BY <1>1, <1>7, <1>8, <1>9, <1>10, <1>11, <1>12, NotCopied DEF StepOK
-----------------------------------------------------------------------------
(* free_page: the user memory, with its entry. *)
LEMMA FreePageStep ==
  ASSUME Inv, NEW p \in Slot, FreePage(p)
  PROVE  StepOK(p) /\ state'[p] # "live"
<1>1. /\ state[p] = "free_page" /\ state'[p] = "free_pmd"
      /\ page_map' = page_map /\ page' = page /\ stack' = stack /\ clones' = clones
  BY DEF FreePage, Goto, Inv, TypeOK
<1>2. page_map[p] # NULL /\ page[p] = NULL
  BY <1>1 DEF Inv, Shape, Freeing
<1>3. /\ Pud(p) = entry[page_map[p]] /\ find_pud_entry(page_map[p]) = Pmd(p)
      /\ User(p) = (IF Pmd(p) = NULL THEN NULL ELSE entry[Pmd(p)])
  BY <1>1, <1>2 DEF Pud, Pmd, User, find_pud_entry
<1>4. CASE User(p) = NULL
  <2>1. entry' = entry /\ free' = free /\ allocated' = allocated /\ data' = data
    BY <1>3, <1>4 DEF FreePage
  <2>2. Pud(p)' = Pud(p) /\ Pmd(p)' = Pmd(p) /\ User(p)' = User(p)
    BY <1>1, <2>1, SameTables
  <2>3. TypeOK'
    BY <2>1 DEF FreePage, Goto, Inv, TypeOK, Freeing
  <2>4. Touches(p)
    BY <2>1 DEF FreePage, Goto, Touches, Inv, TypeOK
  <2>5. Accounts(p)
    BY <1>1, <2>1, <2>2, SpaceIs, SpaceIsNext DEF Accounts, Keeps
  <2>6. Distinct(p)'
    BY <1>1, <2>2 DEF Inv, Distinct
  <2>7. Shape(p)'
    BY <1>1, <1>2, <1>4, <2>2 DEF Shape, Freeing
  <2>8. ForkOK(p)'
    BY <1>1 DEF Inv, ForkOK, Forking
  <2> QED
    BY <1>1, <2>3, <2>4, <2>5, <2>6, <2>7, <2>8, NotCopied DEF StepOK
<1>5. CASE User(p) # NULL
  <2>1. Kfree(User(p)) /\ entry' = [entry EXCEPT ![Pmd(p)] = NULL] /\ Pmd(p) # NULL
    BY <1>3, <1>5 DEF FreePage
  <2>2. Pmd(p) \in Page /\ Pmd(p) \in Space(p) /\ Pud(p) # NULL /\ Pud(p) \in Page
        /\ page_map[p] \in Page
    BY <1>2, <2>1, SpaceIs, LevelTypes DEF Inv, Pmd
  <2>3. Pmd(p) # Pud(p) /\ Pmd(p) # page_map[p]
    BY <1>2, <2>2 DEF Inv, Distinct, NotIn
  <2>4. entry'[page_map[p]] = Pud(p) /\ entry'[Pud(p)] = Pmd(p) /\ entry'[Pmd(p)] = NULL
    <3>1. entry[Pud(p)] = Pmd(p)
      BY <1>1, <2>2 DEF Pmd
    <3> QED
      BY <1>3, <2>1, <2>2, <2>3, <3>1 DEF Inv, TypeOK
  <2>5. Pud(p)' = Pud(p)
    BY <1>1, <1>2, <2>4 DEF Pud
  <2>6. Pmd(p)' = Pmd(p)
    BY <1>1, <2>2, <2>4, <2>5 DEF Pmd
  <2>7. User(p)' = NULL
    BY <1>1, <2>4, <2>6 DEF User
  <2>8. /\ User(p) # stack[p] /\ User(p) # page_map[p] /\ User(p) # Pud(p) /\ User(p) # Pmd(p)
    BY <1>5 DEF Inv, Distinct, NotIn
  <2>9. Space(p)' = Space(p) \ {User(p)}
    BY <1>1, <1>2, <1>5, <2>5, <2>6, <2>7, <2>8, SpaceIs, SpaceIsNext
  <2>10. User(p) \in Space(p)
    BY <1>5, SpaceIs
  <2>11. /\ free' \subseteq Page /\ allocated' \subseteq Page /\ data' \in [Page -> Image]
         /\ \A t \in Page : t \notin Space(p) => data'[t] = data[t]
         /\ Accounts(p)
    BY <2>1, <2>9, <2>10, KfreeGives
  <2>12. TypeOK'
    BY <2>1, <2>11 DEF FreePage, Goto, Inv, TypeOK, Freeing
  <2>13. Touches(p)
    <3>1. \A t \in Page : t \notin Space(p) => entry'[t] = entry[t]
      BY <2>1, <2>2 DEF Inv, TypeOK
    <3> QED
      BY <2>11, <3>1 DEF FreePage, Goto, Touches, Inv, TypeOK
  <2>14. Distinct(p)'
    BY <1>1, <2>5, <2>6, <2>7 DEF Inv, Distinct, NotIn
  <2>15. Shape(p)'
    BY <1>1, <1>2, <2>7 DEF Shape, Freeing
  <2>16. ForkOK(p)'
    BY <1>1 DEF Inv, ForkOK, Forking
  <2> QED
    BY <1>1, <2>11, <2>12, <2>13, <2>14, <2>15, <2>16, NotCopied DEF StepOK
<1> QED
  BY <1>4, <1>5

(* One table of free_table: the level x below it, if there is one, is freed. *)
LEMMA FreeLevel ==
  ASSUME Inv, NEW p \in Slot, state[p] \in Freeing,
         NEW s \in {"free_pud", "free_pgd", "free_map"}, Goto(p, s),
         UNCHANGED <<entry, stack, page_map, page, clones>>,
         NEW x, x = NULL \/ x \in Space(p),
         IF x # NULL THEN Kfree(x) ELSE UNCHANGED <<free, allocated, data>>,
         Pud(p)' \in {Pud(p), NULL}, Pmd(p)' \in {Pmd(p), NULL}, User(p)' = NULL,
         Space(p)' = Space(p) \ {x}
  PROVE  StepOK(p) /\ state'[p] # "live"
<1>1. page_map[p] # NULL /\ page[p] = NULL /\ state[p] # "live" /\ state'[p] = s
  BY DEF Inv, TypeOK, Shape, Freeing, Goto
<1>2. /\ free' \subseteq Page /\ allocated' \subseteq Page /\ data' \in [Page -> Image]
      /\ \A t \in Page : t \notin Space(p) => data'[t] = data[t]
      /\ Accounts(p)
  <2>1. CASE x # NULL
    BY <2>1, KfreeGives
  <2>2. CASE x = NULL
    <3>1. NULL \notin Space(p)
      BY SpaceIs
    <3>2. Space(p)' = Space(p)
      BY <2>2, <3>1
    <3> QED
      BY <2>2, <3>2 DEF Inv, TypeOK, Accounts, Keeps
  <2> QED
    BY <2>1, <2>2
<1>3. TypeOK'
  BY <1>2 DEF Goto, Inv, TypeOK, Freeing
<1>4. Touches(p)
  BY <1>2 DEF Goto, Touches, Inv, TypeOK
<1>5. Distinct(p)'
  BY <1>1 DEF Inv, Distinct, NotIn
<1>6. Shape(p)'
  BY <1>1 DEF Shape, Freeing
<1>7. ForkOK(p)'
  <2>1. ~Forking(p)
    BY DEF Inv, ForkOK, Freeing
  <2> QED
    BY <2>1 DEF ForkOK, Forking
<1> QED
  BY <1>1, <1>2, <1>3, <1>4, <1>5, <1>6, <1>7, NotCopied DEF StepOK

(* free_table, from the lowest level up. *)
LEMMA FreeTableStep ==
  ASSUME Inv, NEW p \in Slot, FreeTable(p)
  PROVE  StepOK(p) /\ state'[p] # "live"
<1>1. /\ state[p] \in {"free_pmd", "free_pud", "free_pgd"}
      /\ UNCHANGED <<entry, stack, page_map, page, clones>>
  BY DEF FreeTable, FreeEntries
<1>2. page_map[p] # NULL /\ page[p] = NULL
  BY <1>1 DEF Inv, Shape, Freeing
<1>3. Pud(p) = entry[page_map[p]]
  BY <1>1, <1>2 DEF Pud
<1>4. CASE state[p] = "free_pmd"
  <2>1. Goto(p, "free_pud") /\ FreeEntries(p, find_pud_entry(page_map[p])) /\ state'[p] = "free_pud"
    BY <1>4 DEF FreeTable, Goto, Inv, TypeOK
  <2>2. find_pud_entry(page_map[p]) = Pmd(p) /\ User(p) = NULL
        /\ (Pmd(p) # NULL => entry[Pmd(p)] = NULL)
    BY <1>2, <1>3, <1>4 DEF find_pud_entry, Pmd, User, Inv, Shape
  <2>3. UNCHANGED <<free, allocated, data>>
    BY <2>1, <2>2 DEF FreeEntries
  <2>4. Pud(p)' = Pud(p) /\ Pmd(p)' = Pmd(p) /\ User(p)' = NULL
    BY <1>1, <1>4, <2>1 DEF Pud, Pmd, User
  <2>5. Space(p)' = Space(p) \ {NULL}
    BY <1>1, <2>2, <2>4, SpaceIs, SpaceIsNext
  <2> QED
    BY <1>1, <2>1, <2>3, <2>4, <2>5, FreeLevel DEF Freeing
<1>5. CASE state[p] = "free_pud"
  <2>1. Goto(p, "free_pgd") /\ FreeEntries(p, Pud(p)) /\ state'[p] = "free_pgd"
    BY <1>3, <1>5 DEF FreeTable, Goto, Inv, TypeOK
  <2>2. User(p) = NULL /\ Pmd(p) = (IF Pud(p) = NULL THEN NULL ELSE entry[Pud(p)])
    BY <1>5 DEF Pmd, User
  <2>3. IF Pmd(p) # NULL THEN Kfree(Pmd(p)) ELSE UNCHANGED <<free, allocated, data>>
    BY <2>1, <2>2 DEF FreeEntries
  <2>4. Pud(p)' = Pud(p) /\ Pmd(p)' = NULL /\ User(p)' = NULL
    BY <1>1, <1>5, <2>1 DEF Pud, Pmd, User
  <2>5. Pmd(p) # NULL => Pmd(p) # stack[p] /\ Pmd(p) # page_map[p] /\ Pmd(p) # Pud(p)
    BY DEF Inv, Distinct, NotIn
  <2>6. Space(p)' = Space(p) \ {Pmd(p)}
    BY <1>1, <1>2, <2>2, <2>4, <2>5, SpaceIs, SpaceIsNext
  <2>7. Pmd(p) = NULL \/ Pmd(p) \in Space(p)
    BY SpaceIs
  <2> QED
    BY <1>1, <2>1, <2>3, <2>4, <2>6, <2>7, FreeLevel DEF Freeing
<1>6. CASE state[p] = "free_pgd"
  <2>1. Goto(p, "free_map") /\ FreeEntries(p, page_map[p]) /\ state'[p] = "free_map"
    BY <1>6 DEF FreeTable, Goto, Inv, TypeOK
  <2>2. User(p) = NULL /\ Pmd(p) = NULL
    BY <1>6 DEF Pmd, User
  <2>3. IF Pud(p) # NULL THEN Kfree(Pud(p)) ELSE UNCHANGED <<free, allocated, data>>
    BY <1>2, <1>3, <2>1 DEF FreeEntries
  <2>4. Pud(p)' = NULL /\ Pmd(p)' = NULL /\ User(p)' = NULL
    BY <2>1 DEF Pud, Pmd, User
  <2>5. Pud(p) # NULL => Pud(p) # stack[p] /\ Pud(p) # page_map[p]
    BY DEF Inv, Distinct, NotIn
  <2>6. Space(p)' = Space(p) \ {Pud(p)}
    BY <1>1, <1>2, <2>2, <2>4, <2>5, SpaceIs, SpaceIsNext
  <2>7. Pud(p) = NULL \/ Pud(p) \in Space(p)
    BY SpaceIs
  <2> QED
    BY <1>1, <2>1, <2>3, <2>4, <2>6, <2>7, FreeLevel DEF Freeing
<1> QED
  BY <1>1, <1>4, <1>5, <1>6

(* free_vm ends with the root table. *)
LEMMA FreeMapStep ==
  ASSUME Inv, NEW p \in Slot, FreeMap(p)
  PROVE  StepOK(p) /\ state'[p] # "live"
<1>1. /\ state[p] = "free_map"
      /\ stack' = stack /\ page' = page /\ entry' = entry /\ clones' = clones
      /\ page_map'[p] = NULL /\ Kfree(page_map[p])
      /\ state'[p] \in {"unused", "failed"} /\ (state'[p] = "unused" => stack[p] = NULL)
  BY DEF FreeMap, Goto, Inv, TypeOK
<1>2. page_map[p] # NULL /\ page[p] = NULL
  BY <1>1 DEF Inv, Shape, Freeing
<1>3. /\ Pud(p) = NULL /\ Pmd(p) = NULL /\ User(p) = NULL
      /\ Pud(p)' = NULL /\ Pmd(p)' = NULL /\ User(p)' = NULL
  BY <1>1 DEF Pud, Pmd, User
<1>4. page_map[p] # stack[p]
  BY <1>2 DEF Inv, Distinct, NotIn
<1>5. Space(p)' = Space(p) \ {page_map[p]}
  BY <1>1, <1>2, <1>3, <1>4, SpaceIs, SpaceIsNext
<1>6. page_map[p] \in Space(p)
  BY <1>2, SpaceIs
<1>7. /\ free' \subseteq Page /\ allocated' \subseteq Page /\ data' \in [Page -> Image]
      /\ \A t \in Page : t \notin Space(p) => data'[t] = data[t]
      /\ Accounts(p)
  BY <1>1, <1>5, <1>6, KfreeGives
<1>8. TypeOK'
  BY <1>1, <1>7 DEF FreeMap, Goto, Inv, TypeOK
<1>9. Touches(p)
  BY <1>1, <1>7 DEF FreeMap, Goto, Touches, Inv, TypeOK
<1>10. Distinct(p)'
  BY <1>1, <1>2, <1>3 DEF Distinct, NotIn
<1>11. Shape(p)'
  BY <1>1, <1>2, <1>3 DEF Shape, Freeing
<1>12. ForkOK(p)'
  BY <1>1 DEF Inv, ForkOK, Forking
<1> QED
  BY <1>1, <1>7, <1>8, <1>9, <1>10, <1>11, <1>12, NotCopied DEF StepOK
-----------------------------------------------------------------------------
LEMMA InvInit ==
  ASSUME Init
  PROVE  Inv
<1>1. TypeOK
  BY AddressSpaceAssumption DEF Init, TypeOK, Making
<1>2. \A p \in Slot : /\ stack[p] = NULL /\ page[p] = NULL /\ page_map[p] = NULL
                      /\ Pud(p) = NULL /\ Pmd(p) = NULL /\ User(p) = NULL
                      /\ clones[p] = {} /\ state[p] \in {"unused", "stack"}
  BY DEF Init, Pud, Pmd, User
<1>3. \A p \in Slot : Space(p) = {}
  BY <1>2, SpaceIs
<1>4. PagesAccountedFor
  BY <1>3 DEF Init, PagesAccountedFor, SpacesDisjoint, NothingLeaks
<1>5. \A p \in Slot : Distinct(p)
  BY <1>2 DEF Distinct, NotIn
<1>6. \A p \in Slot : Shape(p)
  BY <1>2 DEF Shape, Freeing
<1>7. \A p \in Slot : ForkOK(p)
  BY <1>2 DEF ForkOK, Forking
<1> QED
  BY <1>1, <1>4, <1>5, <1>6, <1>7 DEF Inv

LEMMA InvStuttering ==
  ASSUME Inv, UNCHANGED vars
  PROVE  Inv'
<1>1. /\ free' = free /\ allocated' = allocated /\ entry' = entry /\ data' = data
      /\ state' = state /\ stack' = stack /\ page_map' = page_map /\ page' = page
      /\ clones' = clones
  BY DEF vars
<1>2. \A p \in Slot : Pud(p)' = Pud(p) /\ Pmd(p)' = Pmd(p) /\ User(p)' = User(p)
  BY <1>1 DEF Pud, Pmd, User
<1>3. \A p \in Slot : Space(p)' = Space(p)
  BY <1>1, <1>2, SpaceIs, SpaceIsNext
<1>4. TypeOK'
  BY <1>1 DEF Inv, TypeOK
<1>5. PagesAccountedFor'
  BY <1>1, <1>3 DEF Inv, PagesAccountedFor, SpacesDisjoint, NothingLeaks
<1>6. \A p \in Slot : Distinct(p)'
  BY <1>1, <1>2 DEF Inv, Distinct
<1>7. \A p \in Slot : Shape(p)'
  BY <1>1, <1>2 DEF Inv, Shape
<1>8. \A p \in Slot : ForkOK(p)'
  BY <1>1, <1>2 DEF Inv, ForkOK, Forking, TypeOK
<1> QED
  BY <1>4, <1>5, <1>6, <1>7, <1>8 DEF Inv

(* Every step is one of a process p, which is made by it only in AllocPmd. *)
LEMMA StepOfSlot ==
  ASSUME Inv, Next
  PROVE  \E p \in Slot : /\ StepOK(p)
                         /\ Forking(p) /\ state'[p] = "live" => AllocPmd(p)
<1>1. ASSUME NEW p \in Slot, Make(p)
      PROVE  StepOK(p) /\ (state'[p] = "live" => AllocPmd(p))
  <2>1. CASE AllocPmd(p)
    BY <2>1, AllocPmdStep
  <2>2. CASE AllocStack(p) \/ AllocMap(p) \/ AllocPage(p) \/ AllocPud(p)
    <3>1. state'[p] # "live"
      BY <2>2 DEF AllocStack, AllocMap, AllocPage, AllocPud, Goto, Inv, TypeOK
    <3> QED
      BY <2>2, <3>1, AllocStackStep, AllocMapStep, AllocPageStep, AllocPudStep
  <2> QED
    BY <1>1, <2>1, <2>2 DEF Make
<1>2. ASSUME NEW p \in Slot, Fail(p) \/ Exit(p) \/ Wait(p) \/ free_vm(p)
      PROVE  StepOK(p) /\ state'[p] # "live"
  BY <1>2, MoveStep, MapPageFailsStep, WaitStep, FreePageStep, FreeTableStep, FreeMapStep
     DEF Fail, free_vm
<1>3. ASSUME NEW p \in Slot, NEW v \in Image, Load(p, v) \/ Store(p, v)
      PROVE  StepOK(p) /\ ~Forking(p)
  BY <1>3, WriteStep
<1>4. ASSUME NEW p \in Slot, NEW q \in Slot, Fork(p, q)
      PROVE  StepOK(p) /\ state'[p] # "live"
  <2>1. state'[p] # "live"
    BY <1>4 DEF Fork, Goto, Inv, TypeOK
  <2> QED
    BY <1>4, <2>1, ForkStep
<1> QED
  BY <1>1, <1>2, <1>3, <1>4 DEF Next

LEMMA InvStep ==
  ASSUME Inv, [Next]_vars
  PROVE  Inv'
BY StepOfSlot, StepOKSuffices, InvStuttering

(* Fork finishes with the child's memory equal to its parent's. *)
LEMMA CopyStep ==
  ASSUME Inv, Next, NEW p \in Slot, Forking(p), state'[p] = "live", NEW q \in clones[p]
  PROVE  View(p)' = View(q)'
<1>1. /\ q \in Slot /\ state[q] = "live" /\ state[p] # "live" /\ p # q
      /\ state[p] \in {"pud", "pmd"} => data[page[p]] = data[User(q)]
  BY DEF Inv, TypeOK, ForkOK
<1>2. PICK r \in Slot : /\ StepOK(r)
                        /\ Forking(r) /\ state'[r] = "live" => AllocPmd(r)
  BY StepOfSlot
<1>3. r = p
  BY <1>1, <1>2 DEF StepOK, Touches
<1>4. AllocPmd(p) /\ Touches(p) /\ Shape(p)'
  BY <1>2, <1>3 DEF StepOK
<1>5. User(p)' = page[p] /\ data' = data /\ data[page[p]] = data[User(q)]
  BY <1>1, <1>4, AllocPmdStep DEF AllocPmd
<1>6. User(q)' = User(q) /\ Shape(q)' /\ state'[q] = "live"
  BY <1>1, <1>4, OtherSpaces DEF Touches
<1>7. User(p)' # NULL /\ User(q)' # NULL
  BY <1>4, <1>6 DEF Shape
<1>8. View(p)' = data'[User(p)']
  BY <1>7 DEF View, UserPage, find_pud_entry, User, Pmd, Pud
<1>9. View(q)' = data'[User(q)']
  BY <1>6, <1>7 DEF View, UserPage, find_pud_entry, User, Pmd, Pud
<1> QED
  BY <1>5, <1>6, <1>8, <1>9

(* The invariant holds in every state. *)
LEMMA Invariance ==
  Spec => []Inv
<1>1. Init => Inv
  BY InvInit
<1>2. Inv /\ [Next]_vars => Inv'
  BY InvStep
<1> QED
  BY <1>1, <1>2, PTL DEF Spec

(***************************************************************************)
(* The pointers of the process table and the page tables lead to pages of  *)
(* the allocator or nowhere, for any table and any number of pages.        *)
(***************************************************************************)
THEOREM PointersLeadToPages == Spec => []TypeOK
<1>1. Inv => TypeOK
  BY DEF Inv
<1> QED
  BY <1>1, Invariance, PTL

(***************************************************************************)
(* For any process table and any number of pages: no page belongs to two   *)
(* processes, none is used after kfree or freed twice, and none is left    *)
(* behind, although start-up, fork and wait allocate and free in steps     *)
(* that interleave, and although kalloc may fail in each of them.          *)
(***************************************************************************)
THEOREM EveryPageHasOneOwner == Spec => []PagesAccountedFor
<1>1. Inv => PagesAccountedFor
  BY DEF Inv
<1> QED
  BY <1>1, Invariance, PTL

(***************************************************************************)
(* When fork has finished, the child sees what its parent sees: nothing    *)
(* that other processes do while copy_uvm allocates changes either one.    *)
(***************************************************************************)
THEOREM ForkCopies == Spec => ChildIsCopy
<1>1. Spec => []Inv
  BY Invariance
<1>2. Inv /\ [Next]_vars =>
        [\A p \in Slot : Forking(p) /\ state'[p] = "live" =>
           \A q \in clones[p] : View(p)' = View(q)']_vars
  BY CopyStep
<1> QED
  BY <1>1, <1>2, PTL DEF Spec, ChildIsCopy

-----------------------------------------------------------------------------
(* The FAT16 reader. *)

(* Division with remainder, of positions in a file by the cluster size. *)
LEMMA Quotient ==
  ASSUME NEW q \in Nat, NEW r \in Nat, NEW d \in Nat \ {0}, r < d
  PROVE  (q * d + r) \div d = q /\ (q * d + r) % d = r
OBVIOUS

LEMMA Division ==
  ASSUME NEW n \in Nat, NEW d \in Nat \ {0}
  PROVE  /\ n \div d \in Nat /\ n % d \in 0..d - 1
         /\ n = (n \div d) * d + (n % d)
<1>1. n \div d \in Nat
  OBVIOUS
<1>2. n % d \in 0..d - 1
  OBVIOUS
<1>3. n = (n \div d) * d + (n % d)
  OBVIOUS
<1> QED
  BY <1>1, <1>2, <1>3

LEMMA QuotientBound ==
  ASSUME NEW n \in Nat, NEW m \in Nat, NEW d \in Nat \ {0}
  PROVE  /\ n < m * d => n \div d < m
         /\ n <= m * d => n \div d <= m
OBVIOUS
-----------------------------------------------------------------------------
(* Nth follows the table from the file's first cluster. *)

NthTo(g, c, f, n) == g = [k \in 0..n |-> IF k = 0 THEN c ELSE f[g[k - 1]]]

LEMMA NthToExists ==
  ASSUME NEW c, NEW f
  PROVE  \A n \in Nat : \E g : NthTo(g, c, f, n)
<1> DEFINE T == {n \in Nat : \E g : NthTo(g, c, f, n)}
<1>1. 0 \in T
  <2>1. NthTo([k \in 0..0 |-> c], c, f, 0)
    BY DEF NthTo
  <2> QED
    BY <2>1
<1>2. ASSUME NEW n \in T
      PROVE  n + 1 \in T
  <2>1. PICK g : NthTo(g, c, f, n)
    OBVIOUS
  <2> DEFINE h == [k \in 0..n + 1 |-> IF k <= n THEN g[k] ELSE f[g[n]]]
  <2>2. NthTo(h, c, f, n + 1)
    BY <2>1 DEF NthTo
  <2> QED
    BY <2>2
<1> HIDE DEF T
<1>3. T = Nat
  BY <1>1, <1>2, Induction DEF T
<1> QED
  BY <1>3 DEF T

LEMMA NthToAgree ==
  ASSUME NEW c, NEW f, NEW n \in Nat, NEW g, NthTo(g, c, f, n), NEW h, NthTo(h, c, f, n + 1)
  PROVE  \A k \in 0..n : g[k] = h[k]
<1> DEFINE T == {k \in 0..n : g[k] # h[k]}
<1> SUFFICES ASSUME T # {} PROVE FALSE
  OBVIOUS
<1>1. PICK k \in T : \A j \in T : k <= j
  <2>1. T \in SUBSET Nat
    OBVIOUS
  <2> HIDE DEF T
  <2> QED
    BY <2>1, Least
<1>2. k # 0
  BY DEF NthTo
<1>3. k - 1 \in 0..n /\ g[k - 1] = h[k - 1]
  BY <1>1, <1>2
<1>4. g[k] = f[g[k - 1]] /\ h[k] = f[h[k - 1]]
  BY <1>2 DEF NthTo
<1> QED
  BY <1>3, <1>4

(* g is the function that Nth defines, for the first cluster c and the table f. *)
Follows(g, c, f) == g = [k \in Nat |-> IF k = 0 THEN c ELSE f[g[k - 1]]]

LEMMA NthExists ==
  ASSUME NEW c, NEW f
  PROVE  \E g : Follows(g, c, f)
<1> DEFINE upto(n) == CHOOSE g : NthTo(g, c, f, n)
           g == [n \in Nat |-> upto(n)[n]]
<1>1. \A n \in Nat : NthTo(upto(n), c, f, n)
  BY NthToExists
<1> HIDE DEF upto
<1>2. ASSUME NEW n \in Nat
      PROVE  g[n + 1] = f[g[n]]
  <2>1. upto(n)[n] = upto(n + 1)[n]
    BY <1>1, NthToAgree
  <2>2. upto(n + 1)[n + 1] = f[upto(n + 1)[n]]
    BY <1>1 DEF NthTo
  <2> QED
    BY <2>1, <2>2
<1>3. g[0] = c
  BY <1>1 DEF NthTo
<1>4. \A k \in Nat : g[k] = IF k = 0 THEN c ELSE f[g[k - 1]]
  <2> TAKE k \in Nat
  <2>1. CASE k # 0
    <3>1. k - 1 \in Nat /\ k - 1 + 1 = k
      BY <2>1
    <3>2. g[k - 1 + 1] = f[g[k - 1]]
      BY <1>2, <3>1
    <3> QED
      BY <2>1, <3>1, <3>2
  <2> QED
    BY <1>3, <2>1
<1>5. g = [k \in Nat |-> IF k = 0 THEN c ELSE f[g[k - 1]]]
  <2> DEFINE h == [k \in Nat |-> IF k = 0 THEN c ELSE f[g[k - 1]]]
  <2>1. \A k \in Nat : g[k] = h[k]
    BY <1>4
  <2>2. DOMAIN g = Nat /\ DOMAIN h = Nat
    OBVIOUS
  <2> QED
    BY <2>1, <2>2
<1>6. Follows(g, c, f)
  BY <1>5 DEF Follows
<1> HIDE DEF g
<1> QED
  BY <1>6

LEMMA NthDefined ==
  R!Nth[0] = cluster_index /\ \A k \in Nat : R!Nth[k + 1] = fat[R!Nth[k]]
<1>1. R!Nth = [k \in Nat |-> IF k = 0 THEN cluster_index ELSE fat[R!Nth[k - 1]]]
  <2>1. \E g : Follows(g, cluster_index, fat)
    BY NthExists
  <2> QED
    BY <2>1, Zenon DEF R!Nth, Follows
<1>2. \A k \in Nat : k + 1 \in Nat /\ k + 1 # 0 /\ k + 1 - 1 = k
  OBVIOUS
<1> QED
  BY <1>1, <1>2

LEMMA NthSame ==
  ASSUME fat' = fat, cluster_index' = cluster_index
  PROVE  R!Nth' = R!Nth
BY Zenon DEF R!Nth

LEMMA NthDefinedNext ==
  R!Nth'[0] = cluster_index' /\ \A k \in Nat : R!Nth'[k + 1] = fat'[R!Nth'[k]]
<1>1. R!Nth' = [k \in Nat |-> IF k = 0 THEN cluster_index' ELSE fat'[R!Nth'[k - 1]]]
  <2>1. PICK c : c = cluster_index'
    OBVIOUS
  <2>2. PICK f : f = fat'
    OBVIOUS
  <2>3. \E g : Follows(g, c, f)
    BY NthExists
  <2>4. \E g : Follows(g, cluster_index', fat')
    BY <2>1, <2>2, <2>3
  <2> QED
    BY <2>4, Zenon DEF R!Nth, Follows
<1>2. \A k \in Nat : k + 1 \in Nat /\ k + 1 # 0 /\ k + 1 - 1 = k
  OBVIOUS
<1> QED
  BY <1>1, <1>2

(* The n bytes from position p on of a file whose clusters g gives. *)
Part(g, p, n) == [b \in 1..n |-> <<g[(p + b - 1) \div ClusterSize], (p + b - 1) % ClusterSize>>]

LEMMA PartIsSeq ==
  ASSUME NEW g, NEW p \in Nat, NEW n \in Nat
  PROVE  Len(Part(g, p, n)) = n /\ DOMAIN Part(g, p, n) = 1..n
BY DEF Part

LEMMA PrefixIsPart ==
  ASSUME NEW n \in Nat
  PROVE  R!Prefix(n) = Part(R!Nth, 0, n)
<1>1. \A b \in 1..n : 0 + b - 1 = b - 1
  OBVIOUS
<1> QED
  BY <1>1 DEF R!Prefix, Part

LEMMA PartsJoin ==
  ASSUME NEW g, NEW p \in Nat, NEW n \in Nat, NEW m \in Nat
  PROVE  Part(g, p, n) \o Part(g, p + n, m) = Part(g, p, n + m)
<1> DEFINE at(k) == <<g[k \div ClusterSize], k % ClusterSize>>
           s == [b \in 1..n |-> at(p + b - 1)]
           t == [b \in 1..m |-> at(p + n + b - 1)]
           u == [b \in 1..n + m |-> at(p + b - 1)]
<1>1. s = Part(g, p, n) /\ t = Part(g, p + n, m) /\ u = Part(g, p, n + m)
  BY DEF Part
<1> HIDE DEF at
<1>2. Len(s) = n /\ Len(t) = m
  OBVIOUS
<1>3. s \o t = [b \in 1..n + m |-> IF b <= n THEN s[b] ELSE t[b - n]]
  BY <1>2
<1>4. \A b \in 1..n + m : (IF b <= n THEN s[b] ELSE t[b - n]) = u[b]
  <2> TAKE b \in 1..n + m
  <2>1. CASE b <= n
    BY <2>1
  <2>2. CASE ~(b <= n)
    <3>1. b - n \in 1..m /\ p + n + (b - n) - 1 = p + b - 1
      BY <2>2
    <3> QED
      BY <2>2, <3>1
  <2> QED
    BY <2>1, <2>2
<1> HIDE DEF s, t
<1>5. s \o t = u
  BY <1>3, <1>4
<1> QED
  BY <1>1, <1>5

(* What memcpy copies out of one cluster is a part of the file. *)
LEMMA BytesArePart ==
  ASSUME NEW g, NEW p \in Nat, NEW n \in Nat, (p % ClusterSize) + n <= ClusterSize
  PROVE  R!Bytes(g[p \div ClusterSize], p % ClusterSize, n) = Part(g, p, n)
<1> DEFINE q == p \div ClusterSize
           r == p % ClusterSize
<1>1. q \in Nat /\ r \in 0..ClusterSize - 1 /\ p = q * ClusterSize + r
  BY ImageAssumption, Division
<1> HIDE DEF q, r
<1>2. ASSUME NEW b \in 1..n
      PROVE  (p + b - 1) \div ClusterSize = q /\ (p + b - 1) % ClusterSize = r + b - 1
  <2>1. r + n <= ClusterSize
    BY DEF r
  <2>2. r + b - 1 \in Nat /\ r + b - 1 < ClusterSize
    BY <1>1, <2>1, ImageAssumption
  <2>3. p + b - 1 = q * ClusterSize + (r + b - 1)
    BY <1>1, ImageAssumption
  <2> QED
    BY <1>1, <2>2, <2>3, ImageAssumption, Quotient
<1>3. R!Bytes(g[q], r, n) = Part(g, p, n)
  BY <1>2 DEF R!Bytes, Part
<1> QED
  BY <1>3 DEF q, r
-----------------------------------------------------------------------------
(* The file occupies len clusters, and the table ends the chain behind the last. *)
OnDisk(len) ==
  /\ len \in 1..ChainLen
  /\ file_size \in Nat /\ file_size <= len * ClusterSize
  /\ \A k \in 0..len - 1 : R!Nth[k] \in R!Clusters
  /\ R!Nth[len] = R!EndOfChain

Idle == size = 0 /\ count = 0 /\ offset = 0 /\ index = 0 /\ read_size = 0 /\ buffer = <<>>

(* A read is under way, and ends within the file. *)
Reading ==
  /\ size \in Nat /\ position + size <= file_size
  /\ offset = position % ClusterSize

(* count clusters before that of the position, on the chain. *)
WalkInv ==
  /\ read_size = 0 /\ buffer = <<>>
  /\ count \in 0..position \div ClusterSize
  /\ index = R!Nth[(position \div ClusterSize) - count] /\ index \in R!Clusters

(* The buffer holds the next read_size bytes; index is the cluster behind them. *)
TransferInv ==
  /\ count = 0 /\ read_size \in 0..size
  /\ buffer = Part(R!Nth, position, read_size)
  /\ index \in R!Clusters \cup {R!EndOfChain}
  /\ read_size < size =>
        /\ (position + read_size) % ClusterSize = 0
        /\ index = R!Nth[(position + read_size) \div ClusterSize]

ReadInv ==
  /\ R!TypeOK
  /\ file_size \in Nat /\ size \in Nat
  /\ got = Part(R!Nth, 0, position)
  /\ rpc # "closed" => \E len \in Nat : OnDisk(len)
  /\ rpc = "closed" => position = 0
  /\ rpc \in {"closed", "user"} => Idle
  /\ rpc \in {"walk", "loop", "return"} => Reading
  /\ rpc = "walk" => WalkInv
  /\ rpc \in {"loop", "return"} => TransferInv
  /\ rpc = "return" => read_size = size

LEMMA ClusterFacts ==
  /\ R!Clusters \subseteq Nat \ {0} /\ R!EndOfChain \in Nat \ {0}
  /\ \A k \in R!Clusters : k < R!EndOfChain
  /\ R!EndOfChain \notin R!Clusters
BY ImageAssumption DEF R!Clusters, R!EndOfChain

LEMMA PartEmpty ==
  ASSUME NEW g, NEW p
  PROVE  Part(g, p, 0) = <<>>
BY DEF Part

LEMMA ReadInit == R!Init => ReadInv
<1> SUFFICES ASSUME R!Init PROVE ReadInv
  OBVIOUS
<1>1. R!TypeOK
  BY ImageAssumption DEF R!Init, R!TypeOK
<1>2. got = Part(R!Nth, 0, position)
  BY PartEmpty DEF R!Init
<1> QED
  BY <1>1, <1>2 DEF R!Init, ReadInv, Idle

(* The file found by open_file: its chain is what Nth follows. *)
LEMMA Opened ==
  ASSUME NEW chain \in R!Chains, NEW bytes \in R!Sizes(chain), R!OpenFile(chain, bytes)
  PROVE  (\E len \in Nat : OnDisk(len))' /\ file_size' \in Nat
<1> DEFINE len == Len(chain)
<1>1. PICK n \in 1..ChainLen : chain \in [1..n -> R!Clusters]
  BY DEF R!Chains
<1>2. len = n /\ DOMAIN chain = 1..len /\ len \in 1..ChainLen /\ len \in Nat
  BY <1>1, ImageAssumption
<1> HIDE DEF len
<1>3. \A j, k \in 1..len : chain[j] = chain[k] => j = k
  BY <1>2 DEF R!Chains, R!IsInjective
<1>4. \A k \in 1..len : chain[k] \in R!Clusters
  BY <1>1, <1>2
<1>5. ASSUME NEW k \in 1..len
      PROVE  fat'[chain[k]] = IF k = len THEN R!EndOfChain ELSE chain[k + 1]
  <2>1. fat' = R!FatOf(chain)
    BY DEF R!OpenFile
  <2>2. chain[k] \in R!Clusters /\ chain[k] \in R!Range(chain)
    BY <1>2, <1>4 DEF R!Range
  <2>3. (CHOOSE j \in DOMAIN chain : chain[j] = chain[k]) = k
    BY <1>2, <1>3
  <2> DEFINE at(c) == CHOOSE j \in DOMAIN chain : chain[j] = c
  <2>4. \A c \in R!Clusters :
           R!FatOf(chain)[c] = IF c \in R!Range(chain)
                               THEN IF at(c) = len THEN R!EndOfChain ELSE chain[at(c) + 1]
                               ELSE 0
    BY DEF R!FatOf, len
  <2>5. at(chain[k]) = k
    BY <2>3
  <2> HIDE DEF at
  <2> QED
    BY <2>1, <2>2, <2>4, <2>5
<1>6. R!Nth'[0] = chain[1] /\ \A k \in Nat : R!Nth'[k + 1] = fat'[R!Nth'[k]]
  BY NthDefinedNext DEF R!OpenFile
<1> DEFINE T == {k \in Nat : k < len => R!Nth'[k] = chain[k + 1]}
<1>7. T = Nat
  <2>1. 0 \in T
    BY <1>6
  <2>2. ASSUME NEW k \in T
        PROVE  k + 1 \in T
    <3>1. CASE k + 1 < len
      <4>1. R!Nth'[k] = chain[k + 1] /\ k + 1 \in 1..len /\ k + 1 # len
        BY <3>1, <1>2
      <4>2. fat'[chain[k + 1]] = chain[(k + 1) + 1]
        BY <4>1, <1>5
      <4> QED
        BY <4>1, <4>2, <1>6
    <3> QED
      BY <3>1
  <2> HIDE DEF T
  <2>3. T \in SUBSET Nat
    BY DEF T
  <2> QED
    BY <2>1, <2>2, <2>3, Induction
<1>8. \A k \in 0..len - 1 : R!Nth'[k] = chain[k + 1] /\ R!Nth'[k] \in R!Clusters
  BY <1>7, <1>4, <1>2
<1>9. R!Nth'[len] = R!EndOfChain
  <2>1. len - 1 \in Nat /\ len - 1 + 1 = len /\ R!Nth'[len - 1] = chain[len] /\ len \in 1..len
    BY <1>8, <1>2
  <2>2. fat'[chain[len]] = R!EndOfChain
    BY <2>1, <1>5
  <2> QED
    BY <2>1, <2>2, <1>6
<1>10. file_size' \in Nat /\ file_size' <= len * ClusterSize
  <2>1. file_size' = bytes /\ bytes \in (len - 1) * ClusterSize + 1 .. len * ClusterSize
    BY DEF R!OpenFile, R!Sizes, len
  <2>2. (len - 1) * ClusterSize \in Nat /\ len * ClusterSize \in Nat
    BY <1>2, ImageAssumption
  <2> QED
    BY <2>1, <2>2
<1>11. OnDisk(len)'
  BY <1>2, <1>8, <1>9, <1>10 DEF OnDisk, R!Clusters, R!EndOfChain
<1> QED
  BY <1>2, <1>10, <1>11
-----------------------------------------------------------------------------
(* The steps of the reader. *)

SameFile == fat' = fat /\ cluster_index' = cluster_index /\ file_size' = file_size

LEMMA SameFileKeeps ==
  ASSUME SameFile
  PROVE  R!Nth' = R!Nth /\ \A len \in Nat : OnDisk(len) => OnDisk(len)'
<1>1. R!Nth' = R!Nth
  BY NthSame DEF SameFile
<1> QED
  BY <1>1 DEF SameFile, OnDisk, R!Clusters, R!EndOfChain

(* Positions of the file lie on the chain; only its end does not. *)
LEMMA OnChain ==
  ASSUME NEW len \in Nat, OnDisk(len), NEW p \in Nat, p <= file_size
  PROVE  /\ p \div ClusterSize \in 0..len
         /\ \A k \in 0..len : R!Nth[k] \in R!Clusters \cup {R!EndOfChain}
         /\ p < file_size => R!Nth[p \div ClusterSize] \in R!Clusters
         /\ \A k \in 0..len - 1 : fat[R!Nth[k]] = R!Nth[k + 1]
<1>1. p <= len * ClusterSize /\ (p < file_size => p < len * ClusterSize)
  <2>1. len * ClusterSize \in Nat
    BY ImageAssumption
  <2> QED
    BY <2>1 DEF OnDisk
<1>2. p \div ClusterSize \in Nat
  BY ImageAssumption, Division
<1>3. /\ p \div ClusterSize <= len
      /\ p < file_size => p \div ClusterSize < len
  BY <1>1, ImageAssumption, QuotientBound
<1>4. len \in 1..ChainLen
  BY DEF OnDisk
<1>5. \A k \in 0..len : R!Nth[k] \in R!Clusters \cup {R!EndOfChain}
  <2>1. \A k \in 0..len : k \in 0..len - 1 \/ k = len
    OBVIOUS
  <2> QED
    BY <2>1 DEF OnDisk
<1>6. p < file_size => R!Nth[p \div ClusterSize] \in R!Clusters
  <2>1. p < file_size => p \div ClusterSize \in 0..len - 1
    BY <1>2, <1>3
  <2> QED
    BY <2>1 DEF OnDisk
<1>7. \A k \in 0..len - 1 : fat[R!Nth[k]] = R!Nth[k + 1]
  BY NthDefined
<1>8. p \div ClusterSize \in 0..len
  BY <1>2, <1>3
<1> QED
  BY <1>5, <1>6, <1>7, <1>8

LEMMA PositionFacts ==
  ASSUME ReadInv
  PROVE  /\ position \in Nat /\ position <= file_size
         /\ position \div ClusterSize \in Nat /\ position % ClusterSize \in 0..ClusterSize - 1
         /\ position = (position \div ClusterSize) * ClusterSize + (position % ClusterSize)
<1>1. position \in Nat /\ position <= file_size
  BY DEF ReadInv, R!TypeOK
<1> QED
  BY <1>1, ImageAssumption, Division

LEMMA ReadFileStep ==
  ASSUME ReadInv, NEW n \in 0..file_size + 1, R!ReadFile(n)
  PROVE  ReadInv'
<1>1. /\ rpc = "user" /\ rpc' = "walk" /\ size' = n /\ position + n <= file_size
      /\ count' = position \div ClusterSize /\ offset' = position % ClusterSize
      /\ index' = cluster_index /\ read_size' = 0 /\ buffer' = <<>>
      /\ position' = position /\ got' = got /\ SameFile
  BY DEF R!ReadFile, SameFile, R!file
<1>2. PICK len \in Nat : OnDisk(len)
  BY <1>1 DEF ReadInv
<1>3. R!Nth' = R!Nth /\ OnDisk(len)'
  BY <1>1, <1>2, SameFileKeeps
<1>4. /\ position \in Nat /\ position <= file_size /\ file_size \in Nat
      /\ position \div ClusterSize \in Nat /\ position % ClusterSize \in 0..ClusterSize - 1
  BY PositionFacts DEF ReadInv
<1>5. R!Nth[0] = cluster_index /\ cluster_index \in R!Clusters /\ len \in 1..ChainLen
  BY <1>2, NthDefined DEF OnDisk
<1>6. position \div ClusterSize \in 0..len
  BY <1>2, <1>4, OnChain
<1>7. WalkInv'
  <2>1. (position \div ClusterSize) - (position \div ClusterSize) = 0
    BY <1>4
  <2>2. (position \div ClusterSize) \in 0..(position \div ClusterSize)
    BY <1>4
  <2> QED
    BY <1>1, <1>3, <1>5, <2>1, <2>2 DEF WalkInv, R!Clusters
<1>8. R!TypeOK'
  <2>1. position \div ClusterSize \in 0..ChainLen
    BY <1>5, <1>6, ImageAssumption
  <2>2. n \in Nat /\ position \in 0..file_size
    BY <1>4
  <2> QED
    BY <1>1, <1>4, <1>5, <2>1, <2>2 DEF R!TypeOK, SameFile, R!Clusters
<1>9. Reading'
  BY <1>1, <1>4 DEF Reading, SameFile
<1> QED
  BY <1>1, <1>3, <1>4, <1>7, <1>8, <1>9 DEF ReadInv, SameFile

LEMMA WalkStep ==
  ASSUME ReadInv, R!Walk
  PROVE  ReadInv'
<1>1. /\ rpc = "walk" /\ count > 0 /\ index' = fat[index] /\ count' = count - 1
      /\ rpc' = IF fat[index] < R!EndOfChain THEN "walk" ELSE "asserted"
      /\ position' = position /\ got' = got /\ SameFile
      /\ size' = size /\ offset' = offset /\ read_size' = read_size /\ buffer' = buffer
  BY DEF R!Walk, SameFile, R!file
<1>2. PICK len \in Nat : OnDisk(len)
  BY <1>1 DEF ReadInv
<1>3. R!Nth' = R!Nth /\ OnDisk(len)'
  BY <1>1, <1>2, SameFileKeeps
<1>4. /\ position \in Nat /\ position <= file_size /\ file_size \in Nat
      /\ position \div ClusterSize \in Nat
  BY PositionFacts DEF ReadInv
<1>5. WalkInv /\ Reading
  BY <1>1 DEF ReadInv
<1> DEFINE k == (position \div ClusterSize) - count
<1>6. /\ count \in 1..position \div ClusterSize /\ k \in Nat /\ k < position \div ClusterSize
      /\ index = R!Nth[k] /\ (position \div ClusterSize) - (count - 1) = k + 1
  BY <1>1, <1>4, <1>5 DEF WalkInv
<1> HIDE DEF k
<1>7. position \div ClusterSize \in 0..len
  BY <1>2, <1>4, OnChain
<1>8. k \in 0..len - 1 /\ k + 1 \in 0..len
  BY <1>6, <1>7
<1>9. fat[index] = R!Nth[k + 1] /\ fat[index] \in R!Clusters \cup {R!EndOfChain}
  BY <1>2, <1>4, <1>6, <1>8, OnChain
<1>10. rpc' = "walk" => fat[index] \in R!Clusters
  BY <1>1, <1>9, ClusterFacts
<1>11. rpc' = "walk" => WalkInv'
  <2>1. count - 1 \in 0..position \div ClusterSize
    BY <1>4, <1>6
  <2> QED
    BY <1>1, <1>3, <1>5, <1>6, <1>9, <1>10, <2>1 DEF WalkInv, R!Clusters
<1>12. R!TypeOK'
  <2>1. count - 1 \in 0..ChainLen
    BY <1>6, ImageAssumption DEF ReadInv, R!TypeOK
  <2> QED
    BY <1>1, <1>9, <2>1 DEF ReadInv, R!TypeOK, SameFile, R!Clusters, R!EndOfChain
<1>13. Reading'
  BY <1>1, <1>5 DEF Reading, SameFile
<1>14. rpc' \in {"walk", "asserted"}
  BY <1>1
<1> QED
  BY <1>1, <1>3, <1>11, <1>12, <1>13, <1>14 DEF ReadInv, SameFile

(* The buffer grows by n bytes of the cluster of the first byte that is missing. *)
LEMMA Transfer ==
  ASSUME NEW p \in Nat, NEW m \in Nat, NEW n \in Nat,
         ((p + m) % ClusterSize) + n <= ClusterSize
  PROVE  Part(R!Nth, p, m) \o R!Bytes(R!Nth[(p + m) \div ClusterSize], (p + m) % ClusterSize, n)
           = Part(R!Nth, p, m + n)
<1>1. R!Bytes(R!Nth[(p + m) \div ClusterSize], (p + m) % ClusterSize, n) = Part(R!Nth, p + m, n)
  BY BytesArePart
<1>2. Part(R!Nth, p, m) \o Part(R!Nth, p + m, n) = Part(R!Nth, p, m + n)
  BY PartsJoin
<1> QED
  BY <1>1, <1>2

(* At the end of the whole cluster of q, or of a part of it, the next one begins. *)
LEMMA NextCluster ==
  ASSUME NEW q \in Nat, NEW n \in Nat, (q % ClusterSize) + n = ClusterSize
  PROVE  (q + n) % ClusterSize = 0 /\ (q + n) \div ClusterSize = (q \div ClusterSize) + 1
<1> DEFINE d == q \div ClusterSize
           r == q % ClusterSize
<1>1. d \in Nat /\ r \in 0..ClusterSize - 1 /\ q = d * ClusterSize + r
  BY ImageAssumption, Division
<1>2. r + n = ClusterSize
  OBVIOUS
<1> HIDE DEF d, r
<1>3. q + n = (d + 1) * ClusterSize + 0
  <2>1. (d + 1) * ClusterSize = d * ClusterSize + ClusterSize
    BY <1>1, ImageAssumption
  <2>2. d * ClusterSize \in Nat
    BY <1>1, ImageAssumption
  <2> HIDE DEF d, r
  <2> QED
    BY <1>1, <1>2, <2>1, <2>2, ImageAssumption
<1>4. d + 1 \in Nat /\ 0 < ClusterSize
  BY <1>1, ImageAssumption
<1>5. (q + n) \div ClusterSize = d + 1 /\ (q + n) % ClusterSize = 0
  <2> DEFINE e == d + 1
  <2>1. e \in Nat
    BY <1>4
  <2> HIDE DEF e
  <2>2. (e * ClusterSize + 0) \div ClusterSize = e /\ (e * ClusterSize + 0) % ClusterSize = 0
    BY <1>4, <2>1, ImageAssumption, Quotient
  <2>3. q + n = e * ClusterSize + 0
    BY <1>3 DEF e
  <2>4. (q + n) \div ClusterSize = e /\ (q + n) % ClusterSize = 0
    BY <2>2, <2>3
  <2> QED
    BY <2>4 DEF e
<1> QED
  BY <1>5 DEF d

LEMMA FirstClusterStep ==
  ASSUME ReadInv, R!FirstCluster
  PROVE  ReadInv'
<1> DEFINE n == IF offset + size <= ClusterSize THEN size ELSE ClusterSize - offset
<1>1. /\ rpc = "walk" /\ count = 0 /\ rpc' = "loop"
      /\ read_size' = n /\ buffer' = R!Bytes(index, offset, n) /\ index' = fat[index]
      /\ position' = position /\ got' = got /\ SameFile
      /\ size' = size /\ offset' = offset /\ count' = count
  BY DEF R!FirstCluster, SameFile, R!file
<1>2. PICK len \in Nat : OnDisk(len)
  BY <1>1 DEF ReadInv
<1>3. R!Nth' = R!Nth /\ OnDisk(len)'
  BY <1>1, <1>2, SameFileKeeps
<1>4. /\ position \in Nat /\ position <= file_size /\ file_size \in Nat
      /\ position \div ClusterSize \in Nat /\ position % ClusterSize \in 0..ClusterSize - 1
  BY PositionFacts DEF ReadInv
<1>5. /\ size \in Nat /\ position + size <= file_size /\ offset = position % ClusterSize
      /\ index = R!Nth[position \div ClusterSize] /\ index \in R!Clusters
  BY <1>1, <1>4 DEF ReadInv, Reading, WalkInv
<1>6. n \in 0..size /\ n \in Nat /\ offset + n <= ClusterSize
      /\ (n < size => offset + n = ClusterSize)
  BY <1>4, <1>5, ImageAssumption
<1> HIDE DEF n
<1>7. R!Bytes(index, offset, n) = Part(R!Nth, position, n)
  BY <1>4, <1>5, <1>6, BytesArePart
<1>8. /\ fat[index] = R!Nth[(position \div ClusterSize) + 1]
      /\ fat[index] \in R!Clusters \cup {R!EndOfChain}
  <2>1. /\ position \div ClusterSize \in 0..len
        /\ \A k \in 0..len : R!Nth[k] \in R!Clusters \cup {R!EndOfChain}
        /\ \A k \in 0..len - 1 : fat[R!Nth[k]] = R!Nth[k + 1]
    BY <1>2, <1>4, OnChain
  <2>2. position \div ClusterSize # len
    BY <1>2, <1>5, ClusterFacts DEF OnDisk
  <2>3. position \div ClusterSize \in 0..len - 1 /\ (position \div ClusterSize) + 1 \in 0..len
    BY <2>1, <2>2
  <2> QED
    BY <1>5, <2>1, <2>3
<1>9. n < size => /\ (position + n) % ClusterSize = 0
                  /\ fat[index] = R!Nth[(position + n) \div ClusterSize]
  <2> SUFFICES ASSUME n < size
               PROVE  /\ (position + n) % ClusterSize = 0
                      /\ fat[index] = R!Nth[(position + n) \div ClusterSize]
    OBVIOUS
  <2>1. (position % ClusterSize) + n = ClusterSize
    BY <1>5, <1>6
  <2>2. /\ (position + n) % ClusterSize = 0
        /\ (position + n) \div ClusterSize = (position \div ClusterSize) + 1
    BY <1>4, <1>6, <2>1, NextCluster
  <2> QED
    BY <1>8, <2>2
<1>10. TransferInv'
  BY <1>1, <1>3, <1>6, <1>7, <1>8, <1>9 DEF TransferInv, R!Clusters, R!EndOfChain
<1>11. R!TypeOK'
  BY <1>1, <1>6, <1>8 DEF ReadInv, R!TypeOK, SameFile, R!Clusters, R!EndOfChain
<1>12. Reading'
  BY <1>1, <1>5 DEF Reading, SameFile
<1> QED
  BY <1>1, <1>3, <1>10, <1>11, <1>12 DEF ReadInv, SameFile

LEMMA AtBoundaryStep ==
  ASSUME ReadInv, R!AtBoundary
  PROVE  ReadInv'
<1>1. /\ rpc = "walk" /\ count = 0 /\ offset = 0 /\ rpc' = "loop"
      /\ position' = position /\ got' = got /\ SameFile
      /\ size' = size /\ offset' = offset /\ count' = count /\ index' = index
      /\ read_size' = read_size /\ buffer' = buffer
  BY DEF R!AtBoundary, SameFile, R!file, R!locals
<1>2. PICK len \in Nat : OnDisk(len)
  BY <1>1 DEF ReadInv
<1>3. R!Nth' = R!Nth /\ OnDisk(len)'
  BY <1>1, <1>2, SameFileKeeps
<1>4. position \in Nat /\ position \div ClusterSize \in Nat
  BY PositionFacts
<1>5. /\ size \in Nat /\ position % ClusterSize = 0 /\ read_size = 0 /\ buffer = <<>>
      /\ index = R!Nth[position \div ClusterSize] /\ index \in R!Clusters
  BY <1>1, <1>4 DEF ReadInv, Reading, WalkInv
<1>6. TransferInv'
  <2>1. buffer = Part(R!Nth, position, read_size)
    BY <1>5, PartEmpty
  <2>2. position + read_size = position
    BY <1>4, <1>5
  <2> QED
    BY <1>1, <1>3, <1>5, <2>1, <2>2 DEF TransferInv, R!Clusters
<1>7. R!TypeOK'
  BY <1>1 DEF ReadInv, R!TypeOK, SameFile, R!Clusters, R!EndOfChain
<1>8. Reading'
  BY <1>1 DEF ReadInv, Reading, SameFile
<1> QED
  BY <1>1, <1>3, <1>6, <1>7, <1>8 DEF ReadInv, SameFile

(* A turn of the loop begins at the first byte of a cluster that the file has. *)
LEMMA TurnBegins ==
  ASSUME ReadInv, rpc = "loop", read_size < size
  PROVE  /\ position \in Nat /\ read_size \in Nat /\ size \in Nat
         /\ (position + read_size) % ClusterSize = 0
         /\ index = R!Nth[(position + read_size) \div ClusterSize] /\ index \in R!Clusters
         /\ \E len \in Nat : /\ OnDisk(len)
                             /\ fat[index] = R!Nth[((position + read_size) \div ClusterSize) + 1]
                             /\ fat[index] \in R!Clusters \cup {R!EndOfChain}
<1>1. PICK len \in Nat : OnDisk(len)
  BY DEF ReadInv
<1>2. /\ position \in Nat /\ read_size \in Nat /\ size \in Nat /\ file_size \in Nat
      /\ position + size <= file_size
      /\ (position + read_size) % ClusterSize = 0
      /\ index = R!Nth[(position + read_size) \div ClusterSize]
  BY PositionFacts DEF ReadInv, TransferInv, Reading
<1>3. position + read_size \in Nat /\ position + read_size < file_size
  BY <1>2
<1> DEFINE k == (position + read_size) \div ClusterSize
<1>4. /\ k \in 0..len /\ R!Nth[k] \in R!Clusters
      /\ \A m \in 0..len : R!Nth[m] \in R!Clusters \cup {R!EndOfChain}
      /\ \A m \in 0..len - 1 : fat[R!Nth[m]] = R!Nth[m + 1]
  <2>1. PICK q \in Nat : q = position + read_size
    BY <1>3
  <2>2. /\ q \div ClusterSize \in 0..len
        /\ \A m \in 0..len : R!Nth[m] \in R!Clusters \cup {R!EndOfChain}
        /\ q < file_size => R!Nth[q \div ClusterSize] \in R!Clusters
        /\ \A m \in 0..len - 1 : fat[R!Nth[m]] = R!Nth[m + 1]
    <3>1. q <= file_size
      BY <1>2, <1>3, <2>1
    <3> QED
      BY <1>1, <3>1, OnChain
  <2> QED
    BY <1>3, <2>1, <2>2
<1>5. k # len
  BY <1>1, <1>4, ClusterFacts DEF OnDisk
<1> HIDE DEF k
<1>6. k \in 0..len - 1 /\ k + 1 \in 0..len
  BY <1>4, <1>5
<1>7. index = R!Nth[k]
  BY <1>2 DEF k
<1>8. fat[index] = R!Nth[k + 1] /\ fat[index] \in R!Clusters \cup {R!EndOfChain}
  BY <1>4, <1>6, <1>7
<1> QED
  BY <1>1, <1>2, <1>4, <1>7, <1>8 DEF k

LEMMA WholeClusterStep ==
  ASSUME ReadInv, R!WholeCluster
  PROVE  ReadInv'
<1>1. /\ rpc = "loop" /\ rpc' = rpc /\ read_size < size /\ read_size + ClusterSize < size
      /\ buffer' = buffer \o R!Bytes(index, 0, ClusterSize)
      /\ read_size' = read_size + ClusterSize /\ index' = fat[index]
      /\ position' = position /\ got' = got /\ SameFile
      /\ size' = size /\ offset' = offset /\ count' = count
  BY DEF R!WholeCluster, SameFile, R!file
<1> DEFINE q == position + read_size
<1>2. /\ position \in Nat /\ read_size \in Nat /\ size \in Nat
      /\ q % ClusterSize = 0 /\ index = R!Nth[q \div ClusterSize]
  BY <1>1, TurnBegins
<1>3. PICK len \in Nat : /\ OnDisk(len)
                         /\ fat[index] = R!Nth[(q \div ClusterSize) + 1]
                         /\ fat[index] \in R!Clusters \cup {R!EndOfChain}
  BY <1>1, TurnBegins
<1>4. R!Nth' = R!Nth /\ OnDisk(len)'
  BY <1>1, <1>3, SameFileKeeps
<1>5. q \in Nat /\ (q % ClusterSize) + ClusterSize = ClusterSize
  BY <1>2, ImageAssumption
<1>6. buffer' = Part(R!Nth, position, read_size')
  <2>1. buffer = Part(R!Nth, position, read_size)
    BY <1>1 DEF ReadInv, TransferInv
  <2>2. ((position + read_size) % ClusterSize) + ClusterSize <= ClusterSize
    BY <1>5, ImageAssumption
  <2>3. Part(R!Nth, position, read_size)
          \o R!Bytes(R!Nth[(position + read_size) \div ClusterSize],
                     (position + read_size) % ClusterSize, ClusterSize)
          = Part(R!Nth, position, read_size + ClusterSize)
    BY <1>2, <2>2, ImageAssumption, Transfer
  <2> QED
    BY <1>1, <1>2, <2>1, <2>3
<1>7. /\ (q + ClusterSize) % ClusterSize = 0
      /\ (q + ClusterSize) \div ClusterSize = (q \div ClusterSize) + 1
  BY <1>5, ImageAssumption, NextCluster
<1>8. q + ClusterSize = position + read_size' /\ read_size' \in 0..size
  BY <1>1, <1>2, ImageAssumption
<1> HIDE DEF q
<1>9. TransferInv'
  <2>1. count = 0
    BY <1>1 DEF ReadInv, TransferInv
  <2>2. position' + read_size' = q + ClusterSize
    BY <1>1, <1>8
  <2>3. /\ (position' + read_size') % ClusterSize = 0
        /\ index' = R!Nth[(position' + read_size') \div ClusterSize]
    BY <1>1, <1>3, <1>7, <2>2
  <2> QED
    BY <1>1, <1>3, <1>4, <1>6, <1>8, <2>1, <2>3 DEF TransferInv, R!Clusters, R!EndOfChain
<1>10. R!TypeOK'
  BY <1>1, <1>3, <1>8 DEF ReadInv, R!TypeOK, SameFile, R!Clusters, R!EndOfChain
<1>11. Reading'
  BY <1>1 DEF ReadInv, Reading, SameFile
<1> QED
  BY <1>1, <1>4, <1>9, <1>10, <1>11 DEF ReadInv, SameFile

LEMMA LastPartStep ==
  ASSUME ReadInv, R!LastPart
  PROVE  ReadInv'
<1>1. /\ rpc = "loop" /\ rpc' = "return" /\ read_size < size /\ read_size + ClusterSize >= size
      /\ buffer' = buffer \o R!Bytes(index, 0, size - read_size)
      /\ read_size' = size /\ index' = index
      /\ position' = position /\ got' = got /\ SameFile
      /\ size' = size /\ offset' = offset /\ count' = count
  BY DEF R!LastPart, SameFile, R!file
<1>2. /\ position \in Nat /\ read_size \in Nat /\ size \in Nat
      /\ (position + read_size) % ClusterSize = 0
      /\ index = R!Nth[(position + read_size) \div ClusterSize] /\ index \in R!Clusters
  BY <1>1, TurnBegins
<1>3. PICK len \in Nat : OnDisk(len)
  BY <1>1 DEF ReadInv
<1>4. R!Nth' = R!Nth /\ OnDisk(len)'
  BY <1>1, <1>3, SameFileKeeps
<1>5. buffer' = Part(R!Nth, position, size)
  <2> DEFINE n == size - read_size
  <2>1. buffer = Part(R!Nth, position, read_size)
    BY <1>1 DEF ReadInv, TransferInv
  <2>2. n \in Nat /\ n <= ClusterSize /\ read_size + n = size
    BY <1>1, <1>2, ImageAssumption
  <2> HIDE DEF n
  <2>3. ((position + read_size) % ClusterSize) + n <= ClusterSize
    BY <1>2, <2>2, ImageAssumption
  <2>4. Part(R!Nth, position, read_size)
          \o R!Bytes(R!Nth[(position + read_size) \div ClusterSize],
                     (position + read_size) % ClusterSize, n)
          = Part(R!Nth, position, read_size + n)
    BY <1>2, <2>2, <2>3, Transfer, ZenonT(40)
  <2> QED
    BY <1>1, <1>2, <2>1, <2>2, <2>4 DEF n
<1>6. TransferInv'
  <2>1. count = 0
    BY <1>1 DEF ReadInv, TransferInv
  <2> QED
    BY <1>1, <1>2, <1>4, <1>5, <2>1 DEF TransferInv, R!Clusters, R!EndOfChain
<1>7. R!TypeOK'
  BY <1>1, <1>2 DEF ReadInv, R!TypeOK, SameFile, R!Clusters, R!EndOfChain
<1>8. Reading'
  BY <1>1 DEF ReadInv, Reading, SameFile
<1> QED
  BY <1>1, <1>4, <1>6, <1>7, <1>8 DEF ReadInv, SameFile

(* The loop ends because all is read: the chain does not end before. *)
LEMMA LoopEndsStep ==
  ASSUME ReadInv, R!LoopEnds
  PROVE  ReadInv'
<1>1. /\ rpc = "loop" /\ rpc' = "return" /\ ~(read_size < size /\ index < R!EndOfChain)
      /\ position' = position /\ got' = got /\ SameFile
      /\ size' = size /\ offset' = offset /\ count' = count /\ index' = index
      /\ read_size' = read_size /\ buffer' = buffer
  BY DEF R!LoopEnds, SameFile, R!file, R!locals
<1>2. read_size = size
  <2>1. ~(read_size < size)
    BY <1>1, TurnBegins, ClusterFacts
  <2> QED
    BY <1>1, <2>1 DEF ReadInv, TransferInv
<1>3. PICK len \in Nat : OnDisk(len)
  BY <1>1 DEF ReadInv
<1>4. R!Nth' = R!Nth /\ OnDisk(len)'
  BY <1>1, <1>3, SameFileKeeps
<1>5. TransferInv' /\ Reading'
  BY <1>1, <1>4 DEF ReadInv, TransferInv, Reading, SameFile, R!Clusters, R!EndOfChain
<1>6. R!TypeOK'
  BY <1>1 DEF ReadInv, R!TypeOK, SameFile, R!Clusters, R!EndOfChain
<1> QED
  BY <1>1, <1>2, <1>4, <1>5, <1>6 DEF ReadInv, SameFile

LEMMA ReturnStep ==
  ASSUME ReadInv, R!Return
  PROVE  ReadInv'
<1>1. /\ rpc = "return" /\ rpc' = "user"
      /\ position' = position + read_size /\ got' = got \o buffer /\ SameFile
      /\ size' = 0 /\ count' = 0 /\ offset' = 0 /\ index' = 0 /\ read_size' = 0 /\ buffer' = <<>>
  BY DEF R!Return, SameFile, R!file
<1>2. PICK len \in Nat : OnDisk(len)
  BY <1>1 DEF ReadInv
<1>3. R!Nth' = R!Nth /\ OnDisk(len)'
  BY <1>1, <1>2, SameFileKeeps
<1>4. /\ position \in Nat /\ size \in Nat /\ read_size = size /\ file_size \in Nat
      /\ position + size <= file_size
      /\ got = Part(R!Nth, 0, position) /\ buffer = Part(R!Nth, position, size)
  BY <1>1, PositionFacts DEF ReadInv, Reading, TransferInv
<1>5. got' = Part(R!Nth, 0, position + size)
  <2>1. PICK z \in Nat : z = 0
    OBVIOUS
  <2>2. Part(R!Nth, z, position) \o Part(R!Nth, z + position, size) = Part(R!Nth, z, position + size)
    BY <1>4, PartsJoin, ZenonT(40)
  <2>3. z + position = position
    BY <1>4, <2>1
  <2> QED
    BY <1>1, <1>4, <2>1, <2>2, <2>3
<1>6. R!TypeOK'
  BY <1>1, <1>4, ImageAssumption DEF R!TypeOK, SameFile
<1> QED
  BY <1>1, <1>3, <1>4, <1>5, <1>6 DEF ReadInv, Idle, SameFile

LEMMA OpenFileStep ==
  ASSUME ReadInv, rpc = "closed",
         NEW chain \in R!Chains, NEW bytes \in R!Sizes(chain), R!OpenFile(chain, bytes)
  PROVE  ReadInv'
<1>1. /\ rpc' = "user" /\ position' = position /\ got' = got
      /\ size' = size /\ count' = count /\ offset' = offset /\ index' = index
      /\ read_size' = read_size /\ buffer' = buffer
  BY DEF R!OpenFile, R!locals
<1>2. (\E len \in Nat : OnDisk(len))' /\ file_size' \in Nat
  BY Opened
<1>3. position = 0 /\ Idle /\ got = <<>>
  BY PartEmpty DEF ReadInv
<1>4. got' = Part(R!Nth', 0, position')
  BY <1>1, <1>3, PartEmpty
<1>5. R!TypeOK'
  BY <1>1, <1>2, <1>3, ImageAssumption DEF R!TypeOK, Idle
<1> QED
  BY <1>1, <1>2, <1>3, <1>4, <1>5 DEF ReadInv, Idle

LEMMA ReadUnchanged ==
  ASSUME ReadInv, UNCHANGED read
  PROVE  ReadInv'
<1>1. /\ SameFile /\ rpc' = rpc /\ position' = position /\ got' = got
      /\ size' = size /\ count' = count /\ offset' = offset /\ index' = index
      /\ read_size' = read_size /\ buffer' = buffer
  BY DEF read, SameFile
<1>2. R!Nth' = R!Nth /\ \A len \in Nat : OnDisk(len) => OnDisk(len)'
  BY <1>1, SameFileKeeps
<1>3. R!TypeOK'
  BY <1>1 DEF ReadInv, R!TypeOK, SameFile, R!Clusters, R!EndOfChain
<1>4. (rpc # "closed" => \E len \in Nat : OnDisk(len))'
  BY <1>1, <1>2 DEF ReadInv
<1>5. (rpc = "walk" => WalkInv)'
  BY <1>1, <1>2 DEF ReadInv, WalkInv, R!Clusters
<1>6. (rpc \in {"loop", "return"} => TransferInv)'
  BY <1>1, <1>2 DEF ReadInv, TransferInv, R!Clusters, R!EndOfChain
<1>7. (rpc \in {"walk", "loop", "return"} => Reading)' /\ (rpc \in {"closed", "user"} => Idle)'
  BY <1>1 DEF ReadInv, Reading, Idle, SameFile
<1> QED
  BY <1>1, <1>2, <1>3, <1>4, <1>5, <1>6, <1>7 DEF ReadInv, SameFile

LEMMA ReadStep ==
  ASSUME ReadInv, R!Next
  PROVE  ReadInv'
<1>1. CASE rpc = "closed" /\ \E chain \in R!Chains : \E bytes \in R!Sizes(chain) :
                                 R!OpenFile(chain, bytes)
  BY <1>1, OpenFileStep
<1>2. CASE \E n \in 0..file_size + 1 : R!ReadFile(n) \/ R!ReadRefused(n)
  <2>1. PICK n \in 0..file_size + 1 : R!ReadFile(n) \/ R!ReadRefused(n)
    BY <1>2
  <2>2. CASE R!ReadRefused(n)
    <3>1. UNCHANGED read
      BY <2>2 DEF R!ReadRefused, R!vars, R!file, R!locals, read
    <3> QED
      BY <3>1, ReadUnchanged
  <2> QED
    BY <2>1, <2>2, ReadFileStep
<1>3. CASE R!Halted
  <2>1. UNCHANGED read
    BY <1>3 DEF R!Halted, R!vars, R!file, R!locals, read
  <2> QED
    BY <2>1, ReadUnchanged
<1> QED
  BY <1>1, <1>2, <1>3, WalkStep, FirstClusterStep, AtBoundaryStep, WholeClusterStep, LastPartStep,
     LoopEndsStep, ReturnStep DEF R!Next

LEMMA ReadInvariance == MCSpec => []ReadInv
<1>1. MCInit => ReadInv
  BY ReadInit DEF MCInit
<1>2. ReadInv /\ [MCNext]_mcvars => ReadInv'
  <2> SUFFICES ASSUME ReadInv, [MCNext]_mcvars PROVE ReadInv'
    OBVIOUS
  <2>1. R!Next \/ UNCHANGED read
    BY DEF MCNext, mcvars
  <2> QED
    BY <2>1, ReadStep, ReadUnchanged
<1> QED
  BY <1>1, <1>2, PTL DEF MCSpec

(***************************************************************************)
(* read_file and read_raw_data, for clusters of any size and files of any  *)
(* length on any chain: what a program has read, however it cut its reads, *)
(* are the first bytes of the file, in order and each of them once, and    *)
(* every read that returns gives as many bytes as it was asked for.        *)
(***************************************************************************)
THEOREM FilesAreRead == MCSpec => []ReadsTheFile
<1>1. ReadInv => ReadsTheFile
  <2> SUFFICES ASSUME ReadInv PROVE ReadsTheFile
    OBVIOUS
  <2>1. position \in Nat /\ got = R!Prefix(position)
    BY PositionFacts, PrefixIsPart DEF ReadInv
  <2>2. rpc = "return" => read_size = size /\ Len(buffer) = size
    BY <2>1, PartIsSeq DEF ReadInv, Reading, TransferInv
  <2> QED
    BY <2>1, <2>2 DEF ReadsTheFile, R!ReadsTheFile
<1> QED
  BY <1>1, ReadInvariance, PTL
-----------------------------------------------------------------------------
(* Names: split_path cuts a path where its spelling has the dot. *)

Chars == Letter \cup {".", "/"}

LEMMA NameBounds == NameLen \in Nat /\ ExtLen \in Nat /\ MaxPath \in Nat /\ Entries \in Nat
BY NamesAssumption, Zenon

LEMMA Marks ==
  /\ "." \notin Letter /\ "/" \notin Letter /\ N!Blank \notin Letter
  /\ N!Blank \notin Chars
<1>1. "." \notin Letter /\ "/" \notin Letter /\ N!Blank \notin Letter
  BY NamesAssumption, Zenon DEF N!Blank
<1>2. N!Blank # "." /\ N!Blank # "/"
  BY Zenon DEF N!Blank
<1> QED
  BY <1>1, <1>2, Zenon DEF Chars

LEMMA PathIsSeq ==
  ASSUME NEW p \in N!Paths
  PROVE  p \in Seq(Chars) /\ Len(p) \in Nat /\ DOMAIN p = 1..Len(p) /\ \A j \in 1..Len(p) : p[j] \in Chars
<1>1. PICK n \in 0..MaxPath : p \in [1..n -> Chars]
  BY DEF N!Paths, Chars
<1>2. n \in Nat
  BY NameBounds
<1> QED
  BY <1>1, <1>2

LEMMA WordIsSeq ==
  ASSUME NEW n \in Nat, NEW w \in N!Words(n)
  PROVE  w \in Seq(Letter) /\ Len(w) \in 0..n /\ DOMAIN w = 1..Len(w) /\ \A j \in 1..Len(w) : w[j] \in Letter
<1>1. PICK k \in 0..n : w \in [1..k -> Letter]
  BY DEF N!Words
<1> QED
  BY <1>1

LEMMA SeqIsWord ==
  ASSUME NEW n \in Nat, NEW w, NEW k \in 0..n, w \in [1..k -> Letter]
  PROVE  w \in N!Words(n)
BY DEF N!Words

LEMMA MinIs ==
  ASSUME NEW T \in SUBSET Nat, NEW m \in T, \A x \in T : m <= x
  PROVE  N!Min(T) = m
<1>1. \A x \in T : (\A y \in T : x <= y) => x = m
  OBVIOUS
<1> QED
  BY <1>1 DEF N!Min

LEMMA MinExists ==
  ASSUME NEW T \in SUBSET Nat, T # {}
  PROVE  N!Min(T) \in T /\ \A x \in T : N!Min(T) <= x
<1>1. PICK m \in T : \A x \in T : m <= x
  BY Least
<1> QED
  BY <1>1, MinIs

(* Where the first loop of split_path stops: at the dot, the end or the limit. *)
LEMMA StopsWhere ==
  ASSUME NEW p \in N!Paths
  PROVE  /\ N!NameStops(p) \in 0..Len(p) /\ N!NameStops(p) <= NameLen
         /\ \A j \in 1..N!NameStops(p) : p[j] # "."
         /\ N!NameStops(p) = NameLen \/ N!NameStops(p) = Len(p) \/ p[N!NameStops(p) + 1] = "."
<1> DEFINE T == {j \in 0..Len(p) : j = NameLen \/ j = Len(p) \/ p[j + 1] = "."}
           k == N!Min(T)
<1>1. Len(p) \in Nat
  BY PathIsSeq
<1>2. T \in SUBSET Nat /\ Len(p) \in T
  BY <1>1
<1>3. k \in T /\ \A x \in T : k <= x
  <2> HIDE DEF T
  <2> QED
    BY <1>2, MinExists
<1>4. N!NameStops(p) = k
  BY DEF N!NameStops
<1> HIDE DEF k
<1>5. k \in 0..Len(p) /\ (k = NameLen \/ k = Len(p) \/ p[k + 1] = ".")
  BY <1>3
<1>6. k <= NameLen
  <2>1. NameLen <= Len(p) => NameLen \in T
    BY <1>1, NameBounds
  <2>2. CASE NameLen <= Len(p)
    BY <1>3, <2>1, <2>2, Zenon
  <2>3. CASE ~(NameLen <= Len(p))
    BY <1>1, <1>5, <2>3, NameBounds
  <2> QED
    BY <2>2, <2>3
<1>7. ASSUME NEW j \in 1..k, p[j] = "."
      PROVE  FALSE
  <2>1. j - 1 \in 0..Len(p) /\ (j - 1) + 1 = j /\ j - 1 < k
    BY <1>1, <1>5
  <2>2. j - 1 \in T
    BY <1>7, <2>1
  <2> QED
    BY <1>3, <1>5, <2>1, <2>2
<1> QED
  BY <1>4, <1>5, <1>6, <1>7

(* A path that begins with a word and then has a dot or ends is cut behind the word. *)
LEMMA StopsBehindWord ==
  ASSUME NEW p \in N!Paths, NEW k \in 0..Len(p), k <= NameLen,
         \A j \in 1..k : p[j] \in Letter, k = Len(p) \/ p[k + 1] = "."
  PROVE  N!NameStops(p) = k
<1> DEFINE T == {j \in 0..Len(p) : j = NameLen \/ j = Len(p) \/ p[j + 1] = "."}
<1>1. Len(p) \in Nat
  BY PathIsSeq
<1>2. T \in SUBSET Nat /\ k \in T
  BY <1>1
<1>3. ASSUME NEW x \in T
      PROVE  k <= x
  <2> SUFFICES ASSUME x < k PROVE FALSE
    BY <1>1
  <2>1. x # NameLen /\ x # Len(p)
    BY <1>1, NameBounds
  <2>2. p[x + 1] = "." /\ x + 1 \in 1..k
    BY <1>1, <2>1
  <2> QED
    BY <2>2, Marks
<1>4. N!Min(T) = k
  <2> HIDE DEF T
  <2> QED
    BY <1>2, <1>3, MinIs
<1> QED
  BY <1>4 DEF N!NameStops

LEMMA Beginning ==
  ASSUME NEW s, NEW C, s \in Seq(C), NEW k \in 0..Len(s)
  PROVE  /\ SubSeq(s, 1, k) \in [1..k -> C] /\ Len(SubSeq(s, 1, k)) = k
         /\ \A j \in 1..k : SubSeq(s, 1, k)[j] = s[j]
<1>1. /\ SubSeq(s, 1, k) \in Seq(C) /\ Len(SubSeq(s, 1, k)) = k
      /\ DOMAIN SubSeq(s, 1, k) = 1..k
  OBVIOUS
<1>2. \A j \in 1..k : SubSeq(s, 1, k)[j] = s[j]
  OBVIOUS
<1>3. PICK q : q = SubSeq(s, 1, k)
  OBVIOUS
<1>4. q \in Seq(C) /\ Len(q) = k
  BY <1>1, <1>3
<1>5. q \in [1..k -> C]
  BY <1>4
<1> QED
  BY <1>1, <1>2, <1>3, <1>5

(* What split_path has read of a path: the name, and behind a dot the extension. *)
LEMMA SplitParts ==
  ASSUME NEW p \in N!Paths, NEW k, k = N!NameStops(p)
  PROVE  /\ SubSeq(p, 1, k) \in [1..k -> Chars] /\ \A j \in 1..k : SubSeq(p, 1, k)[j] = p[j]
         /\ ~N!HasDot(p) => N!Extension(p) = <<>>
         /\ N!HasDot(p) =>
              /\ k < Len(p) /\ p[k + 1] = "."
              /\ Len(N!Extension(p)) \in 0..ExtLen /\ Len(N!Extension(p)) <= Len(p) - k - 1
              /\ N!Extension(p) \in [1..Len(N!Extension(p)) -> Chars]
              /\ \A j \in 1..Len(N!Extension(p)) : N!Extension(p)[j] = p[k + 1 + j]
              /\ Len(p) - k - 1 <= ExtLen => Len(N!Extension(p)) = Len(p) - k - 1
<1>1. p \in Seq(Chars) /\ Len(p) \in Nat /\ k \in 0..Len(p)
  BY PathIsSeq, StopsWhere
<1>2. SubSeq(p, 1, k) \in [1..k -> Chars] /\ \A j \in 1..k : SubSeq(p, 1, k)[j] = p[j]
  BY <1>1, Beginning
<1>3. ~N!HasDot(p) => N!Extension(p) = <<>>
  BY DEF N!Extension
<1>4. ASSUME N!HasDot(p)
      PROVE  /\ k < Len(p) /\ p[k + 1] = "."
             /\ Len(N!Extension(p)) \in 0..ExtLen /\ Len(N!Extension(p)) <= Len(p) - k - 1
             /\ N!Extension(p) \in [1..Len(N!Extension(p)) -> Chars]
             /\ \A j \in 1..Len(N!Extension(p)) : N!Extension(p)[j] = p[k + 1 + j]
             /\ Len(p) - k - 1 <= ExtLen => Len(N!Extension(p)) = Len(p) - k - 1
  <2> DEFINE s == SubSeq(p, k + 2, Len(p))
             m == N!Min({ExtLen, Len(s)})
             e == SubSeq(s, 1, m)
  <2>1. k < Len(p) /\ p[k + 1] = "."
    BY <1>4 DEF N!HasDot
  <2>2. /\ s \in Seq(Chars) /\ Len(s) = Len(p) - k - 1
        /\ \A j \in 1..Len(p) - k - 1 : s[j] = p[k + 1 + j]
    <3>1. k + 2 \in Nat \ {0} /\ Len(p) \in 0..Len(p) /\ k + 2 <= Len(p) + 1
      BY <1>1, <2>1
    <3>2. /\ s \in Seq(Chars) /\ Len(s) = Len(p) - (k + 2) + 1
          /\ \A j \in 1..(Len(p) - (k + 2) + 1) : s[j] = p[k + 2 + j - 1]
      <4> HIDE DEF s
      <4>1. PICK a \in Nat \ {0} : a = k + 2
        BY <3>1
      <4>2. /\ SubSeq(p, a, Len(p)) \in Seq(Chars) /\ Len(SubSeq(p, a, Len(p))) = Len(p) - a + 1
            /\ \A j \in 1..(Len(p) - a + 1) : SubSeq(p, a, Len(p))[j] = p[a + j - 1]
        BY <1>1, <3>1, <4>1, Cut
      <4> QED
        BY <4>1, <4>2 DEF s
    <3>3. Len(p) - (k + 2) + 1 = Len(p) - k - 1
      BY <1>1
    <3>4. \A j \in 1..Len(p) - k - 1 : k + 2 + j - 1 = k + 1 + j
      BY <1>1
    <3> HIDE DEF s
    <3> QED
      BY <3>2, <3>3, <3>4
  <2> HIDE DEF s
  <2>3. m \in 0..ExtLen /\ m \in 0..Len(s) /\ (Len(s) <= ExtLen => m = Len(s))
    <3>1. {ExtLen, Len(s)} \in SUBSET Nat /\ {ExtLen, Len(s)} # {}
      BY <1>1, <2>1, <2>2, NameBounds
    <3>2. m \in {ExtLen, Len(s)} /\ \A x \in {ExtLen, Len(s)} : m <= x
      BY <3>1, MinExists
    <3> HIDE DEF m
    <3> QED
      BY <3>1, <3>2
  <2>4. N!Extension(p) = e
    BY <1>4 DEF N!Extension, N!AfterDot, s
  <2> HIDE DEF m
  <2>5. e \in [1..m -> Chars] /\ Len(e) = m /\ \A j \in 1..m : e[j] = s[j]
    BY <2>2, <2>3, Beginning
  <2>6. \A j \in 1..m : e[j] = p[k + 1 + j]
    BY <1>1, <2>1, <2>2, <2>3, <2>5, SMTT(30)
  <2> HIDE DEF e
  <2>7. m <= Len(p) - k - 1 /\ (Len(p) - k - 1 <= ExtLen => m = Len(p) - k - 1)
    BY <1>1, <2>1, <2>2, <2>3
  <2> QED
    BY <2>1, <2>3, <2>4, <2>5, <2>6, <2>7
<1> QED
  BY <1>2, <1>3, <1>4

(* A padded field shows the length of what it holds, if that has no blank. *)
LEMMA PaddedIs ==
  ASSUME NEW s, NEW n \in Nat, NEW j \in 1..n
  PROVE  /\ j <= Len(s) => N!Padded(s, n)[j] = s[j]
         /\ ~(j <= Len(s)) => N!Padded(s, n)[j] = N!Blank
BY DEF N!Padded

(* The name and the extension that split_path finds, when the entry has them. *)
LEMMA NameIsWord ==
  ASSUME NEW p \in N!Paths, N!Accepts(p)
  PROVE  SubSeq(p, 1, N!NameStops(p)) \in N!Words(NameLen)
<1> DEFINE k == N!NameStops(p)
           w == SubSeq(p, 1, k)
<1>1. k \in 0..Len(p) /\ k <= NameLen /\ Len(p) \in Nat /\ \A j \in 1..k : p[j] # "."
  BY StopsWhere, PathIsSeq
<1>2. w \in [1..k -> Chars] /\ \A j \in 1..k : w[j] = p[j]
  BY SplitParts
<1>3. "/" \notin N!Range(w)
  BY DEF N!Accepts
<1> HIDE DEF k, w
<1>4. ASSUME NEW j \in 1..k
      PROVE  w[j] \in Letter
  <2>1. w[j] \in Chars /\ w[j] # "."
    BY <1>1, <1>2
  <2>2. DOMAIN w = 1..k
    BY <1>2
  <2>3. w[j] # "/"
    BY <1>3, <2>2, Zenon DEF N!Range
  <2> QED
    BY <2>1, <2>3, Zenon DEF Chars
<1>5. w \in [1..k -> Letter] /\ k \in 0..NameLen
  BY <1>1, <1>2, <1>4, NameBounds
<1>6. w \in N!Words(NameLen)
  BY <1>5, NameBounds, SeqIsWord
<1> QED
  BY <1>6 DEF k, w

LEMMA ExtensionIsWord ==
  ASSUME NEW p \in N!Paths, NEW v \in N!Words(ExtLen),
         N!Padded(N!Extension(p), ExtLen) = N!Padded(v, ExtLen)
  PROVE  N!Extension(p) \in N!Words(ExtLen)
<1>1. CASE ~N!HasDot(p)
  <2>1. N!Extension(p) = <<>>
    BY <1>1, SplitParts
  <2>2. <<>> \in [1..0 -> Letter] /\ 0 \in 0..ExtLen
    BY NameBounds
  <2> QED
    BY <2>1, <2>2, NameBounds, SeqIsWord
<1>2. CASE N!HasDot(p)
  <2> DEFINE e == N!Extension(p)
             m == Len(e)
  <2>1. m \in 0..ExtLen /\ e \in [1..m -> Chars]
    BY <1>2, SplitParts
  <2>2. N!Padded(e, ExtLen) = N!Padded(v, ExtLen)
    OBVIOUS
  <2> HIDE DEF e, m
  <2>3. Len(v) \in 0..ExtLen /\ \A j \in 1..Len(v) : v[j] \in Letter
    BY NameBounds, WordIsSeq
  <2>4. ASSUME NEW j \in 1..m
        PROVE  e[j] \in Letter
    <3>1. j \in 1..ExtLen /\ e[j] \in Chars
      BY <2>1, NameBounds
    <3>2. N!Padded(e, ExtLen)[j] = e[j]
      BY <3>1, NameBounds, PaddedIs DEF m
    <3>3. e[j] # N!Blank
      BY <3>1, Marks
    <3>4. j <= Len(v)
      BY <2>2, <3>1, <3>2, <3>3, NameBounds, PaddedIs
    <3>5. e[j] = v[j]
      BY <2>2, <3>1, <3>2, <3>4, NameBounds, PaddedIs
    <3>6. j \in 1..Len(v)
      BY <2>3, <3>1, <3>4
    <3> QED
      BY <2>3, <3>5, <3>6
  <2>5. e \in [1..m -> Letter]
    BY <2>1, <2>4
  <2>6. e \in N!Words(ExtLen)
    BY <2>1, <2>5, NameBounds, SeqIsWord
  <2> QED
    BY <2>6 DEF e
<1> QED
  BY <1>1, <1>2

(* A path that split_path accepts is the name, or the name, a dot and the extension. *)
LEMMA AcceptedIsSpelled ==
  ASSUME NEW p \in N!Paths, N!Accepts(p)
  PROVE  LET w == SubSeq(p, 1, N!NameStops(p)) IN
           \/ p = w /\ N!Extension(p) = <<>>
           \/ p = w \o <<".">> \o N!Extension(p)
<1> DEFINE k == N!NameStops(p)
           w == SubSeq(p, 1, k)
           e == N!Extension(p)
           m == Len(e)
<1>1. /\ k \in 0..Len(p) /\ Len(p) \in Nat /\ DOMAIN p = 1..Len(p)
      /\ p \in Seq(Chars)
  BY StopsWhere, PathIsSeq
<1>2. w \in [1..k -> Chars] /\ \A j \in 1..k : w[j] = p[j]
  BY SplitParts
<1>3. /\ N!HasDot(p) => k + (1 + m) = Len(p)
      /\ ~N!HasDot(p) => k + 0 = Len(p)
  BY Zenon DEF N!Accepts
<1>4. CASE ~N!HasDot(p)
  <2>1. e = <<>>
    BY <1>4, SplitParts
  <2> HIDE DEF k, w, e, m
  <2>2. k = Len(p)
    <3>1. k + 0 = Len(p)
      BY <1>3, <1>4, Zenon
    <3>2. k \in Nat
      BY <1>1
    <3> QED
      BY <3>1, <3>2
  <2>3. w = p
    BY <1>1, <1>2, <2>2
  <2> QED
    BY <2>1, <2>3 DEF k, w, e
<1>5. CASE N!HasDot(p)
  <2>1. /\ m \in Nat /\ e \in [1..m -> Chars] /\ p[k + 1] = "."
        /\ \A j \in 1..m : e[j] = p[k + 1 + j]
    BY <1>5, SplitParts
  <2> HIDE DEF k, w, e, m
  <2>2. Len(p) = k + 1 + m
    <3>1. k + (1 + m) = Len(p)
      BY <1>3, <1>5, Zenon
    <3>2. k \in Nat /\ m \in Nat
      BY <1>1, <2>1
    <3> QED
      BY <3>1, <3>2
  <2>3. w \in Seq(Chars) /\ e \in Seq(Chars) /\ Len(w) = k /\ Len(e) = m
    BY <1>1, <1>2, <2>1
  <2>4. "." \in Chars
    BY Zenon DEF Chars
  <2>5. /\ w \o <<".">> \in Seq(Chars) /\ Len(w \o <<".">>) = k + 1
        /\ \A j \in 1..k : (w \o <<".">>)[j] = w[j]
        /\ (w \o <<".">>)[k + 1] = "."
    BY <2>3, <2>4
  <2> DEFINE u == w \o <<".">>
  <2> HIDE DEF u
  <2>6. /\ u \o e \in Seq(Chars) /\ Len(u \o e) = k + 1 + m
        /\ \A j \in 1..k + 1 : (u \o e)[j] = u[j]
        /\ \A j \in k + 2..k + 1 + m : (u \o e)[j] = e[j - (k + 1)]
    <3>1. u \in Seq(Chars) /\ Len(u) = k + 1
      BY <2>5 DEF u
    <3>2. /\ u \o e \in Seq(Chars) /\ Len(u \o e) = Len(u) + Len(e)
          /\ \A j \in 1..Len(u) : (u \o e)[j] = u[j]
          /\ \A j \in Len(u) + 1..Len(u) + Len(e) : (u \o e)[j] = e[j - Len(u)]
      BY <2>3, <3>1, Joined
    <3>3. k + 1 + 1 = k + 2
      BY <1>1
    <3> QED
      BY <2>3, <3>1, <3>2, <3>3
  <2> DEFINE t == u \o e
  <2>7. \A j \in 1..Len(p) : t[j] = p[j]
    <3> TAKE j \in 1..Len(p)
    <3>1. CASE j \in 1..k
      BY <1>1, <1>2, <2>5, <2>6, <3>1 DEF u
    <3>2. CASE j = k + 1
      BY <1>1, <2>1, <2>5, <2>6, <3>2 DEF u
    <3>3. CASE j \in k + 2..k + 1 + m
      <4>1. j - (k + 1) \in 1..m /\ k + 1 + (j - (k + 1)) = j
        BY <1>1, <2>1, <3>3
      <4> QED
        BY <2>1, <2>6, <3>3, <4>1
    <3>4. k \in Nat /\ m \in Nat
      BY <1>1, <2>1
    <3>5. j \in 1..k \/ j = k + 1 \/ j \in k + 2..k + 1 + m
      BY <2>2, <3>4
    <3> QED
      BY <3>1, <3>2, <3>3, <3>5
  <2>8. t \in Seq(Chars) /\ Len(t) = Len(p)
    BY <2>2, <2>6
  <2> HIDE DEF t
  <2>9. t = p
    BY <1>1, <2>7, <2>8
  <2> QED
    BY <2>9 DEF t, u, k, w, e
<1> QED
  BY <1>4, <1>5

(* A spelling is accepted, and split into the name and the extension it was made of. *)
Splits(p, w, e) ==
  /\ N!Accepts(p) /\ SubSeq(p, 1, N!NameStops(p)) = w /\ N!Extension(p) = e

LEMMA NoSlash ==
  ASSUME NEW k, NEW w, w \in [1..k -> Letter]
  PROVE  "/" \notin N!Range(w)
BY Marks, Zenon DEF N!Range

LEMMA BareNameSplits ==
  ASSUME NEW w \in N!Words(NameLen), w \in N!Paths
  PROVE  Splits(w, w, <<>>)
<1>1. Len(w) \in 0..NameLen /\ DOMAIN w = 1..Len(w) /\ \A j \in 1..Len(w) : w[j] \in Letter
  BY NameBounds, WordIsSeq
<1>2. Len(w) \in Nat /\ Len(w) \in 0..Len(w) /\ Len(w) <= NameLen
  BY <1>1, NameBounds
<1>3. N!NameStops(w) = Len(w)
  BY <1>1, <1>2, StopsBehindWord
<1>4. w \in [1..Len(w) -> Letter] /\ w \in Seq(Letter)
  BY NameBounds, WordIsSeq
<1>5. SubSeq(w, 1, Len(w)) = w
  BY <1>4
<1>6. ~N!HasDot(w)
  BY <1>2, <1>3 DEF N!HasDot
<1>7. N!Extension(w) = <<>>
  BY <1>6, Zenon DEF N!Extension
<1>8. "/" \notin N!Range(w) /\ "/" \notin N!Range(<<>>)
  <2>1. <<>> \in [1..0 -> Letter]
    OBVIOUS
  <2> QED
    BY <1>4, <2>1, NoSlash
<1>9. Len(w) + 0 = Len(w)
  BY <1>2
<1>10. N!Accepts(w)
  BY <1>3, <1>5, <1>6, <1>7, <1>8, <1>9, Zenon DEF N!Accepts
<1> QED
  BY <1>3, <1>5, <1>7, <1>10, Zenon DEF Splits

IsDotted(p, w, e) == p = w \o <<".">> \o e

LEMMA DottedNameSplits ==
  ASSUME NEW w \in N!Words(NameLen), NEW e \in N!Words(ExtLen), NEW p \in N!Paths,
         IsDotted(p, w, e)
  PROVE  Splits(p, w, e)
<1> DEFINE k == Len(w)
           m == Len(e)
           u == w \o <<".">>
<1>1. /\ k \in Nat /\ k <= NameLen /\ w \in Seq(Letter) /\ w \in [1..k -> Letter]
      /\ \A j \in 1..k : w[j] \in Letter
  BY NameBounds, WordIsSeq
<1>2. m \in Nat /\ m <= ExtLen /\ e \in Seq(Letter) /\ e \in [1..m -> Letter]
  BY NameBounds, WordIsSeq
<1> HIDE DEF k, m
<1>3. u \in Seq(Chars) /\ Len(u) = k + 1 /\ (\A j \in 1..k : u[j] = w[j]) /\ u[k + 1] = "."
  <2>1. w \in Seq(Chars) /\ <<".">> \in Seq(Chars) /\ Len(w) = k
    BY <1>1 DEF Chars, k
  <2> QED
    BY <1>1, <2>1
<1> HIDE DEF u
<1>4. /\ Len(p) = k + 1 + m
      /\ \A j \in 1..k + 1 : p[j] = u[j]
      /\ \A j \in 1..m : p[k + 1 + j] = e[j]
  <2>1. e \in Seq(Chars) /\ Len(e) = m
    BY <1>2 DEF Chars, m
  <2>2. p = u \o e
    BY DEF u, IsDotted
  <2>3. /\ Len(u \o e) = Len(u) + Len(e)
        /\ \A j \in 1..Len(u) : (u \o e)[j] = u[j]
        /\ \A j \in Len(u) + 1..Len(u) + Len(e) : (u \o e)[j] = e[j - Len(u)]
    BY <1>3, <2>1, Joined
  <2>4. \A j \in 1..m : k + 1 + j \in Len(u) + 1..Len(u) + Len(e) /\ (k + 1 + j) - Len(u) = j
    BY <1>1, <1>2, <1>3, <2>1
  <2> QED
    BY <1>3, <2>1, <2>2, <2>3, <2>4
<1>5. k \in 0..Len(p) /\ k < Len(p) /\ k + 1 \in 1..k + 1
  BY <1>1, <1>2, <1>4
<1>6. p[k + 1] = "." /\ \A j \in 1..k : p[j] = w[j] /\ p[j] \in Letter
  BY <1>1, <1>3, <1>4, <1>5
<1>7. N!NameStops(p) = k
  BY <1>1, <1>5, <1>6, StopsBehindWord
<1>8. N!HasDot(p)
  BY <1>5, <1>6, <1>7, Zenon DEF N!HasDot
<1>9. SubSeq(p, 1, k) = w
  <2>1. SubSeq(p, 1, k) \in [1..k -> Chars] /\ \A j \in 1..k : SubSeq(p, 1, k)[j] = p[j]
    <3>1. p \in Seq(Chars)
      BY PathIsSeq
    <3> QED
      BY <1>5, <3>1, Beginning
  <2> QED
    BY <1>1, <1>6, <2>1
<1>10. N!Extension(p) = e
  <2>1. PICK n : n = N!NameStops(p) /\ n = k
    BY <1>7
  <2>2. /\ N!Extension(p) \in [1..Len(N!Extension(p)) -> Chars]
        /\ \A j \in 1..Len(N!Extension(p)) : N!Extension(p)[j] = p[k + 1 + j]
        /\ Len(p) - k - 1 <= ExtLen => Len(N!Extension(p)) = Len(p) - k - 1
    <3>1. /\ N!Extension(p) \in [1..Len(N!Extension(p)) -> Chars]
          /\ \A j \in 1..Len(N!Extension(p)) : N!Extension(p)[j] = p[n + 1 + j]
          /\ Len(p) - n - 1 <= ExtLen => Len(N!Extension(p)) = Len(p) - n - 1
      BY <1>8, <2>1, SplitParts, ZenonT(40)
    <3> QED
      BY <2>1, <3>1
  <2>3. Len(p) - k - 1 = m
    BY <1>1, <1>2, <1>4
  <2>4. Len(N!Extension(p)) = m
    <3>1. Len(p) - k - 1 <= ExtLen
      BY <1>2, <2>3
    <3> QED
      BY <2>2, <2>3, <3>1
  <2>5. PICK x : x = N!Extension(p)
    OBVIOUS
  <2>6. x \in [1..m -> Chars] /\ \A j \in 1..m : x[j] = e[j]
    BY <1>4, <2>2, <2>4, <2>5
  <2>7. x = e
    BY <1>2, <2>6
  <2> QED
    BY <2>5, <2>7
<1>11. "/" \notin N!Range(w) /\ "/" \notin N!Range(e)
  BY <1>1, <1>2, NoSlash
<1>12. k + (1 + m) = Len(p)
  BY <1>1, <1>2, <1>4
<1>13. N!Accepts(p)
  BY <1>7, <1>8, <1>9, <1>10, <1>11, <1>12, Zenon DEF N!Accepts, m
<1> QED
  BY <1>7, <1>9, <1>10, <1>13, Zenon DEF Splits

LEMMA FoundByName ==
  ASSUME NEW d \in [1..Entries -> N!DirEntries], NEW p \in N!Paths, N!search_file(d, p) > 0
  PROVE  LET f == N!search_file(d, p)
         IN f \in 1..Entries /\ d[f].kind = "file" /\ p \in N!Spellings(d[f])
<1> DEFINE f == N!search_file(d, p)
           w == SubSeq(p, 1, N!NameStops(p))
           e == N!Extension(p)
<1>1. N!Accepts(p) /\ N!Matches(d, p) # {} /\ f = N!Min(N!Matches(d, p))
  <2>1. N!NotFound = -1 /\ ~(-1 > 0)
    BY DEF N!NotFound
  <2>2. f # N!NotFound
    BY <2>1
  <2> QED
    BY <2>2, Zenon DEF N!search_file
<1>2. f \in N!Matches(d, p)
  <2>1. N!Matches(d, p) \in SUBSET Nat
    BY NameBounds DEF N!Matches
  <2> QED
    BY <1>1, <2>1, MinExists
<1>3. /\ f \in 1..Entries /\ d[f].kind = "file"
      /\ d[f].name = N!Padded(w, NameLen) /\ d[f].ext = N!Padded(e, ExtLen)
  BY <1>2 DEF N!Matches, N!is_file_name_equal
<1>4. \E v \in N!Words(ExtLen) : d[f].ext = N!Padded(v, ExtLen)
  BY <1>3 DEF N!DirEntries
<1>5. w \in N!Words(NameLen)
  BY <1>1, NameIsWord
<1>6. e \in N!Words(ExtLen)
  BY <1>3, <1>4, ExtensionIsWord
<1>7. (p = w /\ e = <<>>) \/ p = w \o <<".">> \o e
  BY <1>1, AcceptedIsSpelled
<1> HIDE DEF w, e, f
<1>8. w \in N!Unpadded(d[f].name, NameLen) /\ e \in N!Unpadded(d[f].ext, ExtLen)
  BY <1>3, <1>5, <1>6 DEF N!Unpadded
<1>9. p \in N!Spellings(d[f])
  <2> DEFINE Names == N!Unpadded(d[f].name, NameLen)
             Exts == N!Unpadded(d[f].ext, ExtLen)
  <2>1. N!Spellings(d[f]) = {a \o <<".">> \o b : a \in Names, b \in Exts}
                              \cup {a \in Names : <<>> \in Exts}
    BY DEF N!Spellings
  <2>2. w \in Names /\ e \in Exts
    BY <1>8
  <2> HIDE DEF Names, Exts
  <2> QED
    BY <1>7, <2>1, <2>2
<1> QED
  BY <1>3, <1>9 DEF f

LEMMA SpellingFound ==
  ASSUME NEW d \in [1..Entries -> N!DirEntries], NEW p \in N!Paths,
         NEW j \in 1..Entries, d[j].kind = "file", p \in N!Spellings(d[j])
  PROVE  LET f == N!search_file(d, p)
         IN f \in 1..j /\ d[f].name = d[j].name /\ d[f].ext = d[j].ext
<1>1. PICK w \in N!Unpadded(d[j].name, NameLen) : \E e \in N!Unpadded(d[j].ext, ExtLen) :
         p = w \o <<".">> \o e \/ (p = w /\ e = <<>>)
  <2> DEFINE Names == N!Unpadded(d[j].name, NameLen)
             Exts == N!Unpadded(d[j].ext, ExtLen)
  <2>1. N!Spellings(d[j]) = {a \o <<".">> \o b : a \in Names, b \in Exts}
                              \cup {a \in Names : <<>> \in Exts}
    BY DEF N!Spellings
  <2> HIDE DEF Names, Exts
  <2>2. \E w \in Names : \E e \in Exts : p = w \o <<".">> \o e \/ (p = w /\ e = <<>>)
    BY <2>1
  <2> QED
    BY <2>2 DEF Names, Exts
<1>2. PICK e \in N!Unpadded(d[j].ext, ExtLen) : p = w \o <<".">> \o e \/ (p = w /\ e = <<>>)
  BY <1>1
<1>3. /\ w \in N!Words(NameLen) /\ N!Padded(w, NameLen) = d[j].name
      /\ e \in N!Words(ExtLen) /\ N!Padded(e, ExtLen) = d[j].ext
  BY DEF N!Unpadded
<1>4. Splits(p, w, e)
  BY <1>2, <1>3, BareNameSplits, DottedNameSplits DEF IsDotted
<1>5. N!Accepts(p) /\ SubSeq(p, 1, N!NameStops(p)) = w /\ N!Extension(p) = e
  BY <1>4 DEF Splits
<1>6. \A g \in 1..Entries : g \in N!Matches(d, p) <=>
         d[g].kind = "file" /\ d[g].name = d[j].name /\ d[g].ext = d[j].ext
  BY <1>3, <1>5 DEF N!Matches, N!is_file_name_equal
<1>7. j \in N!Matches(d, p) /\ N!Matches(d, p) \in SUBSET (1..Entries)
  BY <1>6 DEF N!Matches
<1> DEFINE T == N!Matches(d, p)
<1>8. N!search_file(d, p) = N!Min(T)
  BY <1>5, <1>7, Zenon DEF N!search_file
<1> HIDE DEF T
<1>9. T \in SUBSET Nat /\ T # {} /\ j \in T /\ T \in SUBSET (1..Entries)
  BY <1>7, NameBounds DEF T
<1>10. N!Min(T) \in T /\ N!Min(T) <= j
  BY <1>9, MinExists
<1>11. N!Min(T) \in 1..Entries /\ N!Min(T) \in 1..j
  <2>1. PICK f \in T : f = N!Min(T) /\ f <= j
    BY <1>10
  <2>2. f \in 1..Entries /\ f \in 1..j
    BY <1>9, <2>1, NameBounds
  <2> QED
    BY <2>1, <2>2
<1> QED
  BY <1>6, <1>8, <1>10, <1>11 DEF T

NamesInv ==
  \/ dir = <<>> /\ found = 0
  \/ /\ dir \in [1..Entries -> N!DirEntries] /\ path \in N!Paths
     /\ found = N!search_file(dir, path)

LEMMA NamesExact == NamesInv => SearchIsExact
<1> SUFFICES ASSUME NamesInv PROVE N!FoundIsNamed /\ N!ListedIsFound
  BY DEF SearchIsExact, N!SearchIsExact
<1>1. CASE dir = <<>> /\ found = 0
  BY <1>1 DEF N!FoundIsNamed, N!ListedIsFound
<1>2. CASE /\ dir \in [1..Entries -> N!DirEntries] /\ path \in N!Paths
           /\ found = N!search_file(dir, path)
  <2>1. N!FoundIsNamed
    <3> SUFFICES ASSUME found > 0
                 PROVE  dir[found].kind = "file" /\ path \in N!Spellings(dir[found])
      BY DEF N!FoundIsNamed
    <3> QED
      BY <1>2, FoundByName
  <2>2. N!ListedIsFound
    <3>1. DOMAIN dir = 1..Entries
      BY <1>2
    <3> SUFFICES ASSUME NEW j \in 1..Entries, dir[j].kind = "file", path \in N!Spellings(dir[j])
                 PROVE  found \in 1..j /\ dir[found].name = dir[j].name /\ dir[found].ext = dir[j].ext
      BY <3>1 DEF N!ListedIsFound
    <3> QED
      BY <1>2, SpellingFound
  <2> QED
    BY <2>1, <2>2
<1> QED
  BY <1>1, <1>2 DEF NamesInv

(***************************************************************************)
(* split_path and search_file, for names, paths and directories of any     *)
(* length and any letters: an entry is returned only if it is a file whose *)
(* name the path spells, and every file is found by each of the spellings. *)
(***************************************************************************)
THEOREM FilesAreFound == MCSpec => []SearchIsExact
<1>1. MCInit => NamesInv
  BY DEF MCInit, N!Init, NamesInv
<1>2. NamesInv /\ [MCNext]_mcvars => NamesInv'
  <2> SUFFICES ASSUME NamesInv, [MCNext]_mcvars PROVE NamesInv'
    OBVIOUS
  <2>1. N!Next \/ UNCHANGED names
    BY DEF MCNext, mcvars
  <2>2. CASE N!Next
    <3>1. PICK d \in [1..Entries -> N!DirEntries], p \in N!Paths :
             dir' = d /\ path' = p /\ found' = N!search_file(d, p)
      BY <2>2 DEF N!Next, N!Search
    <3>2. /\ dir' \in [1..Entries -> N!DirEntries] /\ path' \in N!Paths
          /\ found' = N!search_file(dir', path')
      BY <3>1
    <3>3. /\ (dir \in [1..Entries -> N!DirEntries] /\ path \in N!Paths)'
          /\ (found = N!search_file(dir, path))'
      BY <3>2 DEF N!search_file, N!Accepts, N!Matches
    <3> QED
      BY <3>3 DEF NamesInv
  <2>3. CASE UNCHANGED names
    BY <2>3 DEF NamesInv, names
  <2> QED
    BY <2>1, <2>2, <2>3
<1> QED
  BY <1>1, <1>2, NamesExact, PTL DEF MCSpec
-----------------------------------------------------------------------------
(* The memory functions, from MemLibProofs. *)
MP == INSTANCE MemLibProofs WITH pc <- mpc

LEMMA MemLibSteps == MCSpec => MP!Spec
<1>1. MCInit => MP!Init
  BY DEF MCInit, M!Init, MP!Init, M!Distinct, MP!Distinct, M!Addr, MP!Addr
<1>2. [MCNext]_mcvars => [MP!Next]_(MP!vars)
  <2>1. M!Next => MP!Next
    BY DEF M!Next, MP!Next, M!Call, MP!Call, M!Set, MP!Set, M!Compare, MP!Compare, M!Copy, MP!Copy,
           M!Count, MP!Count, M!memset, MP!memset, M!memcmp, MP!memcmp, M!memcpy, MP!memcpy,
           M!Enter, MP!Enter, M!Fits, MP!Fits, M!Step, MP!Step, M!Distinct, MP!Distinct,
           M!Addr, MP!Addr, M!Byte, MP!Byte
  <2>2. UNCHANGED memlib => UNCHANGED MP!vars
    BY DEF memlib, MP!vars
  <2> QED
    BY <2>1, <2>2 DEF MCNext, mcvars
<1> QED
  BY <1>1, <1>2, PTL DEF MCSpec, MP!Spec

(***************************************************************************)
(* The same of the memory functions among the other routines: memcpy       *)
(* copies as if at once, memset stays in its region, memcmp compares every *)
(* byte, in a memory of any size.                                          *)
(***************************************************************************)
THEOREM MemoryFunctionsWork == MCSpec => []RoutinesKeepPromise
<1>1. MP!Bounded
  BY MemoryAssumption DEF MP!Bounded
<1>2. MP!Spec => []MP!RoutinesKeepPromise
  BY <1>1, MP!RoutinesDoTheirWork
<1>3. MP!RoutinesKeepPromise => RoutinesKeepPromise
  BY DEF RoutinesKeepPromise, M!RoutinesKeepPromise, MP!RoutinesKeepPromise,
         M!SetsRegion, MP!SetsRegion, M!CopiesAtOnce, MP!CopiesAtOnce, M!ComparesAll,
         MP!ComparesAll, M!Region, MP!Region, M!Addr, MP!Addr
<1> QED
  BY <1>2, <1>3, MemLibSteps, PTL
-----------------------------------------------------------------------------
(* The formatting of printk: what the helpers return is a sequence of characters. *)

Bases == {10, 16}

LEMMA QuotientIsLess ==
  ASSUME NEW base \in Bases, NEW m \in Nat, ~ (m < base)
  PROVE  m \div base \in Nat /\ m \div base < m /\ m % base \in Nat
<1>1. CASE base = 10
  BY <1>1
<1>2. CASE base = 16
  BY <1>2
<1> QED
  BY <1>1, <1>2 DEF Bases

(* The digits of the numbers up to n, as the loops of the helpers find them. *)
DigitsUpto(f, base, n) ==
  f = [m \in 0..n |-> IF m < base THEN <<m>> ELSE f[m \div base] \o <<m % base>>]

LEMMA DigitsExist ==
  ASSUME NEW base \in Bases, NEW n \in Nat
  PROVE  \E f : DigitsUpto(f, base, n)
<1> DEFINE T == {m \in Nat : \E f : DigitsUpto(f, base, m)}
           Value(f, m) == IF m < base THEN <<m>> ELSE f[m \div base] \o <<m % base>>
<1>0. \A f, k : DigitsUpto(f, base, k) <=> f = [m \in 0..k |-> Value(f, m)]
  BY DEF DigitsUpto
<1>1. \A f, g : \A m \in Nat : (\A k \in 0..m - 1 : g[k] = f[k]) => Value(g, m) = Value(f, m)
  <2> SUFFICES ASSUME NEW f, NEW g, NEW m \in Nat, \A k \in 0..m - 1 : g[k] = f[k]
               PROVE  Value(g, m) = Value(f, m)
    OBVIOUS
  <2>1. CASE m < base
    BY <2>1
  <2>2. CASE ~ (m < base)
    <3>1. m \div base \in 0..m - 1
      BY <2>2, QuotientIsLess
    <3> QED
      BY <2>2, <3>1
  <2> QED
    BY <2>1, <2>2
<1>2. 0 \in T
  <2> DEFINE f == [m \in 0..0 |-> <<m>>]
  <2>1. \A m \in 0..0 : m < base
    BY DEF Bases
  <2>2. f = [m \in 0..0 |-> Value(f, m)]
    BY <2>1
  <2> HIDE DEF Value, f
  <2>3. DigitsUpto(f, base, 0)
    BY <1>0, <2>2
  <2> QED
    BY <2>3
<1> HIDE DEF Value
<1>3. ASSUME NEW k \in T
      PROVE  k + 1 \in T
  <2>1. k \in Nat /\ \E f : DigitsUpto(f, base, k)
    OBVIOUS
  <2>2. PICK f : DigitsUpto(f, base, k)
    BY <2>1
  <2>3. f = [m \in 0..k |-> Value(f, m)]
    BY <1>0, <2>2
  <2>4. \A m \in 0..k : f[m] = Value(f, m)
    BY <2>3
  <2>5. PICK v : v = Value(f, k + 1)
    OBVIOUS
  <2> DEFINE g == [m \in 0..k + 1 |-> IF m = k + 1 THEN v ELSE f[m]]
  <2>6. ASSUME NEW m \in 0..k + 1 PROVE g[m] = Value(g, m)
    <3>1. m \in Nat /\ \A j \in 0..m - 1 : g[j] = f[j]
      BY <2>1
    <3>2. Value(g, m) = Value(f, m)
      BY <1>1, <3>1
    <3>3. CASE m = k + 1
      BY <2>5, <3>2, <3>3
    <3>4. CASE m # k + 1
      BY <2>1, <2>4, <3>2, <3>4
    <3> QED
      BY <3>3, <3>4
  <2>7. DOMAIN g = 0..k + 1 /\ g = [m \in 0..k + 1 |-> g[m]]
    OBVIOUS
  <2> HIDE DEF g
  <2>8. g = [m \in 0..k + 1 |-> Value(g, m)]
    BY <2>6, <2>7
  <2>9. DigitsUpto(g, base, k + 1)
    BY <1>0, <2>8
  <2> QED
    BY <2>1, <2>9
<1>4. T \in SUBSET Nat
  OBVIOUS
<1> HIDE DEF T
<1>5. T = Nat
  BY <1>2, <1>3, <1>4, Induction
<1> QED
  BY <1>5 DEF T

LEMMA DigitsAreSequences ==
  ASSUME NEW base \in Bases, NEW n \in Nat, NEW f, DigitsUpto(f, base, n)
  PROVE  \A m \in 0..n : f[m] \in Seq(Nat)
<1> DEFINE T == {m \in 0..n : f[m] \notin Seq(Nat)}
<1>1. T \in SUBSET Nat
  OBVIOUS
<1>2. ASSUME T # {} PROVE FALSE
  <2>1. PICK m \in T : \A k \in T : m <= k
    BY <1>1, <1>2, Least
  <2>2. m \in 0..n /\ f[m] = IF m < base THEN <<m>> ELSE f[m \div base] \o <<m % base>>
    BY DEF DigitsUpto
  <2>3. CASE m < base
    <3>1. m \in Nat
      BY <2>2
    <3>2. <<m>> \in Seq(Nat)
      BY <3>1
    <3>3. f[m] \notin Seq(Nat)
      BY <2>1
    <3> QED
      BY <2>2, <2>3, <3>2, <3>3
  <2>4. CASE ~ (m < base)
    <3>1. m \div base \in 0..n /\ m \div base < m /\ m % base \in Nat /\ m \in Nat
      BY <2>2, <2>4, QuotientIsLess
    <3>2. m \div base \notin T
      BY <2>1, <3>1
    <3>3. f[m \div base] \in Seq(Nat)
      BY <3>1, <3>2
    <3>4. <<m % base>> \in Seq(Nat)
      BY <3>1
    <3>5. f[m \div base] \o <<m % base>> \in Seq(Nat)
      BY <3>3, <3>4, Joined
    <3> QED
      BY <2>2, <2>4, <3>5
  <2> QED
    BY <2>3, <2>4
<1> QED
  BY <1>2

LEMMA Digits ==
  ASSUME NEW v \in P!Word
  PROVE  P!udigits[v] \in Seq(Nat) /\ P!xdigits[v] \in Seq(Nat)
<1>1. PICK n : n = 2^Width - 1
  OBVIOUS
<1>2. n \in Nat /\ P!Word = 0..n
  BY <1>1, PrintAssumption DEF P!Word
<1>3. P!udigits = CHOOSE f : DigitsUpto(f, 10, n)
  BY <1>2, Zenon DEF P!udigits, P!DigitsOf, DigitsUpto
<1>4. P!xdigits = CHOOSE f : DigitsUpto(f, 16, n)
  BY <1>2, Zenon DEF P!xdigits, P!DigitsOf, DigitsUpto
<1>5. 10 \in Bases /\ 16 \in Bases
  BY DEF Bases
<1>6. DigitsUpto(P!udigits, 10, n) /\ DigitsUpto(P!xdigits, 16, n)
  BY <1>2, <1>3, <1>4, <1>5, DigitsExist
<1> QED
  BY <1>2, <1>5, <1>6, DigitsAreSequences
LEMMA ConvertedIsSequence ==
  ASSUME NEW ch \in {P!X, P!U, P!D, P!S}, NEW v \in P!Argument(ch)
  PROVE  v \in P!Word /\ P!Converted(ch, v) \in Seq(Nat)
<1>1. PICK W : W = 2^Width
  OBVIOUS
<1>2. W \in Nat \ {0} /\ P!Word = 0..W - 1 /\ MaxString \in 0..W - 1
  BY <1>1, PrintAssumption DEF P!Word
<1>3. v \in P!Word
  BY <1>2 DEF P!Argument
<1>4. P!Negated(v) \in P!Word
  <2>1. W - v \in Nat /\ (W - v) % W \in 0..W - 1
    BY <1>2, <1>3
  <2>2. P!Negated(v) = (W - v) % W
    BY <1>1 DEF P!Negated
  <2> QED
    BY <1>2, <2>1, <2>2
<1>5. P!udigits[v] \in Seq(Nat) /\ P!xdigits[v] \in Seq(Nat) /\ P!udigits[P!Negated(v)] \in Seq(Nat)
  BY <1>3, <1>4, Digits
<1>6. <<P!Minus>> \in Seq(Nat) /\ <<P!HexMark>> \in Seq(Nat) /\ P!AnyLetter \in Nat
  BY DEF P!Minus, P!HexMark, P!AnyLetter
<1>7. P!hex_to_string(v) \in Seq(Nat)
  BY <1>5, <1>6, Joined DEF P!hex_to_string
<1>8. P!udecimal_to_string(v) \in Seq(Nat)
  BY <1>5 DEF P!udecimal_to_string
<1>9. P!decimal_to_string(v) \in Seq(Nat)
  <2>1. <<P!Minus>> \o P!udigits[P!Negated(v)] \in Seq(Nat)
    BY <1>5, <1>6, Joined
  <2> QED
    BY <1>5, <2>1 DEF P!decimal_to_string
<1>10. P!read_string(v) \in Seq(Nat)
  <2>1. v \in Nat
    BY <1>2, <1>3
  <2> QED
    BY <1>6, <2>1 DEF P!read_string
<1>11. P!Converted(ch, v) \in {P!hex_to_string(v), P!udecimal_to_string(v), P!decimal_to_string(v), P!read_string(v)}
  BY DEF P!Converted, P!X, P!U, P!D, P!S
<1> QED
  BY <1>3, <1>7, <1>8, <1>9, <1>10, <1>11

(* A turn of printk's loop leaves a buffer without gaps. *)
LEMMA EmitTyped ==
  ASSUME P!TypeOK, NEW s \in Seq(Nat), NEW to \in 1..Len(format) + 1, P!Emit(s, to), taken' \in Seq(P!Word)
  PROVE  P!TypeOK'
<1>1. format' = format /\ i' = to /\ buffer_size' = buffer_size + Len(s) /\ text' = P!Put(buffer_size, s)
  BY DEF P!Emit
<1>2. buffer_size \in Nat /\ Len(s) \in Nat /\ DOMAIN text = 0..buffer_size - 1
  BY DEF P!TypeOK
<1>3. DOMAIN text' = 0..buffer_size' - 1
  <2>1. DOMAIN P!Put(buffer_size, s) = DOMAIN text \cup buffer_size..buffer_size + Len(s) - 1
    BY DEF P!Put
  <2> QED
    BY <1>1, <1>2, <2>1
<1> QED
  BY <1>1, <1>2, <1>3 DEF P!TypeOK

LEMMA PrintTyped ==
  ASSUME P!TypeOK, P!Next
  PROVE  P!TypeOK'
<1>1. CASE P!Printk
  <2>1. format = <<>> /\ i = 1
    BY <1>1 DEF P!Printk, P!TypeOK
  <2>2. format' \in Seq({P!AnyLetter, P!Percent, P!X, P!U, P!D, P!S})
    <3>1. PICK n \in 1..FormatLen : format' \in [1..n -> {P!AnyLetter, P!Percent, P!X, P!U, P!D, P!S}]
      BY <1>1 DEF P!Printk
    <3>2. n \in Nat
      BY <3>1, PrintAssumption
    <3> QED
      BY <3>1, <3>2
  <2>3. i' = i /\ text' = text /\ buffer_size' = buffer_size /\ taken' = taken
    BY <1>1 DEF P!Printk
  <2>4. i' \in 1..Len(format') + 1
    BY <2>1, <2>2, <2>3
  <2> QED
    BY <2>2, <2>3, <2>4 DEF P!TypeOK
<1>2. CASE P!Plain
  <2>1. i \in 1..Len(format) /\ i + 1 \in 1..Len(format) + 1
    BY <1>2 DEF P!Plain, P!TypeOK
  <2>2. format[i] \in Nat
    BY <2>1 DEF P!TypeOK, P!AnyLetter, P!Percent, P!X, P!U, P!D, P!S
  <2>3. <<format[i]>> \in Seq(Nat) /\ P!Emit(<<format[i]>>, i + 1) /\ taken' \in Seq(P!Word)
    BY <1>2, <2>2 DEF P!Plain, P!TypeOK
  <2> QED
    BY <2>1, <2>3, EmitTyped
<1>3. CASE P!Other
  <2>1. i + 1 \in 1..Len(format) + 1
    BY <1>3 DEF P!Other, P!TypeOK
  <2>2. <<P!Percent>> \in Seq(Nat) /\ P!Emit(<<P!Percent>>, i + 1) /\ taken' \in Seq(P!Word)
    BY <1>3 DEF P!Other, P!TypeOK, P!Percent
  <2> QED
    BY <2>1, <2>2, EmitTyped
<1>4. ASSUME NEW ch \in {P!X, P!U, P!D, P!S}, P!Directive(ch)
      PROVE  P!TypeOK'
  <2>1. i + 2 \in 1..Len(format) + 1
    BY <1>4 DEF P!Directive, P!Follows, P!TypeOK
  <2>2. PICK v \in P!Argument(ch) : P!Emit(P!Converted(ch, v), i + 2) /\ taken' = Append(taken, v)
    BY <1>4 DEF P!Directive
  <2>3. v \in P!Word /\ P!Converted(ch, v) \in Seq(Nat)
    BY ConvertedIsSequence
  <2>4. taken' \in Seq(P!Word)
    BY <2>2, <2>3 DEF P!TypeOK
  <2> QED
    BY <2>1, <2>2, <2>3, <2>4, EmitTyped
<1> QED
  BY <1>1, <1>2, <1>3, <1>4 DEF P!Next

LEMMA PrintInvariance == MCSpec => []P!TypeOK
<1>1. P!Init => P!TypeOK
  <2> SUFFICES ASSUME P!Init PROVE P!TypeOK
    OBVIOUS
  <2>1. DOMAIN text = 0..buffer_size - 1
    BY DEF P!Init
  <2> QED
    BY <2>1 DEF P!Init, P!TypeOK
<1>2. P!TypeOK /\ [MCNext]_mcvars => P!TypeOK'
  <2>1. UNCHANGED print /\ P!TypeOK => P!TypeOK'
    BY DEF print, P!TypeOK
  <2> QED
    BY <2>1, PrintTyped DEF MCNext, mcvars
<1> QED
  BY <1>1, <1>2, PTL DEF MCSpec, MCInit
-----------------------------------------------------------------------------
LEMMA SpacesSteps == MCSpec => Spec
<1>1. MCInit => Init
  BY DEF MCInit
<1>2. [MCNext]_mcvars => [Next]_vars
  BY DEF MCNext, mcvars, spaces
<1> QED
  BY <1>1, <1>2, PTL DEF MCSpec, Spec

(***************************************************************************)
(* No routine leaves its types, for every value of the constants: no       *)
(* register of the memory functions, page table pointer, printk position,  *)
(* cluster index or list pointer goes out of range.                        *)
(***************************************************************************)
THEOREM RoutinesTypeCorrect == MCSpec => []MCTypeOK
<1>1. MCSpec => []TypeOK
  BY SpacesSteps, PointersLeadToPages, PTL
<1>2. MCSpec => []M!TypeOK
  <2>1. MP!Bounded
    BY MemoryAssumption DEF MP!Bounded
  <2>2. MP!Spec => []MP!TypeOK
    BY <2>1, MP!RegistersTyped
  <2>3. MP!TypeOK => M!TypeOK
    BY DEF M!TypeOK, MP!TypeOK, M!Addr, MP!Addr, M!Byte, MP!Byte
  <2> QED
    BY <2>2, <2>3, MemLibSteps, PTL
<1>3. TypeOK /\ M!TypeOK /\ P!TypeOK /\ ReadInv /\ ListsInv => MCTypeOK
  BY DEF MCTypeOK, ReadInv, ListsInv
<1> QED
  BY <1>1, <1>2, <1>3, PrintInvariance, ReadInvariance, ListsInvariance, PTL
=============================================================================
