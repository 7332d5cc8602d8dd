--------------------------- MODULE ProcessLists ---------------------------
(***************************************************************************)
(* The intrusive process lists of src/src/lib.c with their pointers: one   *)
(* next per process, next and tail per list, and list_lock, which          *)
(* remove_list does not take and remove_list_head unlocks twice.           *)
(*                                                                         *)
(* A caller holds process_lock, except at start-up, where a core appends   *)
(* the first process to its own ready list.  struct HeadList begins with   *)
(* next as struct List does, and remove_list uses that: next is one        *)
(* function of lists and processes.                                        *)
(***************************************************************************)
EXTENDS Integers, Sequences, FiniteSets

CONSTANTS Core, Process,
          HeadList, \* the lists, each a pair of its core and "ready" or "wait"
          Event,    \* what processes wait for
          NULL, Pending

(* A list is named by its core and its kind, ready_list or wait_list. *)
NoEvent == CHOOSE w \in Event : TRUE

VARIABLES next, tail,  \* the pointers of processes and lists
          wait,        \* the field wait of each process
          list_lock,   \* the lock word
          owner,       \* the core that holds process_lock, or NULL
          started,     \* the cores that are past start-up
          off,         \* the processes that are on no list and of no call
          pc, list, node, arg, item, prev   \* where each core is, and its locals

vars == <<next, tail, wait, list_lock, owner, started, off, pc, list, node, arg, item, prev>>

Labels == {"out", "held"}
            \cup {"append", "clear", "link", "settail", "unlock"}
            \cup {"head", "unlink", "droptail", "unlock2"}
            \cup {"search", "fixtail"}

TypeOK ==
  /\ next \in [HeadList \cup Process -> Process \cup {NULL}]
  /\ tail \in [HeadList -> Process \cup {NULL}]
  /\ wait \in [Process -> Event]
  /\ list_lock \in {0, 1}
  /\ owner \in Core \cup {NULL}
  /\ started \subseteq Core /\ off \subseteq Process
  /\ pc \in [Core -> Labels]
  /\ list \in [Core -> HeadList]
  /\ node \in [Core -> Process \cup {NULL}]
  /\ arg \in [Core -> Event]
  /\ item \in [Core -> Process \cup {NULL, Pending}]
  /\ prev \in [Core -> HeadList \cup Process]

Init ==
  /\ next = [x \in HeadList \cup Process |-> NULL]
  /\ tail = [l \in HeadList |-> NULL]
  /\ wait = [p \in Process |-> NoEvent]
  /\ list_lock = 0 /\ owner = NULL /\ started = {} /\ off = Process
  /\ pc = [c \in Core |-> "out"]
  /\ list = [c \in Core |-> <<c, "ready">>]
  /\ node = [c \in Core |-> NULL]
  /\ arg = [c \in Core |-> NoEvent]
  /\ item = [c \in Core |-> Pending]
  /\ prev = [c \in Core |-> <<c, "ready">>]

is_list_empty(l) == next[l] = NULL

Goto(c, from, to) == pc[c] = from /\ pc' = [pc EXCEPT ![c] = to]

(* After start-up the core is in user mode; other callers go on under process_lock. *)
Return(c) == IF owner = c THEN "held" ELSE "out"

(* What a call has removed is its caller's when it returns. *)
HandOver(c) == off' = off \cup ({item[c]} \cap Process)

(* In its start-up append; nobody else uses the lists of the core before. *)
Starting(c) == pc[c] \notin {"out", "held"} /\ owner # c

Locals == <<list, node, arg, prev>>
Caller == <<owner, started>>

(* A call with list l and, where it has one, the item p or the event w. *)
Call(c, l, p, w) ==
  /\ list' = [list EXCEPT ![c] = l]
  /\ prev' = [prev EXCEPT ![c] = l]
  /\ node' = [node EXCEPT ![c] = p]
  /\ arg' = [arg EXCEPT ![c] = w]
  /\ item' = [item EXCEPT ![c] = Pending]
-----------------------------------------------------------------------------
(* A core in the kernel takes process_lock, and gives it back. *)
Enter(c) ==
  /\ c \in started /\ owner = NULL
  /\ Goto(c, "out", "held")
  /\ owner' = c
  /\ UNCHANGED <<next, tail, wait, list_lock, started, off, item, Locals>>

Leave(c) ==
  /\ Goto(c, "held", "out")
  /\ owner' = NULL
  /\ Call(c, <<c, "ready">>, NULL, NoEvent)
  /\ UNCHANGED <<next, tail, wait, list_lock, started, off>>

(* The first process of a core, in init_user_process or init_test4_process. *)
Start(c, p) ==
  /\ c \notin started /\ p \in off
  /\ Goto(c, "out", "append")
  /\ started' = started \cup {c}
  /\ Call(c, <<c, "ready">>, p, NoEvent)
  /\ off' = off \ {p}
  /\ UNCHANGED <<next, tail, wait, list_lock, owner>>

(* yield, wake_up, fork and exit append to other lists than a wait list. *)
AppendReady(c, l, p) ==
  /\ l[2] # "wait" /\ l[1] \in started /\ ~Starting(l[1]) /\ p \in off
  /\ Goto(c, "held", "append")
  /\ Call(c, l, p, NoEvent)
  /\ off' = off \ {p}
  /\ UNCHANGED <<next, tail, wait, list_lock, Caller>>

(* sleep sets wait and appends to the wait list of its core. *)
AppendWait(c, l, p, w) ==
  /\ l = <<c, "wait">> /\ p \in off
  /\ Goto(c, "held", "append")
  /\ Call(c, l, p, NoEvent)
  /\ wait' = [wait EXCEPT ![p] = w]
  /\ off' = off \ {p}
  /\ UNCHANGED <<next, tail, list_lock, Caller>>

(* schedule removes the head of its core's ready list. *)
RemoveListHead(c) ==
  /\ Goto(c, "held", "head")
  /\ Call(c, <<c, "ready">>, NULL, NoEvent)
  /\ UNCHANGED <<next, tail, wait, list_lock, Caller, off>>

(* wake_up searches the wait lists of all cores; wait the kill list of its own. *)
RemoveList(c, l, w) ==
  /\ l[2] = "wait"
  /\ Goto(c, "held", "search")
  /\ Call(c, l, NULL, w)
  /\ UNCHANGED <<next, tail, wait, list_lock, Caller, off>>
-----------------------------------------------------------------------------
(* append_list_tail: spin_lock(&list_lock), item->next = NULL. *)
AppendLocks(c) ==
  /\ Goto(c, "append", "clear") /\ list_lock = 0
  /\ list_lock' = 1
  /\ UNCHANGED <<next, tail, wait, Caller, off, item, Locals>>

(* Mutant for ImplementsQueues: item->next keeps what it was on an earlier list. *)
AppendKeepsNext(c) ==
  /\ Goto(c, "clear", "link")
  /\ UNCHANGED <<next, tail, wait, list_lock, Caller, off, item, Locals>>

AppendClears(c) ==
  /\ Goto(c, "clear", "link")
  /\ next' = [next EXCEPT ![node[c]] = NULL]
  /\ UNCHANGED <<tail, wait, list_lock, Caller, off, item, Locals>>

AppendLinks(c) ==
  /\ Goto(c, "link", "settail")
  /\ LET last == IF is_list_empty(list[c]) THEN list[c] ELSE tail[list[c]]
     IN next' = [next EXCEPT ![last] = node[c]]
  /\ UNCHANGED <<tail, wait, list_lock, Caller, off, item, Locals>>

AppendSetsTail(c) ==
  /\ Goto(c, "settail", "unlock")
  /\ tail' = [tail EXCEPT ![list[c]] = node[c]]
  /\ UNCHANGED <<next, wait, list_lock, Caller, off, item, Locals>>

(* spin_unlock(&list_lock) and the return, of both functions that take it. *)
Unlock(c) ==
  /\ Goto(c, "unlock", Return(c))
  /\ list_lock' = 0
  /\ HandOver(c)
  /\ UNCHANGED <<next, tail, wait, Caller, item, Locals>>

(* remove_list_head: spin_lock(&list_lock). *)
HeadLocks(c) ==
  /\ Goto(c, "head", "unlink") /\ list_lock = 0
  /\ list_lock' = 1
  /\ UNCHANGED <<next, tail, wait, Caller, off, item, Locals>>

(* An empty list, or its first process; the caller has it once list->next is stored. *)
HeadUnlinks(c) ==
  LET l == list[c] IN
  /\ \/ is_list_empty(l) /\ Goto(c, "unlink", "unlock")
     \/ ~is_list_empty(l) /\ next[next[l]] = NULL /\ Goto(c, "unlink", "unlock2")
     \/ ~is_list_empty(l) /\ next[next[l]] # NULL /\ Goto(c, "unlink", "unlock")
  /\ item' = [item EXCEPT ![c] = next[l]]
  /\ next' = IF is_list_empty(l) THEN next ELSE [next EXCEPT ![l] = next[next[l]]]
  /\ UNCHANGED <<tail, wait, list_lock, Caller, off, Locals>>

(* The list has become empty: list_lock is released early, then tail is set. *)
HeadUnlocks(c) ==
  /\ Goto(c, "unlock2", "droptail")
  /\ list_lock' = 0
  /\ UNCHANGED <<next, tail, wait, Caller, off, item, Locals>>

HeadDropsTail(c) ==
  /\ Goto(c, "droptail", "unlock")
  /\ tail' = [tail EXCEPT ![list[c]] = NULL]
  /\ UNCHANGED <<next, wait, list_lock, Caller, off, item, Locals>>

(* remove_list: one turn of the loop, with current = prev->next. *)
Search(c) ==
  LET current == next[prev[c]] IN
  \/ /\ current = NULL
     /\ Goto(c, "search", "held")
     /\ item' = [item EXCEPT ![c] = NULL]
     /\ UNCHANGED <<next, prev>>
  \/ /\ current # NULL /\ wait[current] = arg[c]
     /\ Goto(c, "search", "fixtail")
     /\ next' = [next EXCEPT ![prev[c]] = next[current]]
     /\ item' = [item EXCEPT ![c] = current]
     /\ UNCHANGED prev
  \/ /\ current # NULL /\ wait[current] # arg[c]
     /\ pc[c] = "search"
     /\ prev' = [prev EXCEPT ![c] = current]
     /\ UNCHANGED <<next, item, pc>>

SearchStep(c) == Search(c) /\ UNCHANGED <<tail, wait, list_lock, Caller, off, list, node, arg>>

FixTail(c) ==
  LET l == list[c] IN
  /\ Goto(c, "fixtail", "held")
  /\ tail' = [tail EXCEPT ![l] = IF is_list_empty(l) THEN NULL
                                 ELSE IF next[item[c]] = NULL THEN prev[c] ELSE @]
  /\ HandOver(c)
  /\ UNCHANGED <<next, wait, list_lock, Caller, item, Locals>>

append_list_tail(c) == AppendLocks(c) \/ AppendClears(c) \/ AppendLinks(c) \/ AppendSetsTail(c)
remove_list_head(c) == HeadLocks(c) \/ HeadUnlinks(c) \/ HeadUnlocks(c) \/ HeadDropsTail(c)
remove_list(c) == SearchStep(c) \/ FixTail(c)

Next ==
  \E c \in Core :
     \/ Enter(c) \/ Leave(c) \/ RemoveListHead(c)
     \/ append_list_tail(c) \/ remove_list_head(c) \/ remove_list(c) \/ Unlock(c)
     \/ \E p \in Process : Start(c, p)
     \/ \E l \in HeadList, p \in Process : AppendReady(c, l, p)
     \/ \E l \in HeadList, p \in Process, w \in Event : AppendWait(c, l, p, w)
     \/ \E l \in HeadList, w \in Event : RemoveList(c, l, w)

Spec == Init /\ [][Next]_vars
-----------------------------------------------------------------------------
(* The processes met from x on, along next. *)
From(x) ==
  LET N == Cardinality(Process)
      walk[n \in 0..N] == IF n = 0 THEN <<x>>
                          ELSE LET s == walk[n - 1]
                                   y == s[Len(s)]
                               IN IF y = NULL \/ next[y] = NULL THEN s ELSE s \o <<next[y]>>
  IN Tail(walk[N])

Q == INSTANCE ListQueues WITH content <- [l \in HeadList |-> From(l)], result <- item

(***************************************************************************)
(* Each call on the lists takes effect in one step, as on sequences: no    *)
(* process is lost behind a stale tail, doubled, or moved to another list, *)
(* whichever cores are in the functions at the same time because list_lock *)
(* was unlocked twice or, by remove_list, not taken.                       *)
(***************************************************************************)
ImplementsQueues == Q!Queues
=============================================================================
