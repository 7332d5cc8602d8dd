---------------------------- MODULE MCRoutines ----------------------------
(***************************************************************************)
(* The routines that the kernel's handlers call: address spaces, memory    *)
(* functions, the formatting of printk, the FAT16 reader and process       *)
(* lists.  Their modules share no variable; a behaviour exercises the one  *)
(* named by part, and the others stay as they were initialised.            *)
(* AddressSpace is extended, so that its assumption and its properties are *)
(* those of RoutinesProofs.                                                *)
(*                                                                         *)
(* AddressSpace: two processes that start-up makes on two cores and one    *)
(* slot for fork, with ten pages, so that memory runs out in every step.   *)
(* MemLib: a memory of six bytes, so that regions touch, overlap by one    *)
(* byte and coincide.                                                      *)
(*                                                                         *)
(* PrintFormat: formats of four characters and integers of five bits, with *)
(* one or two digits in either base.  FatNames: names of two characters    *)
(* with extensions of one, two directory entries, and paths one longer     *)
(* than any name.  FatRead: files of up to three clusters of three bytes,  *)
(* in any order on an image of four.  ProcessLists: two cores with a ready *)
(* list each, one wait list that both search, and three processes, which   *)
(* are interchangeable.                                                    *)
(***************************************************************************)
EXTENDS AddressSpace, FiniteSets, TLC

CONSTANTS MaxAddr                                    \* of MemLib
CONSTANTS Width, FormatLen, MaxString                \* of PrintFormat
CONSTANTS NameLen, ExtLen, Letter, MaxPath, Entries  \* of FatNames
CONSTANTS ClusterSize, LastCluster, ChainLen         \* of FatRead
CONSTANTS Core, Waiting, Process, Event, Nil, Pending  \* of ProcessLists

(* Every core has a ready list; those in Waiting also have a wait list. *)
Lists == {<<c, "ready">> : c \in Core} \cup {<<c, "wait">> : c \in Waiting}

ASSUME MemoryAssumption == MaxAddr \in Nat

ASSUME PrintAssumption ==
  /\ Width \in Nat /\ 2^Width \in Nat \ {0}
  /\ FormatLen \in Nat /\ MaxString \in 0..2^Width - 1

ASSUME NamesAssumption ==
  /\ NameLen \in Nat /\ ExtLen \in Nat /\ MaxPath \in Nat /\ Entries \in Nat
  /\ Letter \cap {" ", ".", "/"} = {}

ASSUME ImageAssumption ==
  /\ ClusterSize \in Nat \ {0}
  /\ LastCluster \in Nat /\ LastCluster >= 1
  /\ ChainLen \in Nat

ASSUME ListsAssumption ==
  /\ Waiting \subseteq Core
  /\ Event # {}
  /\ IsFiniteSet(Process)
  /\ Nil \notin Core \cup Process
  /\ Pending \notin Process \cup {Nil}
  /\ Lists \cap (Process \cup {Nil}) = {}

VARIABLES part,
          mpc, memory, x0, x1, x2, x4, result, call,
          format, i, text, buffer_size, taken,
          dir, path, found,
          fat, cluster_index, file_size, position, got, rpc, size, count, offset, index,
          read_size, buffer,
          next, tail, wait, list_lock, owner, started, off, pc, list, node, arg, item, prev

M == INSTANCE MemLib WITH pc <- mpc

P == INSTANCE PrintFormat WITH MaxLen <- FormatLen, buffer <- text

N == INSTANCE FatNames

R == INSTANCE FatRead WITH MaxLen <- ChainLen

L == INSTANCE ProcessLists WITH NULL <- Nil, HeadList <- Lists

Processes == Permutations(Process)

spaces == vars   \* of AddressSpace
memlib == <<mpc, memory, x0, x1, x2, x4, result, call>>
print == <<format, i, text, buffer_size, taken>>
names == <<dir, path, found>>
read == <<fat, cluster_index, file_size, position, got, rpc, size, count, offset, index,
          read_size, buffer>>
lists == <<next, tail, wait, list_lock, owner, started, off, pc, list, node, arg, item, prev>>
mcvars == <<part, spaces, memlib, print, names, read, lists>>

MCInit ==
  /\ part \in {"spaces", "memlib", "print", "names", "read", "lists"}
  /\ Init /\ M!Init /\ P!Init /\ N!Init /\ R!Init /\ L!Init

MCNext ==
  \/ part = "spaces" /\ Next /\ UNCHANGED <<part, memlib, print, names, read, lists>>
  \/ part = "memlib" /\ M!Next /\ UNCHANGED <<part, spaces, print, names, read, lists>>
  \/ part = "print" /\ P!Next /\ UNCHANGED <<part, spaces, memlib, names, read, lists>>
  \/ part = "names" /\ N!Next /\ UNCHANGED <<part, spaces, memlib, print, read, lists>>
  \/ part = "read" /\ R!Next /\ UNCHANGED <<part, spaces, memlib, print, names, lists>>
  \/ part = "lists" /\ L!Next /\ UNCHANGED <<part, spaces, memlib, print, names, read>>

MCSpec == MCInit /\ [][MCNext]_mcvars
-----------------------------------------------------------------------------
(* The state of the part in use has its type: no register, position or pointer out of range. *)
MCTypeOK ==
  /\ part = "spaces" => TypeOK
  /\ part = "memlib" => M!TypeOK
  /\ part = "print" => P!TypeOK
  /\ part = "read" => R!TypeOK
  /\ part = "lists" => L!TypeOK

(***************************************************************************)
(* memcpy, which memmove names too, leaves in the destination what the     *)
(* source held at the call, however the two overlap; memset changes its    *)
(* region and no other byte; memcmp returns 0 exactly for equal regions.   *)
(***************************************************************************)
RoutinesKeepPromise == M!RoutinesKeepPromise

(***************************************************************************)
(* printk replaces each %x, %u, %d and %s by its own argument as a numeral *)
(* or string, the least integer included, and copies everything else.      *)
(***************************************************************************)
PrintsArguments == part = "print" => P!PrintsArguments

(***************************************************************************)
(* search_file returns an entry only if it is a file that the path spells, *)
(* and every file of the directory is found by each spelling of its name.  *)
(***************************************************************************)
SearchIsExact == N!SearchIsExact

(***************************************************************************)
(* However a program cuts its reads, read_file gives it the file's bytes   *)
(* in order, each of them once, and as many as it asked for.               *)
(***************************************************************************)
ReadsTheFile == R!ReadsTheFile

(***************************************************************************)
(* Each call on the process lists takes effect in one step, as on          *)
(* sequences: no process is lost behind a stale tail, doubled, or moved.   *)
(***************************************************************************)
ImplementsQueues == L!Q!Init /\ [][part = "lists" => L!Q!Step]_(L!Q!queues)
=============================================================================
