----------------------------- MODULE FileTable -----------------------------
(***************************************************************************)
(* Open files: the FCB and file descriptor tables of src/src/file.c, with  *)
(* open_file, close_file and read_file, and what fork and wait of          *)
(* process.c do to them.  None of it takes a lock of its own; fork and     *)
(* wait hold process_lock, open_file and close_file hold nothing.  On one  *)
(* core the kernel is not preempted, so a call is not interleaved with     *)
(* another of that core.  Programs pass descriptors that open_file gave    *)
(* them: close_file and read_file test nothing.  Sizes and positions are   *)
(* of type uint32_t, and so is their sum.                                  *)
(***************************************************************************)
EXTENDS Integers, FiniteSets

CONSTANTS Proc,       \* processes
          Core, CoreOf,   \* CoreOf[p]: the core that runs p
          Root,       \* the process that is there at the start
          File,       \* entries of the root directory
          FileSize,   \* FileSize[f]
          Chain,      \* Chain[f]: bytes of the file's clusters
          ClusterSize,
          Word,       \* uint32_t has Word values (2^32 in the code)
          MaxFd,      \* slots of Process.file (100 in the code)
          MaxDesc,    \* slots of file_desc_table
          NULL

ASSUME FileTableAssumption ==
  /\ IsFiniteSet(Proc)
  /\ CoreOf \in [Proc -> Core] /\ Root \subseteq Proc
  /\ FileSize \in [File -> Nat] /\ Chain \in [File -> Nat]
  /\ ClusterSize \in Nat \ {0} /\ Word \in Nat \ {0}
  /\ \A f \in File : /\ FileSize[f] <= Chain[f]
                      /\ ClusterSize <= Chain[f] /\ Chain[f] + ClusterSize < Word
  /\ MaxFd \in Nat \ {0} /\ MaxDesc \in Nat \ {0}
  /\ NULL \notin File

Fds == 1 .. MaxFd
Descs == 1 .. MaxDesc

VARIABLES
  count,     \* fcb_table[f].count
  desc,      \* file_desc_table: fcb, position, count
  file,      \* file[p][fd]: the process's pointer into file_desc_table, or 0
  alive,     \* the processes that exist
  pc, op     \* control and locals of the call each core is in

vars == <<count, desc, file, alive, pc, op>>

FreeDesc == [fcb |-> NULL, position |-> 0, count |-> 0]

\* The locals of a call that has begun; start and size are those of read_file.
Call(p, fd, d, f, start, size) ==
  [p |-> p, fd |-> fd, d |-> d, f |-> f, start |-> start, size |-> size, read_size |-> 0, loaded |-> 0]

NoOp == Call(NULL, 0, 0, NULL, 0, 0)

Opening == {"get_fcb", "get_fcb_store", "open_clear", "open_fcb", "open_count", "open_link"}
Closing == {"put_fcb", "put_fcb_store", "close_desc"}
Reading == {"read_raw", "read_load", "read_store"}

\* Where a core stops for good: at an assertion or with a fault in the kernel.
Stopped == {"assert", "assert_raw", "fault"}

Uint32 == 0..Word-1

TypeOK ==
  /\ count \in [File -> Nat]
  /\ desc \in [Descs -> [fcb : File \cup {NULL}, position : Uint32, count : Nat]]
  /\ file \in [Proc -> [Fds -> Descs \cup {0}]]
  /\ alive \subseteq Proc
  /\ pc \in [Core -> {"user"} \cup Opening \cup Closing \cup Reading \cup Stopped]

Init ==
  /\ count = [f \in File |-> 0]
  /\ desc = [d \in Descs |-> FreeDesc]
  /\ file = [p \in Proc |-> [i \in Fds |-> 0]]
  /\ alive = Root
  /\ pc = [c \in Core |-> "user"]
  /\ op = [c \in Core |-> NoOp]

Goto(c, l) == pc' = [pc EXCEPT ![c] = l]

\* The first free slot, as the loops of open_file find it.
IsFirst(x, S) == x \in S /\ \A y \in S : x <= y

-----------------------------------------------------------------------------
(* open_file *)

\* Up to search_file: a descriptor of the process and one of the table are chosen.
Open(p, f) ==
  LET c == CoreOf[p] IN
  /\ p \in alive /\ pc[c] = "user"
  /\ \E fd \in Fds, d \in Descs :
       /\ IsFirst(fd, {i \in Fds : file[p][i] = 0})
       /\ IsFirst(d, {i \in Descs : desc[i].fcb = NULL})
       /\ op' = [op EXCEPT ![c] = Call(p, fd, d, f, 0, 0)]
  /\ Goto(c, "get_fcb")
  /\ UNCHANGED <<count, desc, file, alive>>

\* get_fcb: the FCB is filled in from the directory when its count is 0 (its
\* fields do not depend on who fills it in); the load of count++.
GetFcbLoad(c) ==
  /\ pc[c] = "get_fcb"
  /\ op' = [op EXCEPT ![c].loaded = count[op[c].f]]
  /\ Goto(c, "get_fcb_store")
  /\ UNCHANGED <<count, desc, file, alive>>

\* The store of count++.
GetFcbStore(c) ==
  /\ pc[c] = "get_fcb_store"
  /\ count' = [count EXCEPT ![op[c].f] = op[c].loaded + 1]
  /\ Goto(c, "open_clear")
  /\ UNCHANGED <<desc, file, alive, op>>

\* The descriptor is set up, one store after the other, and its index returned:
\* memset, the pointer to the FCB, the count, and the pointer of the process.
OpenClear(c) ==
  /\ pc[c] = "open_clear"
  /\ desc' = [desc EXCEPT ![op[c].d] = FreeDesc]
  /\ Goto(c, "open_fcb")
  /\ UNCHANGED <<count, file, alive, op>>

OpenFcb(c) ==
  /\ pc[c] = "open_fcb"
  /\ desc' = [desc EXCEPT ![op[c].d].fcb = op[c].f]
  /\ Goto(c, "open_count")
  /\ UNCHANGED <<count, file, alive, op>>

OpenCount(c) ==
  /\ pc[c] = "open_count"
  /\ desc' = [desc EXCEPT ![op[c].d].count = 1]
  /\ Goto(c, "open_link")
  /\ UNCHANGED <<count, file, alive, op>>

OpenLink(c) ==
  /\ pc[c] = "open_link"
  /\ file' = [file EXCEPT ![op[c].p][op[c].fd] = op[c].d]
  /\ Goto(c, "user")
  /\ op' = [op EXCEPT ![c] = NoOp]
  /\ UNCHANGED <<count, desc, alive>>

-----------------------------------------------------------------------------
(* close_file *)

Close(p, fd) ==
  LET c == CoreOf[p] IN
  /\ p \in alive /\ pc[c] = "user" /\ file[p][fd] # 0
  /\ op' = [op EXCEPT ![c] = Call(p, fd, file[p][fd], desc[file[p][fd]].fcb, 0, 0)]
  /\ Goto(c, "put_fcb")
  /\ UNCHANGED <<count, desc, file, alive>>

\* put_fcb: ASSERT(fcb->count > 0) and the load of count--.  The kernel faults
\* on the NULL fcb of a descriptor that another core has freed.
PutFcbLoad(c) ==
  /\ pc[c] = "put_fcb"
  /\ IF op[c].f = NULL
       THEN Goto(c, "fault") /\ UNCHANGED op
       ELSE /\ op' = [op EXCEPT ![c].loaded = count[op[c].f]]
            /\ Goto(c, IF count[op[c].f] > 0 THEN "put_fcb_store" ELSE "assert")
  /\ UNCHANGED <<count, desc, file, alive>>

\* The store of count--.
PutFcbStore(c) ==
  /\ pc[c] = "put_fcb_store"
  /\ count' = [count EXCEPT ![op[c].f] = op[c].loaded - 1]
  /\ Goto(c, "close_desc")
  /\ UNCHANGED <<desc, file, alive, op>>

\* The descriptor without n of its references: free when none is left.
Drop(d, n) ==
  [fcb |-> IF d.count = n THEN NULL ELSE d.fcb, position |-> d.position, count |-> d.count - n]

\* Mutant for CountsExact: closing frees the descriptor, shared or not.
CloseDescFrees(c) ==
  /\ pc[c] = "close_desc"
  /\ desc' = [desc EXCEPT ![op[c].d] = [Drop(@, 1) EXCEPT !.fcb = NULL]]
  /\ file' = [file EXCEPT ![op[c].p][op[c].fd] = 0]
  /\ Goto(c, "user")
  /\ op' = [op EXCEPT ![c] = NoOp]
  /\ UNCHANGED <<count, alive>>

CloseDesc(c) ==
  /\ pc[c] = "close_desc"
  /\ desc' = [desc EXCEPT ![op[c].d] = Drop(@, 1)]
  /\ file' = [file EXCEPT ![op[c].p][op[c].fd] = 0]
  /\ Goto(c, "user")
  /\ op' = [op EXCEPT ![c] = NoOp]
  /\ UNCHANGED <<count, alive>>

-----------------------------------------------------------------------------
(* read_file.  What is copied is FatRead's; here the buffer is long enough for it. *)

\* The call passes its test with the given sum; a refused one changes nothing.
PassesTest(p, fd, size, sum) ==
  LET c == CoreOf[p]
      d == file[p][fd]
  IN /\ p \in alive /\ pc[c] = "user" /\ d # 0
     /\ IF desc[d].fcb = NULL
          THEN Goto(c, "fault") /\ UNCHANGED op
          ELSE /\ sum <= FileSize[desc[d].fcb]
               /\ op' = [op EXCEPT ![c] = Call(p, fd, d, desc[d].fcb, desc[d].position, size)]
               /\ Goto(c, "read_raw")
     /\ UNCHANGED <<count, desc, file, alive>>

\* Mutant for ReadsAdvance: the end is tested against the size alone.
ReadTestsSize(p, fd, size) == PassesTest(p, fd, size, size)

\* read_file tests position + size, which may wrap around, against the size of the file.
ReadFile(p, fd, size) == PassesTest(p, fd, size, (desc[file[p][fd]].position + size) % Word)

\* What read_raw_data returns: size bytes, or those up to the end of the chain.
ReadSize(f, start, size) == IF size <= Chain[f] - start THEN size ELSE Chain[f] - start

(***************************************************************************)
(* read_raw_data, on the cluster that it reads from the FCB now.  Its      *)
(* assertion fails if the chain ends before the position.  In the middle   *)
(* of a cluster offset + size may wrap around, too: then all of size is    *)
(* copied at once, nearly 2^32 bytes, and the kernel faults.               *)
(***************************************************************************)
ReadRaw(c) ==
  LET f == desc[op[c].d].fcb
      offset == op[c].start % ClusterSize
      OnChain == op[c].start < ClusterSize \/ op[c].start < Chain[f]
      TooMuch == offset # 0 /\ offset + op[c].size >= Word
  IN /\ pc[c] = "read_raw"
     /\ \/ /\ f = NULL
           /\ Goto(c, "fault") /\ UNCHANGED op
        \/ /\ f # NULL /\ ~OnChain
           /\ Goto(c, "assert_raw") /\ UNCHANGED op
        \/ /\ f # NULL /\ OnChain /\ TooMuch
           /\ Goto(c, "fault") /\ UNCHANGED op
        \/ /\ f # NULL /\ OnChain /\ ~TooMuch
           /\ op' = [op EXCEPT ![c].read_size = ReadSize(f, op[c].start, op[c].size)]
           /\ Goto(c, "read_load")
     /\ UNCHANGED <<count, desc, file, alive>>

\* position += read_size: the load, and the store.
ReadLoad(c) ==
  /\ pc[c] = "read_load"
  /\ op' = [op EXCEPT ![c].loaded = desc[op[c].d].position]
  /\ Goto(c, "read_store")
  /\ UNCHANGED <<count, desc, file, alive>>

ReadStore(c) ==
  /\ pc[c] = "read_store"
  /\ desc' = [desc EXCEPT ![op[c].d].position = (op[c].loaded + op[c].read_size) % Word]
  /\ Goto(c, "user")
  /\ op' = [op EXCEPT ![c] = NoOp]
  /\ UNCHANGED <<count, file, alive>>

-----------------------------------------------------------------------------
(* fork and wait *)

\* The references of process p to descriptor d, and to file f.
RefsTo(p, d) == Cardinality({i \in Fds : file[p][i] = d})

FileRefs(p, f) == Cardinality({i \in Fds : file[p][i] # 0 /\ desc[file[p][i]].fcb = f})

\* fork: the child shares the parent's descriptors.
ForkFiles(p, q) ==
  /\ p \in alive /\ q \notin alive /\ CoreOf[p] = CoreOf[q] /\ pc[CoreOf[p]] = "user"
  /\ file' = [file EXCEPT ![q] = file[p]]
  /\ desc' = [d \in Descs |-> [desc[d] EXCEPT !.count = @ + RefsTo(p, d)]]
  /\ count' = [f \in File |-> count[f] + FileRefs(p, f)]
  /\ alive' = alive \cup {q}
  /\ UNCHANGED <<pc, op>>

\* wait, for a process that has exited: its references are dropped, and the
\* slot is cleared.
ReapFiles(p) ==
  /\ p \in alive \ Root /\ pc[CoreOf[p]] = "user"
  /\ desc' = [d \in Descs |-> IF RefsTo(p, d) = 0 THEN desc[d] ELSE Drop(desc[d], RefsTo(p, d))]
  /\ count' = [f \in File |-> count[f] - FileRefs(p, f)]
  /\ file' = [file EXCEPT ![p] = [i \in Fds |-> 0]]
  /\ alive' = alive \ {p}
  /\ UNCHANGED <<pc, op>>

\* error_check and the handler of a fault in the kernel print and do not return.
Halted(c) == pc[c] \in Stopped /\ UNCHANGED vars

Kernel(c) ==
  \/ GetFcbLoad(c) \/ GetFcbStore(c) \/ OpenClear(c) \/ OpenFcb(c) \/ OpenCount(c) \/ OpenLink(c)
  \/ PutFcbLoad(c) \/ PutFcbStore(c) \/ CloseDesc(c)
  \/ ReadRaw(c) \/ ReadLoad(c) \/ ReadStore(c)

Next ==
  \/ \E c \in Core : Kernel(c) \/ Halted(c)
  \/ \E p \in Proc, f \in File : Open(p, f)
  \/ \E p \in Proc, fd \in Fds : Close(p, fd)
  \/ \E p \in Proc, fd \in Fds, size \in Uint32 : ReadFile(p, fd, size)
  \/ \E p, q \in Proc : ForkFiles(p, q)
  \/ \E p \in Proc : ReapFiles(p)

Spec == Init /\ [][Next]_vars
-----------------------------------------------------------------------------
(* What slot x = <<p, fd>> of the process table points to, and the slots that refer to d and f. *)
Pointer(x) == file[x[1]][x[2]]

AllRefs(d) == {x \in Proc \X Fds : Pointer(x) = d}

AllFileRefs(f) == {x \in Proc \X Fds : Pointer(x) # 0 /\ desc[Pointer(x)].fcb = f}

(***************************************************************************)
(* Between calls the counts are exact: a descriptor counts the pointers to *)
(* it, an FCB the pointers to its descriptors, and a descriptor is free    *)
(* (its fcb is NULL) exactly when nothing points to it.                    *)
(***************************************************************************)
CountsExact ==
  (\A c \in Core : pc[c] = "user") =>
    /\ \A d \in Descs : /\ desc[d].count = Cardinality(AllRefs(d))
                        /\ desc[d].fcb = NULL <=> desc[d].count = 0
    /\ \A f \in File : count[f] = Cardinality(AllFileRefs(f))

(***************************************************************************)
(* On one core, a read_file that moves a position, which parent and child  *)
(* share, moves it from where the test read it by all of the size it was   *)
(* asked for, and not beyond the end of the file.  There is one exception: *)
(* when the 32-bit sum of position and size wraps around, the test passes  *)
(* and the position comes to the end of the file's last cluster.           *)
(***************************************************************************)
AdvanceOK ==
  \A d \in Descs : desc[d].fcb # NULL /\ desc'[d].position # desc[d].position =>
    \E c \in Core :
      /\ op[c].d = d /\ op[c].start = desc[d].position
      /\ LET end == op[c].start + op[c].size
         IN IF end < Word THEN desc'[d].position = end /\ end <= FileSize[desc[d].fcb]
                          ELSE desc'[d].position = Chain[desc[d].fcb]

ReadsAdvance == [][AdvanceOK]_vars

(***************************************************************************)
(* ASSERT(fcb->count > 0) of put_fcb: no close finds a count of 0.         *)
(***************************************************************************)
PutFcbAssertion == \A c \in Core : pc[c] # "assert"
=============================================================================
